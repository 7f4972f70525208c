--------------------------- MODULE SocialAccounts ---------------------------
(***************************************************************************)
(* The accounts of a social network that a proposal's applicant connects   *)
(* (PublicSocialService): consents that come back from the network while   *)
(* others are under way, disconnection from the tracking page, and the     *)
(* refresh of tokens and profile each time the back office opens the       *)
(* dossier (AdminProposalsService.getById).  One proposal, one network.    *)
(*                                                                         *)
(* A consent that is exchanged makes one grant, named after it, and at     *)
(* most one row.  Tokens of a grant are numbered as the network issues     *)
(* them.  What a draft does with its connections is in DraftForm.          *)
(***************************************************************************)
EXTENDS Integers, Sequences, FiniteSets

CONSTANTS
  Consents,    (* consents asked of the applicant                          *)
  FromDraft,   (* the grant that came with the draft                       *)
  Views,       (* dossier views that may refresh a row at a time (a bound) *)
  Networks,    (* those checked, of the three ways a token is refreshed    *)
  Ttl,         (* SOCIAL_STATE_TTL_MINUTES, in units of time               *)
  Life,        (* how long the network lets an access token live           *)
  Threshold,   (* SOCIAL_TOKEN_REFRESH_THRESHOLD_MINUTES, in units of time *)
  MaxAge,      (* how old a profile may be before it is fetched again      *)
  MaxNow,      (* bound on time                                            *)
  MaxGen,      (* bound on the tokens issued for a grant                   *)
  MaxLooks,    (* bound on the refreshes                                   *)
  MaxFaults    (* bound on what goes wrong                                 *)

ASSUME GrantsAssumption == FromDraft \notin Consents
ASSUME NetworksAssumption == Networks \subseteq {"SPOTIFY", "YOUTUBE", "FACEBOOK"}
ASSUME TimesAssumption ==
  {Ttl, Life, Threshold, MaxAge, MaxNow, MaxLooks, MaxFaults} \subseteq Nat /\ MaxGen \in Nat \ {0}

Grants == Consents \cup {FromDraft}
Never  == -1   (* no expiry on record                                      *)

VARIABLES
  now,         (* the clock                                                *)
  network,     (* the network; FACEBOOK stands for INSTAGRAM too           *)
  there,       (* the proposal, and so the person, is in the database      *)
  account,     (* SocialAccount rows, by grant                             *)
  issued,      (* the network: when each access token of a grant expires   *)
  honoured,    (* the network: the refresh token it takes, 0 for none      *)
  consent,     (* the consents under way                                   *)
  view,        (* the refreshes under way                                  *)
  left,        (* history: the applicant disconnected, and no consent was  *)
               (* recorded since                                           *)
  overlapped,  (* history: two consents were recorded at once              *)
  crossed,     (* history: grants that two views refreshed at once         *)
  cut,         (* history: grants with a refresh whose answer was not kept *)
  looks,       (* refreshes so far                                         *)
  faults       (* what has gone wrong so far                               *)

vars == <<now, network, there, account, issued, honoured, consent, view, left,
          overlapped, crossed, cut, looks, faults>>
provider == <<issued, honoured>>
history == <<overlapped, crossed, cut>>
bounds == <<looks, faults>>

Tokens == Grants \X (1 .. MaxGen)
NoToken == <<>>
NoRow == [access |-> NoToken, refresh |-> NoToken, expires |-> Never, fetched |-> 0]

(* accessTokenEncrypted, refreshTokenEncrypted, tokenMeta.expiresAt and    *)
(* tokenMeta.fetchedAt.                                                    *)
Row == [ access : Tokens, refresh : Tokens \cup {NoToken},
         expires : {Never} \cup 0 .. MaxNow + Life, fetched : 0 .. MaxNow ]

(* at: Date.now() when the state was signed; seen: the rows deleted by the *)
(* transaction; row: what the exchange gave.                               *)
Consent == [ step : {"none", "away", "found", "holds", "cleared", "over"},
             at : 0 .. MaxNow, seen : SUBSET Grants, row : Row \cup {NoRow} ]

(* row: the row as read, then with what the network answered.              *)
View == [ step : {"idle", "read", "holds", "profile"}, of : Grants, row : Row \cup {NoRow} ]

IdleView == [step |-> "idle", of |-> FromDraft, row |-> NoRow]
IdleConsent(step) == [step |-> step, at |-> 0, seen |-> {}, row |-> NoRow]

TypeOK ==
  /\ now \in 0 .. MaxNow
  /\ network \in Networks
  /\ there \in BOOLEAN
  /\ account \in [Grants -> Row \cup {NoRow}]
  /\ issued \in [Grants -> Seq(Nat)] /\ \A g \in Grants : Len(issued[g]) <= MaxGen
  /\ honoured \in [Grants -> 0 .. MaxGen]
  /\ consent \in [Consents -> Consent]
  /\ view \in [Views -> View]
  /\ \A v \in Views : view[v].step # "idle" => view[v].row # NoRow
  /\ left \in BOOLEAN /\ overlapped \in BOOLEAN
  /\ crossed \subseteq Grants /\ cut \subseteq Grants
  /\ looks \in 0 .. MaxLooks /\ faults \in 0 .. MaxFaults

Rows == { g \in Grants : account[g] # NoRow }
Holds(net) == net \in {"SPOTIFY", "YOUTUBE"}   (* gives refresh tokens      *)

(* The row a grant starts with; the network may not say when the token     *)
(* ends (resolveOAuthPayload).                                             *)
NewRow(g, net, says, at) ==
  [ access |-> <<g, 1>>, refresh |-> IF Holds(net) THEN <<g, 1>> ELSE NoToken,
    expires |-> IF says THEN at + Life ELSE Never, fetched |-> at ]

(* The proposal has been submitted; its draft may have had the network     *)
(* connected.                                                              *)
Init ==
  /\ now = 0
  /\ network \in Networks
  /\ there = TRUE
  /\ \E had, says \in BOOLEAN :
       /\ account = [g \in Grants |->
            IF had /\ g = FromDraft THEN NewRow(g, network, says, 0) ELSE NoRow]
       /\ issued = [g \in Grants |-> IF had /\ g = FromDraft THEN <<Life>> ELSE <<>>]
       /\ honoured = [g \in Grants |->
            IF had /\ g = FromDraft /\ Holds(network) THEN 1 ELSE 0]
       /\ had \/ says
  /\ consent = [c \in Consents |-> IdleConsent("none")]
  /\ view = [v \in Views |-> IdleView]
  /\ left = FALSE /\ overlapped = FALSE
  /\ crossed = {} /\ cut = {}
  /\ looks = 0 /\ faults = 0

-----------------------------------------------------------------------------
(* The applicant's tracking page *)

Faulty == faults < MaxFaults /\ faults' = faults + 1 /\ UNCHANGED looks
Sound == UNCHANGED bounds

Disconnected == Rows

(* disconnect: the rows go.  The network is not told: the grant stays good *)
(* there.                                                                  *)
Disconnects ==
  /\ there /\ Rows # {}
  /\ account' = [g \in Grants |-> IF g \in Disconnected THEN NoRow ELSE account[g]]
  /\ left' = TRUE
  /\ Sound
  /\ UNCHANGED <<now, network, there, provider, consent, view, history>>

(* PublicService.deleteProposal: the rows go with the person. *)
Erases ==
  /\ there
  /\ there' = FALSE
  /\ account' = [g \in Grants |-> NoRow]
  /\ Sound
  /\ UNCHANGED <<now, network, provider, consent, view, left, history>>

-----------------------------------------------------------------------------
(* A consent *)

IsOver(c) == consent' = [consent EXCEPT ![c] = IdleConsent("over")]

(* handleConnect, buildAuthorizeUrl: the applicant leaves for the network  *)
(* with a signed state.                                                    *)
Authorizes(c) ==
  /\ there /\ consent[c].step = "none"
  /\ consent' = [consent EXCEPT ![c].step = "away", ![c].at = now]
  /\ Sound
  /\ UNCHANGED <<now, network, there, account, provider, view, left, history>>

(* handleCallback: verifyState, and the proposal looked up. *)
ComesBack(c) ==
  /\ consent[c].step = "away"
  /\ IF now - consent[c].at <= Ttl /\ there
       THEN consent' = [consent EXCEPT ![c] = IdleConsent("found")]
       ELSE IsOver(c)
  /\ Sound
  /\ UNCHANGED <<now, network, there, account, provider, view, left, history>>

(* exchangeCode, fetchProfile: the code is good once. *)
Exchanges(c) ==
  /\ consent[c].step = "found"
  /\ \E says \in BOOLEAN :
       consent' = [consent EXCEPT ![c].step = "holds",
                                  ![c].row = NewRow(c, network, says, now)]
  /\ issued' = [issued EXCEPT ![c] = <<now + Life>>]
  /\ honoured' = [honoured EXCEPT ![c] = IF Holds(network) THEN 1 ELSE 0]
  /\ Sound
  /\ UNCHANGED <<now, network, there, account, view, left, history>>

(* Mutant: the account there was is not deleted.                           *)
SeesNone == {}

Sees == Rows

(* The transaction deletes what it sees of the person's rows for the       *)
(* network: not what another has inserted and not committed.               *)
Clears(c) ==
  /\ consent[c].step = "holds"
  /\ consent' = [consent EXCEPT ![c].step = "cleared", ![c].seen = Sees]
  /\ overlapped' = (overlapped \/ \E d \in Consents : consent[d].step = "cleared")
  /\ Sound
  /\ UNCHANGED <<now, network, there, account, provider, view, left, crossed, cut>>

(* It commits, with the row created, if the person is still there. *)
Commits(c) ==
  /\ consent[c].step = "cleared" /\ there
  /\ account' = [g \in Grants |->
       IF g = c THEN consent[c].row
       ELSE IF g \in consent[c].seen THEN NoRow ELSE account[g]]
  /\ IsOver(c)
  /\ left' = FALSE
  /\ Sound
  /\ UNCHANGED <<now, network, there, provider, view, history>>

(* The applicant declines, the network errs, the transaction fails, or the *)
(* API stops.                                                              *)
FallsThrough(c) ==
  /\ consent[c].step \in {"away", "found", "holds", "cleared"}
  /\ IsOver(c)
  /\ IF there THEN Faulty ELSE Sound
  /\ UNCHANGED <<now, network, there, account, provider, view, left, history>>

-----------------------------------------------------------------------------
(* A view of the dossier: refreshProfileIfStale *)

Goes(v, step) == view' = [view EXCEPT ![v].step = step]
Done(v) == view' = [view EXCEPT ![v] = IdleView]
Of(v) == view[v].of
IsAt(v, step) == view[v].step = step
Holding == { v \in Views : IsAt(v, "holds") }   (* a new token to save     *)

ReadBy(v, g) ==
  /\ IsAt(v, "idle")
  /\ view' = [view EXCEPT ![v] =
       [step |-> "read", of |-> g, row |-> account[g]]]
  /\ crossed' = crossed \cup { h \in {g} : \E w \in Views : ~IsAt(w, "idle") /\ Of(w) = h }
  /\ looks < MaxLooks /\ looks' = looks + 1 /\ UNCHANGED faults
  /\ UNCHANGED <<now, network, there, account, provider, consent, left,
                 overlapped, cut>>

Looks(v, g) == account[g] # NoRow /\ ReadBy(v, g)

(* refreshAccessTokenIfNeeded *)
MustRefresh(row) ==
  /\ row.expires # Never /\ row.expires - now <= Threshold
  /\ Holds(network) => row.refresh # NoToken

SkipsRefresh(v) ==
  /\ IsAt(v, "read") /\ ~MustRefresh(view[v].row)
  /\ Goes(v, "profile")
  /\ Sound
  /\ UNCHANGED <<now, network, there, account, provider, consent, left, history>>

(* The network takes the refresh token it honours, or (FACEBOOK) an access *)
(* token that lives.                                                       *)
Takes(row) ==
  LET g == row.access[1] IN
  IF Holds(network) THEN row.refresh[2] = honoured[row.refresh[1]]
  ELSE issued[g][row.access[2]] >= now

(* Mutant: a refresh token that comes with the answer is not kept.         *)
KeptRefresh(old, new) == old

NextRefresh(old, new) == IF new = NoToken THEN old ELSE new

(* The network issues the next access token, with or without saying when   *)
(* it ends; SPOTIFY may issue the next refresh token too, and then honours *)
(* that one alone.                                                         *)
IsIssued(v) ==
  LET row == view[v].row
      g == IF Holds(network) THEN row.refresh[1] ELSE row.access[1]
      n == Len(issued[g]) + 1 IN
  /\ IsAt(v, "read") /\ MustRefresh(row) /\ Takes(row) /\ n <= MaxGen
  /\ issued' = [issued EXCEPT ![g] = Append(@, now + Life)]
  /\ \E says \in BOOLEAN, rotates \in {FALSE, network = "SPOTIFY"} :
       LET fresh == IF rotates THEN <<g, n>> ELSE NoToken IN
       /\ honoured' = [honoured EXCEPT ![g] = IF rotates THEN n ELSE @]
       /\ \/ /\ view' = [view EXCEPT
                  ![v].step = "holds",
                  ![v].row = [row EXCEPT !.access = <<g, n>>,
                                         !.refresh = NextRefresh(@, fresh),
                                         !.expires = IF says THEN now + Life ELSE @]]
             /\ UNCHANGED cut /\ Sound
          \/ /\ Done(v)               (* the answer is lost                *)
             /\ cut' = cut \cup {g} /\ Faulty
  /\ UNCHANGED <<now, network, there, account, consent, left, overlapped, crossed>>

(* fetchJson throws: the dossier shows the profile as it was read. *)
IsRefused(v) ==
  /\ IsAt(v, "read") /\ MustRefresh(view[v].row)
  /\ Done(v)
  /\ IF Takes(view[v].row) THEN Faulty ELSE Sound
  /\ UNCHANGED <<now, network, there, account, provider, consent, left, history>>

Target(g) == {g} \cap Rows

Saved(old, row) == row

(* socialAccount.update; it throws where the row is gone. *)
Saves(v) ==
  /\ IsAt(v, "holds")
  /\ IF Target(Of(v)) = {} THEN UNCHANGED account /\ Done(v)
     ELSE /\ account' = [g \in Grants |->
               IF g \in Target(Of(v)) THEN Saved(account[g], view[v].row) ELSE account[g]]
          /\ Goes(v, "profile")
  /\ Sound
  /\ UNCHANGED <<now, network, there, provider, consent, left, history>>

(* The profile is fetched where it is old, and tokenMeta written from the  *)
(* copy, its expiry included.                                              *)
GetsProfile(v) ==
  /\ IsAt(v, "profile") /\ now - view[v].row.fetched >= MaxAge
  /\ account' = [g \in Grants |->
       IF g \in Target(Of(v))
         THEN [account[g] EXCEPT !.expires = view[v].row.expires, !.fetched = now]
         ELSE account[g]]
  /\ Done(v)
  /\ Sound
  /\ UNCHANGED <<now, network, there, provider, consent, left, history>>

(* The profile is young enough, or the network errs. *)
KeepsProfile(v) ==
  /\ IsAt(v, "profile")
  /\ Done(v)
  /\ Sound
  /\ UNCHANGED <<now, network, there, account, provider, consent, left, history>>

(* The API stops. *)
ViewStops(v) ==
  /\ ~IsAt(v, "idle")
  /\ Done(v)
  /\ cut' = IF IsAt(v, "holds") THEN cut \cup {Of(v)} ELSE cut
  /\ Faulty
  /\ UNCHANGED <<now, network, there, account, provider, consent, left,
                 overlapped, crossed>>

Ticks ==
  /\ now < MaxNow
  /\ now' = now + 1
  /\ Sound
  /\ UNCHANGED <<network, there, account, provider, consent, view, left, history>>

-----------------------------------------------------------------------------
Next ==
  \/ Disconnects \/ Erases \/ Ticks
  \/ \E c \in Consents :
       Authorizes(c) \/ ComesBack(c) \/ Exchanges(c) \/ Clears(c) \/ Commits(c)
         \/ FallsThrough(c)
  \/ \E v \in Views :
       \/ SkipsRefresh(v) \/ IsIssued(v) \/ IsRefused(v) \/ Saves(v)
       \/ GetsProfile(v) \/ KeepsProfile(v) \/ ViewStops(v)
       \/ \E g \in Grants : Looks(v, g)

Spec == Init /\ [][Next]_vars

-----------------------------------------------------------------------------
(* A person has one account of a network, unless two consents were         *)
(* recorded at once: neither sees what the other inserts, and the schema   *)
(* does not make the pair unique (handleCallback).                         *)
OneAccount == Cardinality(Rows) > 1 => overlapped

(* What a row, or a copy of one, may say of a grant's tokens. *)
OfGrant(row, g) ==
  row.access[1] = g /\ (row.refresh # NoToken => row.refresh[1] = g)
WasIssued(row) == row.access[2] \in 1 .. Len(issued[row.access[1]])
NotLate(row)   == row.expires <= issued[row.access[1]][row.access[2]]
Lives(row)     == row.refresh # NoToken => row.refresh[2] = honoured[row.refresh[1]]

(* The tokens of a row are those of the consent that made it: a refresh    *)
(* that ends after the applicant disconnected, or connected anew, leaves   *)
(* the other rows alone (refreshAccessTokenIfNeeded).                      *)
TokensAreOfTheirGrant == \A g \in Rows : OfGrant(account[g], g)

(* The expiry on record is never later than that of the token the row      *)
(* holds, so that no view takes a dead token for a good one, unless two    *)
(* views refreshed the row at once: the profile is written with an expiry  *)
(* from a copy (refreshProfileIfStale).                                    *)
ExpiryIsNotLate == \A g \in Rows \ crossed : NotLate(account[g])

(* The refresh token of a row is one that the network takes, so that the   *)
(* account need not be connected anew, unless an answer was not kept (or   *)
(* has yet to be), or two views refreshed the row at once.                 *)
RefreshTokenLives ==
  \A g \in Rows \ (crossed \cup cut \cup { Of(v) : v \in Holding }) : Lives(account[g])

(* Once the applicant has disconnected the network no account of it is     *)
(* kept until a consent is recorded: a refresh under way does not bring a  *)
(* deleted row back, and no second row stays behind (disconnect).          *)
DisconnectStands == left => Rows = {}

(* Unless two consents overlapped, at most one is between its two          *)
(* statements, and it saw every row that there still is: so its insert     *)
(* leaves its own alone (the transaction of handleCallback).               *)
OverlapIsNoted ==
  ~overlapped =>
    /\ \A g, h \in Rows : g = h
    /\ \A c \in Consents : consent[c].step = "cleared" =>
         /\ Rows \subseteq consent[c].seen
         /\ \A d \in Consents : consent[d].step = "cleared" => d = c

(* A consent that is not over has no row yet, and nobody reads what is not *)
(* there; what it holds is what the network has just given.                *)
ConsentsAreSound ==
  /\ \A c \in Consents : consent[c].step # "over" =>
       account[c] = NoRow /\ \A v \in Views : ~IsAt(v, "idle") => Of(v) # c
  /\ \A c \in Consents : consent[c].step \in {"holds", "cleared"} =>
       LET row == consent[c].row IN
       row # NoRow /\ OfGrant(row, c) /\ WasIssued(row) /\ NotLate(row) /\ Lives(row)

(* Unless two views crossed, a view works on a copy of the row as it is,   *)
(* until it has a new token to save, and that one is newer.                *)
ViewsAreSound ==
  /\ \A v \in Views : ~IsAt(v, "idle") =>
       LET row == view[v].row IN
       /\ OfGrant(row, Of(v)) /\ WasIssued(row)
       /\ Of(v) \notin crossed => NotLate(row)
       /\ Of(v) \notin crossed \cup cut => Lives(row)
       /\ Of(v) \notin crossed /\ ~IsAt(v, "holds") => account[Of(v)] \in {row, NoRow}
  /\ \A v, w \in Views :
       (v # w /\ ~IsAt(v, "idle") /\ ~IsAt(w, "idle") /\ Of(v) = Of(w)) => Of(v) \in crossed

(* No token outlives one issued now, and a row's were issued.              *)
IssuesAreSound ==
  /\ \A g \in Grants : \A n \in 1 .. Len(issued[g]) : issued[g][n] <= now + Life
  /\ \A g \in Rows : WasIssued(account[g])

(* The invariants of the accounts: one of a network, and none that the     *)
(* applicant has disconnected; with what makes it so, the invariant is     *)
(* inductive (SocialAccounts_proofs).                                      *)
AccountsInv == TypeOK /\ OverlapIsNoted /\ OneAccount /\ DisconnectStands

(* The tokens of a row and their expiry are as the network knows them;     *)
(* together with AccountsInv this is inductive.                            *)
TokensAreKept ==
  /\ ConsentsAreSound /\ ViewsAreSound /\ IssuesAreSound
  /\ TokensAreOfTheirGrant /\ ExpiryIsNotLate /\ RefreshTokenLives

=============================================================================
