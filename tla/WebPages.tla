------------------------------- MODULE WebPages -------------------------------
(***************************************************************************)
(* The pages of the web application, one mounted at a time: the list of    *)
(* proposals, the dossier of one, the accounts of the staff, and the       *)
(* candidate's tracking page.  They share nothing: each starts from its    *)
(* URL alone (ListInit has every URL the list can be left or come back to  *)
(* with), and a page that is left loses its state and the answers it       *)
(* waited for.  So going from the list to a dossier and back is a run of   *)
(* the one page after a run of the other.                                  *)
(***************************************************************************)
EXTENDS ProposalList, Dossier, StaffAccounts, Tracking

VARIABLE at

vars == <<at, listVars, dossierVars, staffVars, trackingVars>>

ListClosed ==
  /\ row = [p \in Proposals |-> CHOOSE s \in Statuses : TRUE] /\ assigned = {}
  /\ filters = NoFilter /\ typed = None /\ debounced = None
  /\ sort = FirstSort /\ page = 1
  /\ items = {} /\ total = 0 /\ shown = NoLoad /\ failed = FALSE
  /\ selected = {} /\ modal = "none" /\ bulk = NoBulk
  /\ calls = {} /\ sent = 0 /\ moves = 0 /\ bulks = 0

DossierClosed ==
  /\ data = [f \in Fields |-> Given] /\ version = [f \in Fields |-> 0]
  /\ readings = <<>> /\ writes = 0
  /\ Unopened /\ load = Idle

StaffUnopened ==
  /\ account = [i \in Accounts |-> Absent]
  /\ StaffClosed
  /\ listSent = 0 /\ listLoads = {}

Untracked == Unvisited /\ TrackingClosed

ScreenInit ==
  \/ at = "list" /\ ListInit /\ DossierClosed /\ StaffUnopened /\ Untracked
  \/ at = "dossier" /\ DossierInit /\ ListClosed /\ StaffUnopened /\ Untracked
  \/ at = "staff" /\ StaffInit /\ ListClosed /\ DossierClosed /\ Untracked
  \/ at = "tracking" /\ TrackingInit /\ ListClosed /\ DossierClosed /\ StaffUnopened

ScreenNext ==
  \/ /\ at = "list" /\ ListNext
     /\ UNCHANGED <<at, dossierVars, staffVars, trackingVars>>
  \/ /\ at = "dossier" /\ DossierNext
     /\ UNCHANGED <<at, listVars, staffVars, trackingVars>>
  \/ /\ at = "staff" /\ StaffNext
     /\ UNCHANGED <<at, listVars, dossierVars, trackingVars>>
  \/ /\ at = "tracking" /\ TrackingNext
     /\ UNCHANGED <<at, listVars, dossierVars, staffVars>>

ScreenSpec == ScreenInit /\ [][ScreenNext]_vars

(***************************************************************************)
(* What holds of every page.                                               *)
(***************************************************************************)
(* Once nothing is on its way that was asked for later, a page shows what  *)
(* it was asked for: the list, of its filters, its order and a page there  *)
(* is; the viewer, of the document that is open; the accounts, as they     *)
(* are; the tracking page, of the proposal of its URL, with the items and  *)
(* networks that one has.  Each part names the crossings it excepts.       *)
ShownIsOfAsked ==
  /\ ListIsOfQuery /\ PageExists /\ SearchIsShown
  /\ UrlIsOfActiveDoc
  /\ StaffListIsFresh
  /\ TrackedIsOfUrl /\ PendingIsOfLastRequest /\ NetworksShownAreThere

(* What a page sends is about what it shows: a bulk action names proposals *)
(* on the list, a correction lands on the reading it was made on.          *)
SentIsOfShown == BulkIsOfListed /\ EditLandsOnItsReading

(* A save that writes more than was touched takes another person's write   *)
(* back only where that came after the page had read.                      *)
SavesLoseOnlyByCrossing == SaveLosesOnlyByCrossing /\ ActiveLosesOnlyByCrossing

(* Of every page, the one mounted and the ones closed: its types, what its
   answers carry and are for, and with that all the properties above that are
   of a state; that a candidate changes no proposal but the one shown, and
   roles are those of one change. *)
ScreenInv == ListInv /\ DossierInv /\ StaffInv /\ TrackingInv /\ OnlyShownIsChanged

=============================================================================
