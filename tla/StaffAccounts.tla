---------------------------- MODULE StaffAccounts ----------------------------
(***************************************************************************)
(* The accounts of the staff: the administrator's page that lists, creates,*)
(* edits and switches them off and on, and the API and database behind it. *)
(* Another administrator works on the same accounts.                       *)
(*                                                                         *)
(* An edit sends every field of a copy taken when it was opened.  Name and *)
(* e-mail are written as "active" is and are left out; the roles are rows  *)
(* of a table of their own, deleted and inserted in one transaction under  *)
(* Read Committed.                                                         *)
(***************************************************************************)
EXTENDS Naturals, FiniteSets

CONSTANTS
  Accounts,
  RoleSets,        \* the sets of roles a form is sent with: it wants one at least
  MaxRequests,     \* bounds: what the administrator asks for
  MaxForeign,      \*         what the other one does
  Absent

Roles   == SUBSET UNION RoleSets \ {{}}
Records == [active : BOOLEAN, roles : Roles]

ASSUME StaffAssumption ==
  /\ {MaxRequests, MaxForeign} \subseteq Nat /\ {} \notin RoleSets
  /\ Absent \notin Records /\ \A rs \in Roles : rs # Absent

VARIABLES
  account,              \* [active, roles], or Absent
  asked,                \* the roles last asked for, by a change carried out
  overlapped,           \* accounts of which two changes of roles overlapped
  changed,              \* how often anyone, and the other one, changed each
  listed, listLoads, listSent, listShown, listFailed,   \* the page
  editing, copy, touched, saving,
  work, requests, foreigns

pageVars  == <<listed, listLoads, listSent, listShown, listFailed>>
editVars  == <<editing, copy, touched, saving>>
dbVars    == <<account, asked, overlapped, changed>>
boundVars == <<requests, foreigns>>
staffVars == <<dbVars, pageVars, editVars, work, boundVars>>

Known(i)   == account[i] # Absent
Untouched  == [all |-> 0, others |-> 0]
Unknown    == [a |-> Absent, v |-> Untouched]
CopyOf(i)  == [a |-> account[i], v |-> changed[i]]

----------------------------------------------------------------------------
(* The page loads the list when it opens and after each of its own changes. *)
LoadList(save) ==
  /\ listSent' = listSent + 1
  /\ listLoads' = listLoads \cup {[n |-> listSent + 1, save |-> save, rows |-> Absent]}
  /\ listFailed' = FALSE

NoLoadList == UNCHANGED <<listSent, listLoads, listFailed>>

ApiListsStaff(l) ==
  /\ l \in listLoads /\ l.rows = Absent
  /\ listLoads' = (listLoads \ {l})
                    \cup {[l EXCEPT !.rows = [i \in Accounts |-> CopyOf(i)]]}
  /\ UNCHANGED <<listed, listSent, listShown, listFailed, dbVars, editVars, work,
                 boundVars>>

StaffListed(l) ==
  /\ l \in listLoads /\ l.rows # Absent
  /\ listed' = l.rows /\ listShown' = l.n
  /\ listLoads' = listLoads \ {l}
  /\ saving' = (saving /\ ~l.save)
  /\ UNCHANGED <<listSent, listFailed, dbVars, editing, copy, touched, work, boundVars>>

StaffListFails(l) ==
  /\ l \in listLoads
  /\ listLoads' = listLoads \ {l} /\ listFailed' = TRUE
  /\ saving' = (saving /\ ~l.save)
  /\ UNCHANGED <<listed, listSent, listShown, dbVars, editing, copy, touched, work,
                 boundVars>>

----------------------------------------------------------------------------
(* Requests.  One whose roles are Absent leaves them as they are. *)
Request(i, active, roles, mine) ==
  [i |-> i, active |-> active, roles |-> roles, at |-> "sent", saw |-> {},
   mine |-> mine, save |-> FALSE, touched |-> TRUE, seen |-> 0]

(* Mutant: the dialog is not filled from the account but for its roles. *)
CopiedRoles(i) == [listed[i] EXCEPT !.a.active = TRUE]

Copied(i) == listed[i]

OpenEdit(i) ==
  /\ editing = Absent /\ listed[i].a # Absent
  /\ editing' = i /\ copy' = Copied(i) /\ touched' = FALSE
  /\ UNCHANGED <<saving, dbVars, pageVars, work, boundVars>>

Closes == editing' = Absent /\ copy' = Unknown /\ touched' = FALSE

CloseEdit ==
  /\ editing # Absent
  /\ Closes
  /\ UNCHANGED <<saving, dbVars, pageVars, work, boundVars>>

EditActive ==
  /\ editing # Absent
  /\ copy' = [copy EXCEPT !.a.active = ~@] /\ touched' = TRUE
  /\ UNCHANGED <<editing, saving, dbVars, pageVars, work, boundVars>>

EditRoles(rs) ==
  /\ editing # Absent /\ rs # copy.a.roles
  /\ copy' = [copy EXCEPT !.a.roles = rs]
  /\ UNCHANGED <<editing, touched, saving, dbVars, pageVars, work, boundVars>>

Asks(r) ==
  /\ requests < MaxRequests
  /\ r \notin work
  /\ work' = work \cup {r} /\ requests' = requests + 1
  /\ UNCHANGED <<dbVars, pageVars, foreigns>>

SaveEdit ==
  /\ editing # Absent /\ ~saving
  /\ Asks([Request(editing, copy.a.active, copy.a.roles, TRUE)
             EXCEPT !.save = TRUE, !.touched = touched, !.seen = copy.v.all])
  /\ saving' = TRUE
  /\ UNCHANGED <<editing, copy, touched>>

(* The button of a row does not wait for the one pressed before. *)
ToggleActive(i) ==
  /\ listed[i].a # Absent
  /\ Asks(Request(i, ~listed[i].a.active, Absent, TRUE))
  /\ UNCHANGED editVars

CreateAccount(i, rs) ==
  /\ Asks([Request(i, TRUE, rs, TRUE) EXCEPT !.at = "new"])
  /\ UNCHANGED editVars

(* The other administrator, whose page is the same. *)
OthersAsk(i, active, rs) ==
  /\ foreigns < MaxForeign /\ Known(i)
  /\ work' = work \cup {Request(i, active, rs, FALSE)}
  /\ foreigns' = foreigns + 1
  /\ UNCHANGED <<dbVars, pageVars, editVars, requests>>

----------------------------------------------------------------------------
(* An e-mail that is taken is refused, by the look before or by the key. *)
ApiCreates(r) ==
  /\ r \in work /\ r.at = "new" /\ ~Known(r.i)
  /\ account' = [account EXCEPT ![r.i] = [active |-> TRUE, roles |-> r.roles]]
  /\ asked' = [asked EXCEPT ![r.i] = r.roles]
  /\ work' = (work \ {r}) \cup {[r EXCEPT !.at = "done"]}
  /\ UNCHANGED <<overlapped, changed, pageVars, editVars, boundVars>>

(* Mutant: the roles an account has are not deleted before. *)
DeletedNone(i) == {}

(* The transaction deletes the rows committed when its statement starts... *)
Deleted(i) == account[i].roles

OthersAt(r) == {o \in work \ {r} : o.i = r.i /\ o.at = "began"}

ApiBegins(r) ==
  /\ r \in work /\ r.at = "sent" /\ r.roles # Absent /\ Known(r.i)
  /\ work' = (work \ {r}) \cup {[r EXCEPT !.at = "began", !.saw = Deleted(r.i)]}
  /\ overlapped' = IF OthersAt(r) = {} THEN overlapped ELSE overlapped \cup {r.i}
  /\ UNCHANGED <<account, asked, changed, pageVars, editVars, boundVars>>

(* ... and inserts its own; a row that is there by then is a violated key. *)
Left(r) == account[r.i].roles \ r.saw

Counted(r) ==
  changed' = [changed EXCEPT ![r.i] =
                [all    |-> @.all + 1,
                 others |-> @.others + IF r.mine THEN 0 ELSE 1]]

ApiCommits(r) ==
  /\ r \in work /\ r.at = "began" /\ Left(r) \cap r.roles = {}
  /\ account' = [account EXCEPT ![r.i] =
                   [active |-> r.active,
                    roles |-> Left(r) \cup r.roles]]
  /\ asked' = [asked EXCEPT ![r.i] = r.roles]
  /\ Counted(r)
  /\ work' = (work \ {r}) \cup {[r EXCEPT !.at = "done"]}
  /\ UNCHANGED <<overlapped, pageVars, editVars, boundVars>>

(* deactivate, and the update that only names isActive. *)
ApiSwitches(r) ==
  /\ r \in work /\ r.at = "sent" /\ r.roles = Absent /\ Known(r.i)
  /\ account' = [account EXCEPT ![r.i].active = r.active]
  /\ Counted(r)
  /\ work' = (work \ {r}) \cup {[r EXCEPT !.at = "done"]}
  /\ UNCHANGED <<asked, overlapped, pageVars, editVars, boundVars>>

(* An edit that succeeded closes the dialog, whichever is open by now. *)
RequestAnswers(r) ==
  /\ r \in work /\ r.at = "done"
  /\ work' = work \ {r}
  /\ IF r.mine THEN LoadList(r.save) ELSE NoLoadList
  /\ IF r.save THEN Closes ELSE UNCHANGED <<editing, copy, touched>>
  /\ UNCHANGED <<listed, listShown, saving, dbVars, boundVars>>

RequestSucceeds(r) == RequestAnswers(r)

(* Refused, rolled back, or done and its answer lost. *)
StaffRequestFails(r) ==
  /\ r \in work
  /\ work' = work \ {r}
  /\ listFailed' = (listFailed \/ r.mine)
  /\ saving' = (saving /\ ~r.save)
  /\ UNCHANGED <<listed, listSent, listLoads, listShown, editing, copy, touched,
                 dbVars, boundVars>>

StaffClosed ==
  /\ listed = [i \in Accounts |-> Unknown] /\ listShown = 0 /\ listFailed = FALSE
  /\ editing = Absent /\ copy = Unknown /\ touched = FALSE /\ saving = FALSE
  /\ work = {} /\ requests = 0 /\ foreigns = 0
  /\ overlapped = {} /\ changed = [i \in Accounts |-> Untouched]
  /\ asked = [i \in Accounts |-> IF account[i] = Absent THEN {} ELSE account[i].roles]

StaffInit ==
  /\ account \in [Accounts -> {Absent} \cup [active : {TRUE}, roles : RoleSets]]
  /\ \E i \in Accounts : Known(i)
  /\ StaffClosed
  /\ listSent = 1 /\ listLoads = {[n |-> 1, save |-> FALSE, rows |-> Absent]}

StaffNext ==
  \/ \E l \in listLoads : ApiListsStaff(l) \/ StaffListed(l) \/ StaffListFails(l)
  \/ \E i \in Accounts : OpenEdit(i) \/ ToggleActive(i)
  \/ CloseEdit \/ EditActive \/ SaveEdit
  \/ \E rs \in RoleSets : EditRoles(rs)
  \/ \E i \in Accounts, rs \in RoleSets : CreateAccount(i, rs)
  \/ \E i \in Accounts, active \in BOOLEAN, rs \in RoleSets \cup {Absent} :
       OthersAsk(i, active, rs)
  \/ \E r \in work : \/ ApiCreates(r) \/ ApiBegins(r) \/ ApiCommits(r)
                     \/ ApiSwitches(r) \/ RequestSucceeds(r)
                     \/ StaffRequestFails(r)

StaffSpec == StaffInit /\ [][StaffNext]_staffVars

----------------------------------------------------------------------------
Counts   == [all : Nat, others : Nat]
Rows     == [a : Records \cup {Absent}, v : Counts]
Requests == [i : Accounts, active : BOOLEAN, roles : Roles \cup {Absent},
             at : {"sent", "new", "began", "done"}, saw : SUBSET UNION RoleSets,
             mine : BOOLEAN, save : BOOLEAN, touched : BOOLEAN, seen : Nat]

(* The type invariant of the accounts. *)
StaffTypeOK ==
  /\ account \in [Accounts -> Records \cup {Absent}] /\ changed \in [Accounts -> Counts]
  /\ asked \in [Accounts -> SUBSET UNION RoleSets] /\ listed \in [Accounts -> Rows]
  /\ {listSent, listShown} \subseteq Nat /\ listShown <= listSent
  /\ listLoads \subseteq [n : 1..listSent, save : BOOLEAN,
                        rows : [Accounts -> Rows] \cup {Absent}]
  /\ editing \in Accounts \cup {Absent} /\ copy \in Rows
  /\ {touched, saving, listFailed} \subseteq BOOLEAN
  /\ work \subseteq Requests

(* An account has the roles that the last change of them asked for, neither
   fewer nor more, unless two changes were in their transactions at once. *)
RolesAreOfOneChange ==
  \A i \in Accounts :
    Known(i) => account[i].roles = asked[i] \/ i \in overlapped

(* An edit writes "active" from its copy: it switches an account on or off
   that its administrator did not switch only when the account was changed
   after the copy was read, by the other one or by a request still under way. *)
ActiveLosesOnlyByCrossing ==
  [][\A r \in work :
       r.save /\ ~r.touched /\ r \notin work' /\ r.at = "began"
         /\ account'[r.i] # account[r.i]
       => account'[r.i].active = account[r.i].active
          \/ changed[r.i].all > r.seen]_<<account, work>>

(* When nothing is on its way and nothing failed, the list shows each account
   as it is, unless the other administrator has changed it since, or an answer
   came after that of a later load: the page's own changes are on it. *)
StaffListIsFresh ==
  listLoads = {} /\ work = {} /\ ~listFailed /\ listShown = listSent =>
    \A i \in Accounts : listed[i] = CopyOf(i) \/ changed[i].others > listed[i].v.others

(***************************************************************************)
(* What those rest on.  A row that was read of an account tells whether it *)
(* is active as long as nobody changed it since; a request that is to      *)
(* write what such a row said, too.                                        *)
(***************************************************************************)
TellsActive(i, active, all) ==
  Known(i) /\ all <= changed[i].all /\ (all = changed[i].all => active = account[i].active)

RowIsSound(i, c) ==
  /\ c.v.others <= changed[i].others
  /\ c.a # Absent => TellsActive(i, c.a.active, c.v.all)

(* The list is read again for each change of the page's own. *)
RowIsFresh(i, c, n) ==
  \/ c = CopyOf(i) \/ changed[i].others > c.v.others
  \/ n < listSent \/ listFailed \/ \E r \in work : r.mine /\ r.at = "done"

RowsAreSound ==
  \A i \in Accounts :
    /\ RowIsSound(i, listed[i]) /\ RowIsFresh(i, listed[i], listShown)
    /\ \A l \in listLoads :
         l.rows # Absent => RowIsSound(i, l.rows[i]) /\ RowIsFresh(i, l.rows[i], l.n)

EditIsSound ==
  editing # Absent =>
    copy.a # Absent /\ (~touched => TellsActive(editing, copy.a.active, copy.v.all))

(* The roles that a transaction deletes are all there are, if no other is in
   one of its own. *)
RequestsAreSound ==
  /\ \A r \in work :
       /\ r.at = "new" => r.mine /\ r.roles # Absent
       /\ r.at = "began" =>
            /\ Known(r.i) /\ r.roles # Absent
            /\ r.i \notin overlapped => r.saw = account[r.i].roles
       /\ r.save /\ ~r.touched /\ r.at # "done" => TellsActive(r.i, r.active, r.seen)
  /\ \A r, o \in work :
       r.at = "began" /\ o.at = "began" /\ r.i = o.i /\ r.i \notin overlapped => r = o

StaffInv ==
  /\ StaffTypeOK /\ RowsAreSound /\ EditIsSound /\ RequestsAreSound
  /\ RolesAreOfOneChange /\ StaffListIsFresh
=============================================================================
