---------------------------- MODULE ProposalList ----------------------------
(***************************************************************************)
(* The list of proposals in the back office's browser: the filters, the    *)
(* search box that waits before it searches, the page and the sort order,  *)
(* the load that each change of them starts, the rows ticked, and the two  *)
(* actions in bulk.  Loads are neither cancelled nor put in order: the     *)
(* list shows the answer that came last.                                   *)
(*                                                                         *)
(* Each event of the browser is one step, with the effects React runs      *)
(* after it until nothing changes any more.  The API is at work in two     *)
(* steps of its own: it reads the rows (or writes them), and its answer    *)
(* comes, or not, later.                                                   *)
(***************************************************************************)
EXTENDS Naturals, FiniteSets, Sequences

CONSTANTS
  Proposals,
  Statuses,         \* the statuses the rows move between in this model
  BulkTargets,      \* those of the bulk dialog
  StatusFilters,    \* the sets of statuses the analyst may tick
  Texts,            \* what may be typed in the search box
  Named,            \* [Proposals -> SUBSET Texts]: the searches that find it
  Sorts,            \* the columns; Orders gives those the API sorts by
  Orders,           \* the place it gives each proposal
  FirstSort,
  PageSize,
  MaxLoads,         \* bounds: user changes stop after that many loads
  MaxMoves,         \*         rows others move
  MaxBulks,         \*         actions in bulk
  None

ASSUME ListAssumption ==
  /\ Statuses # {} /\ BulkTargets \subseteq Statuses
  /\ StatusFilters \subseteq SUBSET Statuses
  /\ Named \in [Proposals -> SUBSET Texts]
  /\ DOMAIN Orders \subseteq Sorts /\ FirstSort \in DOMAIN Orders
  /\ IsFiniteSet(Proposals)
  /\ PageSize \in Nat \ {0} /\ {MaxLoads, MaxMoves, MaxBulks} \subseteq Nat
  /\ None \notin Texts

VARIABLES
  row,        \* the rows' status
  assigned,   \* the proposals given to an analyst in bulk
  filters, typed, debounced, sort, page,
  items, total, shown, failed,        \* what is on the screen, and of which load
  selected, modal, bulk,
  calls, sent,                        \* loads on their way
  moves, bulks                        \* counters of the bounds

queryVars == <<filters, typed, debounced, sort, page>>
shownVars == <<items, total, shown, failed, selected>>
bulkVars  == <<modal, bulk, bulks>>
callVars  == <<calls, sent>>
listVars  == <<queryVars, shownVars, bulkVars, callVars, row, assigned, moves>>

NoLoad  == [n |-> 0, q |-> None]
NoBulk  == [ids |-> {}, to |-> None, at |-> "none"]
Assign  == "assign"

NoFilter == [status |-> {}, text |-> None]

(* The query of the API: a column it does not sort by is left out. *)
QueryOf(f, s, p) ==
  [status |-> f.status, text |-> f.text, page |-> p,
   sort |-> IF s \in DOMAIN Orders THEN s ELSE None]
Query == QueryOf(filters, sort, page)

Pages(t) == IF t = 0 THEN 1 ELSE (t + PageSize - 1) \div PageSize

(***************************************************************************)
(* The API's list: the rows that meet every filter given, counted, and one *)
(* page of them in the order asked for.                                    *)
(***************************************************************************)
Meets(p, q) ==
  /\ q.status = {} \/ row[p] \in q.status
  /\ q.text = None \/ q.text \in Named[p]

ListRows(q) ==
  LET place   == Orders[IF q.sort = None THEN FirstSort ELSE q.sort]
      found   == {p \in Proposals : Meets(p, q)}
      Above(p) == Cardinality({o \in found : place[o] < place[p]})
      skip    == (q.page - 1) * PageSize
  IN [ids |-> {p \in found : skip <= Above(p) /\ Above(p) < skip + PageSize},
      total |-> Cardinality(found)]

(***************************************************************************)
(* The effect on the query: each value it takes starts a load, and one     *)
(* event gives it two values at most.                                      *)
(***************************************************************************)
Load(n, q, at, r) == [n |-> n, q |-> q, at |-> at, ids |-> r.ids, total |-> r.total]

NoRows == [ids |-> {}, total |-> 0]

Changed(a, b) == IF b = a THEN <<>> ELSE <<b>>

LoadsBoth(q1, q2) ==
  LET new == Changed(Query, q1) \o Changed(q1, q2)
  IN /\ sent' = sent + Len(new)
     /\ calls' = calls \cup {Load(sent + i, new[i], "sent", NoRows) : i \in 1..Len(new)}

Loads(q) == LoadsBoth(q, q)

MoreLoads == sent < MaxLoads

(* A load starts by taking the last error off the screen. *)
ErrorGoes == failed' = (failed /\ sent' = sent)

(***************************************************************************)
(* New filters go to page 1.  The search box follows the filters' text;    *)
(* but in the same pass the effect that keeps the filters in line with the *)
(* text last searched for puts that text back.                             *)
(***************************************************************************)
Searched(f) == [f EXCEPT !.text = debounced]

FiltersBecome(f) ==
  /\ MoreLoads
  /\ filters' = Searched(f)
  /\ typed' = IF f.text = filters.text THEN typed ELSE Searched(f).text
  /\ page' = 1
  /\ LoadsBoth(QueryOf(f, sort, 1), QueryOf(Searched(f), sort, 1))
  /\ ErrorGoes
  /\ UNCHANGED <<debounced, sort, items, total, shown, selected, bulkVars,
                 row, assigned, moves>>

TickStatus(S) == S # filters.status /\ FiltersBecome([filters EXCEPT !.status = S])
RemoveText    == filters.text # None /\ FiltersBecome([filters EXCEPT !.text = None])
ClearFilters  == filters # NoFilter /\ FiltersBecome(NoFilter)

Type(t) ==
  /\ MoreLoads
  /\ typed' = t
  /\ UNCHANGED <<filters, debounced, sort, page, shownVars, bulkVars, callVars,
                 row, assigned, moves>>

SearchFor(t) == [filters EXCEPT !.text = t]

(* Half a second after the last key. *)
TypingSettles ==
  /\ debounced # typed
  /\ debounced' = typed
  /\ filters' = SearchFor(typed)
  /\ page' = IF filters' = filters THEN page ELSE 1
  /\ Loads(QueryOf(filters', sort, page'))
  /\ ErrorGoes
  /\ UNCHANGED <<typed, sort, items, total, shown, selected, bulkVars, row,
                 assigned, moves>>

(* The other direction of the same column counts as another member of Sorts. *)
SortBy(s) ==
  /\ MoreLoads /\ s # sort
  /\ sort' = s /\ page' = 1
  /\ Loads(QueryOf(filters, s, 1))
  /\ ErrorGoes
  /\ UNCHANGED <<filters, typed, debounced, items, total, shown, selected,
                 bulkVars, row, assigned, moves>>

(* Mutant: the effect that loads does not depend on the page. *)
TurnPageUnasked ==
  /\ MoreLoads
  /\ \E p \in {page - 1, page + 1} : p \in 1..Pages(total) /\ page' = p
  /\ UNCHANGED <<filters, typed, debounced, sort, shownVars, bulkVars, callVars,
                 row, assigned, moves>>

TurnPage ==
  /\ MoreLoads
  /\ \E p \in {page - 1, page + 1} :
       /\ p \in 1..Pages(total)
       /\ page' = p
       /\ Loads(QueryOf(filters, sort, p))
  /\ ErrorGoes
  /\ UNCHANGED <<filters, typed, debounced, sort, items, total, shown, selected,
                 bulkVars, row, assigned, moves>>

(***************************************************************************)
(* A load: the count and the page are read in one transaction; the answer  *)
(* replaces the list, whatever load it is of; a page beyond the last one,  *)
(* as the load knew it, becomes the last one; rows no longer listed lose   *)
(* their tick.                                                             *)
(***************************************************************************)
ApiLists(c) ==
  /\ c \in calls /\ c.at = "sent"
  /\ calls' = (calls \ {c}) \cup {Load(c.n, c.q, "read", ListRows(c.q))}
  /\ UNCHANGED <<sent, queryVars, shownVars, bulkVars, row, assigned, moves>>

(* Mutant: ticks are not taken from rows that are no longer listed. *)
StillTicked(ids, ps) == ids

StillListed(ids, ps) == ids \cap ps

LastPage(c) == IF c.q.page > Pages(c.total) THEN Pages(c.total) ELSE page

ListAnswers(c) ==
  /\ c \in calls /\ c.at = "read"
  /\ items' = c.ids /\ total' = c.total
  /\ shown' = [n |-> c.n, q |-> c.q]
  /\ selected' = StillListed(selected, c.ids)
  /\ page' = LastPage(c)
  /\ LET q == QueryOf(filters, sort, page')
         again == IF q = Query THEN {} ELSE {Load(sent + 1, q, "sent", NoRows)}
     IN /\ calls' = (calls \ {c}) \cup again
        /\ sent' = sent + Cardinality(again)
  /\ ErrorGoes
  /\ UNCHANGED <<filters, typed, debounced, sort, bulkVars, row, assigned, moves>>

(* The API or the network fails; so does a refresh of the session. *)
LoadFails(c) ==
  /\ c \in calls
  /\ calls' = calls \ {c}
  /\ failed' = TRUE
  /\ UNCHANGED <<sent, queryVars, items, total, shown, selected, bulkVars, row,
                 assigned, moves>>

(***************************************************************************)
(* Ticks, and what is done in bulk to the rows ticked.                     *)
(***************************************************************************)
Tick(p) ==
  /\ p \in items
  /\ selected' = (selected \cup {p}) \ (selected \cap {p})
  /\ UNCHANGED <<queryVars, items, total, shown, failed, bulkVars, callVars, row,
                 assigned, moves>>

TickAll ==
  /\ items # {}
  /\ selected' = IF items \subseteq selected THEN selected \ items
                 ELSE selected \cup items
  /\ UNCHANGED <<queryVars, items, total, shown, failed, bulkVars, callVars, row,
                 assigned, moves>>

ClearTicks ==
  /\ selected # {}
  /\ selected' = {}
  /\ UNCHANGED <<queryVars, items, total, shown, failed, bulkVars, callVars, row,
                 assigned, moves>>

OpenModal ==
  /\ bulks < MaxBulks
  /\ modal' \in {Assign, "status"}
  /\ modal = "none" /\ selected # {}
  /\ UNCHANGED <<queryVars, shownVars, bulk, bulks, callVars, row, assigned, moves>>

CloseModal ==
  /\ modal # "none"
  /\ modal' = "none"
  /\ UNCHANGED <<queryVars, shownVars, bulk, bulks, callVars, row, assigned, moves>>

(* The dialog stays open while loads change what is ticked behind it. *)
SendBulk(to) ==
  /\ bulk.at = "none" /\ bulks < MaxBulks
  /\ \/ modal = Assign /\ to = Assign
     \/ modal = "status" /\ to \in BulkTargets
  /\ bulk' = [ids |-> selected, to |-> to, at |-> "sent"]
  /\ bulks' = bulks + 1
  /\ UNCHANGED <<queryVars, shownVars, modal, callVars, row, assigned, moves>>

(* Of no proposal at all the API says that it was not found. *)
ApiWritesBulk ==
  /\ bulk.at = "sent" /\ bulk.ids # {}
  /\ IF bulk.to = Assign
     THEN assigned' = assigned \cup bulk.ids /\ row' = row
     ELSE /\ row' = [p \in Proposals |-> IF p \in bulk.ids THEN bulk.to ELSE row[p]]
          /\ assigned' = assigned
  /\ bulk' = [bulk EXCEPT !.at = "written"]
  /\ UNCHANGED <<queryVars, shownVars, modal, bulks, callVars, moves>>

(* The list is not loaded again. *)
BulkAnswers ==
  /\ bulk.at = "written"
  /\ bulk' = NoBulk
  /\ modal' = "none"
  /\ selected' = {}
  /\ UNCHANGED <<queryVars, items, total, shown, failed, bulks, callVars, row,
                 assigned, moves>>

BulkFails ==
  /\ bulk.at # "none"
  /\ bulk' = NoBulk
  /\ UNCHANGED <<queryVars, shownVars, modal, bulks, callVars, row, assigned, moves>>

(* Other analysts, candidates and workers move rows meanwhile. *)
RowMoves(p, s) ==
  /\ moves < MaxMoves /\ row[p] # s
  /\ row' = [row EXCEPT ![p] = s]
  /\ moves' = moves + 1
  /\ UNCHANGED <<queryVars, shownVars, bulkVars, callVars, assigned>>

(***************************************************************************)
(* The page opens with what its URL says.                                  *)
(***************************************************************************)
UrlOf == [status |-> filters.status, text |-> filters.text, page |-> page]

Urls == [status : StatusFilters, text : Texts \cup {None}, page : 1..2]

Opened(u) ==
  [f |-> [status |-> u.status, text |-> u.text], p |-> u.page]

FirstLoad(u) ==
  Load(1, QueryOf(Opened(u).f, FirstSort, Opened(u).p), "sent", NoRows)

ListInit ==
  /\ row \in [Proposals -> Statuses]
  /\ \E u \in Urls :
       /\ filters = Opened(u).f /\ page = Opened(u).p
       /\ typed = u.text /\ debounced = u.text
       /\ calls = {FirstLoad(u)}
  /\ sent = 1 /\ sort = FirstSort
  /\ items = {} /\ total = 0 /\ shown = NoLoad /\ failed = FALSE
  /\ selected = {} /\ modal = "none" /\ bulk = NoBulk
  /\ assigned = {} /\ moves = 0 /\ bulks = 0

ListNext ==
  \/ \E S \in StatusFilters : TickStatus(S)
  \/ RemoveText \/ ClearFilters
  \/ \E t \in Texts \cup {None} : t # typed /\ Type(t)
  \/ TypingSettles
  \/ \E s \in Sorts : SortBy(s)
  \/ TurnPage
  \/ \E c \in calls : ApiLists(c) \/ ListAnswers(c) \/ LoadFails(c)
  \/ \E p \in Proposals : Tick(p)
  \/ TickAll \/ ClearTicks \/ OpenModal \/ CloseModal
  \/ \E to \in BulkTargets \cup {Assign} : SendBulk(to)
  \/ ApiWritesBulk \/ BulkAnswers \/ BulkFails
  \/ \E p \in Proposals, s \in Statuses : RowMoves(p, s)

ListSpec == ListInit /\ [][ListNext]_listVars

----------------------------------------------------------------------------
Queries == [status : StatusFilters \cup {{}}, text : Texts \cup {None},
            page : Nat \ {0}, sort : DOMAIN Orders \cup {None}]

(* The type invariant of the list's state. *)
ListTypeOK ==
  /\ row \in [Proposals -> Statuses] /\ assigned \subseteq Proposals
  /\ filters \in [status : StatusFilters \cup {{}}, text : Texts \cup {None}]
  /\ {typed, debounced} \subseteq Texts \cup {None}
  /\ sort \in Sorts /\ page \in Nat \ {0}
  /\ items \subseteq Proposals /\ total \in Nat /\ failed \in BOOLEAN
  /\ selected \subseteq Proposals /\ modal \in {"none", Assign, "status"}
  /\ bulk \in [ids : SUBSET Proposals, to : BulkTargets \cup {Assign, None},
              at : {"none", "sent", "written"}]
  /\ sent \in Nat
  /\ calls \subseteq [n : 1..sent, q : Queries, at : {"sent", "read"},
                    ids : SUBSET Proposals, total : Nat]

(* Once every load has answered and none failed, the list is of the filters,
   the order and the page that the screen names: a change of any of them, by
   the analyst, by the search that waits or by the page cut back to the last,
   is loaded.  Unless an answer overtook that of a later load. *)
ListIsOfQuery ==
  sent > 0 /\ calls = {} /\ ~failed => shown.q = Query \/ shown.n < sent

(* And the page it is on exists: rows that left the filter meanwhile do not
   leave the analyst on an empty page beyond the last. *)
PageExists ==
  calls = {} /\ ~failed /\ shown.n = sent => page <= Pages(total)

(* When no key is waiting, the list is filtered by what the search box says. *)
SearchIsShown == typed = debounced => filters.text = typed

(* A bulk action is sent for rows on the screen only, though the dialog stays
   open and the ticks stay on while the filters, the page and the answers of
   late loads change the list behind them. *)
BulkIsOfListed ==
  [][bulk.at = "none" /\ bulk'.at = "sent" => bulk'.ids \subseteq items]_bulk

(***************************************************************************)
(* What those rest on: the load sent last is of the query, wherever it     *)
(* has got to; the filters' text is the one last searched for; a tick is   *)
(* on a row that is listed.                                                *)
(***************************************************************************)
LastLoadIsOfQuery ==
  /\ \A c \in calls : c.n = sent => c.q = Query
  /\ shown.n \in 0..sent
  /\ shown.n = sent => page <= Pages(total) /\ (sent > 0 => shown.q = Query)

TextIsSearched == filters.text = debounced

TicksAreListed == selected \subseteq items

BulkHasTarget == bulk.at # "none" => bulk.to \in BulkTargets \cup {Assign}

ListInv ==
  /\ ListTypeOK /\ LastLoadIsOfQuery /\ TextIsSearched /\ TicksAreListed
  /\ BulkHasTarget
  /\ ListIsOfQuery /\ PageExists /\ SearchIsShown
=============================================================================
