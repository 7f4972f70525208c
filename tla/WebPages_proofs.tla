--------------------------- MODULE WebPages_proofs ---------------------------
(***************************************************************************)
(* Proofs about the pages of WebPages, one part for each page and one for  *)
(* the four together: for any number of proposals, accounts, documents and *)
(* networks, and of loads and requests on their way.                       *)
(*                                                                         *)
(* Each page's invariant is inductive.  They have one argument: no page    *)
(* cancels or orders its answers, so the invariant says of each answer     *)
(* under way what it may still be shown for.  Of the list, that the load   *)
(* sent last is of the query (LastLoadIsOfQuery); of the dossier and the   *)
(* accounts, that what was read is what is there unless somebody else      *)
(* changed it since (IsAsRead, RowIsFresh); of the tracking page, that it  *)
(* stays true of the proposal but for what is disconnected                 *)
(* (LoadsAreSound, NetsAreOf).                                             *)
(***************************************************************************)
EXTENDS WebPages, FiniteSetTheorems, SequenceTheorems, TLAPS

-----------------------------------------------------------------------------
(* The list of proposals *)

(* There is a page 1, however few rows were found. *)
LEMMA PagesArePositive == ASSUME NEW t \in Nat PROVE Pages(t) \in Nat \ {0}
<1> DEFINE m == t + PageSize - 1
<1>1. PageSize \in Nat \ {0}  BY ListAssumption
<1>2. CASE t = 0  BY <1>2 DEF Pages
<1>3. CASE t # 0
  <2>1. m \in Nat /\ m >= PageSize  BY <1>1, <1>3
  <2> HIDE DEF m
  <2>2. m \div PageSize \in Nat /\ m \div PageSize >= 1  BY <1>1, <2>1
  <2> QED  BY <1>3, <2>2 DEF Pages, m
<1> QED  BY <1>2, <1>3

(* The API answers with some of the proposals and counts what it found. *)
LEMMA RowsAreProposals ==
  ASSUME NEW q
  PROVE  ListRows(q).ids \subseteq Proposals /\ ListRows(q).total \in Nat
<1> DEFINE found == {p \in Proposals : Meets(p, q)}
<1>1. IsFiniteSet(Proposals)  BY ListAssumption
<1>2. IsFiniteSet(found)  BY <1>1, FS_Subset
<1>3. Cardinality(found) \in Nat  BY <1>2, FS_CardinalityType
<1> QED  BY <1>3 DEF ListRows

Call(n) == [n : 1..n, q : Queries, at : {"sent", "read"}, ids : SUBSET Proposals, total : Nat]

LEMMA LoadType ==
  ASSUME NEW m \in Nat, NEW n \in 1..m, NEW q \in Queries, NEW st \in {"sent", "read"},
         NEW r, r.ids \subseteq Proposals, r.total \in Nat
  PROVE  /\ Load(n, q, st, r) \in Call(m)
         /\ Load(n, q, st, r).n = n /\ Load(n, q, st, r).q = q
  BY DEF Load, Call

LEMMA QueryType ==
  ASSUME NEW f \in [status : StatusFilters \cup {{}}, text : Texts \cup {None}],
         NEW s, NEW p \in Nat \ {0}
  PROVE  QueryOf(f, s, p) \in Queries /\ QueryOf(f, s, p).page = p
  BY DEF QueryOf, Queries

(* What the effect sends, when the query becomes q2, through q1. *)
LEMMA LoadsAreSent ==
  ASSUME ListTypeOK, NEW q1 \in Queries, NEW q2 \in Queries, LoadsBoth(q1, q2)
  PROVE  /\ sent' \in Nat /\ sent' >= sent
         /\ calls' \subseteq Call(sent')
         /\ \A c \in calls' : c \in calls \/ (c.n = sent' => c.q = q2)
         /\ sent' = sent => calls' = calls /\ q2 = Query
<1> DEFINE new == Changed(Query, q1) \o Changed(q1, q2)
           L(i) == Load(sent + i, new[i], "sent", NoRows)
<1>1. /\ new \in Seq(Queries)
      /\ Len(new) = 0 => q2 = Query
      /\ Len(new) > 0 => new[Len(new)] = q2
  <2>1. CASE q1 = Query /\ q2 = q1
    <3>1. new = <<>>  BY <2>1 DEF Changed
    <3> QED  BY <3>1, <2>1
  <2>2. CASE q1 = Query /\ q2 # q1
    <3>1. new = <<q2>>  BY <2>2 DEF Changed
    <3> QED  BY <3>1
  <2>3. CASE q1 # Query /\ q2 = q1
    <3>1. new = <<q2>>  BY <2>3 DEF Changed
    <3> QED  BY <3>1
  <2>4. CASE q1 # Query /\ q2 # q1
    <3>1. new = <<q1>> \o <<q2>>  BY <2>4 DEF Changed
    <3>2. <<q1>> \in Seq(Queries) /\ <<q2>> \in Seq(Queries)  OBVIOUS
    <3>3. new \in Seq(Queries)  BY <3>1, <3>2
    <3>4. Len(new) = 2 /\ new[2] = q2  BY <3>1
    <3> QED  BY <3>3, <3>4
  <2> QED  BY <2>1, <2>2, <2>3, <2>4
<1>2. sent' = sent + Len(new) /\ calls' = calls \cup {L(i) : i \in 1..Len(new)}
  BY DEF LoadsBoth
<1> HIDE DEF new
<1>3. sent \in Nat /\ calls \subseteq Call(sent)  BY DEF ListTypeOK, Call
<1>4. sent' \in Nat /\ sent' >= sent /\ Len(new) \in Nat  BY <1>1, <1>2, <1>3
<1>5. \A i \in 1..Len(new) : L(i) \in Call(sent') /\ L(i).n = sent + i /\ L(i).q = new[i]
  <2> TAKE i \in 1..Len(new)
  <2>1. new[i] \in Queries /\ sent + i \in 1..sent'  BY <1>1, <1>2, <1>3
  <2>2. NoRows.ids \subseteq Proposals /\ NoRows.total \in Nat  BY DEF NoRows
  <2> QED  BY <2>1, <2>2, <1>4, LoadType
<1>6. Call(sent) \subseteq Call(sent')  BY <1>3, <1>4 DEF Call
<1> HIDE DEF L
<1>7. calls' \subseteq Call(sent')  BY <1>2, <1>3, <1>5, <1>6
<1>8. \A c \in calls' : c \in calls \/ (c.n = sent' => c.q = q2)
  <2> SUFFICES ASSUME NEW i \in 1..Len(new), sent + i = sent'
               PROVE  new[i] = q2
    BY <1>2, <1>5
  <2>1. i = Len(new)  BY <1>2, <1>3, <1>4
  <2> QED  BY <2>1, <1>1
<1>9. sent' = sent => Len(new) = 0  BY <1>2, <1>3, <1>4
<1>10. Len(new) = 0 => calls' = calls  BY <1>2
<1> QED  BY <1>1, <1>4, <1>7, <1>8, <1>9, <1>10

-----------------------------------------------------------------------------
(* What follows from the rest. *)
LEMMA ListShowsIt ==
  ASSUME ListTypeOK, LastLoadIsOfQuery, TextIsSearched
  PROVE  ListIsOfQuery /\ PageExists /\ SearchIsShown
  BY DEF ListTypeOK, LastLoadIsOfQuery, TextIsSearched, ListIsOfQuery, PageExists,
         SearchIsShown

Filters == [status : StatusFilters \cup {{}}, text : Texts \cup {None}]

(* The query changes and is loaded. *)
LEMMA QueryKeepsIt ==
  ASSUME ListInv, NEW q1 \in Queries,
         filters' \in Filters, {typed', debounced'} \subseteq Texts \cup {None},
         sort' \in Sorts, page' \in Nat \ {0},
         filters'.text = debounced',
         LoadsBoth(q1, QueryOf(filters', sort', page')), ErrorGoes,
         UNCHANGED <<items, total, shown, selected, bulkVars, row, assigned>>
  PROVE  ListInv'
<1> USE DEF ListInv
<1> DEFINE q2 == QueryOf(filters', sort', page')
<1>1. q2 \in Queries /\ q2.page = page'  BY QueryType DEF Filters
<1>2. Query' = q2  BY DEF Query
<1> HIDE DEF q2
<1>3. LoadsBoth(q1, q2)  BY DEF q2
<1>4. /\ sent' \in Nat /\ sent' >= sent
      /\ calls' \subseteq Call(sent')
      /\ \A c \in calls' : c \in calls \/ (c.n = sent' => c.q = q2)
      /\ sent' = sent => calls' = calls /\ q2 = Query
  BY <1>1, <1>3, LoadsAreSent
<1>5. sent \in Nat /\ calls \subseteq Call(sent)  BY DEF ListTypeOK, Call
<1>6. ListTypeOK'
  BY <1>4 DEF ListTypeOK, Filters, Call, ErrorGoes, bulkVars
<1>7. sent' = sent => page' = page
  <2>1. Query.page = page  BY DEF Query, QueryOf
  <2> QED  BY <2>1, <1>1, <1>4
<1>8. LastLoadIsOfQuery'
  <2>1. ASSUME NEW c \in calls', c.n = sent' PROVE c.q = q2
    <3>1. CASE c \in calls
      <4>1. c.n <= sent  BY <3>1, <1>5 DEF Call
      <4>2. sent' = sent  BY <4>1, <2>1, <1>4, <1>5
      <4> QED  BY <4>2, <3>1, <2>1, <1>4 DEF LastLoadIsOfQuery
    <3>2. CASE c \notin calls  BY <3>2, <2>1, <1>4
    <3> QED  BY <3>1, <3>2
  <2>2. shown'.n \in 0..sent' /\ (shown'.n = sent' => sent' = sent)
    BY <1>4, <1>5 DEF LastLoadIsOfQuery
  <2>3. shown'.n = sent' => page' <= Pages(total') /\ (sent' > 0 => shown'.q = q2)
    BY <2>2, <1>4, <1>7 DEF LastLoadIsOfQuery
  <2>4. Pages(total') = Pages(total)'  OBVIOUS
  <2> QED  BY <2>1, <2>2, <2>3, <2>4, <1>2 DEF LastLoadIsOfQuery
<1>9. TextIsSearched' /\ TicksAreListed' /\ BulkHasTarget'
  BY DEF TextIsSearched, TicksAreListed, BulkHasTarget, bulkVars
<1>10. ListIsOfQuery' /\ PageExists' /\ SearchIsShown'  BY <1>6, <1>8, <1>9, ListShowsIt, PTL
<1> QED  BY <1>6, <1>8, <1>9, <1>10

LEMMA FiltersKeepIt ==
  ASSUME ListInv, NEW f \in Filters, FiltersBecome(f)
  PROVE  ListInv'
<1> USE DEF ListInv, FiltersBecome
<1> DEFINE g == Searched(f)
<1>1. g \in Filters /\ g.text = debounced
  BY DEF Searched, Filters, ListTypeOK
<1>2. filters' = g /\ sort' = sort /\ page' = 1 /\ debounced' = debounced  OBVIOUS
<1>3. typed' \in Texts \cup {None}  BY <1>1 DEF ListTypeOK
<1>4. QueryOf(f, sort, 1) \in Queries  BY QueryType DEF Filters
<1>5. LoadsBoth(QueryOf(f, sort, 1), QueryOf(filters', sort', page'))  BY <1>2
<1> HIDE DEF g
<1>6. filters' \in Filters /\ filters'.text = debounced' /\ page' \in Nat \ {0}  BY <1>1, <1>2
<1>7. sort' \in Sorts /\ {typed', debounced'} \subseteq Texts \cup {None}
  BY <1>2, <1>3 DEF ListTypeOK
<1>8. UNCHANGED <<items, total, shown, selected, bulkVars, row, assigned>> /\ ErrorGoes  OBVIOUS
<1> HIDE DEF ListInv, FiltersBecome
<1> QED  BY <1>4, <1>5, <1>6, <1>7, <1>8, QueryKeepsIt

LEMMA SettlingKeepsIt ==
  ASSUME ListInv, TypingSettles
  PROVE  ListInv'
<1> USE DEF ListInv, TypingSettles
<1>1. filters' \in Filters /\ filters'.text = typed
  BY DEF SearchFor, Filters, ListTypeOK
<1>2. sort' = sort /\ debounced' = typed /\ typed' = typed /\ page' \in Nat \ {0}
  BY DEF ListTypeOK
<1>3. sort' \in Sorts /\ {typed', debounced'} \subseteq Texts \cup {None}
  BY <1>2 DEF ListTypeOK
<1>4. QueryOf(filters', sort', page') \in Queries  BY <1>1, <1>2, QueryType DEF Filters
<1>5. LoadsBoth(QueryOf(filters', sort', page'), QueryOf(filters', sort', page'))
  BY <1>2 DEF Loads
<1>6. UNCHANGED <<items, total, shown, selected, bulkVars, row, assigned>> /\ ErrorGoes  OBVIOUS
<1> HIDE DEF ListInv, TypingSettles
<1> QED  BY <1>1, <1>2, <1>3, <1>4, <1>5, <1>6, QueryKeepsIt

LEMMA SortKeepsIt ==
  ASSUME ListInv, NEW s \in Sorts, SortBy(s)
  PROVE  ListInv'
<1> USE DEF ListInv, SortBy
<1>1. filters' \in Filters /\ filters'.text = debounced' /\ sort' \in Sorts /\ page' \in Nat \ {0}
  BY DEF Filters, ListTypeOK, TextIsSearched
<1>2. {typed', debounced'} \subseteq Texts \cup {None}  BY DEF ListTypeOK
<1>3. QueryOf(filters', sort', page') \in Queries  BY <1>1, QueryType DEF Filters
<1>4. LoadsBoth(QueryOf(filters', sort', page'), QueryOf(filters', sort', page'))
  BY DEF Loads
<1>5. UNCHANGED <<items, total, shown, selected, bulkVars, row, assigned>> /\ ErrorGoes  OBVIOUS
<1> HIDE DEF ListInv, SortBy
<1> QED  BY <1>1, <1>2, <1>3, <1>4, <1>5, QueryKeepsIt

LEMMA TurnKeepsIt ==
  ASSUME ListInv, TurnPage
  PROVE  ListInv'
<1> USE DEF ListInv
<1>1. PICK p \in {page - 1, page + 1} :
        p \in 1..Pages(total) /\ page' = p /\ Loads(QueryOf(filters, sort, p))
  BY DEF TurnPage
<1>2. UNCHANGED <<filters, typed, debounced, sort, items, total, shown, selected,
                  bulkVars, row, assigned>> /\ ErrorGoes
  BY DEF TurnPage
<1>3. page' \in Nat \ {0}  BY <1>1, PagesArePositive DEF ListTypeOK
<1>4. filters' \in Filters /\ filters'.text = debounced' /\ sort' \in Sorts
  BY <1>2 DEF Filters, ListTypeOK, TextIsSearched
<1>5. {typed', debounced'} \subseteq Texts \cup {None}  BY <1>2 DEF ListTypeOK
<1>6. QueryOf(filters', sort', page') \in Queries  BY <1>3, <1>4, QueryType DEF Filters
<1>7. LoadsBoth(QueryOf(filters', sort', page'), QueryOf(filters', sort', page'))
  BY <1>1, <1>2 DEF Loads
<1> HIDE DEF ListInv
<1> QED  BY <1>2, <1>3, <1>4, <1>5, <1>6, <1>7, QueryKeepsIt

(***************************************************************************)
(* What becomes of a load.                                                 *)
(***************************************************************************)
(* Fewer loads under way, and no other load shown. *)
LEMMA LoadsEnd ==
  ASSUME ListInv, calls' \subseteq calls, failed' \in BOOLEAN,
         UNCHANGED <<sent, queryVars, items, total, shown, selected, bulkVars, row, assigned>>
  PROVE  ListInv'
<1> USE DEF ListInv, queryVars, bulkVars
<1>1. ListTypeOK'  BY DEF ListTypeOK
<1>2. Query' = Query  BY DEF Query
<1>3. LastLoadIsOfQuery'  BY <1>2 DEF LastLoadIsOfQuery
<1>4. TextIsSearched' /\ TicksAreListed' /\ BulkHasTarget'
  BY DEF TextIsSearched, TicksAreListed, BulkHasTarget
<1>5. ListIsOfQuery' /\ PageExists' /\ SearchIsShown'  BY <1>1, <1>3, <1>4, ListShowsIt, PTL
<1> QED  BY <1>1, <1>3, <1>4, <1>5

LEMMA ReadKeepsIt ==
  ASSUME ListInv, NEW c \in calls, ApiLists(c)
  PROVE  ListInv'
<1> USE DEF ListInv, queryVars, shownVars, bulkVars
<1> DEFINE d == Load(c.n, c.q, "read", ListRows(c.q))
<1>1. c.n \in 1..sent /\ c.q \in Queries /\ sent \in Nat  BY DEF ListTypeOK
<1>2. ListRows(c.q).ids \subseteq Proposals /\ ListRows(c.q).total \in Nat
  BY RowsAreProposals
<1>3. d \in Call(sent) /\ d.n = c.n /\ d.q = c.q  BY <1>1, <1>2, LoadType
<1>4. calls' = (calls \ {c}) \cup {d} /\ sent' = sent  BY DEF ApiLists
<1> HIDE DEF d
<1>5. UNCHANGED <<sent, queryVars, shownVars, bulkVars, row, assigned>>  BY DEF ApiLists
<1>6. ListTypeOK'
  <2>1. calls' \subseteq Call(sent')  BY <1>3, <1>4 DEF ListTypeOK, Call
  <2> QED  BY <2>1, <1>5 DEF ListTypeOK, Call
<1>7. Query' = Query  BY <1>5 DEF Query
<1>8. LastLoadIsOfQuery'  BY <1>3, <1>4, <1>5, <1>7 DEF LastLoadIsOfQuery
<1>9. TextIsSearched' /\ TicksAreListed' /\ BulkHasTarget'
  BY <1>5 DEF TextIsSearched, TicksAreListed, BulkHasTarget
<1>10. ListIsOfQuery' /\ PageExists' /\ SearchIsShown'  BY <1>6, <1>8, <1>9, ListShowsIt, PTL
<1> QED  BY <1>6, <1>8, <1>9, <1>10

(* The answer that is shown: if it is of the last load and no other is sent, *)
(* the page was not cut back, and is one that its count knows.               *)
LEMMA AnswerKeepsIt ==
  ASSUME ListInv, NEW c \in calls, ListAnswers(c)
  PROVE  ListInv'
<1> USE DEF ListInv, bulkVars
<1> DEFINE q == QueryOf(filters, sort, page')
           again == IF q = Query THEN {} ELSE {Load(sent + 1, q, "sent", NoRows)}
<1>1. /\ c.n \in 1..sent /\ c.q \in Queries /\ sent \in Nat
      /\ c.ids \subseteq Proposals /\ c.total \in Nat
  BY DEF ListTypeOK
<1>2. /\ page' = LastPage(c) /\ items' = c.ids /\ total' = c.total
      /\ shown' = [n |-> c.n, q |-> c.q]
      /\ selected' = selected \cap c.ids
      /\ calls' = (calls \ {c}) \cup again /\ sent' = sent + Cardinality(again)
      /\ failed' = (failed /\ sent' = sent)
      /\ UNCHANGED <<filters, typed, debounced, sort, bulk, modal, row, assigned>>
  BY DEF ListAnswers, StillListed, ErrorGoes
<1>3. page' \in Nat \ {0}  BY <1>1, <1>2, PagesArePositive DEF LastPage, ListTypeOK
<1>4. q \in Queries /\ q.page = page' /\ Query.page = page
  BY <1>3, QueryType DEF ListTypeOK, Query, QueryOf
<1>5. Query' = q  BY <1>2 DEF Query
<1>6. \/ q = Query /\ again = {} /\ sent' = sent
      \/ q # Query /\ again = {Load(sent + 1, q, "sent", NoRows)} /\ sent' = sent + 1
  <2>1. CASE q = Query
    <3>1. Cardinality(again) = 0  BY <2>1, FS_EmptySet
    <3> QED  BY <2>1, <3>1, <1>1, <1>2
  <2>2. CASE q # Query
    <3>1. Cardinality(again) = 1  BY <2>2, FS_Singleton
    <3> QED  BY <2>2, <3>1, <1>2
  <2> QED  BY <2>1, <2>2
<1>7. \A d \in again : d \in Call(sent') /\ d.n = sent + 1 /\ d.q = q
  <2>1. NoRows.ids \subseteq Proposals /\ NoRows.total \in Nat  BY DEF NoRows
  <2>2. CASE q = Query  BY <2>2
  <2>3. CASE q # Query
    <3>1. sent + 1 \in 1..sent' /\ sent' \in Nat  BY <2>3, <1>1, <1>6
    <3> QED  BY <3>1, <2>1, <2>3, <1>4, LoadType
  <2> QED  BY <2>2, <2>3
<1> HIDE DEF q, again
<1>8. sent' \in Nat /\ sent' >= sent  BY <1>1, <1>6
<1>9. ListTypeOK'
  <2>1. calls' \subseteq Call(sent')
    <3>1. calls \subseteq Call(sent)  BY DEF ListTypeOK, Call
    <3>2. Call(sent) \subseteq Call(sent')  BY <1>1, <1>8 DEF Call
    <3> QED  BY <3>1, <3>2, <1>2, <1>7
  <2> QED  BY <2>1, <1>1, <1>2, <1>3, <1>8 DEF ListTypeOK, Call
<1>10. LastLoadIsOfQuery'
  <2>1. ASSUME NEW d \in calls', d.n = sent' PROVE d.q = q
    <3>1. CASE d \in calls
      <4>1. d.n <= sent  BY <3>1 DEF ListTypeOK
      <4>2. sent' = sent /\ q = Query  BY <4>1, <2>1, <1>1, <1>6
      <4> QED  BY <4>2, <3>1, <2>1 DEF LastLoadIsOfQuery
    <3>2. CASE d \notin calls  BY <3>2, <1>2, <1>7
    <3> QED  BY <3>1, <3>2
  <2>2. shown'.n = c.n /\ shown'.q = c.q  BY <1>2
  <2>3. shown'.n \in 0..sent'  BY <2>2, <1>1, <1>8
  <2>4. ASSUME shown'.n = sent' PROVE page' <= Pages(total)' /\ shown'.q = q
    <3>1. c.n = sent /\ q = Query  BY <2>2, <2>4, <1>1, <1>6
    <3>2. c.q = Query /\ page' = page  BY <3>1, <1>4 DEF LastLoadIsOfQuery
    <3>3. Pages(total)' = Pages(c.total)  BY <1>2
    <3>4. Pages(c.total) \in Nat  BY <1>1, PagesArePositive
    <3>5. page' <= Pages(c.total)
      <4>1. c.q.page = page  BY <3>2, <1>4
      <4> QED  BY <4>1, <3>2, <3>4, <1>2 DEF LastPage, ListTypeOK
    <3> QED  BY <3>1, <3>2, <3>3, <3>5, <2>2
  <2> QED  BY <2>1, <2>3, <2>4, <1>5 DEF LastLoadIsOfQuery
<1>11. TextIsSearched' /\ TicksAreListed' /\ BulkHasTarget'
  BY <1>2 DEF TextIsSearched, TicksAreListed, BulkHasTarget
<1>12. ListIsOfQuery' /\ PageExists' /\ SearchIsShown'  BY <1>9, <1>10, <1>11, ListShowsIt, PTL
<1> QED  BY <1>9, <1>10, <1>11, <1>12

(***************************************************************************)
(* What does not touch the query nor its loads.                            *)
(***************************************************************************)
LEMMA LoadsStay ==
  ASSUME ListInv, ListTypeOK', TicksAreListed', BulkHasTarget',
         UNCHANGED <<filters, debounced, sort, page, items, total, shown, failed, callVars>>,
         typed' = debounced' => typed' = filters.text
  PROVE  ListInv'
<1> USE DEF ListInv, callVars
<1>1. Query' = Query  BY DEF Query
<1>2. LastLoadIsOfQuery'  BY <1>1 DEF LastLoadIsOfQuery
<1>3. TextIsSearched'  BY DEF TextIsSearched
<1>4. ListIsOfQuery' /\ PageExists' /\ SearchIsShown'  BY <1>2, <1>3, ListShowsIt, PTL
<1> QED  BY <1>2, <1>3, <1>4

LEMMA TicksKeepIt ==
  ASSUME ListInv, (\E p \in Proposals : Tick(p)) \/ TickAll \/ ClearTicks
  PROVE  ListInv'
<1> USE DEF ListInv
<1>1. /\ selected' \subseteq selected \cup items
      /\ UNCHANGED <<queryVars, items, total, shown, failed, bulkVars, callVars, row, assigned>>
  BY DEF Tick, TickAll, ClearTicks
<1>2. ListTypeOK'  BY <1>1 DEF ListTypeOK, queryVars, bulkVars, callVars
<1>3. TicksAreListed' /\ BulkHasTarget'  BY <1>1 DEF TicksAreListed, BulkHasTarget, bulkVars
<1>4. /\ UNCHANGED <<filters, debounced, sort, page, items, total, shown, failed, callVars>>
      /\ typed' = debounced' => typed' = filters.text
  BY <1>1 DEF queryVars, TextIsSearched
<1> HIDE DEF ListInv
<1> QED  BY <1>2, <1>3, <1>4, LoadsStay

LEMMA TypingKeepsIt ==
  ASSUME ListInv, NEW t \in Texts \cup {None}, Type(t)
  PROVE  ListInv'
<1> USE DEF ListInv, Type
<1>1. ListTypeOK'  BY DEF ListTypeOK, shownVars, bulkVars, callVars
<1>2. TicksAreListed' /\ BulkHasTarget'
  BY DEF TicksAreListed, BulkHasTarget, bulkVars, shownVars
<1>3. /\ UNCHANGED <<filters, debounced, sort, page, items, total, shown, failed, callVars>>
      /\ typed' = debounced' => typed' = filters.text
  BY DEF shownVars, TextIsSearched
<1> HIDE DEF ListInv, Type
<1> QED  BY <1>1, <1>2, <1>3, LoadsStay

LEMMA BulkKeepsIt ==
  ASSUME ListInv,
         \/ OpenModal \/ CloseModal \/ (\E to \in BulkTargets \cup {Assign} : SendBulk(to))
         \/ ApiWritesBulk \/ BulkAnswers \/ BulkFails
  PROVE  ListInv'
<1> USE DEF ListInv
<1>1. /\ UNCHANGED <<queryVars, items, total, shown, failed, callVars>>
      /\ selected' \in {selected, {}}
  BY DEF OpenModal, CloseModal, SendBulk, ApiWritesBulk, BulkAnswers, BulkFails, shownVars
<1>2. modal' \in {"none", Assign, "status"}
  BY DEF OpenModal, CloseModal, SendBulk, ApiWritesBulk, BulkAnswers, BulkFails, ListTypeOK
<1>3. /\ bulk' \in [ids : SUBSET Proposals, to : BulkTargets \cup {Assign, None},
                   at : {"none", "sent", "written"}]
      /\ BulkHasTarget'
  <2>1. NoBulk \in [ids : SUBSET Proposals, to : BulkTargets \cup {Assign, None},
                    at : {"none", "sent", "written"}] /\ NoBulk.at = "none"
    BY DEF NoBulk
  <2>2. CASE OpenModal \/ CloseModal
    BY <2>2 DEF OpenModal, CloseModal, ListTypeOK, BulkHasTarget
  <2>3. CASE \E to \in BulkTargets \cup {Assign} : SendBulk(to)
    BY <2>3 DEF SendBulk, ListTypeOK, BulkHasTarget
  <2>4. CASE ApiWritesBulk
    BY <2>4 DEF ApiWritesBulk, ListTypeOK, BulkHasTarget
  <2>5. CASE BulkAnswers \/ BulkFails
    BY <2>1, <2>5 DEF BulkAnswers, BulkFails, BulkHasTarget
  <2> QED  BY <2>2, <2>3, <2>4, <2>5
<1>4. row' \in [Proposals -> Statuses] /\ assigned' \subseteq Proposals
  <2>1. CASE ApiWritesBulk
    <3>1. bulk.to # Assign => bulk.to \in Statuses
      BY <2>1, ListAssumption DEF ApiWritesBulk, BulkHasTarget
    <3>2. bulk.ids \subseteq Proposals  BY DEF ListTypeOK
    <3> QED  BY <2>1, <3>1, <3>2 DEF ApiWritesBulk, ListTypeOK
  <2>2. CASE ~ApiWritesBulk
    BY <2>2 DEF OpenModal, CloseModal, SendBulk, BulkAnswers, BulkFails, ListTypeOK
  <2> QED  BY <2>1, <2>2
<1>5. ListTypeOK'  BY <1>1, <1>2, <1>3, <1>4 DEF ListTypeOK, queryVars, callVars
<1>6. TicksAreListed'  BY <1>1 DEF TicksAreListed
<1>7. /\ UNCHANGED <<filters, debounced, sort, page, items, total, shown, failed, callVars>>
      /\ typed' = debounced' => typed' = filters.text
  BY <1>1 DEF queryVars, TextIsSearched
<1> HIDE DEF ListInv
<1> QED  BY <1>3, <1>5, <1>6, <1>7, LoadsStay

LEMMA MoveKeepsIt ==
  ASSUME ListInv, NEW p \in Proposals, NEW s \in Statuses, RowMoves(p, s)
  PROVE  ListInv'
<1> USE DEF ListInv, RowMoves, queryVars, shownVars, bulkVars, callVars
<1>1. ListTypeOK'  BY DEF ListTypeOK
<1>2. TicksAreListed' /\ BulkHasTarget'  BY DEF TicksAreListed, BulkHasTarget
<1>3. typed' = debounced' => typed' = filters.text  BY DEF TextIsSearched
<1>4. UNCHANGED <<filters, debounced, sort, page, items, total, shown, failed, callVars>>
  OBVIOUS
<1> HIDE DEF ListInv, RowMoves
<1> QED  BY <1>1, <1>2, <1>3, <1>4, LoadsStay

(* A list as its URL opens it, and one that is not open. *)
LEMMA ListStarts ==
  ASSUME ListInit
  PROVE  ListInv
<1> USE DEF ListInit
<1>1. PICK u \in Urls :
        /\ filters = Opened(u).f /\ page = Opened(u).p
        /\ typed = u.text /\ debounced = u.text
        /\ calls = {FirstLoad(u)}
  OBVIOUS
<1>2. u.status \in StatusFilters /\ u.text \in Texts \cup {None} /\ u.page \in Nat \ {0}
  BY DEF Urls
<1>3. filters = [status |-> u.status, text |-> u.text] /\ page = u.page
  BY <1>1 DEF Opened
<1>4. filters \in Filters  BY <1>2, <1>3 DEF Filters
<1>5. Query = QueryOf(Opened(u).f, FirstSort, Opened(u).p) /\ Query \in Queries
  BY <1>1, <1>2, <1>3, <1>4, QueryType DEF Query, Filters
<1>6. FirstLoad(u) \in Call(1) /\ FirstLoad(u).n = 1 /\ FirstLoad(u).q = Query
  <2>1. NoRows.ids \subseteq Proposals /\ NoRows.total \in Nat  BY DEF NoRows
  <2> QED  BY <2>1, <1>5, LoadType DEF FirstLoad
<1>7. ListTypeOK
  <2>1. NoBulk \in [ids : SUBSET Proposals, to : BulkTargets \cup {Assign, None},
                    at : {"none", "sent", "written"}]
    BY DEF NoBulk
  <2>2. calls \subseteq Call(sent)  BY <1>1, <1>6
  <2>3. sort \in Sorts  BY ListAssumption
  <2> QED  BY <2>1, <2>2, <2>3, <1>1, <1>2, <1>3, <1>4 DEF ListTypeOK, Filters, Call
<1>8. LastLoadIsOfQuery  BY <1>1, <1>6 DEF LastLoadIsOfQuery, NoLoad
<1>9. TextIsSearched /\ TicksAreListed /\ BulkHasTarget
  BY <1>1, <1>3 DEF TextIsSearched, TicksAreListed, BulkHasTarget, NoBulk
<1> QED  BY <1>7, <1>8, <1>9, ListShowsIt DEF ListInv

LEMMA ListKeepsIt ==
  ASSUME ListInv, ListNext \/ UNCHANGED listVars
  PROVE  ListInv'
<1>1. CASE \/ (\E S \in StatusFilters : TickStatus(S)) \/ RemoveText \/ ClearFilters
  <2>1. filters \in Filters  BY DEF ListInv, ListTypeOK, Filters
  <2>2. CASE \E S \in StatusFilters : TickStatus(S)
    <3>1. PICK S \in StatusFilters : FiltersBecome([filters EXCEPT !.status = S])
      BY <2>2 DEF TickStatus
    <3>2. [filters EXCEPT !.status = S] \in Filters  BY <2>1 DEF Filters
    <3> QED  BY <3>1, <3>2, FiltersKeepIt
  <2>3. CASE RemoveText
    <3>1. [filters EXCEPT !.text = None] \in Filters  BY <2>1 DEF Filters
    <3> QED  BY <2>3, <3>1, FiltersKeepIt DEF RemoveText
  <2>4. CASE ClearFilters
    <3>1. NoFilter \in Filters  BY DEF Filters, NoFilter
    <3> QED  BY <2>4, <3>1, FiltersKeepIt DEF ClearFilters
  <2> QED  BY <1>1, <2>2, <2>3, <2>4
<1>2. CASE \E t \in Texts \cup {None} : Type(t)  BY <1>2, TypingKeepsIt
<1>3. CASE TypingSettles  BY <1>3, SettlingKeepsIt
<1>4. CASE \E s \in Sorts : SortBy(s)  BY <1>4, SortKeepsIt
<1>5. CASE TurnPage  BY <1>5, TurnKeepsIt
<1>6. ASSUME NEW c \in calls, ApiLists(c) \/ ListAnswers(c) \/ LoadFails(c) PROVE ListInv'
  <2>1. CASE LoadFails(c)  BY <2>1, LoadsEnd DEF LoadFails
  <2> QED  BY <1>6, <2>1, ReadKeepsIt, AnswerKeepsIt
<1>7. CASE (\E p \in Proposals : Tick(p)) \/ TickAll \/ ClearTicks  BY <1>7, TicksKeepIt
<1>8. CASE \/ OpenModal \/ CloseModal \/ (\E to \in BulkTargets \cup {Assign} : SendBulk(to))
           \/ ApiWritesBulk \/ BulkAnswers \/ BulkFails
  BY <1>8, BulkKeepsIt
<1>9. CASE \E p \in Proposals, s \in Statuses : RowMoves(p, s)  BY <1>9, MoveKeepsIt
<1>10. CASE UNCHANGED listVars
  <2>1. calls' \subseteq calls /\ failed' \in BOOLEAN
    BY <1>10 DEF listVars, callVars, shownVars, ListInv, ListTypeOK
  <2> QED  BY <2>1, <1>10, LoadsEnd DEF listVars, callVars, shownVars
<1> QED
  BY <1>1, <1>2, <1>3, <1>4, <1>5, <1>6, <1>7, <1>8, <1>9, <1>10 DEF ListNext

(* A bulk action takes the ticks as they are, and a tick is on a listed row. *)
LEMMA BulkTakesTicks ==
  ASSUME ListInv, ListNext \/ UNCHANGED listVars, bulk.at = "none", bulk'.at = "sent"
  PROVE  bulk'.ids \subseteq items
<1>1. CASE \E to \in BulkTargets \cup {Assign} : SendBulk(to)
  BY <1>1 DEF SendBulk, ListInv, TicksAreListed
<1>2. CASE ApiWritesBulk \/ BulkAnswers \/ BulkFails
  BY <1>2 DEF ApiWritesBulk, BulkAnswers, BulkFails
<1>3. CASE bulk' = bulk  BY <1>3
<1> QED
  BY <1>1, <1>2, <1>3 DEF ListNext, listVars, bulkVars, TickStatus, RemoveText, ClearFilters,
     FiltersBecome, Type, TypingSettles, SortBy, TurnPage, ApiLists, ListAnswers, LoadFails,
     Tick, TickAll, ClearTicks, OpenModal, CloseModal, RowMoves

-----------------------------------------------------------------------------
(* The dossier *)

LEMMA SentAction ==
  ASSUME NEW a \in Actions, NEW s \in Stages
  PROVE  /\ [a EXCEPT !.at = s] \in Actions
         /\ [a EXCEPT !.at = s].at = s /\ [a EXCEPT !.at = s].kind = a.kind
<1>1. CASE a \in [kind : {"none", "other"}, at : Stages]  BY <1>1 DEF Actions
<1>2. CASE a \in [kind : {"data"}, at : Stages, payload : [Fields -> Entries],
                  typedIn : SUBSET Fields, seen : Versions]
  BY <1>2 DEF Actions
<1>3. CASE a \in [kind : {"reading"}, at : Stages, id : Nat, value : Entries, seen : Nat]
  BY <1>3 DEF Actions
<1> QED  BY <1>1, <1>2, <1>3 DEF Actions

LEMMA IdleIsAction ==
  Idle \in Actions /\ Idle.kind = "none" /\ Idle.at = "none"
  BY DEF Idle, Actions, Stages

LEMMA ActionTypes ==
  ASSUME action \in Actions
  PROVE  /\ action.kind \in {"none", "other", "data", "reading"} /\ action.at \in Stages
         /\ action.kind = "data" =>
              action \in [kind : {"data"}, at : Stages, payload : [Fields -> Entries],
                          typedIn : SUBSET Fields, seen : Versions]
         /\ action.kind = "reading" =>
              action \in [kind : {"reading"}, at : Stages, id : Nat, value : Entries, seen : Nat]
  BY DEF Actions

LEMMA ViewerShowsIt ==
  ASSUME ViewerIsSound
  PROVE  UrlIsOfActiveDoc
  BY DEF ViewerIsSound, UrlIsOfActiveDoc

(* Reads age well: what others write makes newer versions. *)
LEMMA ReadsStay ==
  ASSUME DossierTypeOK, UNCHANGED <<data, version>>,
         NEW f \in Fields, NEW v, NEW d, IsAsRead(f, v, d)
  PROVE  IsAsRead(f, v, d)'
  BY DEF IsAsRead

-----------------------------------------------------------------------------
(* The dossier is loaded *)

LEMMA LoadingKeepsIt ==
  ASSUME DossierInv, ApiReads
  PROVE  DossierInv'
<1> USE DEF DossierInv, dataVars, actionVars, viewVars
<1>1. /\ UNCHANGED <<dataVars, details, form, typedIn, ocrEdit, actionVars, viewVars>>
      /\ load' = [at |-> "read", d |-> GetById] /\ load.at = "sent"
  BY DEF ApiReads
<1>2. load'.at = "read" /\ load'.d.data = data /\ load'.d.version = version
      /\ load'.d.readings = readings
  BY <1>1 DEF GetById
<1>3. DossierTypeOK'  BY <1>1, <1>2 DEF DossierTypeOK
<1>4. LoadIsSound'
  <2>1. action'.at = "loading" \/ (action'.at = "none" /\ details' = Nothing)
    BY <1>1 DEF LoadIsSound
  <2>2. \A f \in Fields : IsAsRead(f, version[f], data[f])'
    BY <1>1 DEF IsAsRead, DossierTypeOK, Versions
  <2> QED  BY <2>1, <2>2, <1>1, <1>2 DEF LoadIsSound, DossierTypeOK, IsAsRead
<1>5. FormIsSound' /\ OcrIsSound' /\ ActionIsSound' /\ ViewerIsSound'
  BY <1>1 DEF FormIsSound, OcrIsSound, ActionIsSound, ViewerIsSound, IsOfItsTime, IsAsRead
<1>6. UrlIsOfActiveDoc'  BY <1>5, ViewerShowsIt, PTL
<1> QED  BY <1>3, <1>4, <1>5, <1>6

LEMMA EndsType ==
  ASSUME DossierTypeOK, EndsWithLoad
  PROVE  /\ action' \in Actions /\ action'.at # "loading"
         /\ action' # action => action' = Idle
  BY IdleIsAction DEF DossierTypeOK, EndsWithLoad

LEMMA LoadedKeepsIt ==
  ASSUME DossierInv, LoadAnswers
  PROVE  DossierInv'
<1> USE DEF DossierInv, dataVars, viewVars
<1> DEFINE d == load.d
<1>1. /\ d.data \in [Fields -> Entries] /\ d.version \in Versions
      /\ d.readings \in Seq(Entries) /\ Len(d.readings) <= Len(readings)
      /\ \A f \in Fields : IsAsRead(f, d.version[f], d.data[f])
  BY DEF LoadIsSound, LoadAnswers
<1>2. /\ details' = InSight(d) /\ form' = FilledForm(d) /\ typedIn' = {}
      /\ ocrEdit' = FilledOcr(d, ocrEdit) /\ load' = Idle /\ EndsWithLoad
      /\ UNCHANGED <<dataVars, actions, refused, viewVars>>
  BY DEF LoadAnswers
<1>3. action'.at = "none" /\ action' \in Actions
  <2>1. action.at = "loading" \/ action.at = "none"  BY DEF LoadIsSound, LoadAnswers
  <2> QED  BY <2>1, <1>2, EndsType, IdleIsAction DEF EndsWithLoad
<1> HIDE DEF d
<1>4. /\ details' \in Sights
      /\ details'.version = d.version /\ details'.readings = Len(d.readings)
  BY <1>1, <1>2 DEF InSight, Sights
<1>5. /\ form' \in [Fields -> Entries]
      /\ \A f \in Fields : form'[f] = IF f \in Contact THEN Blank ELSE d.data[f]
  BY <1>1, <1>2 DEF FilledForm, Entries
<1>6. /\ ocrEdit' = Nothing \/ ocrEdit' \in [id : Nat, value : Entries]
      /\ ocrEdit' # Nothing => ocrEdit'.id = Len(d.readings)
  <2>1. CASE d.readings = <<>>  BY <2>1, <1>2 DEF FilledOcr
  <2>2. CASE d.readings # <<>> /\ ocrEdit # Nothing /\ ocrEdit.id = Len(d.readings)
    BY <2>2, <1>2 DEF FilledOcr, DossierTypeOK
  <2>3. CASE d.readings # <<>> /\ ~(ocrEdit # Nothing /\ ocrEdit.id = Len(d.readings))
    <3>1. ocrEdit' = [id |-> Len(d.readings), value |-> d.readings[Len(d.readings)]]
      BY <2>3, <1>2 DEF FilledOcr
    <3>2. Len(d.readings) \in Nat /\ d.readings[Len(d.readings)] \in Entries  BY <2>3, <1>1
    <3> QED  BY <3>1, <3>2
  <2> QED  BY <2>1, <2>2, <2>3
<1>7. load'.at = "none"  BY <1>2 DEF Idle
<1>8. DossierTypeOK'  BY <1>2, <1>3, <1>4, <1>5, <1>6, <1>7 DEF DossierTypeOK
<1>9. LoadIsSound'  BY <1>7 DEF LoadIsSound
<1>10. FormIsSound'
  <2>1. \A f \in Fields :
          /\ d.version[f] <= version'[f]
          /\ d.version[f] = version'[f] => d.data[f] = data'[f]
    BY <1>1, <1>2 DEF IsAsRead
  <2>2. typedIn' = {}  BY <1>2
  <2>3. \A f \in Fields :
          IF f \in Contact THEN form'[f] = Blank
          ELSE /\ details'.version[f] <= version'[f]
               /\ details'.version[f] = version'[f] => form'[f] = data'[f]
    <3> TAKE f \in Fields
    <3>1. CASE f \in Contact  BY <3>1, <1>5
    <3>2. CASE f \notin Contact
      <4>1. form'[f] = d.data[f] /\ details'.version[f] = d.version[f]  BY <3>2, <1>4, <1>5
      <4> QED  BY <4>1, <2>1, <3>2
    <3> QED  BY <3>1, <3>2
  <2> QED  BY <2>3, <1>4 DEF FormIsSound, IsOfItsTime, IsAsRead
<1>11. OcrIsSound'  BY <1>1, <1>2, <1>4, <1>6 DEF OcrIsSound
<1>12. ActionIsSound'  BY <1>3 DEF ActionIsSound
<1>13. ViewerIsSound'  BY <1>2 DEF ViewerIsSound
<1>14. UrlIsOfActiveDoc'  BY <1>13, ViewerShowsIt, PTL
<1> QED  BY <1>8, <1>9, <1>10, <1>11, <1>12, <1>13, <1>14

LEMMA FailedLoadKeepsIt ==
  ASSUME DossierInv, DetailsFail
  PROVE  DossierInv'
<1> USE DEF DossierInv, dataVars, viewVars
<1>1. /\ load' = Idle /\ EndsWithLoad /\ load.at # "none"
      /\ UNCHANGED <<dataVars, details, form, typedIn, ocrEdit, actions, refused, viewVars>>
  BY DEF DetailsFail
<1>2. action'.at = "none" /\ action' \in Actions
  <2>1. action.at = "loading" \/ action.at = "none"  BY <1>1 DEF LoadIsSound
  <2> QED  BY <2>1, <1>1, EndsType, IdleIsAction DEF EndsWithLoad
<1>3. load'.at = "none"  BY <1>1 DEF Idle
<1>4. DossierTypeOK'  BY <1>1, <1>2, <1>3 DEF DossierTypeOK
<1>5. LoadIsSound'  BY <1>3 DEF LoadIsSound
<1>6. FormIsSound' /\ OcrIsSound'  BY <1>1 DEF FormIsSound, OcrIsSound, IsOfItsTime, IsAsRead
<1>7. ActionIsSound'  BY <1>2 DEF ActionIsSound
<1>8. ViewerIsSound'  BY <1>1 DEF ViewerIsSound
<1>9. UrlIsOfActiveDoc'  BY <1>8, ViewerShowsIt, PTL
<1> QED  BY <1>4, <1>5, <1>6, <1>7, <1>8, <1>9

-----------------------------------------------------------------------------
(* The analyst types and sends *)

LEMMA FieldKeepsIt ==
  ASSUME DossierInv, NEW f \in Fields, NEW v \in {Mine, Blank}, EditField(f, v)
  PROVE  DossierInv'
<1> USE DEF DossierInv, dataVars, actionVars, viewVars, EditField
<1>1. v \in Entries  BY DEF Entries, Values
<1>2. form' \in [Fields -> Entries] /\ \A g \in Fields \ {f} : form'[g] = form[g]
  BY <1>1 DEF DossierTypeOK
<1>3. typedIn' = typedIn \cup {f}  OBVIOUS
<1>4. DossierTypeOK'  BY <1>2, <1>3 DEF DossierTypeOK
<1>5. LoadIsSound' /\ OcrIsSound'  BY DEF LoadIsSound, OcrIsSound, IsAsRead
<1>6. FormIsSound'
  BY <1>2, <1>3 DEF FormIsSound, IsOfItsTime, IsAsRead
<1>7. ActionIsSound'  BY <1>3 DEF ActionIsSound, IsOfItsTime, IsAsRead
<1>8. ViewerIsSound'  BY DEF ViewerIsSound
<1>9. UrlIsOfActiveDoc'  BY <1>8, ViewerShowsIt, PTL
<1> QED  BY <1>4, <1>5, <1>6, <1>7, <1>8, <1>9

LEMMA CorrectionKeepsIt ==
  ASSUME DossierInv, NEW v \in {Mine, Blank}, EditReading(v)
  PROVE  DossierInv'
<1> USE DEF DossierInv, dataVars, actionVars, viewVars, EditReading
<1>1. v \in Entries  BY DEF Entries, Values
<1>2. ocrEdit' \in [id : Nat, value : Entries] /\ ocrEdit'.id = ocrEdit.id
  BY <1>1 DEF DossierTypeOK
<1>3. DossierTypeOK'  BY <1>2 DEF DossierTypeOK
<1>4. OcrIsSound'  BY <1>2 DEF OcrIsSound
<1>5. LoadIsSound' /\ FormIsSound' /\ ActionIsSound'
  BY DEF LoadIsSound, FormIsSound, ActionIsSound, IsOfItsTime, IsAsRead
<1>6. ViewerIsSound'  BY DEF ViewerIsSound
<1>7. UrlIsOfActiveDoc'  BY <1>6, ViewerShowsIt, PTL
<1> QED  BY <1>3, <1>4, <1>5, <1>6, <1>7

(* Whatever the action: only its own soundness is to be shown. *)
LEMMA ActionMoves ==
  ASSUME DossierInv, action' \in Actions, actions' \in Nat, ActionIsSound',
         \/ load.at = "none" /\ load' = load
         \/ load'.at = "sent" /\ action'.at = "loading",
         UNCHANGED <<dataVars, details, form, typedIn, ocrEdit, viewVars>>
  PROVE  DossierInv'
<1> USE DEF DossierInv, dataVars, viewVars
<1>1. DossierTypeOK'  BY DEF DossierTypeOK
<1>2. LoadIsSound'  BY DEF LoadIsSound
<1>3. FormIsSound' /\ OcrIsSound'  BY DEF FormIsSound, OcrIsSound, IsOfItsTime, IsAsRead
<1>4. ViewerIsSound'  BY DEF ViewerIsSound
<1>5. UrlIsOfActiveDoc'  BY <1>4, ViewerShowsIt, PTL
<1> QED  BY <1>1, <1>2, <1>3, <1>4, <1>5

LEMMA SendingKeepsIt ==
  ASSUME DossierInv, SaveData \/ SaveReading \/ SendOther
  PROVE  DossierInv'
<1>1. ASSUME NEW a \in Actions, Send(a), ActionIsSound'
      PROVE  DossierInv'
  <2>1. action' \in Actions /\ actions' \in Nat
    BY <1>1 DEF Send, DossierInv, DossierTypeOK
  <2>2. load.at = "none" /\ load' = load
    BY <1>1 DEF Send, Sending, DossierInv, LoadIsSound, formVars
  <2>3. UNCHANGED <<dataVars, details, form, typedIn, ocrEdit, viewVars>>
    BY <1>1 DEF Send, formVars
  <2> QED  BY <1>1, <2>1, <2>2, <2>3, ActionMoves
<1>2. CASE SaveData
  <2> DEFINE a == [kind |-> "data", at |-> "sent", payload |-> form, typedIn |-> typedIn,
                   seen |-> details.version]
  <2>1. form # Nothing /\ Send(a)  BY <1>2 DEF SaveData
  <2>2. details.version \in Versions
    BY <2>1 DEF DossierInv, FormIsSound, Sights
  <2>3. a \in Actions
    BY <2>1, <2>2 DEF DossierInv, DossierTypeOK, Actions, Stages
  <2>4. /\ a.kind = "data" /\ a.at = "sent" /\ a.payload = form /\ a.typedIn = typedIn
        /\ a.seen = details.version
    OBVIOUS
  <2> HIDE DEF a
  <2>5. action' = a /\ UNCHANGED <<dataVars, details, form, typedIn>>
    BY <2>1 DEF Send, formVars
  <2>6. ActionIsSound'
    BY <2>1, <2>4, <2>5 DEF ActionIsSound, DossierInv, FormIsSound, IsOfItsTime, IsAsRead, dataVars
  <2> QED  BY <2>1, <2>3, <2>6, <1>1
<1>3. CASE SaveReading
  <2> DEFINE a == [kind |-> "reading", at |-> "sent", id |-> ocrEdit.id,
                   value |-> ocrEdit.value, seen |-> details.readings]
  <2>1. ocrEdit # Nothing /\ details # Nothing /\ Send(a)  BY <1>3 DEF SaveReading, Send
  <2>2. /\ ocrEdit \in [id : Nat, value : Entries] /\ details.readings \in Nat
        /\ ocrEdit.id = details.readings /\ details.readings <= Len(readings)
    BY <2>1 DEF DossierInv, DossierTypeOK, OcrIsSound, Sights
  <2>3. a \in Actions  BY <2>2 DEF Actions, Stages
  <2>4. a.kind = "reading" /\ a.at = "sent" /\ a.id = ocrEdit.id /\ a.seen = details.readings
    OBVIOUS
  <2> HIDE DEF a
  <2>5. action' = a /\ UNCHANGED dataVars  BY <2>1 DEF Send
  <2>6. ActionIsSound'  BY <2>2, <2>4, <2>5 DEF ActionIsSound, dataVars
  <2> QED  BY <2>1, <2>3, <2>6, <1>1
<1>4. CASE SendOther
  <2> DEFINE a == [kind |-> "other", at |-> "sent"]
  <2>1. Send(a)  BY <1>4 DEF SendOther
  <2>2. a \in Actions /\ a.kind = "other" /\ a.at = "sent"  BY DEF Actions, Stages
  <2> HIDE DEF a
  <2>3. action' = a  BY <2>1 DEF Send
  <2>4. ActionIsSound'  BY <2>2, <2>3 DEF ActionIsSound
  <2> QED  BY <2>1, <2>2, <2>4, <1>1
<1> QED  BY <1>2, <1>3, <1>4

(* A save leaves alone what was not typed in, unless others wrote it since  *)
(* it was read; so what the form was filled with stays of its time.         *)
LEMMA UpdateKeepsIt ==
  ASSUME DossierInv, ApiUpdates
  PROVE  DossierInv'
<1> USE DEF DossierInv, formVars, viewVars
<1> DEFINE payload == action.payload
<1>1. /\ action.kind = "data" /\ action.at = "sent"
      /\ data' = Updated(data, payload) /\ action' = [action EXCEPT !.at = "written"]
      /\ UNCHANGED <<version, readings, writes, formVars, actions, refused, viewVars>>
  BY DEF ApiUpdates
<1>2. action \in Actions  BY DEF DossierTypeOK
<1>3. payload \in [Fields -> Entries]  BY <1>1, <1>2, ActionTypes
<1>4. action' \in Actions /\ action'.at = "written"
  BY <1>1, <1>2, SentAction DEF Stages
<1> HIDE DEF payload
<1>5. /\ data' \in [Fields -> Entries]
      /\ \A f \in Fields : data'[f] = IF payload[f] = Blank THEN data[f] ELSE payload[f]
  BY <1>1, <1>3 DEF Updated, DossierTypeOK
<1>6. load.at = "none"  BY <1>1 DEF LoadIsSound
<1>7. DossierTypeOK'  BY <1>1, <1>4, <1>5 DEF DossierTypeOK
<1>8. LoadIsSound'  BY <1>1, <1>6 DEF LoadIsSound
<1>9. FormIsSound'
  <2> SUFFICES ASSUME form # Nothing, NEW f \in Fields \ typedIn, f \notin Contact
               PROVE  form[f] # data'[f] => details.version[f] # version[f]
    BY <1>1 DEF FormIsSound, IsOfItsTime, IsAsRead
  <2>1. /\ f \notin action.typedIn /\ action.seen = details.version
        /\ IsAsRead(f, details.version[f], form[f])
        /\ IsAsRead(f, details.version[f], payload[f])
    BY <1>1 DEF FormIsSound, ActionIsSound, IsOfItsTime, payload
  <2> QED  BY <2>1, <1>5 DEF IsAsRead
<1>10. OcrIsSound'  BY <1>1 DEF OcrIsSound
<1>11. ActionIsSound'  BY <1>4 DEF ActionIsSound
<1>12. ViewerIsSound'  BY <1>1 DEF ViewerIsSound
<1>13. UrlIsOfActiveDoc'  BY <1>12, ViewerShowsIt, PTL
<1> QED  BY <1>7, <1>8, <1>9, <1>10, <1>11, <1>12, <1>13

(* The readings others see: as many or more. *)
LEMMA ReadingsMove ==
  ASSUME DossierInv, readings' \in Seq(Entries), Len(readings') <= MaxReadings,
         Len(readings) <= Len(readings'), writes' \in 0..MaxWrites, writes <= writes',
         \/ action' = action
         \/ action' \in Actions /\ action'.at = "written" /\ load.at = "none",
         UNCHANGED <<data, version, formVars, actions, viewVars>>
  PROVE  DossierInv'
<1> USE DEF DossierInv, formVars, viewVars
<1>1. Len(readings) \in Nat /\ Len(readings') \in Nat  BY DEF DossierTypeOK
<1>2. DossierTypeOK'
  <2>1. \A f \in Fields : version[f] <= writes'  BY DEF DossierTypeOK, Versions
  <2> QED  BY <2>1 DEF DossierTypeOK
<1>3. LoadIsSound'
  <2>1. load.at = "read" => load.d.readings \in Seq(Entries) /\ Len(load.d.readings) \in Nat
    BY DEF LoadIsSound
  <2> QED  BY <2>1, <1>1 DEF LoadIsSound, IsAsRead
<1>4. FormIsSound'  BY DEF FormIsSound, IsOfItsTime, IsAsRead
<1>5. OcrIsSound'  BY <1>1 DEF OcrIsSound, DossierTypeOK, Sights
<1>6. ActionIsSound'
  <2>1. CASE action' = action
    <3>1. action.kind = "reading" => action.seen \in Nat
      BY ActionTypes DEF DossierTypeOK
    <3> QED  BY <2>1, <3>1, <1>1 DEF ActionIsSound, IsOfItsTime, IsAsRead
  <2>2. CASE action'.at = "written"  BY <2>2 DEF ActionIsSound
  <2> QED  BY <2>1, <2>2
<1>7. ViewerIsSound'  BY DEF ViewerIsSound
<1>8. UrlIsOfActiveDoc'  BY <1>7, ViewerShowsIt, PTL
<1> QED  BY <1>2, <1>3, <1>4, <1>5, <1>6, <1>7, <1>8

LEMMA ReadingUpdateKeepsIt ==
  ASSUME DossierInv, ApiUpdatesReading
  PROVE  DossierInv'
<1> USE DEF DossierInv, ApiUpdatesReading
<1>1. action \in Actions /\ action.value \in Entries  BY ActionTypes DEF DossierTypeOK
<1>2. action' \in Actions /\ action'.at = "written"  BY <1>1, SentAction DEF Stages
<1>3. load.at = "none"  BY DEF LoadIsSound
<1>4. readings' \in Seq(Entries) /\ Len(readings') = Len(readings)
  BY <1>1 DEF DossierTypeOK
<1>5. Len(readings') <= MaxReadings /\ writes' \in 0..MaxWrites /\ writes <= writes'
      /\ Len(readings) <= Len(readings')
  BY <1>4 DEF DossierTypeOK
<1>6. UNCHANGED <<data, version, formVars, actions, viewVars>>  OBVIOUS
<1> HIDE DEF DossierInv, ApiUpdatesReading
<1> QED  BY <1>2, <1>3, <1>4, <1>5, <1>6, ReadingsMove

LEMMA ProgressKeepsIt ==
  ASSUME DossierInv, ApiDoesOther \/ ActionAnswers \/ ActionFails
  PROVE  DossierInv'
<1> USE DEF DossierInv
<1>1. action \in Actions /\ actions' \in Nat
  BY DEF DossierTypeOK, ApiDoesOther, ActionAnswers, ActionFails
<1>2. load.at = "none"
  BY DEF LoadIsSound, ApiDoesOther, ActionAnswers, ActionFails
<1>3. UNCHANGED <<dataVars, details, form, typedIn, ocrEdit, viewVars>>
  BY DEF ApiDoesOther, ActionAnswers, ActionFails, formVars
<1>4. CASE ApiDoesOther
  <2>1. action' \in Actions /\ action'.at = "written" /\ load' = load
    BY <1>1, <1>4, SentAction DEF ApiDoesOther, Stages, formVars
  <2>2. ActionIsSound'  BY <2>1 DEF ActionIsSound
  <2> HIDE DEF DossierInv
  <2> QED  BY <2>1, <2>2, <1>1, <1>2, <1>3, ActionMoves
<1>5. CASE ActionAnswers /\ action.kind = "reading"
  <2>1. action' \in Actions /\ action'.at = "loading"
    BY <1>1, <1>5, SentAction DEF ActionAnswers, Stages
  <2>2. load'.at = "sent"  BY <1>5 DEF ActionAnswers
  <2>3. ActionIsSound'  BY <2>1 DEF ActionIsSound
  <2> HIDE DEF DossierInv
  <2> QED  BY <2>1, <2>2, <2>3, <1>1, <1>3, ActionMoves
<1>6. CASE ActionFails \/ (ActionAnswers /\ action.kind # "reading")
  <2>1. action' = Idle /\ load' = load  BY <1>6 DEF ActionFails, ActionAnswers, formVars
  <2>2. action' \in Actions /\ action'.at = "none"  BY <2>1, IdleIsAction
  <2>3. ActionIsSound'  BY <2>2 DEF ActionIsSound
  <2> HIDE DEF DossierInv
  <2> QED  BY <2>1, <2>2, <2>3, <1>1, <1>2, <1>3, ActionMoves
<1> QED  BY <1>4, <1>5, <1>6

LEMMA ReadingsKeepIt ==
  ASSUME DossierInv, OtherCorrects \/ NewReading
  PROVE  DossierInv'
<1> USE DEF DossierInv
<1>1. Others \in Entries /\ Given \in Entries  BY DEF Entries, Values
<1>2. readings' \in Seq(Entries)  BY <1>1 DEF OtherCorrects, NewReading, DossierTypeOK
<1>3. Len(readings') <= MaxReadings /\ Len(readings) <= Len(readings')
  BY DossierAssumption DEF OtherCorrects, NewReading, DossierTypeOK
<1>4. writes' \in 0..MaxWrites /\ writes <= writes'
  BY DossierAssumption DEF OtherCorrects, NewReading, DossierTypeOK
<1>5. action' = action /\ UNCHANGED <<data, version, formVars, actions, viewVars>>
  BY DEF OtherCorrects, NewReading, actionVars
<1> HIDE DEF DossierInv
<1> QED  BY <1>2, <1>3, <1>4, <1>5, ReadingsMove

LEMMA WriteKeepsIt ==
  ASSUME DossierInv, NEW f \in Fields, OtherWrites(f)
  PROVE  DossierInv'
<1> USE DEF DossierInv, formVars, actionVars, viewVars, OtherWrites
<1>1. /\ version[f] + 1 \in 0..MaxWrites /\ version \in Versions
      /\ \A g \in Fields : version[g] \in Nat
  BY DossierAssumption DEF DossierTypeOK, Versions
<1>2. /\ version' \in Versions /\ version'[f] = version[f] + 1
      /\ \A g \in Fields \ {f} : version'[g] = version[g]
  BY <1>1 DEF Versions
<1>3. /\ data' \in [Fields -> Entries]
      /\ \A g \in Fields \ {f} : data'[g] = data[g]
  BY DEF DossierTypeOK, Entries, Values
<1>4. DossierTypeOK'
  <2>1. writes' \in 0..MaxWrites /\ \A g \in Fields : version'[g] <= writes'
    BY <1>1, <1>2, DossierAssumption DEF DossierTypeOK
  <2> QED  BY <2>1, <1>2, <1>3 DEF DossierTypeOK
<1>5. ASSUME NEW g \in Fields, NEW v \in Nat, NEW d, IsAsRead(g, v, d)
      PROVE  v <= version'[g] /\ (v = version'[g] => d = data'[g])
  BY <1>1, <1>2, <1>3, <1>5 DEF IsAsRead
<1>6. LoadIsSound'
  <2>1. ASSUME load.at = "read", NEW g \in Fields PROVE load.d.version[g] \in Nat
    BY <2>1 DEF LoadIsSound, Versions
  <2>2. ASSUME load.at = "read", NEW g \in Fields
        PROVE  IsAsRead(g, load.d.version[g], load.d.data[g])
    BY <2>2 DEF LoadIsSound
  <2>3. ASSUME load.at = "read", NEW g \in Fields
        PROVE  /\ load.d.version[g] <= version'[g]
               /\ load.d.version[g] = version'[g] => load.d.data[g] = data'[g]
    BY <2>1, <2>2, <2>3, <1>5
  <2>4. load' = load /\ action' = action /\ details' = details /\ readings' = readings  OBVIOUS
  <2> HIDE DEF DossierInv, OtherWrites
  <2>5. LoadIsSound  BY DEF DossierInv
  <2> QED  BY <2>3, <2>4, <2>5 DEF LoadIsSound, IsAsRead
<1>7. FormIsSound'
  <2>1. ASSUME form # Nothing, NEW g \in Fields PROVE details.version[g] \in Nat
    BY <2>1 DEF FormIsSound, Sights, Versions
  <2> QED  BY <2>1, <1>5 DEF FormIsSound, IsOfItsTime, IsAsRead
<1>8. OcrIsSound'  BY DEF OcrIsSound
<1>9. ActionIsSound'
  <2>1. ASSUME action.kind = "data", NEW g \in Fields PROVE action.seen[g] \in Nat
    BY <2>1, ActionTypes DEF DossierTypeOK, Versions
  <2>2. ASSUME action.kind = "data", action.at = "sent",
               NEW g \in Fields \ action.typedIn, g \notin Contact
        PROVE  IsAsRead(g, action.seen[g], action.payload[g])
    BY <2>2 DEF ActionIsSound, IsOfItsTime
  <2>3. ASSUME action.kind = "data", action.at = "sent",
               NEW g \in Fields \ action.typedIn, g \notin Contact
        PROVE  /\ action.seen[g] <= version'[g]
               /\ action.seen[g] = version'[g] => action.payload[g] = data'[g]
    BY <2>1, <2>2, <2>3, <1>5
  <2>4. action' = action /\ details' = details /\ readings' = readings /\ typedIn' = typedIn
    OBVIOUS
  <2> HIDE DEF DossierInv, OtherWrites
  <2>5. ActionIsSound  BY DEF DossierInv
  <2> QED  BY <2>3, <2>4, <2>5 DEF ActionIsSound, IsOfItsTime, IsAsRead
<1>10. ViewerIsSound'  BY DEF ViewerIsSound
<1>11. UrlIsOfActiveDoc'  BY <1>10, ViewerShowsIt, PTL
<1> QED  BY <1>4, <1>6, <1>7, <1>8, <1>9, <1>10, <1>11

-----------------------------------------------------------------------------
(* The viewer *)

LEMMA ViewerMoves ==
  ASSUME DossierInv, ViewerIsSound', opened' \in Nat, overtook' \in BOOLEAN,
         {active', url'} \subseteq Docs \cup {Nothing},
         docCalls' \subseteq [n : 1..opened', doc : Docs],
         UNCHANGED <<dataVars, formVars, actionVars>>
  PROVE  DossierInv'
<1> USE DEF DossierInv, dataVars, formVars, actionVars
<1>1. DossierTypeOK'  BY DEF DossierTypeOK
<1>2. LoadIsSound' /\ FormIsSound' /\ OcrIsSound' /\ ActionIsSound'
  BY DEF LoadIsSound, FormIsSound, OcrIsSound, ActionIsSound, IsOfItsTime, IsAsRead
<1>3. UrlIsOfActiveDoc'  BY ViewerShowsIt, PTL
<1> QED  BY <1>1, <1>2, <1>3

LEMMA OpeningKeepsIt ==
  ASSUME DossierInv, NEW d \in Docs, OpenDoc(d)
  PROVE  DossierInv'
<1> USE DEF DossierInv, OpenDoc
<1>1. opened \in Nat /\ docCalls \subseteq [n : 1..opened, doc : Docs]  BY DEF DossierTypeOK
<1> DEFINE c == [n |-> opened + 1, doc |-> d]
<1>2. c \in [n : 1..opened', doc : Docs] /\ c.n = opened' /\ c.doc = d  BY <1>1
<1>3. docCalls' = docCalls \cup {c}  OBVIOUS
<1> HIDE DEF c
<1>4. docCalls' \subseteq [n : 1..opened', doc : Docs] /\ opened' \in Nat  BY <1>1, <1>2, <1>3
<1>5. \A b \in docCalls' : b.n = opened' => b.doc = d  BY <1>1, <1>2, <1>3
<1>6. c \in docCalls' /\ active' = d /\ url' = Nothing /\ overtook' = FALSE  BY <1>3
<1>7. ViewerIsSound'  BY <1>2, <1>5, <1>6 DEF ViewerIsSound
<1>8. {active', url'} \subseteq Docs \cup {Nothing} /\ UNCHANGED <<dataVars, formVars, actionVars>>
  BY <1>6
<1> HIDE DEF DossierInv, OpenDoc
<1> QED  BY <1>4, <1>6, <1>7, <1>8, ViewerMoves

LEMMA ClosingKeepsIt ==
  ASSUME DossierInv, CloseDoc
  PROVE  DossierInv'
<1> USE DEF DossierInv, CloseDoc
<1>1. ViewerIsSound'  BY DEF ViewerIsSound
<1>2. /\ opened' \in Nat /\ {active', url'} \subseteq Docs \cup {Nothing}
      /\ docCalls' \subseteq [n : 1..opened', doc : Docs] /\ overtook' \in BOOLEAN
      /\ UNCHANGED <<dataVars, formVars, actionVars>>
  BY DEF DossierTypeOK
<1> HIDE DEF DossierInv, CloseDoc
<1> QED  BY <1>1, <1>2, ViewerMoves

(* An answer or a failure: of the document that is open, or of an earlier   *)
(* one, which then overtook or is itself to be overwritten.                 *)
LEMMA UrlKeepsIt ==
  ASSUME DossierInv, NEW c \in docCalls, UrlAnswers(c) \/ UrlFails(c)
  PROVE  DossierInv'
<1> USE DEF DossierInv
<1>1. /\ docCalls' = docCalls \ {c} /\ url' \in {c.doc, Nothing}
      /\ overtook' = (overtook \/ (c.n < opened /\ \A o \in docCalls : o.n # opened))
      /\ UNCHANGED <<dataVars, formVars, actionVars, active, opened>>
  BY DEF UrlAnswers, UrlFails, Overtakes, UrlAfterFailure
<1>2. c.n \in 1..opened /\ c.doc \in Docs /\ opened \in Nat  BY DEF DossierTypeOK
<1>3. ViewerIsSound'
  <2> SUFFICES ASSUME active # Nothing
               PROVE  /\ \A b \in docCalls' : b.n = opened => b.doc = active
                      /\ (/\ url' # Nothing /\ ~overtook'
                          /\ \A b \in docCalls' : b.n # opened) => url' = active
    BY <1>1 DEF ViewerIsSound
  <2>1. \A b \in docCalls : b.n = opened => b.doc = active  BY DEF ViewerIsSound
  <2>2. CASE c.n = opened  BY <2>1, <2>2, <1>1
  <2>3. CASE c.n < opened
    <3>1. \A b \in docCalls' : b.n = opened => b.doc = active  BY <2>1, <1>1
    <3>2. ASSUME \A b \in docCalls' : b.n # opened PROVE overtook' = TRUE
      <4>1. \A o \in docCalls : o.n # opened  BY <3>2, <2>3, <1>1, <1>2
      <4> QED  BY <4>1, <2>3, <1>1
    <3> QED  BY <3>1, <3>2
  <2> QED  BY <2>2, <2>3, <1>2
<1>4. /\ opened' \in Nat /\ {active', url'} \subseteq Docs \cup {Nothing}
      /\ docCalls' \subseteq [n : 1..opened', doc : Docs] /\ overtook' \in BOOLEAN
  BY <1>1, <1>2 DEF DossierTypeOK
<1> HIDE DEF DossierInv
<1> QED  BY <1>1, <1>3, <1>4, ViewerMoves

-----------------------------------------------------------------------------
(* The dossier as a whole *)

LEMMA UnopenedIsSound ==
  ASSUME Unopened, data = [f \in Fields |-> Given], version = [f \in Fields |-> 0],
         readings \in {<<>>, <<Given>>}, writes = 0, load.at \in {"none", "sent"}
  PROVE  DossierInv
<1> USE DEF Unopened
<1>1. Given \in Entries  BY DEF Entries, Values
<1>2. data \in [Fields -> Entries] /\ version \in Versions /\ \A f \in Fields : version[f] = 0
  BY <1>1, DossierAssumption DEF Versions
<1>3. readings \in Seq(Entries)
  <2>1. <<>> \in Seq(Entries) /\ <<Given>> \in Seq(Entries)  BY <1>1
  <2> QED  BY <2>1
<1>4. action \in Actions /\ action.kind = "none" /\ action.at = "none"  BY IdleIsAction
<1>5. DossierTypeOK
  <2>1. writes \in 0..MaxWrites /\ \A f \in Fields : version[f] <= writes
    BY <1>2, DossierAssumption
  <2>2. /\ {active, url} \subseteq Docs \cup {Nothing}
        /\ docCalls \subseteq [n : 1..opened, doc : Docs]
    OBVIOUS
  <2>5. Len(readings) <= MaxReadings
    <3>1. MaxReadings \in Nat /\ MaxReadings >= 1  BY DossierAssumption
    <3>2. CASE readings = <<>>
      <4>1. Len(readings) = 0  BY <3>2
      <4> QED  BY <3>1, <4>1
    <3>3. CASE readings = <<Given>>
      <4>1. Len(readings) = 1  BY <3>3
      <4> QED  BY <3>1, <4>1
    <3> QED  BY <3>2, <3>3
  <2>3. overtook \in BOOLEAN /\ {actions, opened} \subseteq Nat
    <3>1. overtook \in BOOLEAN  OBVIOUS
    <3>2. actions = 0 /\ opened = 0  OBVIOUS
    <3> QED  BY <3>1, <3>2
  <2>4. details \in Sights \cup {Nothing} /\ form = Nothing /\ ocrEdit = Nothing /\ typedIn = {}
    OBVIOUS
  <2> HIDE DEF Unopened
  <2> QED  BY <2>1, <2>2, <2>3, <2>4, <2>5, <1>2, <1>3, <1>4 DEF DossierTypeOK
<1>6. LoadIsSound /\ FormIsSound /\ OcrIsSound /\ ActionIsSound /\ ViewerIsSound
  BY <1>4 DEF LoadIsSound, FormIsSound, OcrIsSound, ActionIsSound, ViewerIsSound
<1>7. UrlIsOfActiveDoc  BY <1>6, ViewerShowsIt
<1> QED  BY <1>5, <1>6, <1>7 DEF DossierInv

LEMMA DossierStays ==
  ASSUME DossierInv, UNCHANGED dossierVars
  PROVE  DossierInv'
<1> USE DEF DossierInv, dossierVars, dataVars, formVars, actionVars, viewVars
<1>1. ViewerIsSound'  BY DEF ViewerIsSound
<1>2. /\ opened' \in Nat /\ {active', url'} \subseteq Docs \cup {Nothing}
      /\ docCalls' \subseteq [n : 1..opened', doc : Docs] /\ overtook' \in BOOLEAN
      /\ UNCHANGED <<dataVars, formVars, actionVars>>
  BY DEF DossierTypeOK
<1> HIDE DEF DossierInv, dossierVars
<1> QED  BY <1>1, <1>2, ViewerMoves

LEMMA DossierKeepsIt ==
  ASSUME DossierInv, DossierNext
  PROVE  DossierInv'
<1>1. CASE ApiReads \/ LoadAnswers \/ DetailsFail
  BY <1>1, LoadingKeepsIt, LoadedKeepsIt, FailedLoadKeepsIt
<1>2. CASE \/ \E f \in Fields, v \in {Mine, Blank} : EditField(f, v)
           \/ \E v \in {Mine, Blank} : EditReading(v)
  BY <1>2, FieldKeepsIt, CorrectionKeepsIt
<1>3. CASE SaveData \/ SaveReading \/ SendOther  BY <1>3, SendingKeepsIt
<1>4. CASE ApiUpdates \/ ApiUpdatesReading  BY <1>4, UpdateKeepsIt, ReadingUpdateKeepsIt
<1>5. CASE ApiDoesOther \/ ActionAnswers \/ ActionFails  BY <1>5, ProgressKeepsIt
<1>6. CASE (\E d \in Docs : OpenDoc(d)) \/ CloseDoc  BY <1>6, OpeningKeepsIt, ClosingKeepsIt
<1>7. CASE \E c \in docCalls : UrlAnswers(c) \/ UrlFails(c)  BY <1>7, UrlKeepsIt
<1>8. CASE (\E f \in Fields : OtherWrites(f)) \/ OtherCorrects \/ NewReading
  BY <1>8, WriteKeepsIt, ReadingsKeepIt
<1> QED  BY <1>1, <1>2, <1>3, <1>4, <1>5, <1>6, <1>7, <1>8 DEF DossierNext

(* Only the API writes an action. *)
LEMMA SaveIsWrittenByTheApi ==
  ASSUME DossierInv, DossierNext \/ UNCHANGED dossierVars,
         action.at = "sent", action'.at = "written"
  PROVE  /\ action.kind = "data" => ApiUpdates
         /\ action.kind = "reading" => ApiUpdatesReading
<1>1. CASE ApiUpdates \/ ApiUpdatesReading \/ ApiDoesOther
  BY <1>1 DEF ApiUpdates, ApiUpdatesReading, ApiDoesOther
<1>2. CASE ActionAnswers \/ ActionFails
  BY <1>2, IdleIsAction DEF ActionAnswers, ActionFails
<1>3. CASE SaveData \/ SaveReading \/ SendOther
  BY <1>3 DEF SaveData, SaveReading, SendOther, Send, Sending
<1>4. CASE LoadAnswers \/ DetailsFail
  BY <1>4, IdleIsAction DEF LoadAnswers, DetailsFail, EndsWithLoad
<1>5. CASE action' = action  BY <1>5
<1> QED
  BY <1>1, <1>2, <1>3, <1>4, <1>5 DEF DossierNext, ApiReads, EditField, EditReading, OpenDoc,
     CloseDoc, UrlAnswers, UrlFails, OtherWrites, OtherCorrects, NewReading, dossierVars, actionVars

(* A data save: of what was not typed in, only crossed fields change. *)
LEMMA SaveChangesTyped ==
  ASSUME DossierInv, ApiUpdates, NEW f \in Fields,
         data'[f] # data[f], f \notin action.typedIn
  PROVE  f \notin Contact /\ version[f] > action.seen[f]
<1>1. /\ action.kind = "data" /\ action.at = "sent" /\ data' = Updated(data, action.payload)
  BY DEF ApiUpdates
<1>2. action.payload[f] # Blank /\ action.payload[f] # data[f]  BY <1>1 DEF Updated
<1>3. f \notin Contact /\ IsAsRead(f, action.seen[f], action.payload[f])
  BY <1>1, <1>2 DEF DossierInv, ActionIsSound, IsOfItsTime
<1>4. action.seen \in Versions /\ version \in Versions
  BY <1>1, ActionTypes DEF DossierInv, DossierTypeOK
<1>5. action.seen[f] \in Nat /\ version[f] \in Nat  BY <1>4 DEF Versions
<1> QED  BY <1>2, <1>3, <1>5 DEF IsAsRead

LEMMA EditLands ==
  ASSUME DossierInv, ApiUpdatesReading
  PROVE  action.id = Len(readings) \/ Len(readings) > action.seen
<1>1. action.kind = "reading" /\ action.at = "sent"  BY DEF ApiUpdatesReading
<1>2. action.id = action.seen /\ action.seen <= Len(readings)
  BY <1>1 DEF DossierInv, ActionIsSound
<1>3. action.seen \in Nat /\ Len(readings) \in Nat
  BY <1>1, ActionTypes DEF DossierInv, DossierTypeOK
<1> QED  BY <1>2, <1>3

-----------------------------------------------------------------------------
(* The accounts of the staff *)

LEMMA RequestFields ==
  ASSUME NEW r \in Requests
  PROVE  /\ r.i \in Accounts /\ r.active \in BOOLEAN /\ r.roles \in Roles \cup {Absent}
         /\ r.at \in {"sent", "new", "began", "done"} /\ r.saw \subseteq UNION RoleSets
         /\ r.mine \in BOOLEAN /\ r.save \in BOOLEAN /\ r.touched \in BOOLEAN /\ r.seen \in Nat
  BY DEF Requests

LEMMA RowFields ==
  ASSUME NEW c \in Rows
  PROVE  c.a \in Records \cup {Absent} /\ c.v.all \in Nat /\ c.v.others \in Nat
  BY DEF Rows, Counts

LEMMA CopyIsRow ==
  ASSUME StaffTypeOK, NEW i \in Accounts
  PROVE  /\ CopyOf(i) \in Rows /\ CopyOf(i).a = account[i] /\ CopyOf(i).v = changed[i]
         /\ RowIsSound(i, CopyOf(i))
<1>1. account[i] \in Records \cup {Absent} /\ changed[i] \in Counts  BY DEF StaffTypeOK
<1>2. CopyOf(i) \in Rows /\ CopyOf(i).a = account[i] /\ CopyOf(i).v = changed[i]
  BY <1>1 DEF CopyOf, Rows
<1>3. changed[i].all \in Nat /\ changed[i].others \in Nat  BY <1>1 DEF Counts
<1> QED  BY <1>2, <1>3 DEF RowIsSound, TellsActive, Known

-----------------------------------------------------------------------------
(***************************************************************************)
(* What a row tells after a step.                                          *)
(***************************************************************************)
Same(i) == account'[i] = account[i] /\ changed'[i] = changed[i]

(* An account is created, or is changed and the change counted. *)
AccountMoves(i) ==
  \/ Same(i)
  \/ account[i] = Absent /\ changed'[i] = changed[i]
  \/ /\ account'[i] # Absent /\ changed'[i].all > changed[i].all
     /\ changed'[i].others >= changed[i].others

(* The page's own change is to be answered, the other one's is counted. *)
ChangeIsKnown(i) ==
  \/ Same(i) \/ changed'[i].others > changed[i].others
  \/ \E r \in work' : r.mine /\ r.at = "done"

AccountsMove == \A i \in Accounts : AccountMoves(i) /\ ChangeIsKnown(i)

(* A change that is to be answered stays so, fails, or has the list loaded. *)
NewsStays ==
  \/ listSent' > listSent
  \/ /\ listSent' = listSent /\ (listFailed => listFailed')
     /\ \A r \in work : r.mine /\ r.at = "done" => r \in work' \/ listFailed'

TellsThen(i, on, all) ==
  /\ account'[i] # Absent /\ all <= changed'[i].all
  /\ all = changed'[i].all => on = account'[i].active

RowThen(i, c) ==
  /\ c.v.others <= changed'[i].others
  /\ c.a # Absent => TellsThen(i, c.a.active, c.v.all)

FreshThen(i, c, n) ==
  \/ c = [a |-> account'[i], v |-> changed'[i]] \/ changed'[i].others > c.v.others
  \/ n < listSent' \/ listFailed' \/ \E r \in work' : r.mine /\ r.at = "done"

LEMMA TellsStays ==
  ASSUME StaffTypeOK, changed' \in [Accounts -> Counts],
         NEW i \in Accounts, NEW on, NEW all \in Nat,
         AccountMoves(i), TellsActive(i, on, all)
  PROVE  TellsThen(i, on, all)
<1>1. changed[i].all \in Nat /\ changed'[i].all \in Nat  BY DEF StaffTypeOK, Counts
<1> QED  BY <1>1 DEF AccountMoves, Same, TellsActive, TellsThen, Known

LEMMA RowStays ==
  ASSUME StaffTypeOK, changed' \in [Accounts -> Counts], AccountsMove, NewsStays,
         listSent' \in Nat,
         NEW i \in Accounts, NEW c \in Rows, NEW n \in Nat, n <= listSent,
         RowIsSound(i, c)
  PROVE  RowThen(i, c) /\ (RowIsFresh(i, c, n) => FreshThen(i, c, n))
<1>1. AccountMoves(i) /\ ChangeIsKnown(i)  BY DEF AccountsMove
<1>2. /\ changed[i].others \in Nat /\ changed'[i].others \in Nat
      /\ changed'[i].others >= changed[i].others
  <2>1. changed[i].others \in Nat /\ changed'[i].others \in Nat  BY DEF StaffTypeOK, Counts
  <2> QED  BY <2>1, <1>1 DEF AccountMoves, Same
<1>3. c.v.others \in Nat /\ c.v.all \in Nat  BY RowFields
<1>4. c.a # Absent => TellsThen(i, c.a.active, c.v.all)
  BY <1>1, <1>3, TellsStays DEF RowIsSound
<1>5. RowThen(i, c)  BY <1>2, <1>3, <1>4 DEF RowThen, RowIsSound
<1>6. ASSUME RowIsFresh(i, c, n) PROVE FreshThen(i, c, n)
  <2>1. CASE c = CopyOf(i)
    <3>1. c.v = changed[i]  BY <2>1, CopyIsRow
    <3>2. CASE Same(i)  BY <2>1, <3>2 DEF Same, CopyOf, FreshThen
    <3>3. CASE changed'[i].others > changed[i].others  BY <3>1, <3>3 DEF FreshThen
    <3>4. CASE \E r \in work' : r.mine /\ r.at = "done"  BY <3>4 DEF FreshThen
    <3> QED  BY <3>2, <3>3, <3>4, <1>1 DEF ChangeIsKnown
  <2>2. CASE changed[i].others > c.v.others  BY <2>2, <1>2, <1>3 DEF FreshThen
  <2>3. listSent \in Nat  BY DEF StaffTypeOK
  <2>4. CASE n < listSent
    <3>1. listSent' >= listSent  BY <2>3 DEF NewsStays
    <3> QED  BY <3>1, <2>3, <2>4 DEF FreshThen
  <2>5. CASE listFailed \/ \E r \in work : r.mine /\ r.at = "done"
    <3>1. CASE listSent' > listSent  BY <3>1, <2>3 DEF FreshThen
    <3>2. CASE ~(listSent' > listSent)  BY <3>2, <2>5 DEF FreshThen, NewsStays
    <3> QED  BY <3>1, <3>2
  <2> QED  BY <1>6, <2>1, <2>2, <2>4, <2>5 DEF RowIsFresh
<1> QED  BY <1>5, <1>6

(* The rows on the page, when no answer comes. *)
LEMMA RowsStay ==
  ASSUME StaffTypeOK, RowsAreSound, changed' \in [Accounts -> Counts], listSent' \in Nat,
         AccountsMove, NewsStays, UNCHANGED <<listed, listShown>>,
         \A l \in listLoads' : l \in listLoads \/ l.rows = Absent
  PROVE  RowsAreSound'
<1>1. ASSUME NEW i \in Accounts
      PROVE  RowThen(i, listed[i]) /\ FreshThen(i, listed[i], listShown)
  <2>1. listed[i] \in Rows /\ listShown \in Nat /\ listShown <= listSent  BY DEF StaffTypeOK
  <2>2. RowIsSound(i, listed[i]) /\ RowIsFresh(i, listed[i], listShown)  BY DEF RowsAreSound
  <2> QED  BY <2>1, <2>2, RowStays
<1>2. ASSUME NEW i \in Accounts, NEW l \in listLoads', l.rows # Absent
      PROVE  RowThen(i, l.rows[i]) /\ FreshThen(i, l.rows[i], l.n)
  <2>1. l \in listLoads  BY <1>2
  <2>2. l.rows[i] \in Rows /\ l.n \in Nat /\ l.n <= listSent  BY <2>1, <1>2 DEF StaffTypeOK
  <2>3. RowIsSound(i, l.rows[i]) /\ RowIsFresh(i, l.rows[i], l.n)
    BY <2>1, <1>2 DEF RowsAreSound
  <2> QED  BY <2>2, <2>3, RowStays
<1> QED
  BY <1>1, <1>2 DEF RowsAreSound, RowIsSound, RowIsFresh, RowThen, FreshThen, TellsActive,
     TellsThen, Known, CopyOf

LEMMA StaffShowsIt ==
  ASSUME StaffTypeOK, RowsAreSound
  PROVE  StaffListIsFresh
  BY DEF StaffTypeOK, RowsAreSound, RowIsFresh, StaffListIsFresh

-----------------------------------------------------------------------------
(* The page, while the accounts stay as they are *)

LEMMA NoneMoves ==
  ASSUME StaffTypeOK, UNCHANGED dbVars
  PROVE  AccountsMove /\ changed' \in [Accounts -> Counts]
  BY DEF AccountsMove, AccountMoves, ChangeIsKnown, Same, StaffTypeOK, dbVars

LEMMA RequestsStay ==
  ASSUME RequestsAreSound, UNCHANGED dbVars, work' \subseteq work
  PROVE  RequestsAreSound'
  BY DEF RequestsAreSound, TellsActive, Known, dbVars

LEMMA RolesStay ==
  ASSUME RolesAreOfOneChange, UNCHANGED dbVars
  PROVE  RolesAreOfOneChange'
  BY DEF RolesAreOfOneChange, Known, dbVars

LEMMA EditStays ==
  ASSUME StaffTypeOK, EditIsSound, AccountsMove, changed' \in [Accounts -> Counts],
         UNCHANGED <<editing, copy, touched>> \/ editing' = Absent
  PROVE  EditIsSound'
<1> SUFFICES ASSUME editing # Absent, UNCHANGED <<editing, copy, touched>>,
                    ~touched
             PROVE  TellsThen(editing, copy.a.active, copy.v.all)
  BY DEF EditIsSound, TellsThen, TellsActive, Known
<1>1. editing \in Accounts /\ copy \in Rows  BY DEF StaffTypeOK
<1>2. copy.v.all \in Nat  BY <1>1, RowFields
<1>3. TellsActive(editing, copy.a.active, copy.v.all)  BY DEF EditIsSound
<1>4. AccountMoves(editing)  BY <1>1 DEF AccountsMove
<1> QED  BY <1>1, <1>2, <1>3, <1>4, TellsStays

(* The page's own state moves, requests are left or end. *)
LEMMA PageKeepsIt ==
  ASSUME StaffInv, UNCHANGED dbVars, work' \subseteq work,
         StaffTypeOK', RowsAreSound', EditIsSound'
  PROVE  StaffInv'
<1>1. RequestsAreSound' /\ RolesAreOfOneChange'  BY RequestsStay, RolesStay DEF StaffInv
<1>2. StaffListIsFresh'  BY StaffShowsIt, PTL
<1> QED  BY <1>1, <1>2 DEF StaffInv

LEMMA ReadingKeepsIt ==
  ASSUME StaffInv, NEW l \in listLoads, ApiListsStaff(l)
  PROVE  StaffInv'
<1> USE DEF StaffInv, editVars, boundVars
<1> DEFINE m == [l EXCEPT !.rows = [i \in Accounts |-> CopyOf(i)]]
<1>1. /\ listLoads' = (listLoads \ {l}) \cup {m}
      /\ UNCHANGED <<listed, listSent, listShown, listFailed, dbVars, editVars, work>>
  BY DEF ApiListsStaff
<1>2. l \in [n : 1..listSent, save : BOOLEAN, rows : [Accounts -> Rows] \cup {Absent}]
  BY DEF StaffTypeOK
<1>3. \A i \in Accounts : CopyOf(i) \in Rows /\ RowIsSound(i, CopyOf(i))  BY CopyIsRow
<1>4. /\ m \in [n : 1..listSent, save : BOOLEAN, rows : [Accounts -> Rows] \cup {Absent}]
      /\ \A i \in Accounts : m.rows[i] = CopyOf(i)
  BY <1>2, <1>3
<1> HIDE DEF m
<1>5. StaffTypeOK'
  <2>1. listLoads' \subseteq [n : 1..listSent, save : BOOLEAN,
                           rows : [Accounts -> Rows] \cup {Absent}]
    BY <1>1, <1>4 DEF StaffTypeOK
  <2> QED  BY <1>1, <2>1 DEF StaffTypeOK, dbVars
<1>6. RowsAreSound'
  <2>1. \A i \in Accounts : RowIsSound(i, m.rows[i]) /\ RowIsFresh(i, m.rows[i], m.n)
    BY <1>3, <1>4 DEF RowIsFresh
  <2>2. \A i \in Accounts, k \in listLoads' :
           k.rows # Absent => RowIsSound(i, k.rows[i]) /\ RowIsFresh(i, k.rows[i], k.n)
    BY <1>1, <2>1 DEF RowsAreSound
  <2>3. \A i \in Accounts : RowIsSound(i, listed[i]) /\ RowIsFresh(i, listed[i], listShown)
    BY DEF RowsAreSound
  <2> QED
    BY <1>1, <2>2, <2>3 DEF RowsAreSound, RowIsSound, RowIsFresh, TellsActive, Known, CopyOf,
       dbVars
<1>7. EditIsSound'  BY <1>1 DEF EditIsSound, TellsActive, Known, dbVars
<1>8. work' \subseteq work /\ UNCHANGED dbVars  BY <1>1
<1> HIDE DEF StaffInv
<1> QED  BY <1>5, <1>6, <1>7, <1>8, PageKeepsIt

LEMMA ListingKeepsIt ==
  ASSUME StaffInv, NEW l \in listLoads, StaffListed(l)
  PROVE  StaffInv'
<1> USE DEF StaffInv
<1>1. /\ listed' = l.rows /\ listShown' = l.n /\ listLoads' = listLoads \ {l}
      /\ saving' = (saving /\ ~l.save) /\ l.rows # Absent
      /\ UNCHANGED <<listSent, listFailed, dbVars, editing, copy, touched, work>>
  BY DEF StaffListed
<1>2. l.n \in 1..listSent /\ l.save \in BOOLEAN /\ l.rows \in [Accounts -> Rows]
  BY <1>1 DEF StaffTypeOK
<1>3. StaffTypeOK'
  <2>1. {touched', saving', listFailed'} \subseteq BOOLEAN
    <3>1. saving' \in BOOLEAN  BY <1>1
    <3>2. touched' \in BOOLEAN /\ listFailed' \in BOOLEAN  BY <1>1 DEF StaffTypeOK
    <3> QED  BY <3>1, <3>2
  <2>2. listShown' \in Nat /\ listShown' <= listSent'  BY <1>1, <1>2 DEF StaffTypeOK
  <2> QED  BY <1>1, <1>2, <2>1, <2>2 DEF StaffTypeOK, dbVars
<1>4. RowsAreSound'
  <2>1. \A i \in Accounts : RowIsSound(i, l.rows[i]) /\ RowIsFresh(i, l.rows[i], l.n)
    BY <1>1 DEF RowsAreSound
  <2>2. \A i \in Accounts, k \in listLoads' :
           k.rows # Absent => RowIsSound(i, k.rows[i]) /\ RowIsFresh(i, k.rows[i], k.n)
    BY <1>1 DEF RowsAreSound
  <2> QED
    BY <1>1, <2>1, <2>2 DEF RowsAreSound, RowIsSound, RowIsFresh, TellsActive, Known, CopyOf,
       dbVars
<1>5. EditIsSound'  BY <1>1 DEF EditIsSound, TellsActive, Known, dbVars
<1>6. work' \subseteq work /\ UNCHANGED dbVars  BY <1>1
<1> HIDE DEF StaffInv
<1> QED  BY <1>3, <1>4, <1>5, <1>6, PageKeepsIt

LEMMA FailedListKeepsIt ==
  ASSUME StaffInv, NEW l \in listLoads, StaffListFails(l)
  PROVE  StaffInv'
<1> USE DEF StaffInv
<1>1. /\ listLoads' = listLoads \ {l} /\ listFailed' = TRUE
      /\ saving' = (saving /\ ~l.save)
      /\ UNCHANGED <<listed, listSent, listShown, dbVars, editing, copy, touched, work>>
  BY DEF StaffListFails
<1>2. StaffTypeOK'
  <2>1. {touched', saving', listFailed'} \subseteq BOOLEAN
    <3>1. saving' \in BOOLEAN  BY <1>1
    <3>2. touched' \in BOOLEAN /\ listFailed' \in BOOLEAN  BY <1>1 DEF StaffTypeOK
    <3> QED  BY <3>1, <3>2
  <2> QED  BY <1>1, <2>1 DEF StaffTypeOK, dbVars
<1>3. AccountsMove /\ changed' \in [Accounts -> Counts]  BY <1>1, NoneMoves
<1>4. NewsStays /\ listSent' \in Nat  BY <1>1 DEF NewsStays, StaffTypeOK
<1>5. RowsAreSound'  BY <1>1, <1>3, <1>4, RowsStay
<1>6. EditIsSound'  BY <1>1, <1>3, EditStays
<1>7. work' \subseteq work /\ UNCHANGED dbVars  BY <1>1
<1> HIDE DEF StaffInv
<1> QED  BY <1>2, <1>5, <1>6, <1>7, PageKeepsIt

(* The dialog: what it is filled with is a row of the list. *)
LEMMA DialogKeepsIt ==
  ASSUME StaffInv, editing' \in Accounts \cup {Absent}, copy' \in Rows, touched' \in BOOLEAN,
         EditIsSound', UNCHANGED <<saving, dbVars, pageVars, work>>
  PROVE  StaffInv'
<1> USE DEF StaffInv, pageVars
<1>1. StaffTypeOK'
  <2>1. {touched', saving', listFailed'} \subseteq BOOLEAN  BY DEF StaffTypeOK
  <2> QED  BY <2>1 DEF StaffTypeOK, dbVars
<1>2. AccountsMove /\ changed' \in [Accounts -> Counts]  BY NoneMoves
<1>3. NewsStays /\ listSent' \in Nat  BY DEF NewsStays, StaffTypeOK
<1>4. RowsAreSound'  BY <1>2, <1>3, RowsStay
<1> HIDE DEF StaffInv
<1> QED  BY <1>1, <1>4, PageKeepsIt

LEMMA EditsKeepIt ==
  ASSUME StaffInv,
         \/ (\E i \in Accounts : OpenEdit(i)) \/ CloseEdit \/ EditActive
         \/ \E rs \in RoleSets : EditRoles(rs)
  PROVE  StaffInv'
<1> USE DEF StaffInv
<1>1. UNCHANGED <<saving, dbVars, pageVars, work>>
  BY DEF OpenEdit, CloseEdit, EditActive, EditRoles
<1>2. ASSUME NEW i \in Accounts, OpenEdit(i) PROVE StaffInv'
  <2>1. editing' = i /\ copy' = listed[i] /\ touched' = FALSE /\ listed[i].a # Absent
    BY <1>2 DEF OpenEdit, Copied
  <2>2. listed[i] \in Rows /\ RowIsSound(i, listed[i])  BY DEF StaffTypeOK, RowsAreSound
  <2>3. EditIsSound'
    BY <2>1, <2>2, <1>1 DEF EditIsSound, RowIsSound, TellsActive, Known, dbVars
  <2> HIDE DEF StaffInv
  <2> QED  BY <2>1, <2>2, <2>3, <1>1, DialogKeepsIt
<1>3. CASE CloseEdit
  <2>1. editing' = Absent /\ copy' = Unknown /\ touched' = FALSE  BY <1>3 DEF CloseEdit, Closes
  <2>2. copy' \in Rows  BY <2>1 DEF Unknown, Untouched, Rows, Counts
  <2>3. EditIsSound'  BY <2>1 DEF EditIsSound
  <2> HIDE DEF StaffInv
  <2> QED  BY <2>1, <2>2, <2>3, <1>1, DialogKeepsIt
<1>4. CASE EditActive \/ \E rs \in RoleSets : EditRoles(rs)
  <2>1. editing # Absent /\ copy.a # Absent /\ editing' = editing
    BY <1>4 DEF EditActive, EditRoles, EditIsSound
  <2>2. copy \in Rows /\ copy.a \in Records  BY <2>1, RowFields DEF StaffTypeOK
  <2>3. CASE EditActive
    <3>1. copy' = [copy EXCEPT !.a.active = ~@] /\ touched' = TRUE  BY <2>3 DEF EditActive
    <3>2. copy' \in Rows /\ copy'.a \in Records  BY <2>2, <3>1 DEF Rows, Records
    <3>3. EditIsSound'  BY <3>1, <3>2, StaffAssumption DEF EditIsSound
    <3>4. editing' \in Accounts \cup {Absent}  BY <2>1 DEF StaffTypeOK
    <3> HIDE DEF StaffInv
    <3> QED  BY <3>1, <3>2, <3>3, <3>4, <1>1, DialogKeepsIt
  <2>4. ASSUME NEW rs \in RoleSets, EditRoles(rs) PROVE StaffInv'
    <3>1. copy' = [copy EXCEPT !.a.roles = rs] /\ touched' = touched  BY <2>4 DEF EditRoles
    <3>2. rs \in Roles  BY StaffAssumption DEF Roles
    <3>3. /\ copy' \in Rows /\ copy'.a \in Records
          /\ copy'.a.active = copy.a.active /\ copy'.v = copy.v
      BY <2>2, <3>1, <3>2 DEF Rows, Records
    <3>4. EditIsSound'
      BY <3>1, <3>3, <2>1, <1>1, StaffAssumption DEF EditIsSound, TellsActive, Known, dbVars
    <3>5. editing' \in Accounts \cup {Absent} /\ touched' \in BOOLEAN
      BY <2>1, <3>1 DEF StaffTypeOK
    <3> HIDE DEF StaffInv
    <3> QED  BY <3>3, <3>4, <3>5, <1>1, DialogKeepsIt
  <2> QED  BY <1>4, <2>3, <2>4
<1> QED  BY <1>2, <1>3, <1>4

-----------------------------------------------------------------------------
(* Requests are sent, and end *)

(* A request as it is sent. *)
IsSound(r) ==
  /\ r \in Requests /\ r.at \in {"sent", "new"}
  /\ r.at = "new" => r.mine /\ r.roles # Absent
  /\ r.save /\ ~r.touched => TellsActive(r.i, r.active, r.seen)

LEMMA RequestJoins ==
  ASSUME StaffInv, NEW r, IsSound(r), work' = work \cup {r}, saving' \in BOOLEAN,
         UNCHANGED <<dbVars, pageVars, editing, copy, touched>>
  PROVE  StaffInv'
<1> USE DEF StaffInv, pageVars
<1>1. StaffTypeOK'
  <2>1. {touched', saving', listFailed'} \subseteq BOOLEAN  BY DEF StaffTypeOK
  <2>2. work' \subseteq Requests  BY DEF IsSound, StaffTypeOK
  <2> QED  BY <2>1, <2>2 DEF StaffTypeOK, dbVars
<1>2. AccountsMove /\ changed' \in [Accounts -> Counts]  BY NoneMoves
<1>3. NewsStays /\ listSent' \in Nat  BY DEF NewsStays, StaffTypeOK
<1>4. RowsAreSound'  BY <1>2, <1>3, RowsStay
<1>5. EditIsSound'  BY <1>2, EditStays
<1>6. RequestsAreSound'
  BY DEF RequestsAreSound, IsSound, TellsActive, Known, dbVars
<1>7. RolesAreOfOneChange'  BY RolesStay
<1>8. StaffListIsFresh'  BY <1>1, <1>4, StaffShowsIt, PTL
<1> QED  BY <1>1, <1>4, <1>5, <1>6, <1>7, <1>8

LEMMA SavingKeepsIt ==
  ASSUME StaffInv, SaveEdit
  PROVE  StaffInv'
<1> DEFINE b == Request(editing, copy.a.active, copy.a.roles, TRUE)
           r == [b EXCEPT !.save = TRUE, !.touched = touched, !.seen = copy.v.all]
<1>1. /\ editing # Absent /\ Asks(r) /\ saving' = TRUE
      /\ UNCHANGED <<editing, copy, touched>>
  BY DEF SaveEdit
<1>2. /\ editing \in Accounts /\ copy \in Rows /\ copy.a \in Records
      /\ copy.a.active \in BOOLEAN /\ copy.a.roles \in Roles /\ copy.v.all \in Nat
      /\ touched \in BOOLEAN
  BY <1>1, RowFields DEF StaffInv, StaffTypeOK, EditIsSound, Records
<1>3. b \in Requests /\ b.at = "sent" /\ b.i = editing /\ b.active = copy.a.active
  BY <1>2 DEF Request, Requests
<1> HIDE DEF b
<1>4. /\ r \in Requests /\ r.at = "sent" /\ r.i = editing /\ r.active = copy.a.active
      /\ r.touched = touched /\ r.seen = copy.v.all
  BY <1>2, <1>3 DEF Requests
<1> HIDE DEF r
<1>5. r.at # "new"  BY <1>4
<1>6. IsSound(r)  BY <1>1, <1>4, <1>5 DEF IsSound, StaffInv, EditIsSound
<1>7. work' = work \cup {r} /\ UNCHANGED <<dbVars, pageVars>>  BY <1>1 DEF Asks
<1> QED  BY <1>1, <1>6, <1>7, RequestJoins

LEMMA AskingKeepsIt ==
  ASSUME StaffInv,
         \/ \E i \in Accounts : ToggleActive(i)
         \/ \E i \in Accounts, rs \in RoleSets : CreateAccount(i, rs)
         \/ \E i \in Accounts, on \in BOOLEAN, rs \in RoleSets \cup {Absent} :
              OthersAsk(i, on, rs)
  PROVE  StaffInv'
<1>1. \A rs \in RoleSets : rs \in Roles  BY StaffAssumption DEF Roles
<1>2. saving \in BOOLEAN  BY DEF StaffInv, StaffTypeOK
<1>3. ASSUME NEW i \in Accounts, ToggleActive(i) PROVE StaffInv'
  <2> DEFINE on == ~listed[i].a.active
             r == Request(i, on, Absent, TRUE)
  <2>1. Asks(r) /\ UNCHANGED editVars  BY <1>3 DEF ToggleActive
  <2>2. on \in BOOLEAN  OBVIOUS
  <2> HIDE DEF on
  <2>3. r \in Requests /\ r.at = "sent" /\ ~r.save  BY <2>2 DEF Request, Requests
  <2> HIDE DEF r
  <2>4. IsSound(r)  BY <2>3 DEF IsSound
  <2>5. work' = work \cup {r} /\ UNCHANGED <<dbVars, pageVars>>  BY <2>1 DEF Asks
  <2>6. saving' \in BOOLEAN /\ UNCHANGED <<editing, copy, touched>>
    BY <1>2, <2>1 DEF editVars
  <2> QED  BY <2>4, <2>5, <2>6, RequestJoins
<1>4. ASSUME NEW i \in Accounts, NEW rs \in RoleSets, CreateAccount(i, rs) PROVE StaffInv'
  <2> DEFINE b == Request(i, TRUE, rs, TRUE)
             r == [b EXCEPT !.at = "new"]
  <2>1. Asks(r) /\ UNCHANGED editVars  BY <1>4 DEF CreateAccount
  <2>2. b \in Requests /\ ~b.save /\ b.mine /\ b.roles = rs
    BY <1>1 DEF Request, Requests
  <2> HIDE DEF b
  <2>3. r \in Requests /\ r.at = "new" /\ ~r.save /\ r.mine /\ r.roles = rs
    BY <2>2 DEF Requests
  <2> HIDE DEF r
  <2>4. IsSound(r)  BY <2>3, <1>1, StaffAssumption DEF IsSound
  <2>5. work' = work \cup {r} /\ UNCHANGED <<dbVars, pageVars>>  BY <2>1 DEF Asks
  <2>6. saving' \in BOOLEAN /\ UNCHANGED <<editing, copy, touched>>
    BY <1>2, <2>1 DEF editVars
  <2> QED  BY <2>4, <2>5, <2>6, RequestJoins
<1>5. ASSUME NEW i \in Accounts, NEW on \in BOOLEAN, NEW rs \in RoleSets \cup {Absent},
             OthersAsk(i, on, rs)
      PROVE  StaffInv'
  <2> DEFINE r == Request(i, on, rs, FALSE)
  <2>1. work' = work \cup {r} /\ UNCHANGED <<dbVars, pageVars, editVars>>
    BY <1>5 DEF OthersAsk
  <2>2. r \in Requests /\ r.at = "sent" /\ ~r.save
    <3>1. rs \in Roles \cup {Absent}  BY <1>1
    <3> QED  BY <3>1 DEF Request, Requests
  <2> HIDE DEF r
  <2>3. IsSound(r)  BY <2>2 DEF IsSound
  <2>4. saving' \in BOOLEAN /\ UNCHANGED <<editing, copy, touched>>
    BY <1>2, <2>1 DEF editVars
  <2> QED  BY <2>1, <2>3, <2>4, RequestJoins
<1> QED  BY <1>3, <1>4, <1>5

(* An answer loads the list, if it is the page's; a failure is shown there. *)
LEMMA AnswersKeepIt ==
  ASSUME StaffInv, NEW r \in work, RequestSucceeds(r) \/ StaffRequestFails(r)
  PROVE  StaffInv'
<1> USE DEF StaffInv
<1>1. /\ work' = work \ {r} /\ UNCHANGED <<listed, listShown, dbVars>>
      /\ UNCHANGED <<editing, copy, touched>> \/ Closes
      /\ saving' \in {saving, saving /\ ~r.save}
  BY DEF RequestSucceeds, RequestAnswers, StaffRequestFails
<1>2. /\ listSent' \in Nat
      /\ \A l \in listLoads' : l \in listLoads \/ l.rows = Absent
      /\ listLoads' \subseteq [n : 1..listSent', save : BOOLEAN,
                             rows : [Accounts -> Rows] \cup {Absent}]
      /\ listFailed' \in BOOLEAN /\ listSent' >= listSent
      /\ NewsStays
  <2>1. r \in Requests /\ r.mine \in BOOLEAN /\ r.save \in BOOLEAN /\ listSent \in Nat
        /\ listFailed \in BOOLEAN
    BY RequestFields DEF StaffTypeOK
  <2>2. CASE RequestAnswers(r) /\ r.mine
    <3> DEFINE l == [n |-> listSent + 1, save |-> r.save, rows |-> Absent]
    <3>1. listSent' = listSent + 1 /\ listLoads' = listLoads \cup {l} /\ listFailed' = FALSE
      BY <2>2 DEF RequestAnswers, LoadList
    <3>2. /\ l \in [n : 1..listSent', save : BOOLEAN, rows : [Accounts -> Rows] \cup {Absent}]
          /\ l.rows = Absent
      BY <2>1, <3>1
    <3> HIDE DEF l
    <3>3. listLoads \subseteq [n : 1..listSent', save : BOOLEAN,
                            rows : [Accounts -> Rows] \cup {Absent}]
      BY <2>1, <3>1 DEF StaffTypeOK
    <3>4. listSent' \in Nat /\ listSent' > listSent  BY <2>1, <3>1
    <3>6. listFailed' \in BOOLEAN  BY <3>1
    <3>5. NewsStays  BY <3>4 DEF NewsStays
    <3> QED  BY <2>1, <3>1, <3>2, <3>3, <3>4, <3>5, <3>6
  <2>3. CASE RequestAnswers(r) /\ ~r.mine
    <3>1. UNCHANGED <<listSent, listLoads, listFailed>>
      BY <2>3 DEF RequestAnswers, NoLoadList
    <3>2. \A o \in work : o.mine => o \in work'  BY <1>1, <2>3
    <3> QED  BY <2>1, <3>1, <3>2 DEF NewsStays, StaffTypeOK
  <2>4. CASE StaffRequestFails(r)
    <3>1. UNCHANGED <<listSent, listLoads>> /\ listFailed' = (listFailed \/ r.mine)
      BY <2>4 DEF StaffRequestFails
    <3>2. \A o \in work : o.mine => o \in work' \/ listFailed'
      <4> TAKE o \in work
      <4>1. CASE o = r  BY <4>1, <3>1
      <4>2. CASE o # r  BY <4>2, <1>1
      <4> QED  BY <4>1, <4>2
    <3>3. listFailed' \in BOOLEAN  BY <3>1
    <3> QED  BY <2>1, <3>1, <3>2, <3>3 DEF NewsStays, StaffTypeOK
  <2> QED  BY <2>2, <2>3, <2>4 DEF RequestSucceeds
<1>3. StaffTypeOK'
  <2>1. saving' \in BOOLEAN  BY <1>1 DEF StaffTypeOK
  <2>2. touched' \in BOOLEAN /\ editing' \in Accounts \cup {Absent} /\ copy' \in Rows
    <3>1. Unknown \in Rows  BY DEF Unknown, Untouched, Rows, Counts
    <3>2. CASE UNCHANGED <<editing, copy, touched>>  BY <3>2 DEF StaffTypeOK
    <3>3. CASE Closes  BY <3>1, <3>3 DEF Closes
    <3> QED  BY <3>2, <3>3, <1>1
  <2>3. {touched', saving', listFailed'} \subseteq BOOLEAN  BY <2>1, <2>2, <1>2
  <2> QED  BY <1>1, <1>2, <2>2, <2>3 DEF StaffTypeOK, dbVars
<1>4. AccountsMove /\ changed' \in [Accounts -> Counts]  BY <1>1, NoneMoves
<1>5. RowsAreSound'  BY <1>1, <1>2, <1>4, RowsStay
<1>6. EditIsSound'  BY <1>1, <1>4, EditStays DEF Closes
<1>7. work' \subseteq work /\ UNCHANGED dbVars  BY <1>1
<1> HIDE DEF StaffInv
<1> QED  BY <1>3, <1>5, <1>6, <1>7, PageKeepsIt

-----------------------------------------------------------------------------
(* The API changes an account *)

LEMMA ChangeKeepsIt ==
  ASSUME StaffInv, NEW r \in work, r.at # "done",
         NEW d \in Requests, d.at = "done", work' = (work \ {r}) \cup {d},
         account' \in [Accounts -> Records \cup {Absent}],
         changed' \in [Accounts -> Counts],
         asked' \in [Accounts -> SUBSET UNION RoleSets],
         AccountsMove, RolesAreOfOneChange',
         \A o \in work \ {r} :
           o.at = "began" /\ o.i \notin overlapped => account'[o.i].roles = account[o.i].roles,
         UNCHANGED <<overlapped, pageVars, editVars>>
  PROVE  StaffInv'
<1> USE DEF StaffInv, pageVars, editVars
<1>1. StaffTypeOK'
  <2>1. {touched', saving', listFailed'} \subseteq BOOLEAN  BY DEF StaffTypeOK
  <2>2. work' \subseteq Requests  BY DEF StaffTypeOK
  <2> QED  BY <2>1, <2>2 DEF StaffTypeOK
<1>2. NewsStays /\ listSent' \in Nat  BY DEF NewsStays, StaffTypeOK
<1>3. RowsAreSound'  BY <1>2, RowsStay
<1>4. EditIsSound'  BY EditStays
<1>5. RequestsAreSound'
  <2>1. ASSUME NEW o \in work', o.at # "done" PROVE o \in work \ {r}  BY <2>1
  <2>2. ASSUME NEW o \in work', o.at = "new" PROVE o.mine /\ o.roles # Absent
    BY <2>1, <2>2 DEF RequestsAreSound
  <2>3. ASSUME NEW o \in work', o.at = "began"
        PROVE  /\ account'[o.i] # Absent /\ o.roles # Absent
               /\ o.i \notin overlapped => o.saw = account'[o.i].roles
    <3>1. o \in work \ {r} /\ o.i \in Accounts  BY <2>1, <2>3, RequestFields DEF StaffTypeOK
    <3>2. /\ Known(o.i) /\ o.roles # Absent
          /\ o.i \notin overlapped => o.saw = account[o.i].roles
      BY <2>3, <3>1 DEF RequestsAreSound
    <3>3. account'[o.i] # Absent
      BY <3>1, <3>2 DEF AccountsMove, AccountMoves, Same, Known
    <3>4. o.i \notin overlapped => account'[o.i].roles = account[o.i].roles
      BY <2>3, <3>1
    <3> QED  BY <3>2, <3>3, <3>4
  <2>4. ASSUME NEW o \in work', o.save, ~o.touched, o.at # "done"
        PROVE  TellsThen(o.i, o.active, o.seen)
    <3>1. o \in work /\ o.i \in Accounts /\ o.seen \in Nat
      BY <2>1, <2>4, RequestFields DEF StaffTypeOK
    <3>2. TellsActive(o.i, o.active, o.seen)  BY <2>4, <3>1 DEF RequestsAreSound
    <3>3. AccountMoves(o.i)  BY <3>1 DEF AccountsMove
    <3> QED  BY <3>1, <3>2, <3>3, TellsStays
  <2>5. ASSUME NEW o \in work', NEW q \in work', o.at = "began", q.at = "began",
               o.i = q.i, o.i \notin overlapped
        PROVE  o = q
    <3>1. o \in work /\ q \in work  BY <2>1, <2>5
    <3> QED  BY <2>5, <3>1 DEF RequestsAreSound
  <2> QED  BY <2>2, <2>3, <2>4, <2>5 DEF RequestsAreSound, TellsActive, TellsThen, Known
<1>6. StaffListIsFresh'  BY <1>1, <1>3, StaffShowsIt, PTL
<1> QED  BY <1>1, <1>3, <1>4, <1>5, <1>6

LEMMA CreationKeepsIt ==
  ASSUME StaffInv, NEW r \in work, ApiCreates(r)
  PROVE  StaffInv'
<1> DEFINE d == [r EXCEPT !.at = "done"]
           i == r.i
<1>1. /\ r.at = "new" /\ account[i] = Absent
      /\ account' = [account EXCEPT ![i] = [active |-> TRUE, roles |-> r.roles]]
      /\ asked' = [asked EXCEPT ![i] = r.roles]
      /\ work' = (work \ {r}) \cup {d}
      /\ UNCHANGED <<overlapped, changed, pageVars, editVars>>
  BY DEF ApiCreates, Known
<1>2. r \in Requests /\ StaffTypeOK  BY DEF StaffInv, StaffTypeOK
<1>3. d \in Requests /\ d.at = "done" /\ d.mine = r.mine  BY <1>2 DEF Requests
<1>4. r.mine /\ r.roles \in Roles /\ i \in Accounts
  BY <1>1, <1>2, RequestFields DEF StaffInv, RequestsAreSound
<1> HIDE DEF d, i
<1>5. [active |-> TRUE, roles |-> r.roles] \in Records  BY <1>4 DEF Records
<1>6. /\ account' \in [Accounts -> Records \cup {Absent}]
      /\ account'[i].roles = r.roles /\ \A j \in Accounts \ {i} : account'[j] = account[j]
  BY <1>1, <1>2, <1>4, <1>5 DEF StaffTypeOK
<1>7. /\ asked' \in [Accounts -> SUBSET UNION RoleSets]
      /\ asked'[i] = r.roles /\ \A j \in Accounts \ {i} : asked'[j] = asked[j]
  BY <1>1, <1>2, <1>4 DEF StaffTypeOK, Roles
<1>8. changed' \in [Accounts -> Counts]  BY <1>1, <1>2 DEF StaffTypeOK
<1>9. AccountsMove
  <2>1. d \in work' /\ d.mine  BY <1>1, <1>3, <1>4
  <2> QED  BY <2>1, <1>1, <1>3, <1>6 DEF AccountsMove, AccountMoves, ChangeIsKnown, Same
<1>10. RolesAreOfOneChange'
  BY <1>1, <1>6, <1>7 DEF StaffInv, RolesAreOfOneChange, Known
<1>11. \A o \in work \ {r} :
         o.at = "began" /\ o.i \notin overlapped => account'[o.i].roles = account[o.i].roles
  <2> SUFFICES ASSUME NEW o \in work \ {r}, o.at = "began"
               PROVE  account'[o.i] = account[o.i]
    OBVIOUS
  <2>1. account[o.i] # Absent /\ o.i \in Accounts
    BY RequestFields DEF StaffInv, RequestsAreSound, Known, StaffTypeOK
  <2> QED  BY <2>1, <1>1, <1>6
<1> QED  BY <1>1, <1>3, <1>6, <1>7, <1>8, <1>9, <1>10, <1>11, ChangeKeepsIt

(* What the count of a change does. *)
LEMMA ChangeIsCounted ==
  ASSUME StaffTypeOK, NEW r \in work, Counted(r)
  PROVE  /\ changed' \in [Accounts -> Counts]
         /\ changed'[r.i].all > changed[r.i].all
         /\ changed'[r.i].others >= changed[r.i].others
         /\ ~r.mine => changed'[r.i].others > changed[r.i].others
         /\ \A j \in Accounts \ {r.i} : changed'[j] = changed[j]
<1> DEFINE i == r.i
           more == changed[i].others + IF r.mine THEN 0 ELSE 1
<1>1. i \in Accounts /\ changed \in [Accounts -> Counts] /\ r.mine \in BOOLEAN
  BY RequestFields DEF StaffTypeOK
<1>2. changed[i] \in Counts /\ changed[i].all \in Nat /\ changed[i].others \in Nat
  BY <1>1 DEF Counts
<1>3. more \in Nat /\ more >= changed[i].others /\ (~r.mine => more > changed[i].others)
  BY <1>1, <1>2
<1>4. changed' = [changed EXCEPT ![i] = [all |-> @.all + 1, others |-> more]]
  BY DEF Counted
<1> HIDE DEF i, more
<1>6. changed'[i] = [all |-> changed[i].all + 1, others |-> more]
  BY <1>1, <1>4
<1>7. changed'[i] \in Counts /\ changed'[i].all = changed[i].all + 1 /\ changed'[i].others = more
  BY <1>2, <1>3, <1>6 DEF Counts
<1>8. /\ \A j \in Accounts \ {i} : changed'[j] = changed[j]
      /\ DOMAIN changed' = Accounts /\ changed' = [j \in Accounts |-> changed'[j]]
  BY <1>1, <1>4
<1>9. changed' \in [Accounts -> Counts]
  <2>1. \A j \in Accounts : changed'[j] \in Counts  BY <1>1, <1>7, <1>8
  <2> QED  BY <2>1, <1>8
<1> QED  BY <1>2, <1>3, <1>7, <1>8, <1>9 DEF i

(* An account that stays one, its change counted, is a move. *)
LEMMA CountIsAMove ==
  ASSUME StaffTypeOK, NEW r \in work, Counted(r),
         NEW d \in work', d.at = "done", d.mine = r.mine,
         account'[r.i] # Absent, \A j \in Accounts \ {r.i} : account'[j] = account[j]
  PROVE  AccountsMove
<1>1. /\ changed'[r.i].all > changed[r.i].all
      /\ changed'[r.i].others >= changed[r.i].others
      /\ ~r.mine => changed'[r.i].others > changed[r.i].others
      /\ \A j \in Accounts \ {r.i} : changed'[j] = changed[j]
  BY ChangeIsCounted
<1>2. AccountMoves(r.i) /\ ChangeIsKnown(r.i)
  BY <1>1 DEF AccountMoves, ChangeIsKnown
<1>3. \A j \in Accounts \ {r.i} : AccountMoves(j) /\ ChangeIsKnown(j)
  BY <1>1 DEF AccountMoves, ChangeIsKnown, Same
<1> QED  BY <1>2, <1>3 DEF AccountsMove

LEMMA CommitKeepsIt ==
  ASSUME StaffInv, NEW r \in work, ApiCommits(r)
  PROVE  StaffInv'
<1> DEFINE d == [r EXCEPT !.at = "done"]
           i == r.i
           then == [active |-> r.active, roles |-> Left(r) \cup r.roles]
<1>1. /\ r.at = "began"
      /\ account' = [account EXCEPT ![i] = then]
      /\ asked' = [asked EXCEPT ![i] = r.roles]
      /\ Counted(r)
      /\ work' = (work \ {r}) \cup {d}
      /\ UNCHANGED <<overlapped, pageVars, editVars>>
  BY DEF ApiCommits
<1>2. r \in Requests /\ StaffTypeOK  BY DEF StaffInv, StaffTypeOK
<1>3. d \in Requests /\ d.at = "done" /\ d.mine = r.mine  BY <1>2 DEF Requests
<1>4. /\ account[i] # Absent /\ r.roles # Absent
      /\ i \notin overlapped => r.saw = account[i].roles
  BY <1>1 DEF StaffInv, RequestsAreSound, Known
<1>5. /\ i \in Accounts /\ r.roles \in Roles /\ r.active \in BOOLEAN
      /\ account[i] \in Records /\ account[i].roles \in Roles
  <2>1. i \in Accounts /\ r.roles \in Roles /\ r.active \in BOOLEAN
    BY <1>2, <1>4, RequestFields
  <2>2. account[i] \in Records  BY <2>1, <1>2, <1>4 DEF StaffTypeOK
  <2> QED  BY <2>1, <2>2 DEF Records
<1>6. /\ then \in Records
      /\ i \notin overlapped => then.roles = r.roles
  <2>1. Left(r) \cup r.roles \in Roles  BY <1>5 DEF Left, Roles
  <2>2. i \notin overlapped => Left(r) \cup r.roles = r.roles  BY <1>4 DEF Left
  <2> QED  BY <1>5, <2>1, <2>2 DEF Records
<1> HIDE DEF d, i, then
<1>7. /\ account' \in [Accounts -> Records \cup {Absent}]
      /\ account'[i] = then /\ account'[i] # Absent
      /\ \A j \in Accounts \ {i} : account'[j] = account[j]
  BY <1>1, <1>2, <1>5, <1>6, StaffAssumption DEF StaffTypeOK
<1>8. /\ asked' \in [Accounts -> SUBSET UNION RoleSets]
      /\ asked'[i] = r.roles /\ \A j \in Accounts \ {i} : asked'[j] = asked[j]
  BY <1>1, <1>2, <1>5 DEF StaffTypeOK, Roles
<1>9. changed' \in [Accounts -> Counts]  BY <1>1, <1>2, ChangeIsCounted
<1>10. AccountsMove
  <2>1. d \in work'  BY <1>1
  <2>2. account'[r.i] # Absent /\ \A j \in Accounts \ {r.i} : account'[j] = account[j]
    BY <1>7 DEF i
  <2> QED  BY <2>1, <2>2, <1>1, <1>2, <1>3, CountIsAMove
<1>11. RolesAreOfOneChange'
  BY <1>1, <1>6, <1>7, <1>8 DEF StaffInv, RolesAreOfOneChange, Known
<1>12. \A o \in work \ {r} :
         o.at = "began" /\ o.i \notin overlapped => account'[o.i].roles = account[o.i].roles
  <2> SUFFICES ASSUME NEW o \in work \ {r}, o.at = "began", o.i \notin overlapped
               PROVE  account'[o.i] = account[o.i]
    OBVIOUS
  <2>1. o.i \in Accounts  BY <1>2, RequestFields DEF StaffTypeOK
  <2>2. o.i # i  BY <1>1 DEF StaffInv, RequestsAreSound, i
  <2> QED  BY <2>1, <2>2, <1>7
<1> QED  BY <1>1, <1>3, <1>7, <1>8, <1>9, <1>10, <1>11, <1>12, ChangeKeepsIt

LEMMA SwitchKeepsIt ==
  ASSUME StaffInv, NEW r \in work, ApiSwitches(r)
  PROVE  StaffInv'
<1> DEFINE d == [r EXCEPT !.at = "done"]
           i == r.i
           then == [account[i] EXCEPT !.active = r.active]
<1>1. /\ r.at = "sent" /\ account[i] # Absent
      /\ account' = [account EXCEPT ![i] = then]
      /\ Counted(r)
      /\ work' = (work \ {r}) \cup {d}
      /\ UNCHANGED <<asked, overlapped, pageVars, editVars>>
  BY DEF ApiSwitches, Known
<1>2. r \in Requests /\ StaffTypeOK  BY DEF StaffInv, StaffTypeOK
<1>3. d \in Requests /\ d.at = "done" /\ d.mine = r.mine  BY <1>2 DEF Requests
<1>4. i \in Accounts /\ r.active \in BOOLEAN  BY <1>2, RequestFields
<1>5. account[i] \in Records  BY <1>1, <1>2, <1>4 DEF StaffTypeOK
<1>6. then \in Records /\ then.roles = account[i].roles  BY <1>4, <1>5 DEF Records
<1> HIDE DEF d, i, then
<1>7. /\ account' \in [Accounts -> Records \cup {Absent}]
      /\ account'[i] = then /\ account'[i] # Absent
      /\ \A j \in Accounts \ {i} : account'[j] = account[j]
  BY <1>1, <1>2, <1>4, <1>6, StaffAssumption DEF StaffTypeOK
<1>8. asked' \in [Accounts -> SUBSET UNION RoleSets]  BY <1>1, <1>2 DEF StaffTypeOK
<1>9. changed' \in [Accounts -> Counts]  BY <1>1, <1>2, ChangeIsCounted
<1>10. AccountsMove
  <2>1. d \in work'  BY <1>1
  <2>2. account'[r.i] # Absent /\ \A j \in Accounts \ {r.i} : account'[j] = account[j]
    BY <1>7 DEF i
  <2> QED  BY <2>1, <2>2, <1>1, <1>2, <1>3, CountIsAMove
<1>11. \A j \in Accounts : account'[j].roles = account[j].roles
  BY <1>6, <1>7
<1>12. RolesAreOfOneChange'
  BY <1>1, <1>7, <1>11 DEF StaffInv, RolesAreOfOneChange, Known
<1>13. \A o \in work \ {r} : o.at = "began" /\ o.i \notin overlapped =>
         account'[o.i].roles = account[o.i].roles
  BY <1>2, <1>11, RequestFields DEF StaffTypeOK
<1>14. r.at # "done"  BY <1>1
<1> QED  BY <1>1, <1>3, <1>7, <1>8, <1>9, <1>10, <1>12, <1>13, <1>14, ChangeKeepsIt

(* A transaction starts: it overlaps with those under way on the account. *)
LEMMA BeginningKeepsIt ==
  ASSUME StaffInv, NEW r \in work, ApiBegins(r)
  PROVE  StaffInv'
<1> DEFINE b == [r EXCEPT !.at = "began", !.saw = Deleted(r.i)]
           i == r.i
<1>1. /\ r.at = "sent" /\ r.roles # Absent /\ account[i] # Absent
      /\ work' = (work \ {r}) \cup {b}
      /\ overlapped' = IF OthersAt(r) = {} THEN overlapped ELSE overlapped \cup {i}
      /\ UNCHANGED <<account, asked, changed, pageVars, editVars>>
  BY DEF ApiBegins, Known
<1>2. r \in Requests /\ StaffTypeOK  BY DEF StaffInv, StaffTypeOK
<1>3. i \in Accounts /\ r.roles \in Roles  BY <1>1, <1>2, RequestFields
<1>4. account[i] \in Records  BY <1>1, <1>2, <1>3 DEF StaffTypeOK
<1>5. account[i].roles \subseteq UNION RoleSets  BY <1>4 DEF Records, Roles
<1>6. /\ b \in Requests /\ b.at = "began" /\ b.saw = account[i].roles
      /\ b.i = i /\ b.roles = r.roles /\ b.mine = r.mine /\ b.save = r.save
      /\ b.touched = r.touched /\ b.active = r.active /\ b.seen = r.seen
  BY <1>2, <1>5 DEF Requests, Deleted
<1> HIDE DEF b, i
<1> USE DEF pageVars, editVars
<1>7. StaffTypeOK'
  <2>1. {touched', saving', listFailed'} \subseteq BOOLEAN  BY <1>1, <1>2 DEF StaffTypeOK
  <2>2. work' \subseteq Requests  BY <1>1, <1>2, <1>6 DEF StaffTypeOK
  <2> QED  BY <2>1, <2>2, <1>1, <1>2 DEF StaffTypeOK
<1>8. AccountsMove /\ changed' \in [Accounts -> Counts]
  BY <1>1, <1>2 DEF AccountsMove, AccountMoves, ChangeIsKnown, Same, StaffTypeOK
<1>9. NewsStays /\ listSent' \in Nat
  <2>1. listSent' = listSent /\ listSent \in Nat /\ listFailed' = listFailed
    BY <1>1, <1>2 DEF StaffTypeOK
  <2>2. \A o \in work : o.at = "done" => o \in work'  BY <1>1
  <2> QED  BY <2>1, <2>2 DEF NewsStays
<1>10. RowsAreSound'  BY <1>1, <1>2, <1>8, <1>9, RowsStay DEF StaffInv
<1>11. EditIsSound'  BY <1>1, <1>2, <1>8, EditStays DEF StaffInv
<1>12. RequestsAreSound'
  <2>1. RequestsAreSound /\ overlapped \subseteq overlapped'  BY <1>1 DEF StaffInv
  <2>2. ASSUME NEW o \in work'
        PROVE  /\ o.at = "new" => o.mine /\ o.roles # Absent
               /\ o.at = "began" =>
                    /\ Known(o.i) /\ o.roles # Absent
                    /\ o.i \notin overlapped' => o.saw = account[o.i].roles
               /\ o.save /\ ~o.touched /\ o.at # "done" => TellsActive(o.i, o.active, o.seen)
    <3>1. CASE o = b  BY <3>1, <1>1, <1>6, <2>1 DEF RequestsAreSound, Known, i
    <3>2. CASE o \in work  BY <3>2, <2>1 DEF RequestsAreSound
    <3> QED  BY <3>1, <3>2, <1>1
  <2>3. ASSUME NEW o \in work', NEW q \in work', o.at = "began", q.at = "began",
               o.i = q.i, o.i \notin overlapped'
        PROVE  o = q
    <3>1. CASE o.i = i
      <4>1. OthersAt(r) = {}  BY <3>1, <2>3, <1>1
      <4>2. \A p \in work \ {r} : p.i = i => p.at # "began"  BY <4>1 DEF OthersAt, i
      <4> QED  BY <4>2, <3>1, <2>3, <1>1
    <3>2. CASE o.i # i  BY <3>2, <2>1, <2>3, <1>1, <1>6 DEF RequestsAreSound
    <3> QED  BY <3>1, <3>2
  <2> QED  BY <2>2, <2>3, <1>1 DEF RequestsAreSound, TellsActive, Known
<1>13. RolesAreOfOneChange'  BY <1>1 DEF StaffInv, RolesAreOfOneChange, Known
<1>14. StaffListIsFresh'  BY <1>7, <1>10, StaffShowsIt, PTL
<1> QED  BY <1>7, <1>10, <1>11, <1>12, <1>13, <1>14 DEF StaffInv

-----------------------------------------------------------------------------
(* The accounts, from the start on *)

(* No change is under way and no row is listed. *)
LEMMA UnlistedIsSound ==
  ASSUME StaffInit \/ (StaffClosed /\ account = [i \in Accounts |-> Absent]
                       /\ listSent = 0 /\ listLoads = {})
  PROVE  StaffInv
<1>1. /\ StaffClosed /\ listSent \in Nat /\ account \in [Accounts -> Records \cup {Absent}]
      /\ \A l \in listLoads : l.rows = Absent
      /\ listLoads \subseteq [n : 1..listSent, save : BOOLEAN,
                              rows : [Accounts -> Rows] \cup {Absent}]
      /\ listSent > 0 \/ account = [i \in Accounts |-> Absent]
  <2>1. CASE StaffInit
    <3>1. \A rs \in RoleSets : rs \in Roles  BY StaffAssumption DEF Roles
    <3>2. [active : {TRUE}, roles : RoleSets] \subseteq Records  BY <3>1 DEF Records
    <3>3. account \in [Accounts -> Records \cup {Absent}]  BY <2>1, <3>2 DEF StaffInit
    <3> QED  BY <2>1, <3>3 DEF StaffInit
  <2> QED  BY <2>1
<1> USE DEF StaffClosed
<1>2. Unknown \in Rows /\ Unknown.a = Absent /\ Unknown.v.others = 0 /\ Untouched \in Counts
  BY DEF Unknown, Untouched, Rows, Counts
<1>3. \A i \in Accounts : listed[i] = Unknown /\ changed[i] = Untouched /\ changed[i].others = 0
  BY <1>1 DEF Untouched
<1>4. asked \in [Accounts -> SUBSET UNION RoleSets]
  <2>1. \A i \in Accounts : account[i] # Absent => account[i].roles \subseteq UNION RoleSets
    BY <1>1 DEF Records, Roles
  <2>2. asked = [i \in Accounts |-> IF account[i] = Absent THEN {} ELSE account[i].roles]
    BY <1>1
  <2> QED  BY <2>1, <2>2
<1>5. StaffTypeOK
  <2>1. listed \in [Accounts -> Rows] /\ changed \in [Accounts -> Counts]  BY <1>1, <1>2
  <2>2. {touched, saving, listFailed} \subseteq BOOLEAN  BY <1>1
  <2>3. /\ listShown = 0 /\ listShown <= listSent /\ work = {}
        /\ editing = Absent /\ copy \in Rows
    BY <1>1, <1>2
  <2> QED  BY <1>1, <1>4, <2>1, <2>2, <2>3 DEF StaffTypeOK
<1>6. RowsAreSound
  <2>1. \A i \in Accounts : RowIsSound(i, listed[i])
    BY <1>2, <1>3 DEF RowIsSound
  <2>2. \A i \in Accounts : RowIsFresh(i, listed[i], listShown)
    <3> TAKE i \in Accounts
    <3>1. CASE account = [j \in Accounts |-> Absent]
      BY <3>1, <1>3 DEF RowIsFresh, CopyOf, Unknown
    <3>2. CASE listSent > 0  BY <3>2, <1>1 DEF RowIsFresh
    <3> QED  BY <3>1, <3>2, <1>1
  <2> QED  BY <2>1, <2>2, <1>1 DEF RowsAreSound
<1>7. EditIsSound /\ RequestsAreSound  BY <1>1 DEF EditIsSound, RequestsAreSound
<1>8. RolesAreOfOneChange  BY <1>1 DEF RolesAreOfOneChange, Known
<1>9. StaffListIsFresh  BY <1>5, <1>6, StaffShowsIt
<1> QED  BY <1>5, <1>6, <1>7, <1>8, <1>9 DEF StaffInv

LEMMA StaffKeepsIt ==
  ASSUME StaffInv, StaffNext \/ UNCHANGED staffVars
  PROVE  StaffInv'
<1>1. ASSUME NEW l \in listLoads, ApiListsStaff(l) \/ StaffListed(l) \/ StaffListFails(l)
      PROVE  StaffInv'
  BY <1>1, ReadingKeepsIt, ListingKeepsIt, FailedListKeepsIt
<1>2. ASSUME NEW i \in Accounts, OpenEdit(i) \/ ToggleActive(i) PROVE StaffInv'
  BY <1>2, EditsKeepIt, AskingKeepsIt
<1>3. CASE CloseEdit \/ EditActive \/ SaveEdit  BY <1>3, EditsKeepIt, SavingKeepsIt
<1>4. ASSUME NEW rs \in RoleSets, EditRoles(rs) PROVE StaffInv'  BY <1>4, EditsKeepIt
<1>5. ASSUME NEW i \in Accounts, NEW rs \in RoleSets, CreateAccount(i, rs) PROVE StaffInv'
  BY <1>5, AskingKeepsIt
<1>6. ASSUME NEW i \in Accounts, NEW on \in BOOLEAN, NEW rs \in RoleSets \cup {Absent},
             OthersAsk(i, on, rs)
      PROVE  StaffInv'
  BY <1>6, AskingKeepsIt
<1>7. ASSUME NEW r \in work, ApiCreates(r) PROVE StaffInv'  BY <1>7, CreationKeepsIt
<1>8. ASSUME NEW r \in work, ApiBegins(r) PROVE StaffInv'  BY <1>8, BeginningKeepsIt
<1>9. ASSUME NEW r \in work, ApiCommits(r) PROVE StaffInv'  BY <1>9, CommitKeepsIt
<1>10. ASSUME NEW r \in work, ApiSwitches(r) PROVE StaffInv'  BY <1>10, SwitchKeepsIt
<1>11. ASSUME NEW r \in work, RequestSucceeds(r) \/ StaffRequestFails(r) PROVE StaffInv'
  BY <1>11, AnswersKeepIt
<1>12. ASSUME UNCHANGED staffVars PROVE StaffInv'
  <2>1. /\ UNCHANGED <<account, asked, overlapped, changed, work>>
        /\ UNCHANGED <<listed, listLoads, listSent, listShown, listFailed>>
        /\ UNCHANGED <<editing, copy, touched, saving>>
    BY <1>12 DEF staffVars, dbVars, pageVars, editVars
  <2>2. StaffTypeOK'
    <3>1. {touched', saving', listFailed'} \subseteq BOOLEAN
      BY <2>1 DEF StaffInv, StaffTypeOK
    <3> QED  BY <2>1, <3>1 DEF StaffInv, StaffTypeOK
  <2>3. RowsAreSound'
    BY <2>1 DEF StaffInv, RowsAreSound, RowIsSound, RowIsFresh, TellsActive, Known, CopyOf
  <2>4. EditIsSound'  BY <2>1 DEF StaffInv, EditIsSound, TellsActive, Known
  <2>5. work' \subseteq work /\ UNCHANGED dbVars  BY <2>1 DEF dbVars
  <2> QED  BY <2>2, <2>3, <2>4, <2>5, PageKeepsIt
<1> HIDE DEF StaffInv
<1> QED
  BY <1>1, <1>2, <1>3, <1>4, <1>5, <1>6, <1>7, <1>8, <1>9, <1>10, <1>11, <1>12
  DEF StaffNext

(* A save that ends and changed an account is a commit: what it writes is what
   its administrator saw, as long as the account was not changed since. *)
LEMMA CommitWritesTheCopy ==
  ASSUME StaffInv, StaffNext, NEW r \in work,
         r.save, ~r.touched, r \notin work', r.at = "began", account'[r.i] # account[r.i]
  PROVE  account'[r.i].active = account[r.i].active \/ changed[r.i].all > r.seen
<1>1. \E o \in work : ApiCreates(o) \/ ApiSwitches(o) \/ ApiCommits(o)
  <2>1. account' # account  OBVIOUS
  <2> QED
    BY <2>1 DEF StaffNext, ApiListsStaff, StaffListed, StaffListFails, OpenEdit, ToggleActive,
       CloseEdit, EditActive, SaveEdit, EditRoles, CreateAccount, OthersAsk, ApiBegins,
       RequestSucceeds, RequestAnswers, StaffRequestFails, Asks, dbVars
<1>2. PICK o \in work : ApiCreates(o) \/ ApiSwitches(o) \/ ApiCommits(o)  BY <1>1
<1>3. o = r  BY <1>2 DEF ApiCreates, ApiSwitches, ApiCommits
<1>4. ApiCommits(r)  BY <1>2, <1>3 DEF ApiCreates, ApiSwitches
<1>5. r \in Requests /\ r.i \in Accounts /\ r.seen \in Nat /\ changed[r.i].all \in Nat
  BY RequestFields DEF StaffInv, StaffTypeOK, Counts
<1>6. account'[r.i] = [active |-> r.active, roles |-> Left(r) \cup r.roles]
  BY <1>4, <1>5 DEF ApiCommits, StaffInv, StaffTypeOK
<1>7. TellsActive(r.i, r.active, r.seen)  BY DEF StaffInv, RequestsAreSound
<1> QED  BY <1>5, <1>6, <1>7 DEF TellsActive

-----------------------------------------------------------------------------
(* The tracking page *)

LinkOf == [n : 1..fetched, of : Links, answer : Answers \cup {NoValue}]

(* What a load carries is of the types of the page. *)
LEMMA FetchFields ==
  ASSUME TrackingTypeOK, LoadsAreSound, NEW f \in fetches
  PROVE  /\ f.n \in 1..fetched /\ f.of \in Links /\ f.answer \in Answers \cup {NoValue}
         /\ f.of.protocol \in Protocols
  BY DEF TrackingTypeOK, LoadsAreSound, Whole, Links

LEMMA ButtonFields ==
  ASSUME TrackingTypeOK, NEW r \in asks
  PROVE  /\ r \in Buttons /\ r.of \in Protocols
         /\ r.what \in {"send", "verify", "erase", "disconnect", "upload"}
         /\ r.at \in {"sent", "done"}
  BY DEF TrackingTypeOK, Buttons

LEMMA FoundIsAnswer ==
  ASSUME TrackingTypeOK, NEW p \in Protocols, proposal[p] # Gone
  PROVE  /\ Found(p) \in Answers /\ Found(p) # NoValue
         /\ Found(p).of = p /\ Found(p).nets = proposal[p].nets
         /\ Found(p).request = request[p] /\ Found(p).pending = NoValue
<1>1. proposal[p] \in Entered /\ request[p] \in Nat  BY DEF TrackingTypeOK
<1>2. proposal[p].status \in {"review", "docs"} /\ proposal[p].nets \subseteq Nets
  BY <1>1 DEF Entered
<1>3. Found(p) \in Answers  BY <1>1, <1>2 DEF Found, Answers
<1> QED  BY <1>3, TrackingAssumption DEF Found

(* The items of the last log are those of a request that was made. *)
LEMMA LatestIsLogged ==
  ASSUME TrackingTypeOK, NEW p \in Protocols
  PROVE  LatestLog(p) \in 0..docRequests
<1>1. logs[p] \in Seq(1..docRequests) /\ docRequests \in Nat  BY DEF TrackingTypeOK
<1>2. CASE logs[p] = <<>>  BY <1>1, <1>2 DEF LatestLog
<1>3. CASE logs[p] # <<>>
  <2>1. Len(logs[p]) \in 1..Len(logs[p])  BY <1>1, <1>3
  <2>2. logs[p][Len(logs[p])] \in 1..docRequests  BY <1>1, <2>1
  <2> QED  BY <1>1, <1>3, <2>2 DEF LatestLog
<1> QED  BY <1>2, <1>3

-----------------------------------------------------------------------------
(* What stays while other things move *)

(* What is shown, when the page shows no more than before. *)
LEMMA NetsStay ==
  ASSUME ShownNetsAreThere, tracking' = tracking \/ tracking' = NoValue,
         UNCHANGED proposal, strayed' \in BOOLEAN, ~strayed' => ~strayed,
         ~strayed' => \A o \in asks : o.what = "disconnect" => o \in asks'
  PROVE  ShownNetsAreThere'
  BY DEF ShownNetsAreThere

LEMMA AsksStay ==
  ASSUME AsksAreSound, UNCHANGED proposal, asks' \subseteq asks
  PROVE  AsksAreSound'
  BY DEF AsksAreSound

(* The page and the loads stay as they are. *)
LEMMA ScreenStays ==
  ASSUME TrackingInv, UNCHANGED <<screenVars, proved, request, proposal>>,
         strayed' \in BOOLEAN, ~strayed' => ~strayed,
         docRequests' = docRequests
  PROVE  LoadsAreSound' /\ ShownIsSound' /\ TrackedIsOfUrl' /\ VerifiedUrlOpens'
<1> USE DEF screenVars
<1>1. LoadsAreSound'  BY DEF TrackingInv, LoadsAreSound, PendingIsOf, NetsAreOf
<1>2. ShownIsSound'  BY DEF TrackingInv, ShownIsSound, PendingIsOf
<1>3. TrackedIsOfUrl'  BY DEF TrackingInv, TrackedIsOfUrl, Shown
<1>4. VerifiedUrlOpens'  BY DEF TrackingInv, VerifiedUrlOpens
<1> QED  BY <1>1, <1>2, <1>3, <1>4

LEMMA LogsStay ==
  ASSUME LoggedIsLast, UNCHANGED requestVars
  PROVE  LoggedIsLast'
  BY DEF LoggedIsLast, LatestLog, requestVars

-----------------------------------------------------------------------------
(* The buttons *)

LEMMA PressKeepsIt ==
  ASSUME TrackingInv, NEW r \in Buttons, r.at = "sent",
         r.what \in {"erase", "disconnect", "upload"} => r.of = r.shown,
         Presses(r), otp' \in {"idle", "sending", "sent", "verifying"},
         removal' \in {"idle", "deleting", "done"}
  PROVE  TrackingInv'
<1> USE DEF TrackingInv
<1>1. /\ asks' = asks \cup {r} /\ pressed' = pressed + 1
      /\ UNCHANGED <<proposal, requestVars, code, screenVars, visits, proved, strayed>>
  BY DEF Presses, storeVars, wasVars
<1>2. TrackingTypeOK'
  <2>1. {code', fetchFailed', proved', strayed'} \subseteq BOOLEAN
    BY <1>1 DEF TrackingTypeOK, screenVars
  <2>2. asks' \subseteq Buttons /\ pressed' \in Nat  BY <1>1 DEF TrackingTypeOK
  <2> QED  BY <1>1, <2>1, <2>2 DEF TrackingTypeOK, screenVars, requestVars
<1>3. AsksAreSound'  BY <1>1 DEF AsksAreSound
<1>4. ShownNetsAreThere'
  <2>1. strayed' \in BOOLEAN /\ tracking' = tracking  BY <1>1 DEF TrackingTypeOK, screenVars
  <2> QED  BY <1>1, <2>1, NetsStay
<1>5. LoggedIsLast'  BY <1>1, LogsStay
<1>6. LoadsAreSound' /\ ShownIsSound' /\ TrackedIsOfUrl' /\ VerifiedUrlOpens'
  <2>1. strayed' \in BOOLEAN  BY <1>1 DEF TrackingTypeOK
  <2>2. UNCHANGED <<screenVars, proved, request, proposal, docRequests>>
    BY <1>1 DEF requestVars
  <2> HIDE DEF TrackingInv
  <2> QED  BY <1>1, <2>1, <2>2, ScreenStays
<1> QED  BY <1>2, <1>3, <1>4, <1>5, <1>6

LEMMA ButtonsKeepIt ==
  ASSUME TrackingInv,
         \/ \E p \in Protocols : SendCode(p) \/ VerifyCode(p)
         \/ EraseData \/ SendDocument
         \/ \E net \in Nets : Disconnect(net)
  PROVE  TrackingInv'
<1>1. /\ address.token \in Protocols \cup {NoValue} /\ Shown \in Protocols \cup {NoValue}
      /\ pressed + 1 \in Nat /\ otp \in {"idle", "sending", "sent", "verifying"}
      /\ removal \in {"idle", "deleting", "done"}
      /\ tracking # NoValue => tracking.of \in Protocols /\ Shown = tracking.of
  BY DEF TrackingInv, TrackingTypeOK, Links, Answers, Shown
<1>2. ASSUME NEW what \in {"send", "verify", "erase", "disconnect", "upload"},
             NEW p \in Protocols, NEW net \in Nets \cup {NoValue}
      PROVE  /\ Ask(what, p, net) \in Buttons /\ Ask(what, p, net).at = "sent"
             /\ Ask(what, p, net).what = what /\ Ask(what, p, net).of = p
             /\ Ask(what, p, net).shown = Shown
  <2> DEFINE t == address.token
             s == Shown
             n == pressed + 1
  <2>1. t \in Protocols \cup {NoValue} /\ s \in Protocols \cup {NoValue} /\ n \in Nat  BY <1>1
  <2>2. Ask(what, p, net) = [what |-> what, of |-> p, token |-> t, shown |-> s, net |-> net,
                             at |-> "sent", n |-> n]
    BY DEF Ask
  <2> HIDE DEF t, s, n
  <2> QED  BY <2>1, <2>2 DEF Buttons, s
<1>3. ASSUME NEW p \in Protocols, SendCode(p) PROVE TrackingInv'
  <2> DEFINE r == Ask("send", p, NoValue)
  <2>1. Presses(r) /\ otp' = "sending" /\ removal' = removal  BY <1>3 DEF SendCode
  <2>2. r \in Buttons /\ r.at = "sent" /\ r.what = "send"  BY <1>2
  <2> HIDE DEF r
  <2> QED  BY <2>1, <2>2, <1>1, PressKeepsIt
<1>4. ASSUME NEW p \in Protocols, VerifyCode(p) PROVE TrackingInv'
  <2> DEFINE r == Ask("verify", p, NoValue)
  <2>1. Presses(r) /\ otp' = "verifying" /\ removal' = removal  BY <1>4 DEF VerifyCode
  <2>2. r \in Buttons /\ r.at = "sent" /\ r.what = "verify"  BY <1>2
  <2> HIDE DEF r
  <2> QED  BY <2>1, <2>2, <1>1, PressKeepsIt
<1>5. CASE EraseData
  <2> DEFINE r == Ask("erase", tracking.of, NoValue)
  <2>1. tracking # NoValue /\ Presses(r) /\ removal' = "deleting" /\ otp' = otp
    BY <1>5 DEF EraseData, CanAsk, TargetShown
  <2>2. r \in Buttons /\ r.at = "sent" /\ r.of = r.shown  BY <2>1, <1>1, <1>2
  <2> HIDE DEF r
  <2> QED  BY <2>1, <2>2, <1>1, PressKeepsIt
<1>6. CASE SendDocument
  <2> DEFINE r == Ask("upload", tracking.of, NoValue)
  <2>1. tracking # NoValue /\ Presses(r) /\ removal' = removal /\ otp' = otp
    BY <1>6 DEF SendDocument, CanAsk, TargetShown
  <2>2. r \in Buttons /\ r.at = "sent" /\ r.of = r.shown  BY <2>1, <1>1, <1>2
  <2> HIDE DEF r
  <2> QED  BY <2>1, <2>2, <1>1, PressKeepsIt
<1>7. ASSUME NEW net \in Nets, Disconnect(net) PROVE TrackingInv'
  <2> DEFINE r == Ask("disconnect", tracking.of, net)
  <2>1. tracking # NoValue /\ Presses(r) /\ removal' = removal /\ otp' = otp
    BY <1>7 DEF Disconnect, CanAsk, TargetShown
  <2>2. r \in Buttons /\ r.at = "sent" /\ r.of = r.shown  BY <2>1, <1>1, <1>2
  <2> HIDE DEF r
  <2> QED  BY <2>1, <2>2, <1>1, PressKeepsIt
<1> QED  BY <1>3, <1>4, <1>5, <1>6, <1>7

-----------------------------------------------------------------------------
(* The loads *)

(* A load is answered in part: the page does not see it yet. *)
LEMMA FetchMoves ==
  ASSUME TrackingInv, NEW f \in fetches, NEW g, fetches' = (fetches \ {f}) \cup {g},
         g \in LinkOf, g.n = f.n, g.of = f.of, g.answer \in Answers,
         g.answer.of = f.of.protocol, g.answer.request <= request[f.of.protocol],
         g.answer.pending # NoValue => PendingIsOf(g.answer),
         ~strayed => NetsAreOf(g.answer),
         UNCHANGED <<storeVars, address, tracking, fetched, arrived, fetchFailed, buttonVars,
                     wasVars>>
  PROVE  TrackingInv'
<1> USE DEF TrackingInv, storeVars, buttonVars, wasVars
<1>1. TrackingTypeOK'
  <2>1. {code', fetchFailed', proved', strayed'} \subseteq BOOLEAN  BY DEF TrackingTypeOK
  <2>2. fetches' \subseteq LinkOf  BY DEF TrackingTypeOK, LinkOf
  <2> QED  BY <2>1, <2>2 DEF TrackingTypeOK, requestVars, LinkOf
<1>2. LoadsAreSound'
  <2>1. ASSUME NEW h \in fetches'
        PROVE  /\ Whole(h.of) /\ (h.n = fetched => h.of = address)
               /\ h.answer # NoValue =>
                    /\ h.answer.of = h.of.protocol /\ h.answer.request <= request[h.of.protocol]
                    /\ h.answer.pending # NoValue => PendingIsOf(h.answer)
                    /\ ~strayed => NetsAreOf(h.answer)
    <3>1. CASE h = g  BY <3>1 DEF LoadsAreSound
    <3>2. CASE h \in fetches  BY <3>2 DEF LoadsAreSound
    <3> QED  BY <3>1, <3>2
  <2> QED  BY <2>1 DEF LoadsAreSound, PendingIsOf, NetsAreOf, requestVars
<1>3. LoggedIsLast'  BY LogsStay
<1>4. AsksAreSound'  BY AsksStay
<1>5. ShownNetsAreThere'  BY NetsStay DEF TrackingTypeOK
<1>6. ShownIsSound'  BY DEF ShownIsSound, PendingIsOf, requestVars
<1>7. TrackedIsOfUrl' /\ VerifiedUrlOpens'
  <2>1. TrackedIsOfUrl'  BY DEF TrackedIsOfUrl, Shown
  <2>2. VerifiedUrlOpens'  BY DEF VerifiedUrlOpens
  <2> QED  BY <2>1, <2>2
<1> QED  BY <1>1, <1>2, <1>3, <1>4, <1>5, <1>6, <1>7

LEMMA FindingKeepsIt ==
  ASSUME TrackingInv, NEW f \in fetches, ApiFinds(f)
  PROVE  TrackingInv'
<1> DEFINE p == f.of.protocol
           a == Found(p)
           g == [f EXCEPT !.answer = a]
<1>1. /\ proposal[p] # Gone /\ fetches' = (fetches \ {f}) \cup {g}
      /\ UNCHANGED <<storeVars, address, tracking, fetched, arrived, fetchFailed, buttonVars,
                     wasVars>>
  BY DEF ApiFinds, Opens
<1>2. f \in LinkOf /\ p \in Protocols
  BY FetchFields DEF TrackingInv, TrackingTypeOK, LinkOf
<1>3. /\ a \in Answers /\ a.of = p /\ a.nets = proposal[p].nets /\ a.request = request[p]
      /\ a.pending = NoValue
  BY <1>1, <1>2, FoundIsAnswer DEF TrackingInv
<1> HIDE DEF a
<1>4. g \in LinkOf /\ g.n = f.n /\ g.of = f.of /\ g.answer = a  BY <1>2, <1>3 DEF LinkOf
<1> HIDE DEF g
<1>5. request[p] \in Nat  BY <1>2 DEF TrackingInv, TrackingTypeOK
<1>6. NetsAreOf(g.answer)  BY <1>3, <1>4 DEF NetsAreOf
<1> QED  BY <1>1, <1>3, <1>4, <1>5, <1>6, FetchMoves

LEMMA TrackingReadKeepsIt ==
  ASSUME TrackingInv, NEW f \in fetches, ApiTracks(f)
  PROVE  TrackingInv'
<1> DEFINE p == f.of.protocol
           n == IF f.answer.status = "docs" THEN LatestLog(p) ELSE 0
           a == [f.answer EXCEPT !.pending = n, !.founded = logged[p]]
           g == [f EXCEPT !.answer = a]
<1>1. /\ f.answer # NoValue
      /\ fetches' = (fetches \ {f}) \cup {g}
      /\ UNCHANGED <<storeVars, address, tracking, fetched, arrived, fetchFailed, buttonVars,
                     wasVars>>
  BY DEF ApiTracks
<1>2. fetches' = (fetches \ {f}) \cup {g}  BY <1>1
<1> HIDE DEF g
<1>3. f \in LinkOf /\ p \in Protocols /\ f.answer \in Answers
  BY <1>1, FetchFields DEF TrackingInv, TrackingTypeOK, LinkOf
<1>4. n \in 0..docRequests /\ docRequests \in Nat /\ logged[p] \in BOOLEAN
  BY <1>3, LatestIsLogged DEF TrackingInv, TrackingTypeOK
<1>5. /\ f.answer.of = p /\ f.answer.request <= request[p] /\ f.answer.request \in Nat
      /\ request[p] \in Nat
      /\ ~strayed => NetsAreOf(f.answer)
  BY <1>1, <1>3 DEF TrackingInv, LoadsAreSound, Answers, TrackingTypeOK
<1>6. f.answer.status = "docs" => n = LatestLog(p)  OBVIOUS
<1>7. logged[p] => LatestLog(p) = request[p]  BY <1>3 DEF TrackingInv, LoggedIsLast
<1> HIDE DEF n
<1> DEFINE b == [f.answer EXCEPT !.pending = n]
<1>8. /\ a \in Answers /\ a.of = p /\ a.request = f.answer.request /\ a.pending = n
      /\ a.nets = f.answer.nets /\ a.status = f.answer.status /\ a.founded = logged[p]
  <2>1. n \in Nat \cup {NoValue}  BY <1>4
  <2>2. /\ b \in Answers /\ b.of = p /\ b.request = f.answer.request /\ b.pending = n
        /\ b.nets = f.answer.nets /\ b.status = f.answer.status
    BY <1>3, <1>5, <2>1 DEF Answers
  <2>3. a = [b EXCEPT !.founded = logged[p]]  OBVIOUS
  <2> HIDE DEF a, b
  <2>4. a \in Answers  BY <1>4, <2>2, <2>3 DEF Answers
  <2>5. a.founded = logged[p]  BY <2>2, <2>3 DEF Answers
  <2>6. /\ a.of = p /\ a.request = f.answer.request /\ a.pending = n
        /\ a.nets = f.answer.nets /\ a.status = f.answer.status
    BY <2>2, <2>3 DEF Answers
  <2> QED  BY <2>4, <2>5, <2>6
<1> HIDE DEF a
<1>10. g \in LinkOf /\ g.n = f.n /\ g.of = f.of /\ g.answer = a  BY <1>3, <1>8 DEF LinkOf, g
<1>11. PendingIsOf(a)
  <2>1. a.status = "docs" /\ a.founded => a.pending >= a.request
    BY <1>4, <1>5, <1>6, <1>7, <1>8
  <2> QED  BY <2>1, <1>4, <1>8 DEF PendingIsOf
<1>12. ~strayed => NetsAreOf(a)  BY <1>5, <1>8 DEF NetsAreOf
<1>13. a.request <= request[p]  BY <1>5, <1>8
<1> QED  BY <1>1, <1>2, <1>8, <1>10, <1>11, <1>12, <1>13, FetchMoves

LEMMA FetchedKeepsIt ==
  ASSUME TrackingInv, NEW f \in fetches, FetchAnswers(f)
  PROVE  TrackingInv'
<1> USE DEF TrackingInv
<1>1. /\ f.answer # NoValue /\ f.answer.pending # NoValue
      /\ tracking' = f.answer /\ arrived' = f.n /\ fetches' = fetches \ {f}
      /\ UNCHANGED <<storeVars, address, fetched, fetchFailed, buttonVars, wasVars>>
  BY DEF FetchAnswers
<1> USE DEF storeVars, buttonVars, wasVars
<1>2. f.n \in 1..fetched /\ fetched \in Nat /\ f.answer \in Answers /\ f.of.protocol \in Protocols
  BY <1>1, FetchFields DEF TrackingTypeOK
<1>3. /\ Whole(f.of) /\ (f.n = fetched => f.of = address) /\ f.answer.of = f.of.protocol
      /\ PendingIsOf(f.answer) /\ (~strayed => NetsAreOf(f.answer))
  BY <1>1 DEF LoadsAreSound
<1>4. TrackingTypeOK'
  <2>1. {code', fetchFailed', proved', strayed'} \subseteq BOOLEAN  BY <1>1 DEF TrackingTypeOK
  <2>2. tracking'.pending \in 0..docRequests'  BY <1>1, <1>3 DEF PendingIsOf, requestVars
  <2>3. fetches' \subseteq LinkOf' /\ arrived' \in 0..fetched'
    BY <1>1, <1>2 DEF TrackingTypeOK, LinkOf
  <2> QED  BY <1>1, <1>2, <2>1, <2>2, <2>3 DEF TrackingTypeOK, requestVars, LinkOf
<1>5. LoadsAreSound'
  BY <1>1 DEF LoadsAreSound, PendingIsOf, NetsAreOf, requestVars
<1>6. LoggedIsLast'  BY <1>1, LogsStay
<1>7. AsksAreSound'  BY <1>1, AsksStay
<1>8. ShownNetsAreThere'  BY <1>1, <1>3 DEF ShownNetsAreThere, NetsAreOf
<1>9. ShownIsSound'  BY <1>1, <1>3 DEF ShownIsSound, PendingIsOf, requestVars
<1>10. TrackedIsOfUrl'
  <2>1. CASE f.n = fetched
    <3>1. Shown' = address'.protocol /\ Whole(address)'
      BY <1>1, <1>2, <1>3, <2>1, TrackingAssumption DEF Shown, Whole
    <3> QED  BY <3>1 DEF TrackedIsOfUrl
  <2>2. CASE f.n # fetched  BY <1>1, <2>2 DEF TrackedIsOfUrl
  <2> QED  BY <2>1, <2>2
<1>11. VerifiedUrlOpens'  BY <1>1 DEF VerifiedUrlOpens
<1> QED  BY <1>4, <1>5, <1>6, <1>7, <1>8, <1>9, <1>10, <1>11

LEMMA FailedFetchKeepsIt ==
  ASSUME TrackingInv, NEW f \in fetches, FetchFails(f)
  PROVE  TrackingInv'
<1> USE DEF TrackingInv
<1>1. /\ fetches' = fetches \ {f} /\ fetchFailed' = TRUE
      /\ UNCHANGED <<storeVars, address, tracking, fetched, arrived, buttonVars, wasVars>>
  BY DEF FetchFails
<1> USE DEF storeVars, buttonVars, wasVars
<1>2. TrackingTypeOK'
  <2>1. {code', fetchFailed', proved', strayed'} \subseteq BOOLEAN  BY <1>1 DEF TrackingTypeOK
  <2>2. fetches' \subseteq LinkOf'  BY <1>1 DEF TrackingTypeOK, LinkOf
  <2> QED  BY <1>1, <2>1, <2>2 DEF TrackingTypeOK, requestVars, LinkOf
<1>3. LoadsAreSound'
  BY <1>1 DEF LoadsAreSound, PendingIsOf, NetsAreOf, requestVars
<1>4. LoggedIsLast'  BY <1>1, LogsStay
<1>5. AsksAreSound'  BY <1>1, AsksStay
<1>6. ShownNetsAreThere'  BY <1>1, NetsStay DEF TrackingTypeOK
<1>7. ShownIsSound'  BY <1>1 DEF ShownIsSound, PendingIsOf, requestVars
<1>8. TrackedIsOfUrl'
  <2>1. CASE Whole(address)  BY <1>1, <2>1 DEF TrackedIsOfUrl, Whole
  <2>2. CASE ~Whole(address)  BY <1>1, <2>2 DEF TrackedIsOfUrl, Whole, Shown
  <2> QED  BY <2>1, <2>2
<1>9. VerifiedUrlOpens'  BY <1>1 DEF VerifiedUrlOpens
<1> QED  BY <1>2, <1>3, <1>4, <1>5, <1>6, <1>7, <1>8, <1>9

-----------------------------------------------------------------------------
(* The handlers *)

(* A proposal is erased, loses a network that is disconnected, or moves on. *)
LEMMA HandlerKeepsIt ==
  ASSUME TrackingInv, NEW r \in asks, r.at = "sent", IsDone(r), PageStays,
         UNCHANGED requestVars, code' \in BOOLEAN, strayed' \in BOOLEAN,
         proposal' \in [Protocols -> Entered \cup {Gone}],
         \A p \in Protocols :
           proposal'[p] # Gone =>
             /\ proposal[p] # Gone
             /\ proposal'[p].nets = IF r.what = "disconnect" /\ p = r.of
                                    THEN proposal[p].nets \ {r.net} ELSE proposal[p].nets,
         ~strayed' => /\ ~strayed
                      /\ r.what = "disconnect" => \A f \in fetches : f.answer = NoValue
  PROVE  TrackingInv'
<1> USE DEF TrackingInv
<1> DEFINE d == [r EXCEPT !.at = "done"]
<1>1. /\ asks' = (asks \ {r}) \cup {d}
      /\ UNCHANGED <<screenVars, otp, removal, pressed, visits, proved>>
  BY DEF IsDone, PageStays
<1>2. r \in Buttons /\ r.of \in Protocols  BY ButtonFields
<1>3. /\ d \in Buttons /\ d.at = "done" /\ d.what = r.what /\ d.of = r.of
      /\ d.shown = r.shown /\ d.net = r.net
  BY <1>2 DEF Buttons
<1> HIDE DEF d
<1> USE DEF screenVars
<1>4. TrackingTypeOK'
  <2>1. {code', fetchFailed', proved', strayed'} \subseteq BOOLEAN  BY <1>1 DEF TrackingTypeOK
  <2>2. asks' \subseteq Buttons  BY <1>1, <1>3 DEF TrackingTypeOK
  <2> QED  BY <1>1, <2>1, <2>2 DEF TrackingTypeOK, requestVars
<1>5. LoadsAreSound'
  <2>1. ASSUME NEW f \in fetches, f.answer # NoValue, ~strayed'
        PROVE  proposal'[f.answer.of] = Gone \/ f.answer.nets = proposal'[f.answer.of].nets
    <3>1. f.answer.of \in Protocols /\ r.what # "disconnect"
      BY <2>1, FetchFields DEF LoadsAreSound
    <3>2. NetsAreOf(f.answer)  BY <2>1 DEF LoadsAreSound
    <3> QED  BY <3>1, <3>2 DEF NetsAreOf
  <2> QED  BY <1>1, <2>1 DEF LoadsAreSound, PendingIsOf, NetsAreOf, requestVars
<1>6. LoggedIsLast'  BY LogsStay
<1>7. AsksAreSound'
  <2> SUFFICES ASSUME NEW o \in asks'
               PROVE  /\ o.what \in {"erase", "disconnect", "upload"} => o.of = o.shown
                      /\ o.what = "disconnect" /\ o.at = "done" =>
                           proposal'[o.of] = Gone \/ o.net \notin proposal'[o.of].nets
    BY DEF AsksAreSound
  <2>1. CASE o = d  BY <2>1, <1>2, <1>3 DEF AsksAreSound
  <2>2. CASE o \in asks
    <3>1. o.of \in Protocols  BY <2>2, ButtonFields
    <3> QED  BY <2>2, <3>1 DEF AsksAreSound
  <2> QED  BY <2>1, <2>2, <1>1
<1>8. ShownNetsAreThere'
  <2> DEFINE t == tracking.of
  <2> SUFFICES ASSUME tracking # NoValue, ~strayed', proposal'[t] # Gone
               PROVE  /\ proposal'[t].nets \subseteq tracking.nets
                      /\ \A net \in tracking.nets \ proposal'[t].nets :
                           \E o \in asks' : /\ o.what = "disconnect" /\ o.at = "done"
                                            /\ o.of = t /\ o.net = net
    BY <1>1 DEF ShownNetsAreThere
  <2>1. t \in Protocols  BY DEF TrackingTypeOK, Answers
  <2>2. /\ proposal[t] # Gone
        /\ proposal'[t].nets = IF r.what = "disconnect" /\ t = r.of
                               THEN proposal[t].nets \ {r.net} ELSE proposal[t].nets
    BY <2>1
  <2>3. /\ proposal[t].nets \subseteq tracking.nets
        /\ \A net \in tracking.nets \ proposal[t].nets :
             \E o \in asks : /\ o.what = "disconnect" /\ o.at = "done"
                             /\ o.of = t /\ o.net = net
    BY <2>2 DEF ShownNetsAreThere
  <2> HIDE DEF t
  <2>4. proposal'[t].nets \subseteq tracking.nets  BY <2>2, <2>3
  <2>5. ASSUME NEW net \in tracking.nets \ proposal'[t].nets
        PROVE  \E o \in asks' : /\ o.what = "disconnect" /\ o.at = "done"
                                /\ o.of = t /\ o.net = net
    <3>1. CASE net \notin proposal[t].nets
      <4>1. PICK o \in asks : /\ o.what = "disconnect" /\ o.at = "done"
                              /\ o.of = t /\ o.net = net
        BY <3>1, <2>3, <2>5
      <4>2. o \in asks'  BY <4>1, <1>1
      <4> QED  BY <4>1, <4>2
    <3>2. CASE net \in proposal[t].nets
      <4>1. r.what = "disconnect" /\ t = r.of /\ net = r.net  BY <3>2, <2>2, <2>5
      <4> QED  BY <4>1, <1>1, <1>3
    <3> QED  BY <3>1, <3>2
  <2> QED  BY <2>4, <2>5
<1>9. ShownIsSound'  BY <1>1 DEF ShownIsSound, PendingIsOf, requestVars
<1>10. TrackedIsOfUrl' /\ VerifiedUrlOpens'
  <2>1. TrackedIsOfUrl'  BY <1>1 DEF TrackedIsOfUrl, Shown
  <2>2. VerifiedUrlOpens'  BY <1>1 DEF VerifiedUrlOpens
  <2> QED  BY <2>1, <2>2
<1> QED  BY <1>4, <1>5, <1>6, <1>7, <1>8, <1>9, <1>10

LEMMA HandlersKeepIt ==
  ASSUME TrackingInv, NEW r \in asks,
         \/ ApiSendsCode(r) \/ ApiVerifies(r) \/ ApiErases(r) \/ ApiDisconnects(r)
         \/ ApiReceives(r)
  PROVE  TrackingInv'
<1>1. /\ r.of \in Protocols /\ code \in BOOLEAN /\ strayed \in BOOLEAN
      /\ proposal \in [Protocols -> Entered \cup {Gone}]
  BY ButtonFields DEF TrackingInv, TrackingTypeOK
<1>2. r.at = "sent" /\ IsDone(r) /\ PageStays /\ UNCHANGED requestVars
  BY DEF ApiSendsCode, ApiVerifies, ApiErases, ApiDisconnects, ApiReceives, IsAsked, Accepts,
     storeVars
<1>3. CASE ApiSendsCode(r) \/ ApiVerifies(r)
  <2>1. /\ r.what # "disconnect" /\ UNCHANGED <<proposal, strayed>> /\ code' \in BOOLEAN
    BY <1>1, <1>3 DEF ApiSendsCode, ApiVerifies, IsAsked, storeVars
  <2> QED  BY <1>1, <1>2, <2>1, HandlerKeepsIt
<1>4. CASE ApiErases(r)
  <2>1. /\ r.what = "erase" /\ proposal' = [proposal EXCEPT ![r.of] = Gone]
        /\ UNCHANGED <<code, strayed>>
    BY <1>4 DEF ApiErases, Accepts, IsAsked
  <2>2. proposal' \in [Protocols -> Entered \cup {Gone}]  BY <1>1, <2>1
  <2>3. \A p \in Protocols : proposal'[p] # Gone => proposal'[p] = proposal[p]
    BY <1>1, <2>1
  <2> QED  BY <1>1, <1>2, <2>1, <2>2, <2>3, HandlerKeepsIt
<1>5. CASE ApiDisconnects(r)
  <2> DEFINE then == [proposal[r.of] EXCEPT !.nets = @ \ {r.net}]
  <2>1. /\ r.what = "disconnect" /\ proposal[r.of] # Gone
        /\ proposal' = [proposal EXCEPT ![r.of] = then]
        /\ strayed' = (strayed \/ \E f \in fetches : f.answer # NoValue)
        /\ UNCHANGED code
    BY <1>5 DEF ApiDisconnects, Accepts, IsAsked, Opens
  <2>2. proposal[r.of] \in Entered  BY <1>1, <2>1
  <2>3. then \in Entered /\ then.nets = proposal[r.of].nets \ {r.net}
    BY <2>2 DEF Entered
  <2> HIDE DEF then
  <2>4. /\ proposal' \in [Protocols -> Entered \cup {Gone}] /\ proposal'[r.of] = then
        /\ \A p \in Protocols \ {r.of} : proposal'[p] = proposal[p]
    BY <1>1, <2>1, <2>3
  <2>5. /\ strayed' \in BOOLEAN
        /\ ~strayed' => ~strayed /\ \A f \in fetches : f.answer = NoValue
    BY <2>1
  <2> QED  BY <1>1, <1>2, <2>1, <2>3, <2>4, <2>5, HandlerKeepsIt
<1>6. CASE ApiReceives(r)
  <2> DEFINE status == IF proposal[r.of].status = "docs" THEN "review"
                       ELSE proposal[r.of].status
             then == [proposal[r.of] EXCEPT !.status = status]
  <2>1. /\ r.what = "upload" /\ proposal[r.of] # Gone
        /\ proposal' = [proposal EXCEPT ![r.of] = then]
        /\ UNCHANGED <<code, strayed>>
    BY <1>6 DEF ApiReceives, Accepts, IsAsked, Opens
  <2>2. proposal[r.of] \in Entered  BY <1>1, <2>1
  <2>3. status \in {"review", "docs"}  BY <2>2 DEF Entered
  <2> HIDE DEF status
  <2>4. then \in Entered /\ then.nets = proposal[r.of].nets  BY <2>2, <2>3 DEF Entered
  <2> HIDE DEF then
  <2>5. /\ proposal' \in [Protocols -> Entered \cup {Gone}] /\ proposal'[r.of] = then
        /\ \A p \in Protocols \ {r.of} : proposal'[p] = proposal[p]
    BY <1>1, <2>1, <2>4
  <2> QED  BY <1>1, <1>2, <2>1, <2>4, <2>5, HandlerKeepsIt
<1> QED  BY <1>3, <1>4, <1>5, <1>6

-----------------------------------------------------------------------------
(* The answers, and the URL *)

(* The page goes to another URL: what it waited for is of the one before. *)
LEMMA GoingMovesOn ==
  ASSUME TrackingInv, NEW u \in Links, GoesTo(u),
         UNCHANGED <<storeVars, strayed>>
  PROVE  /\ address' = u /\ fetched' \in Nat /\ arrived' \in 0..fetched'
         /\ tracking' = tracking \/ tracking' = NoValue
         /\ fetchFailed' \in BOOLEAN
         /\ fetches' \subseteq [n : 1..fetched', of : Links, answer : Answers \cup {NoValue}]
         /\ LoadsAreSound' /\ TrackedIsOfUrl'
<1> USE DEF TrackingInv, storeVars, requestVars
<1>1. /\ fetched \in Nat /\ arrived \in 0..fetched /\ fetchFailed \in BOOLEAN
      /\ fetches \subseteq LinkOf
  BY DEF TrackingTypeOK, LinkOf
<1>2. address' = u /\ fetched' = fetched + 1  BY DEF GoesTo
<1>3. fetches \subseteq [n : 1..fetched', of : Links, answer : Answers \cup {NoValue}]
  BY <1>1, <1>2 DEF LinkOf
<1>4. \A f \in fetches : f.n \in 1..fetched  BY <1>1 DEF LinkOf
<1>5. CASE Whole(u)
  <2> DEFINE l == [n |-> fetched + 1, of |-> u, answer |-> NoValue]
  <2>1. fetches' = fetches \cup {l} /\ fetchFailed' = FALSE /\ UNCHANGED <<tracking, arrived>>
    BY <1>5 DEF GoesTo
  <2>2. /\ l \in [n : 1..fetched', of : Links, answer : Answers \cup {NoValue}]
        /\ l.of = u /\ l.answer = NoValue
    BY <1>1, <1>2
  <2> HIDE DEF l
  <2>3. LoadsAreSound'
    <3> SUFFICES ASSUME NEW f \in fetches'
                 PROVE  /\ Whole(f.of) /\ (f.n = fetched' => f.of = address')
                        /\ f.answer # NoValue =>
                             /\ f.answer.of = f.of.protocol
                             /\ f.answer.request <= request[f.of.protocol]
                             /\ f.answer.pending # NoValue => PendingIsOf(f.answer)
                             /\ ~strayed => NetsAreOf(f.answer)
      BY DEF LoadsAreSound, PendingIsOf, NetsAreOf
    <3>1. CASE f = l  BY <3>1, <2>2, <1>2, <1>5
    <3>2. CASE f \in fetches
      <4>1. f.n # fetched'  BY <3>2, <1>1, <1>2, <1>4
      <4> QED  BY <3>2, <4>1 DEF LoadsAreSound
    <3> QED  BY <3>1, <3>2, <2>1
  <2>4. arrived' # fetched' /\ arrived' \in 0..fetched'  BY <1>1, <1>2, <2>1
  <2>5. TrackedIsOfUrl'  BY <2>4 DEF TrackedIsOfUrl
  <2>6. fetchFailed' \in BOOLEAN  BY <2>1
  <2> QED  BY <1>1, <1>2, <1>3, <2>1, <2>2, <2>3, <2>4, <2>5, <2>6
<1>6. CASE ~Whole(u)
  <2>1. /\ tracking' = NoValue /\ arrived' = fetched + 1
        /\ UNCHANGED <<fetches, fetchFailed>>
    BY <1>6 DEF GoesTo
  <2>2. LoadsAreSound'
    <3>1. \A f \in fetches : f.n # fetched'  BY <1>1, <1>2, <1>4
    <3> QED  BY <3>1, <2>1 DEF LoadsAreSound, PendingIsOf, NetsAreOf
  <2>3. TrackedIsOfUrl'  BY <2>1, <1>2, <1>6 DEF TrackedIsOfUrl, Shown, Whole
  <2>4. arrived' \in 0..fetched'  BY <1>1, <1>2, <2>1
  <2> QED  BY <1>1, <1>2, <1>3, <2>1, <2>2, <2>3, <2>4
<1> QED  BY <1>5, <1>6

(* The page goes to another URL, and what it asked for is as it was or over. *)
LEMMA GoingKeepsIt ==
  ASSUME TrackingInv, NEW u \in Links, GoesTo(u), UNCHANGED <<storeVars, strayed>>,
         asks' \subseteq asks, \A o \in asks : o.what = "disconnect" => o \in asks',
         proved' \in BOOLEAN, proved' => u.protocol = u.token,
         otp' \in {"idle", "sending", "sent", "verifying"},
         removal' \in {"idle", "deleting", "done"}, {pressed', visits'} \subseteq Nat
  PROVE  TrackingInv'
<1> USE DEF TrackingInv
<1>1. /\ address' = u /\ fetched' \in Nat /\ arrived' \in 0..fetched'
      /\ tracking' = tracking \/ tracking' = NoValue
      /\ fetchFailed' \in BOOLEAN
      /\ fetches' \subseteq [n : 1..fetched', of : Links, answer : Answers \cup {NoValue}]
      /\ LoadsAreSound' /\ TrackedIsOfUrl'
  <2> HIDE DEF TrackingInv
  <2> QED  BY GoingMovesOn
<1> USE DEF storeVars
<1>2. TrackingTypeOK'
  <2>1. {code', fetchFailed', proved', strayed'} \subseteq BOOLEAN  BY <1>1 DEF TrackingTypeOK
  <2>2. asks' \subseteq Buttons  BY DEF TrackingTypeOK
  <2>3. /\ tracking' \in Answers \cup {NoValue}
        /\ tracking' # NoValue => tracking'.pending \in 0..docRequests
    BY <1>1 DEF TrackingTypeOK
  <2> QED  BY <1>1, <2>1, <2>2, <2>3 DEF TrackingTypeOK, requestVars
<1>3. LoggedIsLast'  BY LogsStay
<1>4. AsksAreSound'  BY AsksStay
<1>5. ShownNetsAreThere'
  <2>1. strayed' \in BOOLEAN  BY DEF TrackingTypeOK
  <2> QED  BY <1>1, <2>1, NetsStay
<1>6. ShownIsSound'  BY <1>1 DEF ShownIsSound, PendingIsOf, requestVars
<1>7. VerifiedUrlOpens'  BY <1>1 DEF VerifiedUrlOpens
<1> QED  BY <1>1, <1>2, <1>3, <1>4, <1>5, <1>6, <1>7

(* An answer that leaves the URL alone: a network may be taken off. *)
LEMMA OverKeepsIt ==
  ASSUME TrackingInv, NEW r \in asks, asks' = asks \ {r},
         UNCHANGED <<storeVars, address, fetches, fetched, arrived, fetchFailed, pressed, visits>>,
         proved' = proved \/ proved' = FALSE, proved' \in BOOLEAN,
         otp' \in {"idle", "sending", "sent", "verifying"},
         removal' \in {"idle", "deleting", "done"},
         strayed' \in BOOLEAN, ~strayed' => ~strayed,
         tracking' \in Answers \cup {NoValue}, TrackedIsOfUrl',
         tracking' # NoValue => /\ tracking'.pending = tracking.pending /\ tracking # NoValue
                                /\ tracking'.status = tracking.status
                                /\ tracking'.founded = tracking.founded
                                /\ tracking'.request = tracking.request,
         ShownNetsAreThere'
  PROVE  TrackingInv'
<1> USE DEF TrackingInv, storeVars
<1>1. TrackingTypeOK'
  <2>1. {code', fetchFailed', proved', strayed'} \subseteq BOOLEAN  BY DEF TrackingTypeOK
  <2>2. asks' \subseteq Buttons  BY DEF TrackingTypeOK
  <2>3. tracking' # NoValue => tracking'.pending \in 0..docRequests'
    BY DEF TrackingTypeOK, requestVars
  <2> QED  BY <2>1, <2>2, <2>3 DEF TrackingTypeOK, requestVars
<1>2. LoadsAreSound'  BY DEF LoadsAreSound, PendingIsOf, NetsAreOf, requestVars
<1>3. LoggedIsLast'  BY LogsStay
<1>4. AsksAreSound'  BY AsksStay
<1>5. ShownIsSound'  BY DEF ShownIsSound, PendingIsOf, requestVars
<1>6. VerifiedUrlOpens'
  <2>1. CASE proved' = proved  BY <2>1 DEF VerifiedUrlOpens
  <2>2. CASE proved' = FALSE  BY <2>2 DEF VerifiedUrlOpens
  <2> QED  BY <2>1, <2>2
<1> QED  BY <1>1, <1>2, <1>3, <1>4, <1>5, <1>6

(* The screen stays: a code was sent, a document was, or a request failed. *)
LEMMA QuietAnswersKeepIt ==
  ASSUME TrackingInv, NEW r \in asks, CodeSent(r) \/ DocumentSent(r) \/ AskFails(r)
  PROVE  TrackingInv'
<1>1. /\ asks' = asks \ {r}
      /\ UNCHANGED <<storeVars, address, tracking, fetches, fetched, arrived, fetchFailed,
                     pressed, visits>>
  BY DEF CodeSent, DocumentSent, AskFails, Answered, Over, screenVars
<1>2. UNCHANGED proved  BY DEF CodeSent, DocumentSent, AskFails, wasVars
<1>3. proved' \in BOOLEAN  BY <1>2 DEF TrackingInv, TrackingTypeOK
<1>4. /\ otp' \in {"idle", "sending", "sent", "verifying"}
      /\ removal' \in {"idle", "deleting", "done"}
  <2>1. /\ otp \in {"idle", "sending", "sent", "verifying"}
        /\ removal \in {"idle", "deleting", "done"}
    BY DEF TrackingInv, TrackingTypeOK
  <2>2. CASE CodeSent(r) \/ DocumentSent(r)  BY <2>1, <2>2 DEF CodeSent, DocumentSent
  <2>3. CASE AskFails(r)
    <3>1. /\ otp' = CASE r.what = "send" -> "idle"
                      [] r.what = "verify" -> "sent"
                      [] OTHER -> otp
          /\ removal' = IF r.what = "erase" THEN "idle" ELSE removal
      BY <2>3 DEF AskFails
    <3>2. otp' \in {"idle", "sending", "sent", "verifying"}
      <4>1. CASE r.what = "send"  BY <3>1, <4>1
      <4>2. CASE r.what = "verify"  BY <3>1, <4>2
      <4>3. CASE r.what # "send" /\ r.what # "verify"  BY <2>1, <3>1, <4>3
      <4> QED  BY <4>1, <4>2, <4>3
    <3> QED  BY <2>1, <3>1, <3>2
  <2> QED  BY <2>2, <2>3
<1>5. /\ strayed' \in BOOLEAN
      /\ ~strayed' => ~strayed /\ r.what # "disconnect"
  <2>1. strayed \in BOOLEAN  BY DEF TrackingInv, TrackingTypeOK
  <2>2. CASE CodeSent(r) \/ DocumentSent(r)
    <3>1. strayed' = strayed /\ r.what # "disconnect"
      BY <2>2 DEF CodeSent, DocumentSent, Answered, wasVars
    <3> QED  BY <2>1, <3>1
  <2>3. CASE AskFails(r)
    <3>1. strayed' = (strayed \/ r.what = "disconnect")  BY <2>3 DEF AskFails
    <3> QED  BY <3>1
  <2> QED  BY <2>2, <2>3
<1>6. ShownNetsAreThere'
  <2>1. UNCHANGED proposal  BY <1>1 DEF storeVars
  <2>2. ShownNetsAreThere  BY DEF TrackingInv
  <2>3. ~strayed' => \A o \in asks : o.what = "disconnect" => o \in asks'
    <3>1. SUFFICES ASSUME ~strayed' PROVE \A o \in asks : o.what = "disconnect" => o \in asks'
      BY <3>1
    <3>2. r.what # "disconnect"  BY <3>1, <1>5
    <3> QED  BY <3>2, <1>1
  <2> QED  BY <1>1, <1>5, <2>1, <2>2, <2>3, NetsStay
<1>7. TrackedIsOfUrl'  BY <1>1 DEF TrackingInv, TrackedIsOfUrl, Shown
<1>8. tracking' \in Answers \cup {NoValue}  BY <1>1 DEF TrackingInv, TrackingTypeOK
<1> QED  BY <1>1, <1>2, <1>3, <1>4, <1>5, <1>6, <1>7, <1>8, OverKeepsIt

LEMMA NetworkGoneKeepsIt ==
  ASSUME TrackingInv, NEW r \in asks, NetworkGone(r)
  PROVE  TrackingInv'
<1> DEFINE then == [tracking EXCEPT !.nets = Without(@, r.net)]
<1>1. /\ asks' = asks \ {r} /\ r.at = "done" /\ r.what = "disconnect"
      /\ tracking' = IF tracking = NoValue THEN NoValue ELSE then
      /\ strayed' = (strayed \/ Shown # r.of)
      /\ UNCHANGED <<storeVars, address, fetches, fetched, arrived, fetchFailed, otp,
                     removal, pressed, visits, proved>>
  BY DEF NetworkGone, Answered, Over
<1>2. /\ tracking \in Answers \cup {NoValue} /\ proved' \in BOOLEAN
      /\ otp' \in {"idle", "sending", "sent", "verifying"}
      /\ removal' \in {"idle", "deleting", "done"}
  BY <1>1 DEF TrackingInv, TrackingTypeOK
<1>3. tracking # NoValue =>
        /\ then \in Answers /\ then # NoValue /\ then.of = tracking.of
        /\ then.nets = tracking.nets \ {r.net}
        /\ then.pending = tracking.pending /\ then.status = tracking.status
        /\ then.founded = tracking.founded /\ then.request = tracking.request
  <2> SUFFICES ASSUME tracking # NoValue
               PROVE  /\ then \in Answers /\ then # NoValue /\ then.of = tracking.of
                      /\ then.nets = tracking.nets \ {r.net}
                      /\ then.pending = tracking.pending /\ then.status = tracking.status
                      /\ then.founded = tracking.founded /\ then.request = tracking.request
    OBVIOUS
  <2>1. tracking \in Answers  BY <1>2
  <2>2. then \in Answers  BY <2>1 DEF Answers, Without
  <2>3. then.of = tracking.of /\ then.nets = tracking.nets \ {r.net}
    BY <2>1 DEF Answers, Without
  <2>4. /\ then.pending = tracking.pending /\ then.status = tracking.status
        /\ then.request = tracking.request
    BY <2>1 DEF Answers
  <2>5. then.founded = tracking.founded  BY <2>1 DEF Answers
  <2> HIDE DEF then
  <2> QED  BY <2>2, <2>3, <2>4, <2>5, TrackingAssumption
<1> HIDE DEF then
<1>4. strayed' \in BOOLEAN /\ (~strayed' => ~strayed /\ Shown = r.of)  BY <1>1
<1>5. tracking' \in Answers \cup {NoValue} /\ Shown' = Shown
  BY <1>1, <1>2, <1>3 DEF Shown
<1>6. TrackedIsOfUrl'  BY <1>1, <1>5 DEF TrackingInv, TrackedIsOfUrl
<1>7. ShownNetsAreThere'
  <2> DEFINE t == tracking.of
  <2> SUFFICES ASSUME tracking # NoValue, ~strayed', proposal[t] # Gone
               PROVE  /\ proposal[t].nets \subseteq then.nets
                      /\ \A net \in then.nets \ proposal[t].nets :
                           \E o \in asks' : /\ o.what = "disconnect" /\ o.at = "done"
                                            /\ o.of = t /\ o.net = net
    BY <1>1, <1>3 DEF ShownNetsAreThere, storeVars
  <2>1. t = r.of /\ then.nets = tracking.nets \ {r.net}  BY <1>3, <1>4 DEF Shown
  <2>2. r.net \notin proposal[t].nets  BY <1>1, <2>1 DEF TrackingInv, AsksAreSound
  <2>3. /\ proposal[t].nets \subseteq tracking.nets
        /\ \A net \in tracking.nets \ proposal[t].nets :
             \E o \in asks : /\ o.what = "disconnect" /\ o.at = "done"
                             /\ o.of = t /\ o.net = net
    BY <1>4 DEF TrackingInv, ShownNetsAreThere
  <2> HIDE DEF t
  <2> QED  BY <1>1, <2>1, <2>2, <2>3
<1>8. UNCHANGED <<storeVars, address, fetches, fetched, arrived, fetchFailed, pressed, visits>>
  BY <1>1
<1> QED
  BY <1>1, <1>2, <1>3, <1>4, <1>5, <1>6, <1>7, <1>8, OverKeepsIt

LEMMA VisitsKeepIt ==
  ASSUME TrackingInv,
         \/ \E u \in [protocol : Protocols, token : Protocols] : Search(u)
         \/ \E r \in asks : CodeProved(r) \/ DataErased(r)
  PROVE  TrackingInv'
<1>1. /\ otp \in {"idle", "sending", "sent", "verifying"} /\ strayed \in BOOLEAN
      /\ removal \in {"idle", "deleting", "done"} /\ {pressed, visits} \subseteq Nat
      /\ tracking \in Answers \cup {NoValue} /\ proved \in BOOLEAN
  BY DEF TrackingInv, TrackingTypeOK
<1>2. ASSUME NEW u \in [protocol : Protocols, token : Protocols], Search(u)
      PROVE  TrackingInv'
  <2>1. /\ GoesTo(u) /\ visits' = visits + 1 /\ proved' = FALSE
        /\ UNCHANGED <<storeVars, otp, removal, asks, pressed, strayed>>
    BY <1>2 DEF Search, Visits
  <2>2. u \in Links /\ {pressed', visits'} \subseteq Nat  BY <1>1, <2>1 DEF Links
  <2> QED  BY <1>1, <2>1, <2>2, GoingKeepsIt
<1>3. ASSUME NEW r \in asks, CodeProved(r) PROVE TrackingInv'
  <2>1. /\ r.what = "verify" /\ asks' = asks \ {r} /\ proved' = TRUE
        /\ UNCHANGED <<storeVars, otp, removal, pressed, visits, strayed>>
    BY <1>3 DEF CodeProved, Answered, Over
  <2>2. Pair(r.of) \in Links /\ Pair(r.of).protocol = Pair(r.of).token
    <3>1. r.of \in Protocols  BY ButtonFields DEF TrackingInv
    <3> QED  BY <3>1 DEF Pair, Links
  <2>3. \A o \in asks : o.what = "disconnect" => o \in asks'  BY <2>1
  <2>4. CASE Pair(r.of) = address
    <3>1. UNCHANGED screenVars  BY <1>3, <2>4 DEF CodeProved, ProvedPair
    <3> USE DEF screenVars
    <3>2. TrackingTypeOK'
      <4>1. {code', fetchFailed', proved', strayed'} \subseteq BOOLEAN
        BY <2>1, <3>1 DEF TrackingInv, TrackingTypeOK, storeVars
      <4>2. asks' \subseteq Buttons  BY <2>1 DEF TrackingInv, TrackingTypeOK
      <4> QED  BY <2>1, <3>1, <4>1, <4>2 DEF TrackingInv, TrackingTypeOK, storeVars, requestVars
    <3>3. LoadsAreSound'
      BY <2>1, <3>1 DEF TrackingInv, LoadsAreSound, PendingIsOf, NetsAreOf, storeVars,
         requestVars
    <3>4. LoggedIsLast'  BY <2>1, LogsStay DEF TrackingInv, storeVars
    <3>5. AsksAreSound'  BY <2>1, AsksStay DEF TrackingInv, storeVars
    <3>6. ShownNetsAreThere'
      BY <1>1, <2>1, <2>3, <3>1, NetsStay DEF TrackingInv, storeVars
    <3>7. ShownIsSound'
      BY <2>1, <3>1 DEF TrackingInv, ShownIsSound, PendingIsOf, storeVars, requestVars
    <3>8. TrackedIsOfUrl'  BY <3>1 DEF TrackingInv, TrackedIsOfUrl, Shown
    <3>9. VerifiedUrlOpens'  BY <2>2, <2>4, <3>1 DEF VerifiedUrlOpens
    <3> QED  BY <3>2, <3>3, <3>4, <3>5, <3>6, <3>7, <3>8, <3>9 DEF TrackingInv
  <2>5. CASE Pair(r.of) # address
    <3>1. GoesTo(Pair(r.of))  BY <1>3, <2>5 DEF CodeProved, ProvedPair, Visits
    <3>2. proved' \in BOOLEAN /\ asks' \subseteq asks  BY <2>1
    <3>3. {pressed', visits'} \subseteq Nat  BY <1>1, <2>1
    <3> QED  BY <1>1, <2>1, <2>2, <2>3, <3>1, <3>2, <3>3, GoingKeepsIt
  <2> QED  BY <2>4, <2>5
<1>4. ASSUME NEW r \in asks, DataErased(r) PROVE TrackingInv'
  <2>1. /\ r.what = "erase" /\ asks' = asks \ {r} /\ proved' = FALSE /\ removal' = "done"
        /\ UNCHANGED <<storeVars, otp, pressed, visits, strayed>>
    BY <1>4 DEF DataErased, Answered, Over
  <2>2. \A o \in asks : o.what = "disconnect" => o \in asks'  BY <2>1
  <2>3. CASE address = Empty
    <3>1. tracking' = NoValue /\ UNCHANGED <<address, fetches, fetched, arrived, fetchFailed>>
      BY <1>4, <2>3 DEF DataErased
    <3>2. TrackedIsOfUrl'  BY <2>3, <3>1 DEF TrackedIsOfUrl, Whole, Empty, Shown
    <3>3. ShownNetsAreThere'  BY <3>1 DEF ShownNetsAreThere
    <3>4. UNCHANGED <<storeVars, address, fetches, fetched, arrived, fetchFailed, pressed,
                      visits>>
      BY <2>1, <3>1
    <3>5. proved' \in BOOLEAN /\ strayed' \in BOOLEAN /\ tracking' \in Answers \cup {NoValue}
      BY <1>1, <2>1, <3>1
    <3>6. /\ otp' \in {"idle", "sending", "sent", "verifying"}
          /\ removal' \in {"idle", "deleting", "done"}
      BY <1>1, <2>1
    <3> QED  BY <2>1, <3>1, <3>2, <3>3, <3>4, <3>5, <3>6, OverKeepsIt
  <2>4. CASE address # Empty
    <3>1. GoesTo(Empty)  BY <1>4, <2>4 DEF DataErased, Visits
    <3>2. Empty \in Links /\ proved' \in BOOLEAN /\ asks' \subseteq asks
      BY <2>1 DEF Empty, Links
    <3>3. {pressed', visits'} \subseteq Nat  BY <1>1, <2>1
    <3> QED  BY <1>1, <2>1, <2>2, <3>1, <3>2, <3>3, GoingKeepsIt
  <2> QED  BY <2>3, <2>4
<1> QED  BY <1>2, <1>3, <1>4

-----------------------------------------------------------------------------
(* The back office *)

LEMMA OfficeKeepsIt ==
  ASSUME TrackingInv, NEW p \in Protocols, RequestChanges(p) \/ BulkPending(p)
  PROVE  TrackingInv'
<1> USE DEF TrackingInv
<1> DEFINE then == [proposal[p] EXCEPT !.status = "docs"]
           n == docRequests + 1
<1>1. /\ proposal[p] # Gone /\ proposal' = [proposal EXCEPT ![p] = then]
      /\ docRequests' = n /\ request' = [request EXCEPT ![p] = n]
      /\ logged' = [logged EXCEPT ![p] = FALSE]
      /\ UNCHANGED <<logs, code, screenVars, buttonVars, proved, strayed>>
      /\ writing' = writing \/ writing' = writing \cup {[of |-> p, n |-> n]}
  BY DEF RequestChanges, BulkPending, NewRequest, wasVars
<1> USE DEF screenVars, buttonVars
<1>2. /\ docRequests \in Nat /\ request \in [Protocols -> 0..docRequests]
      /\ logs \in [Protocols -> Seq(1..docRequests)]
      /\ proposal \in [Protocols -> Entered \cup {Gone}]
      /\ writing \subseteq [of : Protocols, n : 1..docRequests]
      /\ logged \in [Protocols -> BOOLEAN]
  BY DEF TrackingTypeOK
<1>3. proposal[p] \in Entered  BY <1>1, <1>2
<1>4. then \in Entered /\ then.nets = proposal[p].nets  BY <1>3 DEF Entered
<1> HIDE DEF then
<1>5. /\ proposal' \in [Protocols -> Entered \cup {Gone}]
      /\ \A q \in Protocols : /\ proposal'[q] # Gone <=> proposal[q] # Gone
                              /\ proposal'[q].nets = proposal[q].nets
  BY <1>1, <1>2, <1>4, TrackingAssumption
<1>6. /\ request' \in [Protocols -> 0..n]
      /\ \A q \in Protocols : request[q] \in Nat /\ request'[q] \in Nat /\ request[q] <= request'[q]
  BY <1>1, <1>2
<1>7. logs' \in [Protocols -> Seq(1..n)]
  <2>1. 1..docRequests \subseteq 1..n  BY <1>2
  <2>2. \A q \in Protocols : logs[q] \in Seq(1..n)
    <3> TAKE q \in Protocols
    <3>1. logs[q] \in Seq(1..docRequests)  BY <1>2
    <3> QED  BY <2>1, <3>1, SeqMonotonic
  <2> QED  BY <1>1, <1>2, <2>2
<1>8. writing' \subseteq [of : Protocols, n : 1..docRequests']
  <2>1. writing \subseteq [of : Protocols, n : 1..n]  BY <1>2
  <2>2. [of |-> p, n |-> n] \in [of : Protocols, n : 1..n]  BY <1>2
  <2> HIDE DEF n
  <2> QED  BY <1>1, <2>1, <2>2
<1>9. logged' \in [Protocols -> BOOLEAN]  BY <1>1, <1>2
<1>10. TrackingTypeOK'
  <2>1. {code', fetchFailed', proved', strayed'} \subseteq BOOLEAN  BY <1>1 DEF TrackingTypeOK
  <2>2. tracking # NoValue => tracking.pending \in 0..n
    <3>1. tracking # NoValue => tracking.pending \in 0..docRequests  BY DEF TrackingTypeOK
    <3> QED  BY <3>1, <1>2
  <2>3. n \in Nat  BY <1>2
  <2> HIDE DEF n
  <2> QED  BY <1>1, <1>5, <1>6, <1>7, <1>8, <1>9, <2>1, <2>2, <2>3 DEF TrackingTypeOK
<1>11. LoadsAreSound'
  <2> SUFFICES ASSUME NEW f \in fetches
               PROVE  /\ Whole(f.of) /\ (f.n = fetched => f.of = address)
                      /\ f.answer # NoValue =>
                           /\ f.answer.of = f.of.protocol
                           /\ f.answer.request <= request'[f.of.protocol]
                           /\ f.answer.pending # NoValue => PendingIsOf(f.answer)'
                           /\ ~strayed => \/ proposal'[f.answer.of] = Gone
                                          \/ f.answer.nets = proposal'[f.answer.of].nets
    BY <1>1 DEF LoadsAreSound, NetsAreOf, PendingIsOf
  <2>1. f.of.protocol \in Protocols /\ f.answer \in Answers \cup {NoValue}  BY FetchFields
  <2>2. Whole(f.of) /\ (f.n = fetched => f.of = address)  BY DEF LoadsAreSound
  <2>3. ASSUME f.answer # NoValue
        PROVE  /\ f.answer.of = f.of.protocol
               /\ f.answer.request <= request'[f.of.protocol]
    <3>1. f.answer.of = f.of.protocol /\ f.answer.request <= request[f.of.protocol]
      BY <2>3 DEF LoadsAreSound
    <3>2. f.answer.request \in Nat  BY <2>1, <2>3 DEF Answers
    <3> QED  BY <2>1, <3>1, <3>2, <1>6
  <2>4. ASSUME f.answer # NoValue, f.answer.pending # NoValue PROVE PendingIsOf(f.answer)'
    <3>1. PendingIsOf(f.answer)  BY <2>4 DEF LoadsAreSound
    <3> QED  BY <3>1, <1>1, <1>2 DEF PendingIsOf
  <2>5. ASSUME f.answer # NoValue, ~strayed
        PROVE  proposal'[f.answer.of] = Gone \/ f.answer.nets = proposal'[f.answer.of].nets
    <3>1. NetsAreOf(f.answer) /\ f.answer.of \in Protocols  BY <2>1, <2>5 DEF LoadsAreSound
    <3> QED  BY <3>1, <1>5 DEF NetsAreOf
  <2> QED  BY <2>2, <2>3, <2>4, <2>5
<1>12. LoggedIsLast'
  BY <1>1, <1>2 DEF LoggedIsLast, LatestLog
<1>13. AsksAreSound'
  <2>1. \A o \in asks : o.of \in Protocols  BY ButtonFields
  <2> QED  BY <2>1, <1>1, <1>5 DEF AsksAreSound
<1>14. ShownNetsAreThere'
  <2>1. tracking # NoValue => tracking.of \in Protocols  BY DEF TrackingTypeOK, Answers
  <2> QED  BY <2>1, <1>1, <1>5 DEF ShownNetsAreThere
<1>15. ShownIsSound'  BY <1>1, <1>2 DEF ShownIsSound, PendingIsOf
<1>16. TrackedIsOfUrl' /\ VerifiedUrlOpens'
  <2>1. TrackedIsOfUrl'  BY <1>1 DEF TrackedIsOfUrl, Shown
  <2>2. VerifiedUrlOpens'  BY <1>1 DEF VerifiedUrlOpens
  <2> QED  BY <2>1, <2>2
<1> QED  BY <1>10, <1>11, <1>12, <1>13, <1>14, <1>15, <1>16

LEMMA AppendIsLast ==
  ASSUME NEW n \in Nat, NEW s \in Seq(1..n), NEW i \in 1..n
  PROVE  /\ Append(s, i) # <<>> /\ Len(Append(s, i)) = Len(s) + 1
         /\ Append(s, i)[Len(s) + 1] = i
  BY AppendProperties

(* A log is written: it is the last one, and the flag tells what that is of. *)
LEMMA LogKeepsIt ==
  ASSUME TrackingInv, NEW r \in writing, WritesLog(r)
  PROVE  TrackingInv'
<1> USE DEF TrackingInv
<1> DEFINE last == request[r.of] = r.n /\ \A o \in writing' : o.of # r.of
<1>1. /\ writing' = writing \ {r}
      /\ logs' = [logs EXCEPT ![r.of] = Append(@, r.n)]
      /\ logged' = [logged EXCEPT ![r.of] = last]
      /\ UNCHANGED <<proposal, docRequests, request, code, screenVars, buttonVars, proved,
                     strayed>>
  BY DEF WritesLog, wasVars
<1> USE DEF screenVars, buttonVars
<1>2. /\ r.of \in Protocols /\ r.n \in 1..docRequests /\ docRequests \in Nat
      /\ logs \in [Protocols -> Seq(1..docRequests)] /\ logged \in [Protocols -> BOOLEAN]
  BY DEF TrackingTypeOK
<1>3. logs[r.of] \in Seq(1..docRequests)  BY <1>2
<1>4. /\ Append(logs[r.of], r.n) \in Seq(1..docRequests)
      /\ logs' \in [Protocols -> Seq(1..docRequests)]
  <2>1. Append(logs[r.of], r.n) \in Seq(1..docRequests)  BY <1>2, <1>3
  <2> QED  BY <2>1, <1>1, <1>2
<1>5. last \in BOOLEAN /\ (last => request[r.of] = r.n)  OBVIOUS
<1> HIDE DEF last
<1>6. logged' \in [Protocols -> BOOLEAN]  BY <1>1, <1>2, <1>5
<1>7. TrackingTypeOK'
  <2>1. {code', fetchFailed', proved', strayed'} \subseteq BOOLEAN  BY <1>1 DEF TrackingTypeOK
  <2>2. writing' \subseteq [of : Protocols, n : 1..docRequests]  BY <1>1 DEF TrackingTypeOK
  <2> QED  BY <1>1, <1>4, <1>6, <2>1, <2>2 DEF TrackingTypeOK
<1>8. LoggedIsLast'
  <2> SUFFICES ASSUME NEW p \in Protocols, logged'[p] PROVE LatestLog(p)' = request[p]
    BY <1>1 DEF LoggedIsLast
  <2>1. CASE p = r.of
    <3>1. request[p] = r.n  BY <2>1, <1>1, <1>2, <1>5
    <3>2. logs'[p] = Append(logs[p], r.n)  BY <2>1, <1>1, <1>2
    <3>3. /\ logs'[p] # <<>> /\ Len(logs'[p]) = Len(logs[p]) + 1
          /\ logs'[p][Len(logs[p]) + 1] = r.n
      <4>1. /\ Append(logs[r.of], r.n) # <<>>
            /\ Len(Append(logs[r.of], r.n)) = Len(logs[r.of]) + 1
            /\ Append(logs[r.of], r.n)[Len(logs[r.of]) + 1] = r.n
        <5> HIDE DEF TrackingInv, screenVars, buttonVars
        <5> QED  BY ONLY <1>2, <1>3, AppendIsLast
      <4>2. logs'[p] = Append(logs[r.of], r.n) /\ logs[p] = logs[r.of]  BY ONLY <2>1, <3>2
      <4> QED  BY ONLY <4>1, <4>2
    <3>4. Len(logs[p]) \in Nat  BY <2>1, <1>3
    <3> QED  BY <3>1, <3>3, <3>4 DEF LatestLog
  <2>2. CASE p # r.of
    <3>1. logs'[p] = logs[p] /\ logged[p]  BY <2>2, <1>1, <1>2
    <3> QED  BY <3>1 DEF LatestLog, LoggedIsLast
  <2> QED  BY <2>1, <2>2
<1>9. AsksAreSound'  BY <1>1, AsksStay
<1>10. ShownNetsAreThere'  BY <1>1, NetsStay DEF TrackingTypeOK
<1>11. LoadsAreSound' /\ ShownIsSound' /\ TrackedIsOfUrl' /\ VerifiedUrlOpens'
  <2>1. strayed' \in BOOLEAN  BY <1>1 DEF TrackingTypeOK
  <2> HIDE DEF TrackingInv
  <2> QED  BY <1>1, <2>1, ScreenStays
<1> QED  BY <1>7, <1>8, <1>9, <1>10, <1>11

-----------------------------------------------------------------------------
(* The tracking page, from the start on *)

LEMMA UntrackedIsSound ==
  ASSUME TrackingInit \/ (Unvisited /\ TrackingClosed)
  PROVE  TrackingInv
<1> USE DEF TrackingClosed
<1>1. /\ TrackingClosed /\ fetched \in Nat /\ address \in Links
      /\ fetches \subseteq [n : 1..fetched, of : Links, answer : Answers \cup {NoValue}]
      /\ \A f \in fetches : Whole(f.of) /\ f.of = address /\ f.answer = NoValue
      /\ fetched = 0 => ~Whole(address)
  <2>1. CASE Unvisited
    <3>1. address = Empty /\ fetches = {} /\ fetched = 0  BY <2>1 DEF Unvisited
    <3>2. Empty \in Links /\ ~Whole(Empty)  BY DEF Empty, Links, Whole
    <3> QED  BY <3>1, <3>2 DEF TrackingInit
  <2>2. ASSUME NEW p \in Protocols, address = Pair(p), fetched = 1,
               fetches = {[n |-> 1, of |-> Pair(p), answer |-> NoValue]}
        PROVE  /\ fetched \in Nat /\ address \in Links
               /\ fetches \subseteq [n : 1..fetched, of : Links,
                                   answer : Answers \cup {NoValue}]
               /\ \A f \in fetches : Whole(f.of) /\ f.of = address /\ f.answer = NoValue
               /\ fetched # 0
    <3>1. Pair(p) \in Links /\ Whole(Pair(p))
      BY TrackingAssumption DEF Pair, Links, Whole
    <3> QED  BY <2>2, <3>1
  <2> QED  BY <2>1, <2>2 DEF TrackingInit
<1>2. TrackingTypeOK
  <2>1. [p \in Protocols |-> [status |-> "review", nets |-> Nets]]
          \in [Protocols -> Entered \cup {Gone}]
    BY DEF Entered
  <2>2. {code, fetchFailed, proved, strayed} \subseteq BOOLEAN  BY <1>1
  <2>3. \A p \in Protocols : <<>> \in Seq(1..docRequests)  BY EmptySeq
  <2>4. /\ request \in [Protocols -> 0..docRequests] /\ logged \in [Protocols -> BOOLEAN]
        /\ logs \in [Protocols -> Seq(1..docRequests)]
    BY <1>1, <2>3
  <2>5. /\ {fetched, pressed, visits} \subseteq Nat /\ arrived \in 0..fetched
        /\ writing = {} /\ asks = {} /\ tracking = NoValue /\ docRequests \in Nat
        /\ otp = "idle" /\ removal = "idle" /\ proposal \in [Protocols -> Entered \cup {Gone}]
    BY <1>1, <2>1
  <2> QED  BY <1>1, <2>2, <2>4, <2>5 DEF TrackingTypeOK
<1>3. LoadsAreSound  BY <1>1 DEF LoadsAreSound
<1>4. LoggedIsLast /\ AsksAreSound /\ ShownNetsAreThere /\ ShownIsSound
  BY <1>1 DEF LoggedIsLast, AsksAreSound, ShownNetsAreThere, ShownIsSound
<1>5. TrackedIsOfUrl /\ VerifiedUrlOpens
  BY <1>1 DEF TrackedIsOfUrl, VerifiedUrlOpens, Shown
<1> QED  BY <1>2, <1>3, <1>4, <1>5 DEF TrackingInv

LEMMA TrackingKeepsIt ==
  ASSUME TrackingInv, TrackingNext \/ UNCHANGED trackingVars
  PROVE  TrackingInv'
<1>1. ASSUME NEW f \in fetches, ApiFinds(f) \/ ApiTracks(f) \/ FetchAnswers(f) \/ FetchFails(f)
      PROVE  TrackingInv'
  BY <1>1, FindingKeepsIt, TrackingReadKeepsIt, FetchedKeepsIt, FailedFetchKeepsIt
<1>2. ASSUME NEW r \in asks,
             \/ ApiSendsCode(r) \/ ApiVerifies(r) \/ ApiErases(r) \/ ApiDisconnects(r)
             \/ ApiReceives(r)
      PROVE  TrackingInv'
  BY <1>2, HandlersKeepIt
<1>3. ASSUME NEW r \in asks, CodeSent(r) \/ DocumentSent(r) \/ AskFails(r) PROVE TrackingInv'
  BY <1>3, QuietAnswersKeepIt
<1>4. ASSUME NEW r \in asks, CodeProved(r) \/ DataErased(r) PROVE TrackingInv'
  BY <1>4, VisitsKeepIt
<1>5. ASSUME NEW r \in asks, NetworkGone(r) PROVE TrackingInv'  BY <1>5, NetworkGoneKeepsIt
<1>6. ASSUME NEW u \in [protocol : Protocols, token : Protocols], Search(u)
      PROVE  TrackingInv'
  BY <1>6, VisitsKeepIt
<1>7. CASE EraseData \/ SendDocument  BY <1>7, ButtonsKeepIt
<1>8. ASSUME NEW p \in Protocols, SendCode(p) \/ VerifyCode(p) PROVE TrackingInv'
  BY <1>8, ButtonsKeepIt
<1>9. ASSUME NEW net \in Nets, Disconnect(net) PROVE TrackingInv'  BY <1>9, ButtonsKeepIt
<1>10. ASSUME NEW p \in Protocols, RequestChanges(p) \/ BulkPending(p) PROVE TrackingInv'
  BY <1>10, OfficeKeepsIt
<1>11. ASSUME NEW r \in writing, WritesLog(r) PROVE TrackingInv'  BY <1>11, LogKeepsIt
<1>12. ASSUME UNCHANGED trackingVars PROVE TrackingInv'
  <2>1. /\ UNCHANGED <<proposal, requestVars, code, screenVars, proved, strayed>>
        /\ UNCHANGED <<otp, removal, asks, pressed, visits>>
    BY <1>12 DEF trackingVars, storeVars, buttonVars, wasVars
  <2> USE DEF TrackingInv, screenVars, requestVars
  <2>2. TrackingTypeOK'
    <3>1. {code', fetchFailed', proved', strayed'} \subseteq BOOLEAN
      BY <2>1 DEF TrackingTypeOK
    <3> QED  BY <2>1, <3>1 DEF TrackingTypeOK
  <2>3. LoggedIsLast' /\ AsksAreSound'  BY <2>1, LogsStay, AsksStay
  <2>4. ShownNetsAreThere'  BY <2>1 DEF ShownNetsAreThere
  <2>5. LoadsAreSound' /\ ShownIsSound' /\ TrackedIsOfUrl' /\ VerifiedUrlOpens'
    <3>1. strayed' \in BOOLEAN  BY <2>1 DEF TrackingTypeOK
    <3>2. UNCHANGED <<screenVars, proved, request, proposal, docRequests, strayed>>  BY <2>1
    <3> HIDE DEF TrackingInv
    <3> QED  BY <3>1, <3>2, ScreenStays
  <2> QED  BY <2>2, <2>3, <2>4, <2>5
<1> QED
  BY <1>1, <1>2, <1>3, <1>4, <1>5, <1>6, <1>7, <1>8, <1>9, <1>10, <1>11, <1>12
  DEF TrackingNext

-----------------------------------------------------------------------------
(* The four pages *)

(* A list that is not open: nothing is asked for, shown or ticked. *)
LEMMA ClosedListIsSound ==
  ASSUME ListClosed
  PROVE  ListInv
<1> USE DEF ListClosed
<1>1. (CHOOSE s \in Statuses : TRUE) \in Statuses  BY ListAssumption
<1>2. row \in [Proposals -> Statuses]  BY <1>1
<1>3. filters \in Filters /\ filters.text = None  BY DEF NoFilter, Filters
<1>4. sort \in Sorts /\ {typed, debounced} \subseteq Texts \cup {None}  BY ListAssumption
<1>5. NoBulk \in [ids : SUBSET Proposals, to : BulkTargets \cup {Assign, None},
                  at : {"none", "sent", "written"}]
  BY DEF NoBulk
<1>6. ListTypeOK
  <2>1. failed \in BOOLEAN /\ modal \in {"none", Assign, "status"}  OBVIOUS
  <2>2. /\ items = {} /\ total = 0 /\ selected = {} /\ assigned = {} /\ calls = {}
        /\ sent = 0 /\ page = 1 /\ bulk = NoBulk
    OBVIOUS
  <2> HIDE DEF ListClosed
  <2> QED  BY <2>1, <2>2, <1>2, <1>3, <1>4, <1>5 DEF ListTypeOK, Filters
<1>7. Pages(0) \in Nat \ {0}  BY PagesArePositive
<1>8. LastLoadIsOfQuery  BY <1>7 DEF LastLoadIsOfQuery, NoLoad
<1>9. TextIsSearched /\ TicksAreListed /\ BulkHasTarget
  BY <1>3 DEF TextIsSearched, TicksAreListed, BulkHasTarget, NoBulk
<1> QED  BY <1>6, <1>8, <1>9, ListShowsIt DEF ListInv

LEMMA ClosedDossierIsSound ==
  ASSUME DossierClosed \/ DossierInit
  PROVE  DossierInv
<1>1. Idle.at = "none" /\ [at |-> "sent"].at = "sent"  BY DEF Idle
<1>2. load.at \in {"none", "sent"} /\ readings \in {<<>>, <<Given>>}
  BY <1>1 DEF DossierClosed, DossierInit
<1>3. /\ Unopened /\ data = [f \in Fields |-> Given]
      /\ version = [f \in Fields |-> 0] /\ writes = 0
  BY DEF DossierClosed, DossierInit
<1> QED  BY <1>2, <1>3, UnopenedIsSound

(* A handler was sent for what was on the screen. *)
LEMMA HandlersAreOfShown == TrackingInv => OnlyShownIsChanged
  BY DEF TrackingInv, AsksAreSound, OnlyShownIsChanged

LEMMA TrackingShowsIt ==
  ASSUME TrackingInv
  PROVE  TrackedIsOfUrl /\ PendingIsOfLastRequest /\ NetworksShownAreThere
<1>1. TrackedIsOfUrl  BY DEF TrackingInv
<1>2. PendingIsOfLastRequest
  BY DEF TrackingInv, ShownIsSound, PendingIsOf, PendingIsOfLastRequest
<1>3. NetworksShownAreThere
  <2> SUFFICES ASSUME tracking # NoValue, ~strayed, asks = {}, proposal[tracking.of] # Gone
               PROVE  tracking.nets = proposal[tracking.of].nets
    BY DEF NetworksShownAreThere
  <2>1. /\ proposal[tracking.of].nets \subseteq tracking.nets
        /\ \A net \in tracking.nets \ proposal[tracking.of].nets : FALSE
    BY DEF TrackingInv, ShownNetsAreThere
  <2> QED  BY <2>1
<1> QED  BY <1>1, <1>2, <1>3

LEMMA ScreensStart == ScreenInit => ScreenInv
<1> SUFFICES ASSUME ScreenInit PROVE ScreenInv
  OBVIOUS
<1>1. ListInv  BY ListStarts, ClosedListIsSound DEF ScreenInit
<1>2. DossierInv  BY ClosedDossierIsSound DEF ScreenInit
<1>3. StaffInv  BY UnlistedIsSound DEF ScreenInit, StaffUnopened
<1>4. TrackingInv  BY UntrackedIsSound DEF ScreenInit, Untracked, TrackingInit
<1> QED  BY <1>1, <1>2, <1>3, <1>4, HandlersAreOfShown DEF ScreenInv

(* What a step of the pages is to each of them. *)
LEMMA StepsOfPages ==
  ASSUME [ScreenNext]_vars
  PROVE  /\ ListNext \/ UNCHANGED listVars
         /\ DossierNext \/ UNCHANGED dossierVars
         /\ StaffNext \/ UNCHANGED staffVars
         /\ TrackingNext \/ UNCHANGED trackingVars
  BY DEF ScreenNext, vars

LEMMA ScreensKeepIt == ScreenInv /\ [ScreenNext]_vars => ScreenInv'
<1> SUFFICES ASSUME ScreenInv, [ScreenNext]_vars PROVE ScreenInv'
  OBVIOUS
<1>1. ListInv /\ DossierInv /\ StaffInv /\ TrackingInv  BY DEF ScreenInv
<1>2. ListInv'  BY <1>1, StepsOfPages, ListKeepsIt
<1>3. DossierInv'  BY <1>1, StepsOfPages, DossierKeepsIt, DossierStays
<1>4. StaffInv'  BY <1>1, StepsOfPages, StaffKeepsIt
<1>5. TrackingInv'  BY <1>1, StepsOfPages, TrackingKeepsIt
<1>6. OnlyShownIsChanged'  BY <1>5, HandlersAreOfShown, PTL
<1> QED  BY <1>2, <1>3, <1>4, <1>5, <1>6 DEF ScreenInv

(* Every page, open or closed, keeps the invariants of its own module: what   *)
(* its answers carry and are for, the roles of an account those of one change,*)
(* no proposal changed by a candidate but the one that was on the screen.     *)
THEOREM ScreensAreSafe == ScreenSpec => []ScreenInv
  BY ScreensStart, ScreensKeepIt, PTL DEF ScreenSpec

(* Each page shows what it was asked for, or names the crossing by which it   *)
(* does not: for any number of loads that overtake each other, of rows that   *)
(* others move, of accounts, documents and networks.                          *)
THEOREM ScreensShowWhatWasAsked == ScreenSpec => []ShownIsOfAsked
<1>1. ScreenInv => ShownIsOfAsked
  BY TrackingShowsIt DEF ScreenInv, ListInv, DossierInv, StaffInv, ShownIsOfAsked
<1> QED  BY <1>1, ScreensAreSafe, PTL

(* A bulk action names rows that are on the list when it is sent, whatever    *)
(* became of the list behind its dialog; a correction lands on the reading it *)
(* was made on, or on one that came after the dossier was read.               *)
THEOREM SentIsOfTheScreen == ScreenSpec => SentIsOfShown
<1>1. ScreenInv /\ [ScreenNext]_vars
      => [bulk.at = "none" /\ bulk'.at = "sent" => bulk'.ids \subseteq items]_bulk
  BY StepsOfPages, BulkTakesTicks DEF ScreenInv
<1>2. ScreenInv /\ [ScreenNext]_vars
      => [action.kind = "reading" /\ action.at = "sent" /\ action'.at = "written"
          => action.id = Len(readings) \/ Len(readings) > action.seen]_action
  BY StepsOfPages, SaveIsWrittenByTheApi, EditLands DEF ScreenInv
<1>3. ScreenSpec
      => [][bulk.at = "none" /\ bulk'.at = "sent" => bulk'.ids \subseteq items]_bulk
  BY <1>1, ScreensAreSafe, PTL DEF ScreenSpec
<1>4. ScreenSpec
      => [][action.kind = "reading" /\ action.at = "sent" /\ action'.at = "written"
            => action.id = Len(readings) \/ Len(readings) > action.seen]_action
  BY <1>2, ScreensAreSafe, PTL DEF ScreenSpec
<1> QED  BY <1>3, <1>4 DEF SentIsOfShown, BulkIsOfListed, EditLandsOnItsReading

(* A save of the dossier or of an account, which writes more than was touched,*)
(* takes another person's write back only where that came after the page had  *)
(* read what it writes.                                                       *)
THEOREM LostOnlyByCrossing == ScreenSpec => SavesLoseOnlyByCrossing
<1>1. ScreenInv /\ [ScreenNext]_vars
      => [\A f \in Fields :
            action.kind = "data" /\ action.at = "sent" /\ action'.at = "written"
              /\ data'[f] # data[f] /\ f \notin action.typedIn
            => f \notin Contact /\ version[f] > action.seen[f]]_<<action, data>>
  BY StepsOfPages, SaveIsWrittenByTheApi, SaveChangesTyped DEF ScreenInv
<1>2. ScreenInv /\ [ScreenNext]_vars
      => [\A r \in work :
            r.save /\ ~r.touched /\ r \notin work' /\ r.at = "began"
              /\ account'[r.i] # account[r.i]
            => account'[r.i].active = account[r.i].active
               \/ changed[r.i].all > r.seen]_<<account, work>>
  <2>1. ASSUME UNCHANGED staffVars PROVE UNCHANGED <<account, work>>
    BY <2>1 DEF staffVars, dbVars
  <2> QED  BY <2>1, StepsOfPages, CommitWritesTheCopy DEF ScreenInv
<1>3. ScreenSpec
      => [][\A f \in Fields :
              action.kind = "data" /\ action.at = "sent" /\ action'.at = "written"
                /\ data'[f] # data[f] /\ f \notin action.typedIn
              => f \notin Contact /\ version[f] > action.seen[f]]_<<action, data>>
  BY <1>1, ScreensAreSafe, PTL DEF ScreenSpec
<1>4. ScreenSpec
      => [][\A r \in work :
              r.save /\ ~r.touched /\ r \notin work' /\ r.at = "began"
                /\ account'[r.i] # account[r.i]
              => account'[r.i].active = account[r.i].active
                 \/ changed[r.i].all > r.seen]_<<account, work>>
  BY <1>2, ScreensAreSafe, PTL DEF ScreenSpec
<1> QED
  BY <1>3, <1>4 DEF SavesLoseOnlyByCrossing, SaveLosesOnlyByCrossing, ActiveLosesOnlyByCrossing
=============================================================================
