------------------------------- MODULE SearchPage -------------------------------
(***************************************************************************)
(* The search page and the route it asks.  What is typed becomes a search  *)
(* when it rests (useDebounce); answers come in any order and one of an    *)
(* older search is dropped by its number; more events of the same search   *)
(* are loaded page by page, by the button or by scrolling.                 *)
(*                                                                         *)
(* The code as it is: a search that fails leaves the earlier results, and  *)
(* "load more" then adds the new query's events to them; a search that     *)
(* starts while more is loading leaves loadingMore set for good; the       *)
(* pages are cut by offset, so a row stored in between repeats one; the    *)
(* order of the route is by timestamp alone, which is the millisecond of   *)
(* the capture, so rows of one ledger may change places between two pages  *)
(* and one of them show twice and another not at all; and                  *)
(* clearing the query does not number a search, so the answer to the       *)
(* cleared one still fills the results, which are hidden until a query is  *)
(* typed again.                                                            *)
(***************************************************************************)
EXTENDS Integers, Sequences, FiniteSets, SequencesExt

CONSTANTS
  Queries,       \* queries of two characters or more
  Short,         \* any shorter query
  Absent,        \* no results, no pagination
  PageSize,      \* SEARCH_PAGE_SIZE
  InitialMatches,   \* [Queries -> Nat]: the matching events stored at first
  MaxMatches,       \* bound: matching events of a query
  Stamp,         \* [1..MaxMatches -> Int]: timestamp of the n-th event stored
  MaxSearches    \* bound: searches

ASSUME SearchAssumption ==
  /\ Short \notin Queries /\ PageSize \in Nat \ {0}
  /\ Absent \notin Seq(Queries \X Int) \cup [hasMore : BOOLEAN, nextOffset : Nat]
  /\ MaxMatches \in Nat /\ InitialMatches \in [Queries -> 0..MaxMatches] /\ MaxSearches \in Nat
  /\ Stamp \in [1..MaxMatches -> Int]

VARIABLES
  matching,           \* database: how many events match, numbered as they were stored
  query, debouncedQuery,
  searchSeq,            \* searchSeqRef
  results,        \* Absent or the events shown, each <<query, number>>
  pagination,     \* Absent or [hasMore, nextOffset]
  searching, loadingMore, searchError,
  activeIndex,    \* the result chosen with the arrow keys, or -1
  searches,       \* [q, offset, seq] under way; a search has offset 0
  grew,           \* history: a row was stored since the last search
  superseded      \* history: a search started while more was loading

searchPageVars == <<query, debouncedQuery, searchSeq, results, pagination, searching,
              loadingMore, searchError, activeIndex, searches>>
searchVars == <<matching, searchPageVars, grew, superseded>>

SearchInit ==
  /\ matching = InitialMatches /\ query = Short /\ debouncedQuery = Short /\ searchSeq = 0
  /\ results = Absent /\ pagination = Absent /\ searching = FALSE
  /\ loadingMore = FALSE /\ searchError = FALSE /\ activeIndex = -1
  /\ searches = {} /\ grew = FALSE /\ superseded = FALSE

-----------------------------------------------------------------------------
(* The route: a page of the matching events, the newest first and those of *)
(* one timestamp in any order, another one with every request; with one    *)
(* row more fetched to know whether there are more.                        *)
Rows(q) == 1..matching[q]
Orders(q) ==
  {o \in [Rows(q) -> Rows(q)] :
     \A i, j \in Rows(q) : i < j => o[i] # o[j] /\ Stamp[o[i]] >= Stamp[o[j]]}

Matches(r, o) == [i \in 1..(matching[r.q] - r.offset) |-> <<r.q, o[r.offset + i]>>]
HasMore(r) == matching[r.q] - r.offset > PageSize
PageOf(r, o) == IF HasMore(r) THEN SubSeq(Matches(r, o), 1, PageSize) ELSE Matches(r, o)

SearchAnswer(r, o) ==
  [events |-> PageOf(r, o),
   pagination |-> [hasMore |-> HasMore(r), nextOffset |-> r.offset + Len(PageOf(r, o))]]

StoreRow(q) ==
  /\ matching[q] < MaxMatches
  /\ matching' = [matching EXCEPT ![q] = @ + 1] /\ grew' = TRUE
  /\ UNCHANGED <<searchPageVars, superseded>>

-----------------------------------------------------------------------------
(* What the page shows: nothing below two characters; a skeleton for the   *)
(* first search; the error and the results together; the button.           *)
SearchItems == IF results = Absent THEN <<>> ELSE results
SearchView ==
  IF query = Short THEN {}
  ELSE (IF searching /\ results = Absent THEN {"skeleton"} ELSE {})
       \cup (IF searchError THEN {"error"} ELSE {})
       \cup (IF results = <<>> /\ ~searching THEN {"empty"} ELSE {})
       \cup (IF SearchItems # <<>> THEN {"items"} ELSE {})
       \cup (IF pagination # Absent /\ ~searching
             THEN IF pagination.hasMore THEN {"more"} ELSE {} ELSE {})

TypeQuery(q) ==
  /\ query # q /\ query' = q
  /\ UNCHANGED <<matching, debouncedQuery, searchSeq, results, pagination, searching,
                 loadingMore, searchError, activeIndex, searches, grew, superseded>>

(* The query rests and is too short: the results are cleared.              *)
RestShort ==
  /\ query = Short /\ debouncedQuery # Short
  /\ debouncedQuery' = Short
  /\ results' = Absent /\ pagination' = Absent /\ searchError' = FALSE /\ activeIndex' = -1
  /\ UNCHANGED <<matching, query, searchSeq, searching, loadingMore, searches, grew, superseded>>

(* The query rests: a search, with a number of its own.                    *)
Search ==
  /\ query \notin {Short, debouncedQuery} /\ searchSeq < MaxSearches
  /\ debouncedQuery' = query
  /\ searchSeq' = searchSeq + 1 /\ searching' = TRUE /\ searchError' = FALSE
  /\ searches' = searches \cup {[q |-> query, offset |-> 0, seq |-> searchSeq + 1]}
  /\ grew' = FALSE /\ superseded' = (superseded \/ loadingMore)
  /\ UNCHANGED <<matching, query, results, pagination, loadingMore, activeIndex>>

(* An answer to a search, a failure (of the network, the route or its      *)
(* limit) included; one that is superseded changes nothing.                *)
OnAnswer(r) ==
  /\ r \in searches /\ r.offset = 0 /\ searches' = searches \ {r}
  /\ IF r.seq # searchSeq THEN UNCHANGED <<searching, results, pagination, activeIndex, searchError>>
     ELSE /\ searching' = FALSE
          /\ \/ /\ \E o \in Orders(r.q) : /\ results' = SearchAnswer(r, o).events
                                          /\ pagination' = SearchAnswer(r, o).pagination
                /\ activeIndex' = -1 /\ UNCHANGED searchError
             \/ searchError' = TRUE /\ UNCHANGED <<results, pagination, activeIndex>>
  /\ UNCHANGED <<matching, query, debouncedQuery, searchSeq, loadingMore, grew, superseded>>

(* loadMore, from the button or the sentinel that stands with it.          *)
LoadMore ==
  /\ "more" \in SearchView /\ debouncedQuery # Short /\ ~loadingMore
  /\ loadingMore' = TRUE
  /\ searches' = searches \cup
       {[q |-> debouncedQuery, offset |-> pagination.nextOffset, seq |-> searchSeq]}
  /\ UNCHANGED <<matching, query, debouncedQuery, searchSeq, results, pagination, searching,
                 searchError, activeIndex, grew, superseded>>

OnMore(r) ==
  /\ r \in searches /\ r.offset > 0 /\ searches' = searches \ {r}
  /\ IF r.seq # searchSeq THEN UNCHANGED <<results, pagination, loadingMore>>
     ELSE /\ loadingMore' = FALSE
          /\ \/ \E o \in Orders(r.q) :
                  /\ results' = IF results = Absent THEN Absent
                                ELSE results \o SearchAnswer(r, o).events
                  /\ pagination' = SearchAnswer(r, o).pagination
             \/ UNCHANGED <<results, pagination>>
  /\ UNCHANGED <<matching, query, debouncedQuery, searchSeq, searching, searchError, activeIndex,
                 grew, superseded>>

(* The arrow keys and Escape.                                              *)
HandleKeyDown ==
  /\ SearchItems # <<>>
  /\ activeIndex' \in {(activeIndex + 1) % Len(SearchItems),
                       IF activeIndex <= 0 THEN Len(SearchItems) - 1 ELSE activeIndex - 1, -1}
  /\ UNCHANGED <<matching, query, debouncedQuery, searchSeq, results, pagination, searching,
                 loadingMore, searchError, searches, grew, superseded>>

SearchAnswers(r) == OnAnswer(r) \/ OnMore(r)
SearchNext ==
  \/ \E q \in Queries \cup {Short} : TypeQuery(q)
  \/ \E q \in Queries : StoreRow(q)
  \/ RestShort \/ Search \/ LoadMore \/ HandleKeyDown
  \/ \E r \in searches : SearchAnswers(r)

-----------------------------------------------------------------------------
(* The n-th event stored may be the i-th of the answer: fewer than i are   *)
(* newer, and at least i are not older.                                    *)
Newer(q, n)    == {m \in Rows(q) : Stamp[m] > Stamp[n]}
NotOlder(q, n) == {m \in Rows(q) : Stamp[m] >= Stamp[n]}
Ranked(q, n, i) ==
  n \in Rows(q) /\ Cardinality(Newer(q, n)) < i /\ i <= Cardinality(NotOlder(q, n))

(* Once the query rests and no search is under way, what is shown without  *)
(* an error is an answer to that query.  If no row was stored meanwhile,   *)
(* every event is where its timestamp puts it over all the pages, and they *)
(* are all there when the pages end: what shows twice or not at all has    *)
(* the timestamp of another event.  And the chosen result is one of those  *)
(* shown.                                                                  *)
SearchFits ==
  /\ activeIndex < Len(SearchItems) \/ activeIndex = -1
  /\ (SearchView # {} /\ query = debouncedQuery /\ ~searching /\ ~searchError) =>
       /\ \A i \in 1..Len(SearchItems) : SearchItems[i][1] = query
       /\ grew \/ \A i \in 1..Len(SearchItems) : Ranked(query, SearchItems[i][2], i)
       /\ grew \/ pagination.hasMore \/ Len(SearchItems) = matching[query]

(* A search ends, and loading more ends unless a search superseded it.     *)
SearchSpins == searching \/ (loadingMore /\ ~superseded)
=============================================================================
