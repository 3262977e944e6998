------------------------------ MODULE SearchLookup ------------------------------
(***************************************************************************)
(* The cache of search pages behind a lookup picker (CachedSearchLookup in *)
(* packages/grid/src/lookup/cache/search-lookup.ts).  A scope is a search  *)
(* text with the fields it matches; a request is a scope with a limit and  *)
(* a cursor.  One page is cached per scope.  After rows were edited every  *)
(* search is marked stale: its page stays readable and is read again.      *)
(*                                                                         *)
(* What a page holds is the number of edits the server had stored when it  *)
(* read the page.                                                          *)
(***************************************************************************)
EXTENDS Naturals, Sequences, FiniteSets

CONSTANTS
  Scopes,      \* normalized search texts and fields
  Requests,    \* normalized requests
  ScopeOf,     \* the scope of each request
  NoRequest,   \* requestKey "", or nothing in a map
  NoPage,
  MaxCachedSearches,
  MaxSearches, MaxMarks, MaxRowEdits   \* bounds on searches sent, marks, edits

ASSUME ScopeAssumption == ScopeOf \in [Requests -> Scopes]
ASSUME CacheAssumption == MaxCachedSearches \in Nat
ASSUME BoundAssumption == MaxSearches \in Nat /\ MaxMarks \in Nat /\ MaxRowEdits \in Nat

Pages    == [requestKey : Requests \cup {NoRequest}, read : Nat,
             sentAs : 1 .. MaxSearches, marks : Nat]
Searches == [id : 1 .. MaxSearches, request : Requests, marks : Nat,
             stage : {"sent", "answered", "failed"}, read : Nat]

ASSUME MarkAssumption == NoRequest \notin Requests /\ NoPage \notin Pages

VARIABLES
  pages,       \* searchPagesByScope; history: the search a page came from and
               \* the marks there were when that was sent
  order,       \* the scopes of searchPagesByScope, oldest first
  loading,     \* loadingSearchesByRequest: the search a request waits for, or 0
  latest,      \* latestRequestBySearchScope
  staleMarks,
  searches,    \* searches on their way, answered or not
  lastSearch,  \* the number of searches sent
  edits,       \* edits the server has stored
  editsMarked  \* history: how many of them the latest markSearchesStale knew of

cacheVars == <<pages, order, loading, latest, staleMarks>>
searchVars      == <<cacheVars, searches, lastSearch, edits, editsMarked>>

SearchTypeOK ==
  /\ pages \in [Scopes -> Pages \cup {NoPage}]
  /\ order \in Seq(Scopes)
  /\ \A s \in Scopes : pages[s] # NoPage <=> \E i \in DOMAIN order : order[i] = s
  /\ loading \in [Requests -> 0 .. MaxSearches]
  /\ latest \in [Scopes -> Requests \cup {NoRequest}]
  /\ staleMarks \in Nat
  /\ searches \subseteq Searches
  /\ lastSearch \in 0 .. MaxSearches
  /\ edits \in Nat /\ editsMarked \in Nat

--------------------------------------------------------------------------------
PageCached(s)    == pages[s] # NoPage
\* A cached page that loadSearchResults returns as it is.
Trusted(s)   == PageCached(s) /\ pages[s].requestKey # NoRequest
Fresh(s)     == s.marks = staleMarks

\* A page that is neither cached for this request nor on its way is asked for;
\* the other two outcomes of loadSearchResults change nothing.
LoadSearchResults(r) ==
  /\ ~(PageCached(ScopeOf[r]) /\ pages[ScopeOf[r]].requestKey = r)
  /\ loading[r] = 0
  /\ lastSearch < MaxSearches
  /\ lastSearch' = lastSearch + 1
  /\ latest' = [latest EXCEPT ![ScopeOf[r]] = r]
  /\ loading' = [loading EXCEPT ![r] = lastSearch + 1]
  /\ searches' = searches \cup
       {[id |-> lastSearch + 1, request |-> r, marks |-> staleMarks, stage |-> "sent",
         read |-> 0]}
  /\ UNCHANGED <<pages, order, staleMarks, edits, editsMarked>>

Distrusted == [s \in Scopes |-> IF PageCached(s) THEN [pages[s] EXCEPT !.requestKey = NoRequest]
                                ELSE NoPage]

MarkSearchesStale ==
  /\ staleMarks < MaxMarks
  /\ pages' = Distrusted
  /\ loading' = [r \in Requests |-> 0]
  /\ staleMarks' = staleMarks + 1
  /\ editsMarked' = edits
  /\ UNCHANGED <<order, latest, searches, lastSearch, edits>>

--------------------------------------------------------------------------------
(* Answers.                                                                  *)

\* Mutant of Replaces: a stale answer replaces a page read after the mark.
ReplacesAny(q) == latest[ScopeOf[q.request]] = q.request

\* An answer is stored only for the latest request of its scope, and a stale one
\* only where the cached page is stale too.
Replaces(q) ==
  /\ latest[ScopeOf[q.request]] = q.request
  /\ Fresh(q) \/ ~Trusted(ScopeOf[q.request])

\* Mutant of PageOf: a stale answer is stored as if it were fresh.
PageOfAny(q) ==
  [requestKey |-> q.request, read |-> q.read, sentAs |-> q.id, marks |-> q.marks]

PageOf(q) ==
  [requestKey |-> IF Fresh(q) THEN q.request ELSE NoRequest, read |-> q.read,
   sentAs |-> q.id, marks |-> q.marks]

\* Storing a page under a scope that has one keeps its place in the order.
OrderWith(s) == IF PageCached(s) THEN order ELSE Append(order, s)

\* Mutant of Excess: one page too many is kept.
ExcessKept(scopes) ==
  IF Len(scopes) > MaxCachedSearches + 1 THEN Len(scopes) - MaxCachedSearches ELSE 0

\* The number of oldest scopes evictOldSearches drops.
Excess(scopes) == IF Len(scopes) > MaxCachedSearches THEN Len(scopes) - MaxCachedSearches ELSE 0

StorePage(q) ==
  LET s       == ScopeOf[q.request]
      stored  == OrderWith(s)
      kept    == SubSeq(stored, Excess(stored) + 1, Len(stored))
      evicted == {stored[i] : i \in 1 .. Excess(stored)}
  IN  /\ order' = kept
      /\ pages' = [t \in Scopes |-> IF t \in evicted THEN NoPage
                                    ELSE IF t = s THEN PageOf(q) ELSE pages[t]]

Released(q) == IF Fresh(q) THEN [loading EXCEPT ![q.request] = 0] ELSE loading

TakeSearch(q) ==
  /\ q \in searches
  /\ searches' = searches \ {q}
  /\ loading' = Released(q)
  /\ UNCHANGED <<latest, staleMarks, lastSearch, edits, editsMarked>>

SearchLands(q) ==
  /\ TakeSearch(q) /\ q.stage = "answered"
  /\ IF Replaces(q) THEN StorePage(q) ELSE UNCHANGED <<pages, order>>

SearchFails(q) ==
  /\ TakeSearch(q) /\ q.stage = "failed"
  /\ UNCHANGED <<pages, order>>

(* The server.                                                               *)

ServerSearches(q) ==
  /\ q \in searches /\ q.stage = "sent"
  /\ \E answer \in {[q EXCEPT !.stage = "answered", !.read = edits],
                    [q EXCEPT !.stage = "failed"]} :
       searches' = (searches \ {q}) \cup {answer}
  /\ UNCHANGED <<cacheVars, lastSearch, edits, editsMarked>>

RowsEdited ==
  /\ edits < MaxRowEdits
  /\ edits' = edits + 1
  /\ UNCHANGED <<cacheVars, searches, lastSearch, editsMarked>>

--------------------------------------------------------------------------------
SearchInit ==
  /\ pages = [s \in Scopes |-> NoPage] /\ order = <<>>
  /\ loading = [r \in Requests |-> 0]
  /\ latest = [s \in Scopes |-> NoRequest]
  /\ staleMarks = 0
  /\ searches = {} /\ lastSearch = 0
  /\ edits = 0 /\ editsMarked = 0

SearchNext ==
  \/ \E r \in Requests : LoadSearchResults(r)
  \/ MarkSearchesStale
  \/ \E q \in searches : SearchLands(q) \/ SearchFails(q) \/ ServerSearches(q)
  \/ RowsEdited

SearchSpec == SearchInit /\ [][SearchNext]_searchVars

--------------------------------------------------------------------------------
(* Safety.                                                                   *)

\* "The next load of each search reads it again" (markSearchesStale): a page that
\* loadSearchResults hands out from the cache was read after every edit the latest
\* mark knew of, and a search on its way that a request shares is there and was
\* sent after that mark.  Every such search is shared: none is sent twice at a time.
ServedIsFresh ==
  /\ \A s \in Scopes : Trusted(s) => pages[s].read >= editsMarked
  /\ \A r \in Requests : loading[r] # 0 =>
       \E q \in searches : q.id = loading[r] /\ q.request = r /\ Fresh(q)
  /\ \A q \in searches : Fresh(q) => loading[q.request] = q.id

\* No more searches stay cached than the lookup allows.
CacheIsBounded == Len(order) <= MaxCachedSearches

\* A page that is still trusted is replaced only by the answer to a search sent
\* after the one it came from, in whatever order answers arrive.
TrustedGivesWayToNewer ==
  \A s \in Scopes :
    (Trusted(s) /\ pages'[s] # NoPage) => pages'[s].sentAs >= pages[s].sentAs

\* No step replaces a trusted page by an older answer.
TrustedPagesGoForward == [][TrustedGivesWayToNewer]_searchVars

\* "A stale answer never replaces one read after the searches went stale"
\* (loadAndStoreSearchPage): an answer sent before a mark never takes the place
\* of a page whose search was sent after it.
StaleGivesWay ==
  \A q \in searches \ searches', s \in Scopes :
    (PageCached(s) /\ ~Fresh(q) /\ pages'[s] # NoPage /\ pages'[s].sentAs = q.id) =>
      pages[s].marks <= q.marks

\* No step replaces a page by an answer sent before a mark the page came after.
StaleNeverReplacesNewer == [][StaleGivesWay]_searchVars

================================================================================
