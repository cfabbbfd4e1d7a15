----------------------------- MODULE ListPages ------------------------------
(***************************************************************************)
(* The pages that only read: the overview with its polled chart            *)
(* (src/web/src/pages/OverviewPage.tsx) and the records of the calls, with *)
(* filters and a pager (src/web/src/pages/RequestsPage.tsx).               *)
(***************************************************************************)
EXTENDS Browser

CONSTANTS
  Filters,    \* choices of the filters of RequestsPage, "all" among them
  PagesAt     \* pages of records, by filter and by when the server read them

\* The numbers of the pages that some list ever has.
Numbers ==
  {1} \cup UNION {UNION {1..PagesAt[x][v] : v \in DOMAIN PagesAt[x]} : x \in Filters}

ASSUME FiltersAssumption ==
  /\ "all" \in Filters
  /\ \A x \in Filters : \A v \in DOMAIN PagesAt[x] : PagesAt[x][v] \in Nat
  /\ \A x \in Filters, n \in Numbers : <<"list", x, n>> \in Queries
  /\ \A x \in Filters : <<"devices", x>> \in Queries

Stays == UNCHANGED <<now, sessionVars, placeVars>>

-----------------------------------------------------------------------------
(* OverviewPage *)

\* The interval's load(), whether or not the last one was answered.
Poll ==
  /\ route = "overview"
  /\ Sends(Post("poll", Credentials))
  /\ InFlight(calls, posts') <= MaxFlight
  /\ Idle /\ Stays /\ UNCHANGED form

\* The answer to a poll replaces the chart, an error leaves it.
PollAnswered(f, c) ==
  IF c.page /\ c.status = "ok" THEN [f EXCEPT !.chart = c.at] ELSE f

-----------------------------------------------------------------------------
(* RequestsPage *)

\* The pager of the list on the screen, which stays there, and can be used,
\* while another list is loading.
Total(v) == IF v.data = None THEN 0 ELSE PagesAt[v.data.query[2]][v.data.at]

FilteredInPlace(f, x) ==    \* Mutation: setFilter does not setPage(1).
  [f EXCEPT !.filter = x]
Filtered(f, x) ==
  [f EXCEPT !.filter = x, !.page = 1, !.turned = 0, !.blind = FALSE]

\* form.turned: when the list was read whose pager last went forward;
\* form.blind: some such list was one of another filter.
Forward(f, v) ==
  [f EXCEPT !.page = @ + 1, !.turned = v.data.at,
            !.blind = @ \/ v.data.query[2] # f.filter]
Turned(f, v) ==
  IF Total(v) <= 1 THEN {}
  ELSE {g \in {Forward(f, v)} : f.page < Total(v)}
         \cup {g \in {[f EXCEPT !.page = @ - 1]} : f.page > 1}

List(f) == <<"list", f.filter, f.page>>

\* A filter or the pager: the list is asked for again if that changes it.
Relist(f) ==
  /\ form' = f
  /\ UNCHANGED posts
  /\ IF List(f) = List(form) THEN Idle
     ELSE Effects(hook, calls, {}, [first |-> List(f)], Credentials)
  /\ Stays

SetFilter(x) ==
  /\ route = "requests" /\ x # form.filter
  /\ Relist(Filtered(form, x))

Turn == route = "requests" /\ \E f \in Turned(form, hook.first) : Relist(f)

\* The button above a list that nothing else on the page depends on.
Refresh(p, h) ==
  /\ route = p /\ <<p, h>> \in {<<"requests", "first">>, <<"clients", "second">>}
  /\ UNCHANGED <<form, posts>>
  /\ Effects(hook, calls, {}, [x \in {h} |-> hook[h].query], Credentials)
  /\ Stays
=============================================================================
