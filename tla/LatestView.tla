----------------------------- MODULE LatestView -----------------------------
(***************************************************************************)
(* What a page of the panel may count on when it loads data with useFetch: *)
(* a view is asked a question, shows that it is loading, and ends with an  *)
(* answer to exactly that question, read by the server after it was asked, *)
(* or with nothing.  Requests do not exist at this level.                  *)
(***************************************************************************)
EXTENDS Naturals

CONSTANTS Hooks, None

VARIABLES
  now,   \* how many times the data on the server has changed
  view   \* what each view shows

Blank == [mounted |-> FALSE, query |-> None, asked |-> 0, loading |-> FALSE,
          data |-> None]

Init == now = 0 /\ view = [h \in Hooks |-> Blank]

\* The view is asked something, again or for the first time; until the answer
\* comes it keeps what it had, unless it has just appeared on the page.
Asked(v, w) ==
  /\ w.mounted /\ w.loading
  /\ w.asked = now
  /\ w.data \in {v.data, None}

\* d answers what v was asked, with data no older than the question.
Answers(d, v) ==
  /\ d.query = v.query
  /\ v.asked <= d.at /\ d.at <= now

Settled(v, w) ==
  /\ v.mounted /\ v.loading
  /\ w = [v EXCEPT !.loading = FALSE, !.data = w.data]
  /\ w.data = None \/ Answers(w.data, v)

Gone(w) == w = Blank

\* Views are independent: in one step any of them may move.
Move(h) ==
  \/ view'[h] = view[h]
  \/ Asked(view[h], view'[h])
  \/ Settled(view[h], view'[h])
  \/ Gone(view'[h])

Next ==
  /\ now' \in {now, now + 1}
  /\ view' = [h \in Hooks |-> view'[h]]
  /\ \A h \in Hooks : Move(h)

Spec == Init /\ [][Next]_<<now, view>>
=============================================================================
