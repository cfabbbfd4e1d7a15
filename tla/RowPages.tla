------------------------------ MODULE RowPages ------------------------------
(***************************************************************************)
(* The pages that change what they list: groups, users and devices         *)
(* (src/web/src/pages/GroupsPage.tsx, UsersPage.tsx, DevicesPage.tsx), with *)
(* their switches, dialogs and confirmations, for one row of the list.     *)
(*                                                                         *)
(* The table is not on the page while the list is loading: the dialogs of  *)
(* its rows go with it, whatever was typed or sent from them.  A dialog is *)
(* modal, but the page behind it goes on.                                  *)
(***************************************************************************)
EXTENDS Browser

\* Switches, confirmations (rotate a key, delete), and the two dialogs.
Kinds == {"toggle", "confirm", "create", "edit"}
Offered(p) ==
  CASE p = "groups" -> Kinds
    [] p = "users" -> {"toggle", "create", "edit"}
    [] p = "devices" -> {"confirm"}
    [] OTHER -> {}
OfRow == {"confirm", "edit"}    \* components inside the table

\* The requests a submission is made of, in the order they are sent.  Of a
\* write, done is what took effect on the server, got what its handler has
\* seen succeed.
Parts == {"whole", "profile", "password"}
Requests(p, kind) ==
  IF p = "users" /\ kind = "edit" THEN SUBSET {"profile", "password"}
  ELSE {{"whole"}}
NextPart(c) ==
  CHOOSE x \in c.asked \ c.got :
    x = "password" => c.asked \ c.got = {"password"}

OnPage == UNCHANGED <<now, sessionVars, placeVars>>
RowShown == ~hook.first.loading /\ hook.first.data # None

-----------------------------------------------------------------------------
(* Loading the list takes the table away *)

WithoutTable(f) == IF f.dialog \in OfRow THEN [f EXCEPT !.dialog = None] ELSE f
TableLeft(ps) ==
  [i \in Slots |-> IF ps[i] = None THEN None ELSE [ps[i] EXCEPT !.row = FALSE]]

\* reload(), with the query q, from the form f and the requests ps.
Reloading(f, ps, q) ==
  /\ form' = WithoutTable(f)
  /\ posts' = TableLeft(ps)
  /\ Effects(hook, calls, {}, [first |-> q], Credentials)

RefreshRows ==
  /\ route \in RowPages /\ form.dialog = None
  /\ Reloading(form, posts, hook.first.query)
  /\ OnPage

\* DevicesPage: the select of the status.
SetStatus(x) ==
  /\ route = "devices" /\ form.dialog = None /\ x # form.list
  /\ Reloading([form EXCEPT !.list = x], posts, <<"devices", x>>)
  /\ OnPage

-----------------------------------------------------------------------------
(* Dialogs and writes *)

Busy(kind) == \E i \in Slots : /\ posts[i] # None /\ posts[i].kind = kind
                               /\ IF kind \in OfRow THEN posts[i].row ELSE posts[i].page

OpenDialog(kind) ==
  /\ route \in RowPages /\ kind \in Offered(route) \ {"toggle"}
  /\ form.dialog = None
  /\ kind \in OfRow => RowShown
  /\ kind = "confirm" => ~Busy(kind)
  /\ form' = [form EXCEPT !.dialog = kind]
  /\ Idle /\ OnPage /\ UNCHANGED posts

CloseDialog ==
  /\ route \in RowPages /\ form.dialog # None
  /\ form' = [form EXCEPT !.dialog = None]
  /\ Idle /\ OnPage /\ UNCHANGED posts

Write(kind, parts) ==
  [Post(kind, Credentials) EXCEPT !.row = kind \in OfRow, !.asked = parts]

\* The end of a handler: what was reported as saved, and the dialog closed.
Saved(f, c) ==
  [f EXCEPT !.dialog = IF c.kind = @ /\ (c.row \/ c.kind \notin OfRow) THEN None ELSE @,
            !.missed = @ \cup (c.asked \ c.done)]
\* What the list must contain from now on, as far as the page can know: what
\* was reported as saved, and the switch whatever came of it.
Known(f, c) ==
  LET told == c.kind = "toggle" \/ (c.status = "ok" /\ c.got = c.asked)
  IN  [f EXCEPT !.known = IF told /\ c.at > @ THEN c.at ELSE @]

\* toggle(), rotate(), remove() and the submit() of the dialogs.  A
\* confirmation closes when it is given.  Editing a user without changing
\* anything sends nothing, and reloads.
Submit(kind, parts) ==
  /\ route \in RowPages /\ kind \in Offered(route) /\ parts \in Requests(route, kind)
  /\ IF kind = "toggle" THEN RowShown /\ form.dialog = None
     ELSE form.dialog = kind /\ ~Busy(kind)
  /\ IF parts = {}
     THEN Reloading(Saved(form, Write(kind, parts)), posts, hook.first.query)
     ELSE /\ form' = IF kind = "confirm" THEN [form EXCEPT !.dialog = None] ELSE form
          /\ Sends(Write(kind, parts))
          /\ InFlight(calls, posts') <= MaxFlight
          /\ Idle
  /\ OnPage

-----------------------------------------------------------------------------
(* The answer to a write, c, which is no longer among the requests ps *)

\* An await of the handler returns.
ReturnedAnyway(c) ==    \* Mutation: fetch without a look at the response's ok.
  [c EXCEPT !.status = "ok", !.got = @ \cup {NextPart(c)}]
Returned(c) ==
  IF c.status = "ok" THEN [c EXCEPT !.got = @ \cup {NextPart(c)}] ELSE c

GoesOn(c) == c.status = "ok" /\ c.got # c.asked
Reported(c) == c.status = "ok" /\ c.got = c.asked
ReloadedOnSuccess(c) == Reported(c)  \* Mutation: toggle without its finally.
Reloads(c) == Reported(c) \/ c.kind = "toggle"

WriteAnswered(ps, c) ==
  LET f == Known(IF Reported(c) THEN Saved(form, c) ELSE form, c)
  IN  CASE ~c.page -> posts' = ps /\ Idle /\ UNCHANGED form
        [] c.page /\ Reloads(c) -> Reloading(f, ps, hook.first.query)
        [] OTHER -> form' = f /\ posts' = ps /\ Idle
=============================================================================
