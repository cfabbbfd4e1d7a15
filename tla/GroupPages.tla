----------------------------- MODULE GroupPages -----------------------------
(***************************************************************************)
(* The two pages that work on one group: the queue of its devices          *)
(* (src/web/src/pages/ClientsPage.tsx) and the test call                   *)
(* (src/web/src/pages/InvokePage.tsx).  Both take the first group of the   *)
(* list until one is chosen.  The options of the test call come from an    *)
(* effect of the page's own that works like useFetch: it is hook "second"  *)
(* here.                                                                   *)
(***************************************************************************)
EXTENDS Browser, Sequences

CONSTANTS
  GroupsAt,    \* the groups listed, by when the server read them
  MaxPress     \* bound on the calls started from one visit of the page

GroupPage == {"clients", "invoke"}

\* The groups that the list ever shows.
AllGroups == UNION {{GroupsAt[v][k] : k \in DOMAIN GroupsAt[v]} : v \in DOMAIN GroupsAt}

Listed(v) == IF v.data = None THEN <<>> ELSE GroupsAt[v.data.at]
EffGroup(f, v) ==
  IF f.group # None \/ Listed(v) = <<>> THEN f.group ELSE Head(Listed(v))

\* What the page asks about group g.
About(p, g) == IF p = "clients" THEN <<"queue", g>> ELSE <<"actions", g>>

\* The start of the effect on effGroup in InvokePage; useFetch's touches
\* nothing of the form.
KeepsAction(p, f) == f     \* Mutation: the effect does not clear the action.
ForNewGroup(p, f) ==
  IF p = "invoke" THEN [f EXCEPT !.action = None, !.early = FALSE] ELSE f

ASSUME GroupsAssumption ==
  /\ \A v \in DOMAIN GroupsAt : GroupsAt[v] \in Seq(AllGroups)
  /\ None \notin AllGroups
  /\ \A p \in GroupPage, g \in AllGroups : About(p, g) \in Queries
  /\ MaxPress \in Nat

Here == UNCHANGED <<now, sessionVars, placeVars>>

\* Select: another group.
ChooseGroup(g) ==
  /\ route \in GroupPage
  /\ \E k \in DOMAIN Listed(hook.first) : Listed(hook.first)[k] = g
  /\ g # EffGroup(form, hook.first)
  /\ form' = ForNewGroup(route, [form EXCEPT !.group = g])
  /\ UNCHANGED posts
  /\ Effects(hook, calls, {}, [second |-> About(route, g)], Credentials)
  /\ Here

\* The list of groups arrives (call c of hook "first"), and with it perhaps
\* the group to ask about.
GroupsArrive(cs, c) ==
  LET v == AfterAnswer(hook.first, c)
      hs == [hook EXCEPT !.first = v]
      g == EffGroup(form, v)
  IN  IF g = EffGroup(form, hook.first)
      THEN hook' = hs /\ calls' = cs /\ UNCHANGED <<form, posts>>
      ELSE /\ form' = ForNewGroup(route, form)
           /\ UNCHANGED posts
           /\ Effects(hs, cs, {}, [second |-> About(route, g)], Credentials)

-----------------------------------------------------------------------------
(* InvokePage *)

Group == EffGroup(form, hook.first)

\* setAction, from the text field: the text is known by the group it was
\* entered for.
TypeAction ==
  /\ route = "invoke"
  /\ form' = [form EXCEPT !.action = Group, !.early = FALSE] /\ form' # form
  /\ Idle /\ Here /\ UNCHANGED posts

\* setAction, from the select of the scanned actions.  The options of the last
\* group are offered until those of the next arrive; a choice made before they
\* do is early.
PickAction ==
  /\ route = "invoke" /\ hook.second.data # None
  /\ form' = [form EXCEPT !.action = hook.second.data.query[2],
                          !.early = hook.second.loading]
  /\ form' # form
  /\ Idle /\ Here /\ UNCHANGED posts

\* "Custom..." in the select, or the text deleted.
ClearAction ==
  /\ route = "invoke" /\ form.action # None
  /\ form' = [form EXCEPT !.action = None, !.early = FALSE]
  /\ Idle /\ Here /\ UNCHANGED posts

\* invoke(): the button is dead while a call runs.
PressedAnyTime(f) == TRUE    \* Mutation: <Button onClick={invoke}>
MayPress(f) == ~f.running
Invoke ==
  /\ route = "invoke" /\ MayPress(form) /\ form.press < MaxPress
  /\ Group # None /\ form.action # None
  /\ form' = [form EXCEPT !.running = TRUE, !.press = @ + 1, !.result = None]
  /\ Sends([Post("invoke", token = "good") EXCEPT !.press = form.press + 1])
  /\ InFlight(calls, posts') <= MaxFlight
  /\ Idle /\ Here

\* The rest of invoke() when call c is answered, whatever the answer.
InvokeAnswered(f, c) ==
  IF c.page THEN [f EXCEPT !.running = FALSE, !.result = c.press] ELSE f
=============================================================================
