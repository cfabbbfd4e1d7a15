------------------------------- MODULE Panel --------------------------------
(***************************************************************************)
(* The whole panel: the tab (Browser), its pages (GroupPages, ListPages,   *)
(* RowPages), the hook they load with (UseFetch), and a server that        *)
(* answers, refuses or loses their requests and whose data changes, by     *)
(* their writes and by those of others.                                    *)
(***************************************************************************)
EXTENDS GroupPages, ListPages, RowPages

CONSTANT MaxNow    \* bound on how often the data of the server changes

\* There is an answer for every state of the data.
ASSUME NowAssumption ==
  /\ MaxNow \in Nat
  /\ DOMAIN GroupsAt = 0..MaxNow
  /\ \A x \in Filters : DOMAIN PagesAt[x] = 0..MaxNow

panelVars ==
  <<now, hook, calls, token, cookie, route, hash, form, posts>>

PanelInit ==
  /\ FetchInit
  /\ token = None /\ cookie = FALSE
  /\ route = "login" /\ hash = "login"
  /\ form = Fresh("login")
  /\ posts = [i \in Slots |-> None]

-----------------------------------------------------------------------------
(* The server, seen from the panel *)

Checked(good) == {"failed", IF good THEN "ok" ELSE "refused"}

\* A queue without a group is answered in the page itself.
Local(q) == q = <<"queue", None>>
VerdictsOf(c) ==
  CASE Local(c.query) -> {"ok"}
    [] c.query \in Public /\ ~Local(c.query) -> {"ok", "failed"}
    [] OTHER -> Checked(c.good)

Waiting(c) == c # None /\ c.status = "pending"
AnsweredYet(c) == c # None /\ c.status # "pending"

ServeCall(h, i) ==
  /\ Waiting(calls[h][i])
  /\ \E st \in VerdictsOf(calls[h][i]) :
       calls' = [calls EXCEPT ![h][i] = Answered(calls[h][i], st)]
  /\ UNCHANGED <<now, hook, sessionVars, placeVars, form, posts>>

\* A poll or a test call; only groups with an API key refuse the call of a
\* tab whose token is not good.
ServePost(i) ==
  LET c == posts[i] IN
  /\ Waiting(c) /\ c.kind \in {"poll", "invoke"}
  /\ \E st \in Checked(c.good) \cup (IF c.kind = "invoke" THEN {"ok"} ELSE {}) :
       posts' = [posts EXCEPT ![i].status = st, ![i].good = FALSE,
                              ![i].at = IF c.kind = "poll" THEN now ELSE @]
  /\ Idle /\ UNCHANGED <<now, sessionVars, placeVars, form>>

\* A write takes effect and is answered, or the answer is lost.  No list
\* shows a password.
Effected(c, st) ==
  [c EXCEPT !.status = st, !.good = FALSE, !.done = @ \cup {NextPart(c)},
            !.at = now']
ServeWrite(i) ==
  LET c == posts[i] IN
  /\ Waiting(c) /\ c.kind \in Kinds
  /\ \/ /\ c.good /\ now < MaxNow /\ now' = now + 1
        /\ \E st \in {"ok", "failed"} : posts' = [posts EXCEPT ![i] = Effected(c, st)]
     \/ /\ \E st \in Checked(c.good) \ {"ok"} :
             posts' = [posts EXCEPT ![i].status = st, ![i].good = FALSE]
        /\ UNCHANGED now
  /\ Idle /\ UNCHANGED <<sessionVars, placeVars, form>>

\* Devices, other operators and callers change what the lists show.
Tick ==
  /\ now < MaxNow /\ now' = now + 1
  /\ Idle /\ UNCHANGED <<sessionVars, placeVars, form, posts>>

-----------------------------------------------------------------------------
(* Answers arrive *)

SwallowedOn401(v, c) ==    \* Mutation: after a 401 request() never settles.
  IF Unauthorized(c) THEN v ELSE AfterAnswer(v, c)
Settled(v, c) == AfterAnswer(v, c)

DeliverCall(h, i) ==
  LET c == calls[h][i]
      cs == [calls EXCEPT ![h][i] = None]
  IN  /\ AnsweredYet(c)
      /\ Heard(c)
      /\ IF h = "first" /\ route \in GroupPage /\ c.alive
         THEN GroupsArrive(cs, c)
         ELSE /\ hook' = [hook EXCEPT ![h] = Settled(hook[h], c)]
              /\ calls' = cs
              /\ UNCHANGED <<form, posts>>
      /\ UNCHANGED now

DeliverPost(i) ==
  LET c == posts[i] IN
  /\ AnsweredYet(c) /\ c.kind \in {"poll", "invoke"}
  /\ Heard(c)
  /\ posts' = [posts EXCEPT ![i] = None]
  /\ form' = IF c.kind = "poll" THEN PollAnswered(form, c)
             ELSE InvokeAnswered(form, c)
  /\ Idle /\ UNCHANGED now

\* The first of two requests is answered and the second leaves, from a page
\* that may be gone; or the handler ends.
DeliverWrite(i) ==
  LET c == Returned(posts[i]) IN
  /\ AnsweredYet(posts[i]) /\ posts[i].kind \in Kinds
  /\ Heard(posts[i])
  /\ IF GoesOn(c)
     THEN /\ posts' = [posts EXCEPT ![i] = [c EXCEPT !.status = "pending",
                                                     !.good = Credentials]]
          /\ Idle /\ UNCHANGED form
     ELSE WriteAnswered([posts EXCEPT ![i] = None], c)
  /\ UNCHANGED now

-----------------------------------------------------------------------------
PanelNext ==
  \/ \E p \in Pages : Go(p) \/ \E h \in Hooks : Refresh(p, h)
  \/ Follow \/ Logout \/ Login \/ Expire \/ Tick
  \/ \E g \in AllGroups : ChooseGroup(g)
  \/ TypeAction \/ PickAction \/ ClearAction \/ Invoke
  \/ Poll \/ Turn
  \/ \E x \in Filters : SetFilter(x) \/ SetStatus(x)
  \/ RefreshRows \/ CloseDialog
  \/ \E kind \in Kinds : \/ OpenDialog(kind)
                         \/ \E parts \in SUBSET Parts : Submit(kind, parts)
  \/ \E h \in Hooks, i \in Slots : ServeCall(h, i) \/ DeliverCall(h, i)
  \/ \E i \in Slots : \/ ServeLogin(i) \/ LoggedIn(i) \/ NotLoggedIn(i)
                      \/ ServePost(i) \/ DeliverPost(i)
                      \/ ServeWrite(i) \/ DeliverWrite(i)

\* The browser dispatches the hashchange event it has queued.
PanelSpec == PanelInit /\ [][PanelNext]_panelVars /\ WF_panelVars(Follow)

-----------------------------------------------------------------------------
(* Properties *)

PostType ==
  [kind : Kinds \cup {"login", "poll", "invoke"},
   good : BOOLEAN, status : Statuses, page : BOOLEAN, row : BOOLEAN,
   asked : SUBSET Parts, done : SUBSET Parts, got : SUBSET Parts,
   at : 0..MaxNow, press : 0..MaxPress]

\* The tab's own state is well formed, and what the hooks hold too.
PanelTypeOK ==
  /\ FetchTypeOK
  /\ token \in {"good", "bad", None} /\ cookie \in BOOLEAN
  /\ route \in Pages /\ hash \in Pages
  /\ DOMAIN form = DOMAIN Fresh(route)
  /\ \A i \in Slots : posts[i] # None => posts[i] \in PostType
  /\ InFlight(calls, posts) <= MaxFlight

\* A page left without credentials by a 401 gives way to the login page,
\* unless somebody logs in meanwhile (request() in client.ts).
EndsAtLogin == token = None ~> route = "login" \/ token # None

\* The page of records asked for is one that the list had when its pager led
\* there, for the filter chosen now; a pager used while the list of another
\* filter was still on the screen promises nothing (RequestsPage).
PageExists ==
  route = "requests" /\ form.page > 1 /\ ~form.blind =>
    form.page <= PagesAt[form.filter][form.turned]

\* The action a test call will name is one of the group it will be sent to, and
\* not of one chosen before (InvokePage's effect on effGroup).  The code does
\* not keep it: a choice can be made from the options of the last group.
ActionOfGroup ==
  route = "invoke" /\ form.action # None => form.action = EffGroup(form, hook.first)

\* It is, when it was not chosen before the group's own options had come: the
\* group may change, and the answers for the last one and for this one arrive
\* in any order, or be errors (the effect, its cleanup, and the select).
SettledActionOfGroup ==
  route = "invoke" /\ form.action # None /\ ~form.early =>
    form.action = EffGroup(form, hook.first)

\* The result on the page is that of the last call started (InvokePage).
ResultOfLastPress ==
  route = "invoke" /\ form.result # None =>
    form.result = form.press /\ ~form.running

\* Once a change was reported as saved, or a switch was thrown with whatever
\* result, no list comes to rest on the page that was read before the change
\* (the reload at the end of every handler, and useFetch).
ShownHasMyWrites ==
  route \in RowPages /\ ~hook.first.loading /\ hook.first.data # None =>
    hook.first.data.at >= form.known

\* What was reported as saved took effect on the server in all its parts, also
\* where a form is saved by two requests and either is refused, fails, or loses
\* its answer (EditUserDialog's submit, which sees only what its awaits return).
SavedMeansWhole == route \in RowPages => form.missed = {}

\* Whatever the pages do, the hooks on them stay what they are by themselves.
HooksAsSpecified == FetchSpec
=============================================================================
