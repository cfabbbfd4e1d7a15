------------------------------ MODULE Browser -------------------------------
(***************************************************************************)
(* One browser tab with the panel in it: who is logged in                  *)
(* (src/web/src/auth.ts, the cookie of the login), which page is shown     *)
(* (App.tsx, Shell.tsx), and what every request does to both               *)
(* (src/web/src/api/client.ts).  A page is mounted and unmounted here;     *)
(* what it does while it is mounted is in the modules of the pages.        *)
(*                                                                         *)
(* Of credentials only this matters: whether the server would take them    *)
(* (good).  At any moment those given out so far may stop being good.      *)
(***************************************************************************)
EXTENDS UseFetch, FiniteSets

CONSTANTS
  MaxFlight,   \* bound on the requests of the tab in flight at a time
  MaxLeft      \* bound on those in flight when a page is left by hand

VARIABLES
  token,   \* localStorage's r1rpc_token, "good" or "bad", or None
  cookie,  \* whether the cookie set by the last login is there and good
  route,   \* the page the router shows
  hash,    \* the page location.hash names
  form,    \* the state of the mounted page that is not a hook's
  posts    \* requests that are not a hook's, or None

\* The pages that load one list have hook "first"; those that load something
\* about one of its rows have "second".
ASSUME HooksAssumption ==
  /\ {"first", "second"} \subseteq Hooks
  /\ IsFiniteSet(Hooks) /\ IsFiniteSet(Slots) /\ MaxFlight \in Nat

sessionVars == <<token, cookie>>
placeVars == <<route, hash>>

RowPages == {"groups", "users", "devices"}
Pages == {"login", "overview", "clients", "requests", "invoke"} \cup RowPages

-----------------------------------------------------------------------------
(* Pages appear and disappear *)

\* The useState values a page starts with.
Fresh(p) ==
  CASE p = "login" -> [busy |-> FALSE]
    [] p = "overview" -> [chart |-> None]
    [] p = "clients" -> [group |-> None]
    [] p = "requests" -> [page |-> 1, filter |-> "all", turned |-> 0,
                          blind |-> FALSE]
    [] p = "invoke" -> [group |-> None, action |-> None, early |-> FALSE,
                        running |-> FALSE, press |-> 0, result |-> None]
    [] p \in RowPages -> [dialog |-> None, list |-> "all", known |-> 0,
                          missed |-> {}]

\* What a page's hooks ask for when it appears; what "third" and "fourth"
\* bring is only displayed.
Uses(p) ==
  CASE p = "login" -> <<>>
    [] p = "overview" -> [first |-> <<"trends">>, third |-> <<"groups">>,
                          fourth |-> <<"devices", "all">>]
    [] p = "clients" -> [first |-> <<"groups">>, second |-> <<"queue", None>>]
    [] p = "requests" -> [first |-> <<"list", "all", 1>>, third |-> <<"options">>]
    [] p = "invoke" -> [first |-> <<"groups">>]
    [] p = "groups" -> [first |-> <<"groups">>]
    [] p = "users" -> [first |-> <<"users">>]
    [] p = "devices" -> [first |-> <<"devices", "all">>]

\* What the pages ask for when they appear can be asked for.
ASSUME UsesAssumption ==
  \A p \in Pages : \A h \in Hooks \cap DOMAIN Uses(p) : Uses(p)[h] \in Queries

\* Requests go on when the component that sent them is gone; what they bring
\* is for nobody.
Left(ps) ==
  [i \in Slots |-> IF ps[i] = None THEN None
                   ELSE [ps[i] EXCEPT !.page = FALSE, !.row = FALSE, !.at = 0,
                                      !.press = 0]]

InFlight(cs, ps) ==
  Cardinality({u \in Hooks \X Slots : cs[u[1]][u[2]] # None})
    + Cardinality({i \in Slots : ps[i] # None})

\* Effects run: from hooks hs with calls cs, hooks gone leave and asks start.
Effects(hs, cs, gone, asks, good) ==
  /\ \A h \in Hooks \cap DOMAIN asks : HasRoom(cs[h])
  /\ hook' = HooksAfter(hs, gone, asks)
  /\ calls' = CallsAfter(cs, gone, asks, good)
  /\ InFlight(calls', posts') <= MaxFlight

Idle == UNCHANGED <<hook, calls>>

-----------------------------------------------------------------------------
(* Requests (request() in client.ts) *)

\* Authorization if there is a token; the cookie goes with every request and
\* counts when there is no header.
Credentials == IF token # None THEN token = "good" ELSE cookie

Post(kind, good) ==
  [kind |-> kind, good |-> good, status |-> "pending", page |-> TRUE,
   row |-> FALSE, asked |-> {}, done |-> {}, got |-> {}, at |-> 0, press |-> 0]

Sends(r) == HasRoom(posts) /\ posts' = Sent(posts, r)

\* A 401: the tab forgets its token and asks the router for the login page.
Unauthorized(c) == c.status = "refused"
TokenAfter(c) == IF Unauthorized(c) THEN None ELSE token
HashKept(c) == hash      \* Mutation: 401 forgets the token, and that is all.
HashToSignIn(c) ==       \* Mutation: a route that App.tsx does not have.
  IF Unauthorized(c) THEN "signin" ELSE hash
HashAfter(c) == IF Unauthorized(c) THEN "login" ELSE hash

Heard(c) ==
  /\ token' = TokenAfter(c) /\ hash' = HashAfter(c)
  /\ UNCHANGED <<cookie, route>>

-----------------------------------------------------------------------------
(* Moving about *)

\* The router shows page p; its requests leave with good credentials or
\* not, the first poll of the overview among them.
Show(p, ps, good) ==
  /\ route' = p /\ hash' = p
  /\ form' = Fresh(p)
  /\ IF p = "overview"
     THEN HasRoom(ps) /\ posts' = Sent(Left(ps), Post("poll", good))
     ELSE posts' = Left(ps)
  /\ Effects(hook, calls, Hooks, Uses(p), good)

Calm == InFlight(calls, posts) <= MaxLeft

\* A link of the shell, an address typed in, the back button: RequireAuth
\* lets nobody without a token past the login page.
Go(p) ==
  LET shown == IF token = None THEN "login" ELSE p
  IN  /\ p # route
      /\ Show(shown, posts, Credentials)
      /\ UNCHANGED <<now, sessionVars>>

\* The hashchange event reaches the router.
Follow ==
  /\ hash # route
  /\ Show(hash, posts, Credentials)
  /\ UNCHANGED <<now, sessionVars>>

\* The shell's button: the token goes, the cookie stays.
Logout ==
  /\ route # "login" /\ Calm
  /\ token' = None
  /\ Show("login", posts, FALSE)
  /\ UNCHANGED <<now, cookie>>

\* LoginPage: submit.
Login ==
  /\ route = "login" /\ ~form.busy
  /\ form' = [form EXCEPT !.busy = TRUE]
  /\ Sends(Post("login", Credentials))
  /\ InFlight(calls, posts') <= MaxFlight
  /\ Idle /\ UNCHANGED <<now, sessionVars, placeVars>>

\* handleAdminLogin: the answer carries a new credential.
ServeLogin(i) ==
  /\ posts[i] # None /\ posts[i].kind = "login" /\ posts[i].status = "pending"
  /\ \E st \in {"ok", "failed"} :
       posts' = [posts EXCEPT ![i].status = st, ![i].good = (st = "ok")]
  /\ Idle /\ UNCHANGED <<now, sessionVars, placeVars, form>>

\* The answer arrives, with or without a LoginPage to wait for it.
LoggedIn(i) ==
  /\ posts[i] # None /\ posts[i].kind = "login" /\ posts[i].status = "ok"
  /\ token' = IF posts[i].good THEN "good" ELSE "bad"
  /\ cookie' = posts[i].good
  /\ LET rest == [posts EXCEPT ![i] = None]
     IN  IF route = "overview"
         THEN hash' = "overview" /\ posts' = rest /\ Idle /\ UNCHANGED <<route, form>>
         ELSE Show("overview", rest, posts[i].good)
  /\ UNCHANGED now

NotLoggedIn(i) ==
  /\ posts[i] # None /\ posts[i].kind = "login" /\ posts[i].status = "failed"
  /\ posts' = [posts EXCEPT ![i] = None]
  /\ form' = IF posts[i].page THEN [form EXCEPT !.busy = FALSE] ELSE form
  /\ Idle /\ UNCHANGED <<now, sessionVars, placeVars>>

\* Every credential given out so far stops being good: the cookie's and the
\* token's twelve hours are over, or the secret has changed.
Expire ==
  /\ cookie
  /\ token' = IF token = "good" THEN "bad" ELSE token
  /\ cookie' = FALSE
  /\ calls' = [h \in Hooks |-> Lapsed(calls[h])]
  /\ posts' = Lapsed(posts)
  /\ UNCHANGED <<now, hook, placeVars, form>>
=============================================================================
