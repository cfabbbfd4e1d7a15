------------------------------ MODULE UseFetch ------------------------------
(***************************************************************************)
(* The hook every page of the panel loads its data with                    *)
(* (src/web/src/lib/useFetch.ts), and the requests it has in flight.       *)
(*                                                                         *)
(* An effect runs when the page appears, when what it asks for changes and *)
(* when it is reloaded.  Running it again, or leaving the page, makes the  *)
(* previous request an orphan (alive = false); its answer still arrives.   *)
(* Requests are answered by the server and delivered to the page in any    *)
(* order.                                                                  *)
(***************************************************************************)
EXTENDS Naturals

CONSTANTS
  Hooks,     \* the uses of useFetch on the pages
  Queries,   \* what can be asked for
  Public,    \* the queries that are answered without credentials
  Slots,     \* places for the requests of one hook in flight, a bound
  None

VARIABLES
  now,     \* how many times the data on the server has changed
  hook,    \* state of each hook: FetchState, and what it was last asked for
  calls    \* calls[h][i]: a request of hook h in flight, or None

fetchVars == <<now, hook, calls>>

Statuses == {"pending", "ok", "failed", "refused"}
\* The answer to a question is known by when the server read its data.
Data == [query : Queries, at : Nat]
FetchState ==
  [mounted : BOOLEAN, query : Queries \cup {None}, asked : Nat,
   loading : BOOLEAN, data : Data \cup {None}]
Call ==
  [query : Queries \cup {None}, asked : Nat, good : BOOLEAN, alive : BOOLEAN,
   status : Statuses, at : Nat]

ASSUME NoneAssumption == None \notin Call

-----------------------------------------------------------------------------
(* Requests *)

\* fetch(), seen from the page: a request leaves now and is yet unanswered;
\* good: the server would take the credentials it carries.
Request(q, good) ==
  [query |-> q, asked |-> now, good |-> good, alive |-> TRUE,
   status |-> "pending", at |-> now]

HasRoom(cs) == \E i \in Slots : cs[i] = None
FreeSlot(cs) == CHOOSE i \in Slots : cs[i] = None
Sent(cs, r) == [cs EXCEPT ![FreeSlot(cs)] = r]

\* The cleanup of an effect.
OrphansKept(cs) == cs    \* Mutation: the effect returns no cleanup.
Orphans(cs) ==
  [i \in Slots |-> IF cs[i] = None THEN None ELSE [cs[i] EXCEPT !.alive = FALSE]]

\* The page is left: what its requests bring is for nobody, unless a refusal.
Strays(cs) ==
  [i \in Slots |-> IF cs[i] = None THEN None
                   ELSE [cs[i] EXCEPT !.alive = FALSE, !.asked = 0, !.at = 0,
                     !.query = IF @ \in Public THEN @ ELSE None]]

\* The server answers with status st, reading its data at this moment; the
\* credentials have served their purpose.
Answered(c, st) ==
  [c EXCEPT !.status = st, !.good = FALSE, !.at = IF st = "ok" THEN now ELSE @]

\* Credentials given out so far are good no more.
Lapsed(cs) ==
  [i \in Slots |-> IF cs[i] = None THEN None ELSE [cs[i] EXCEPT !.good = FALSE]]

-----------------------------------------------------------------------------
(* The hook *)

Blank == [mounted |-> FALSE, query |-> None, asked |-> 0, loading |-> FALSE,
          data |-> None]

\* The effect starts: loading, the old data still there.
Loading(v, q) ==
  [mounted |-> TRUE, query |-> q, asked |-> now, loading |-> TRUE,
   data |-> v.data]

DataOf(c) == [query |-> c.query, at |-> c.at]

\* Mutation: .then((d) => setState(...)) without looking at alive.
AfterAnyAnswer(v, c) ==
  IF ~c.alive /\ c.status # "ok" THEN v
  ELSE [v EXCEPT !.loading = FALSE,
                 !.data = IF c.status = "ok" THEN DataOf(c) ELSE None]
\* Mutation: the spinner is left to the next answer when this one is an error.
AfterSilentError(v, c) ==
  IF ~c.alive \/ c.status # "ok" THEN v
  ELSE [v EXCEPT !.loading = FALSE, !.data = DataOf(c)]
\* The continuation of fn() in the effect.
AfterAnswer(v, c) ==
  IF ~c.alive THEN v
  ELSE [v EXCEPT !.loading = FALSE,
                 !.data = IF c.status = "ok" THEN DataOf(c) ELSE None]

\* One render: hooks in gone leave the page, hooks in DOMAIN asks run their
\* effect.  A hook in both is another instance, on the next page.
HooksAfter(hs, gone, asks) ==
  [h \in Hooks |->
     LET v == IF h \in gone THEN Blank ELSE hs[h]
     IN  IF h \in DOMAIN asks THEN Loading(v, asks[h]) ELSE v]
CallsAfter(cs, gone, asks, good) ==
  [h \in Hooks |->
     LET left == CASE h \in gone -> Strays(cs[h])
                   [] h \in DOMAIN asks \ gone -> Orphans(cs[h])
                   [] OTHER -> cs[h]
     IN  IF h \in DOMAIN asks THEN Sent(left, Request(asks[h], good))
         ELSE left]

-----------------------------------------------------------------------------
(* The hook by itself, under the most general page and server *)

FetchInit ==
  /\ now = 0
  /\ hook = [h \in Hooks |-> Blank]
  /\ calls = [h \in Hooks |-> [i \in Slots |-> None]]

\* The effect runs, in the hook that is there or in a new instance of it.
Load(h) ==
  LET q == hook'[h].query
      Starts(v, cs) ==
        /\ hook'[h] = Loading(v, q)
        /\ \E good \in BOOLEAN : calls'[h] = Sent(cs, Request(q, good))
  IN  /\ HasRoom(calls[h]) /\ q \in Queries
      /\ Starts(hook[h], Orphans(calls[h])) \/ Starts(Blank, Strays(calls[h]))

Leave(h) == hook'[h] = Blank /\ calls'[h] = Strays(calls[h])

Serve(h) ==
  \E i \in Slots, st \in Statuses \ {"pending"} :
    /\ calls[h][i] # None /\ calls[h][i].status = "pending"
    /\ calls'[h] = [calls[h] EXCEPT ![i] = Answered(calls[h][i], st)]
    /\ hook'[h] = hook[h]

Deliver(h) ==
  \E i \in Slots :
    /\ calls[h][i] # None /\ calls[h][i].status # "pending"
    /\ hook'[h] = AfterAnswer(hook[h], calls[h][i])
    /\ calls'[h] = [calls[h] EXCEPT ![i] = None]

Lapse(h) == hook'[h] = hook[h] /\ calls'[h] = Lapsed(calls[h])

HookStep(h) ==
  \/ hook'[h] = hook[h] /\ calls'[h] = calls[h]
  \/ Lapse(h) \/ Load(h) \/ Leave(h) \/ Serve(h) \/ Deliver(h)

FetchNext ==
  /\ now' \in {now, now + 1}
  /\ hook' = [h \in Hooks |-> hook'[h]]
  /\ calls' = [h \in Hooks |-> calls'[h]]
  /\ \A h \in Hooks : HookStep(h)

FetchSpec == FetchInit /\ [][FetchNext]_fetchVars

-----------------------------------------------------------------------------
(* Properties *)

FetchTypeOK ==
  /\ now \in Nat
  /\ hook \in [Hooks -> FetchState]
  /\ calls \in [Hooks -> [Slots -> Call \cup {None}]]

Alive(h, i) == calls[h][i] # None /\ calls[h][i].alive

\* A hook that shows the spinner has one request whose answer will take it
\* away, a hook that does not has none, and that request asks for what the
\* page wants now (the effect, its cleanup and the two continuations).
OneLiveCall ==
  \A h \in Hooks :
    /\ hook[h].loading <=> \E i \in Slots : Alive(h, i)
    /\ \A i, j \in Slots : Alive(h, i) /\ Alive(h, j) => i = j
    /\ \A i \in Slots : Alive(h, i) =>
         /\ calls[h][i].query = hook[h].query
         /\ calls[h][i].asked = hook[h].asked

\* What a settled page shows answers what the page asks for now, and was read
\* by the server after the last time the page asked: no slow answer to an
\* earlier filter, group, page or reload ever replaces it (useFetch's alive).
ShownAnswersQuestion ==
  \A h \in Hooks :
    hook[h].mounted /\ ~hook[h].loading /\ hook[h].data # None =>
      /\ hook[h].data.query = hook[h].query
      /\ hook[h].asked <= hook[h].data.at /\ hook[h].data.at <= now

Latest == INSTANCE LatestView WITH view <- hook

\* The hook implements the view it is meant to be: whatever the requests do,
\* it only ever goes from a question to an answer to that question.
LatestSpec == Latest!Spec
=============================================================================
