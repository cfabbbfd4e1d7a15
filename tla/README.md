# r1rpc: a verification project

r1rpc is a single Go server that lets callers run an *action* on a pool of
devices. A device keeps a WebSocket open; a caller makes one HTTP request and
gets the device's answer as the response. This directory models the server's
own logic and that of its web panel in TLA+, checks it with TLC on small instances
and proves its safety properties, for instances of any size, with TLAPS.

## 1. Inventory

| Component | State | Operations | Talks to |
| --- | --- | --- | --- |
| Hub registry (`internal/rpc/hub.go`) | `sessions`, `groups`, `groupOrder`, `groupCursor`, per session `LastSeenAt`, `MaxInFlight`, `InFlight`, `dispatchReady` | `Register`, `Unregister`, `Touch`, `AcquireDispatchSlot`, `ReleaseDispatchSlot`, `pickSession` | everything; all under `Hub.mu` |
| Hub calls (`hub.go`) | `waiters`, `completed`, the result channel of each call | `Invoke` (one goroutine per call, four locked sections), `SubmitResult` | the registry, the queues |
| Job queue (`hub.go`) | `items`, `count`, `notify` of each session | `Push`, `Pop`, `Requeue`, pruning | under a lock of its own, `count` also read without it |
| WebSocket connections (`internal/web/client_ws.go`) | the table of current connections; per connection a handler/reader, a writer and a ping goroutine | handshake, `replace`, reader loop, writer loop, `clearIfCurrent`, clean-up | hub, application layer, device |
| Application layer (`internal/app/app.go`) | presence cache, persist queue | `LoginClient`, `InvokeRPC`, `SubmitClientResult`, `TouchClientPresence`, `EnsureGroupActive` | hub, store |
| Persistence pipeline (`app.go`, `persist_batch.go`) | bounded channel, overflow goroutines, batches | `enqueuePersist`, workers, batch and fallback | store |
| Metrics and retention (`store.go`, `cmd/server/main.go`) | request rows, daily totals | increments, trims, rebuild at start | MySQL |
| Administration (`http.go`, `store.go`) | groups, keys, devices, users | create, enable, rotate, delete | store, hub |
| Views (`http.go`) | none | `realtimeSessions`: who is online, for the lists and the deletions | hub, store |
| Configuration, payload codec, tokens | none | pure functions | |
| Schema bootstrap, `dbinit` | the schema | DDL at start | MySQL |
| Panel: fetch hook (`web/src/lib/useFetch.ts`) | `data`, `loading` of each use, `alive` of each request | effect, its cleanup, the two continuations, `reload` | `request` |
| Panel: tab (`api/client.ts`, `auth.ts`, `App.tsx`, `Shell.tsx`, `LoginPage.tsx`) | token in localStorage, login cookie, router, `location.hash` | login, logout, navigation, what a 401 does | HTTP API |
| Panel: pages (`web/src/pages/`) | filters, page number, chosen group, dialogs, results | load, poll, filter, turn, call, switch, confirm, create, edit | the hook, HTTP API |
| Examples | | device client, caller | HTTP API, WebSocket |

What is hard here:

* **Concurrency.** A call takes `Hub.mu` four times and works with a session
  pointer in between; a writer takes a slot, pops, writes, gives back and
  requeues under different locks; connections of the same device overlap.
* **Lost wake-ups.** Two condition variables are built from channels that are
  closed and replaced (`dispatchReady`, `notify`).
* **Failures.** Sockets break, a write fails after the frame left, a device dies
  with jobs, answers arrive late, twice, or for somebody else's call.
* **Timeouts.** A deadline races an answer in `Invoke`'s `select`.
* **Bounds.** Slots per device, jobs per queue, a cursor into a shrinking slice.
* **Look, then act.** A deletion looks whether anything is online and deletes in
  a second step; a change of mode reads the group and then writes its key.
* **Answers out of order.** The panel's requests overlap, outlive their page and
  are answered in any order; one 401 logs the whole tab out.

`PROJECT.json` lists each hazard at its line with the properties that watch it.

What makes each part correct:

* Registry: the three views of who is where agree; a cursor stays in range;
  nobody sleeps on a slot that is free or on a session that is gone.
* Routing: whoever can take a call gets one within a bounded number of picks.
* Calls: a caller is never stranded; the ledger says what happened; a slot is
  freed at most once per answer.
* Queues: a job is in one place, in the queue of the device it was assigned to;
  nobody sleeps beside a job.
* Connections: one that was replaced is cancelled and ends; slots do not leak; a
  call reaches a connected device and its answer reaches the caller.
* Persistence: a call is counted once, whatever is retried; what cannot be
  written does not hold up anything else.
* Presence: a heartbeat whose write failed is made up for by the next one; the
  hub hears of no device before the database does.
* Administration: no online device is deleted; a group that asks for a key has
  one; a revoked key stays revoked.
* Panel: what rests on a page answers what the page asks for now and contains
  what it has saved; what is reported as saved is saved whole; without
  credentials one ends at the login page.

## 2. Modules

```
Registry ──┬── RoundRobin            (+ histories of picks)
           └── Hub ── ClientWS       (+ queues, calls; + connections, devices)
Persist ────── PersistProofs         (below the calls, beside the hub)
Roster ─────── RosterProofs          (rows, presence cache, administration)

RegistryProofs ──┬── RoundRobinProofs
                 └── HubProofs ── ClientWSProofs ── SlotProofs
                                       (each extends its module, Slot: ClientWS)

LatestView ◁── UseFetch ─── Browser ──┬── GroupPages ──┐   (◁── : is implemented by)
                                      ├── ListPages ───┼── Panel ── PanelProofs
                                      └── RowPages ────┘
MCRoundRobin MCHub MCClientWS MCPersist MCRoster MCPanel   instances
```

A lower module owns its variables and exports actions; a higher one conjoins
them with what it does to its own variables, as the code calls one layer from
another.

**Registry** is the locked part of the hub. `sessions` maps a client to a
session *object*; other parts keep pointers to objects the registry has
dropped, so objects are values of their own (`Sessions`) and their fields are
functions on objects. `dispatchReady[s]` is the set of writers blocked on the
current channel of `s`; closing the channel empties it. Each action is a
function that holds `Hub.mu` from start to end (`RegisterNew` and
`RegisterExisting` are the two branches of `Register`; `TakeSlot`,
`ParkForSlot` and `StopWaiting` the ways through one turn of
`AcquireDispatchSlot`). Deleting an empty group's map, order and cursor is
leaving them empty, empty and 0, which is what Go reads from an absent key.
`Without` is the filter of `removeClientFromGroup`; `MCRoundRobin` checks it
against `SequencesExt!Remove`.

**RoundRobin** adds two history variables to the registry and states what the
cursor is for. `full` is any set of sessions, so queues fill and empty freely.

**Hub** adds the queues and the calls. `callPc` is the place of a call's
goroutine: one action per locked section of `Invoke` (`PickSession`,
`StoreWaiter`, `PushJob`, `DropWaiter`, `ExpireWaiter`) and one per branch of
its `select` (`TakeResult`, `GiveUp`). `SubmitResult` is the disjunction of what it can
find: a waiter of that client, an expired entry, anything else. The clean-up of
the ledger is part of each action that runs it. Time is a set of calls whose
deadline has passed (`expired`), a set whose context is done (`ctxDone`: it
may end before the deadline because the HTTP client leaves), and a set of
ledger entries past their retention (`aged`). The rest of the program is the
most general user: any writer may pop, put back or let go of jobs of its
client's sessions, current or dropped, and any client may answer any call whose
id has left the server.

**ClientWS** is the actual user: the handler with its reader loop and the
writer loop of each connection, the table of current connections, the device at
the other end, callers. One action per call into the hub or per socket
operation. `replace` is three: under its lock the connection enters the table
(`Replace`), then it cancels and closes the one it found there
(`CancelPrevious`, `ClosePrevious`); in between, the old connection goes on and
a further one may come. `Faults` selects what may go wrong: a socket breaks, a
write fails half-way, a device loses its jobs, the device logs out over HTTP, a
group is disabled, the query for the group of an answer fails, the record of an
ended call grows older than its retention. That
`ClientWS!Spec` implements `Hub!HubSpec` is checked (property `HubSpec` of run
`faulty`) and proved (`ConnectionsImplementHub`): it is what entitles the
connections to everything the hub promises to its most general user.

**Persist** begins where `Hub.Invoke` returns: `EnqueueRecord` and
`EnqueueMetric` are the two calls of `enqueuePersist`, `overflow` the
goroutines it starts when the channel is full (`OverflowSends` and
`OverflowRuns` are the branches of their `select`), `Take` and `Drain` collect a
batch, `WriteRecords` and `WriteMetrics` are the two transactions of
`runPersistBatch` and `Fallback` one turn of the loop over a failed batch.
`Refused` are the calls whose record MySQL cannot take: the status comes from
the device and the column is an enum. `Misnamed` are those of them whose share of
the metrics it cannot take either: a name that is longer than its column, which
both tables have. `Trim` is the maintenance, `Restart` the
end of the process and the start of the next up to the rebuild, before which
nothing else runs. The calls share one scope and day, so a row of
`daily_metrics` is kept as what each call contributes to it.

**Roster** is what the panel administers and the devices behind it: the row of a
group, the device rows, the hub seen as a session that is fresh or silent, and
the presence cache. Requests are handlers that run side by side; a handler does
one database call or one locked section per step and every database call may
fail. `UpsertDevice`, `RegisterDevice` and `MarkPresenceFlushed` are
`LoginClient`; `TouchClientPresence`, `TouchDevice` and `ResetPresenceFlush` the
presence of a heartbeat; `UpdateGroupProfile`, `ReadGroup` and `StoreAuthMode`
are `handleUpdateGroup` down to `SetGroupAuthMode`; `CheckOnline` and `Delete` are
either deletion. `CreateGroup`, `UpdateGroupStatus` and `RotateGroupAPIKey` are
one statement each and so one action. A key is the number of the key generation
it came from, 0 the empty one. `known`, `owed`, `revoked` and the `steady` of a
deletion are histories the properties are stated with.

**UseFetch** is the hook every page loads with, and its requests: a request
knows its question, when it was asked (`now` counts the changes of the server's
data), whether its effect is still alive and what it was answered.
`HooksAfter` and `CallsAfter` are one render: some hooks leave, some run their
effect. `FetchSpec` is the hook by itself under any page and any server, and
that is what is proved about. **LatestView** says what a page may count on,
without requests: a view is asked, shows that it loads, and ends with an answer
to that question, read after it was asked, or with nothing. `UseFetch`
implements it (`LatestSpec`, an `INSTANCE ... WITH view <- hook`).

**Browser** is one tab: token, cookie, router, `location.hash`, the requests that
are not a hook's (`posts`), and the pages as they come and go. A 401 removes the
token and sets the hash in the step that delivers it; the router follows later,
when the `hashchange` event is dispatched (`Follow`). **GroupPages** are
`ClientsPage` and `InvokePage`, which work on one group, chosen or the first of
the list. The options of the test call's select are those of the last group
until the new group's arrive, and `PickAction` picks from what is there; the
form remembers by `early` that they had not come. **ListPages** are the overview with its poll and the records with filters
and a pager, **RowPages** the three pages that change what they list. Their
switches, confirmations and dialogs are four kinds of one handler, since the
code repeats one pattern: send, report, close, reload. Where the code differs
the model does: a switch reloads whatever the answer, a confirmation closes
before it is answered, a row's dialog disappears with its table, an edit of a
user is two requests. A handler sees what its awaits return (`got`), which may be
less than what took effect on the server (`done`). **Panel** puts the pages together with a server that
answers, refuses or loses and whose data changes.

`PROJECT.json` maps state, actions and the operators that carry a decision to
their lines; a helper that only one action uses stands for lines of that action.

Operators marked `Mutation` are plausible bugs of the operation after them; no
specification uses them. Each property of a passing run is known to fail when
one of them replaces the real definition.

## 3. Runs

| Run | Instance | Question | States |
| --- | --- | --- | --- |
| `round_robin` | 4 clients, 2 groups | Do the views of the roster agree, and is the rotation fair? | 9 thousand (symmetric) |
| `hub` | 2 clients, one of which may fall silent, asked limits 0 and 2, 2 objects, 1 writer, 2 calls, one of them naming a device, queues of 1 | Callers, ledger, jobs and queues under every interleaving | 2.1 million (symmetric) |
| `reconnect` | 1 device, 2 connections with limits 1 and 2, 2 calls, one may time out, sockets break | Do slots leak, does a writer sleep for nothing, does one connection take over from the other? | 2.0 million |
| `faulty` | 1 device, 2 connections, 1 call, all seven faults | Refinement of `Hub` | 0.8 million |
| `quiet` | 2 devices with a connection each, 2 calls, one may time out, no faults, fairness | Jobs are never dropped, limits hold, calls are served | 0.1 million |
| `persist` | 3 calls, the record and the metrics of one refused, 1 worker and the overflow goroutines, a channel of 2, batches of 3, one failing statement, one restart, fairness | Is everything written, and counted once? | 0.2 million |
| `roster` | 1 device, 3 handlers at a time, 2 keys, failing database calls, restarts | Presence and administration under every interleaving | 1.0 million (symmetric) |
| `panel` | every page, 2 hooks with 2 requests each, 2 posts, 2 groups, 2 filters, the data changes once, 2 calls from one visit | Stale answers, 401s, reports and lists | 1.0 million |
| `overload` | as `reconnect`, limits 1, no timeouts | violated: `client_max_in_flight` | |
| `orphan` | 1 device, 2 connections, 1 call, sockets break, fairness | violated: a connected device is served | |
| `stale_action` | as `panel` | violated: an action goes to its own group | |
| `shrink` | 2 calls, no failures, one restart | violated: daily totals are kept | |

Why the bounds are enough to be interesting:

* Three session objects let a dropped object be pointed to by a call or a
  writer while a second is current and a third is being created. An object
  nothing points to is used again, so the runs do not stop for lack of
  objects: three are never all in use when a device without a session
  registers in `reconnect` and `orphan`, and four never in `faulty`, whose
  logouts drop more of them.
* Two connections of one device are what overlaps in a reconnection. A third
  can arrive while the second has entered the table and not yet cancelled the
  first. `NoStrayConnection` was also explored with three connections and one call
  (4.8 million states), and it is proved for any number, as are the properties
  of slots and of the hub; two keep the runs small.
* Queues of one job are full at once, so refusals, pruning and the error path of
  `Invoke` happen; `reconnect` uses two so that requeueing competes with a new
  job.
* In `hub` the asked limits are one that `normalizeMaxInFlight` replaces by the
  default and one that it cuts; in `reconnect` they differ from connection to
  connection, so that a larger limit can wake a writer and a smaller one keep it
  waiting. The `FallSilent` step is given to one client; nothing but the panel reads
  what it changes.
* `BoundedWait` uses the exact bound for four devices: 11 picks are reached, so
  the check would notice one more.
* In `persist` one call has a name that MySQL refuses in both tables. A call that
  is counted and has no record is also one whose record's statement failed. The
  instance with a second call of which only the record is refused was also explored
  (0.1 million states); it has too few rows for a trim.
* `persist` has one worker; a second writer at the same time is an overflow
  goroutine, which writes beside it. Six tasks for a channel of two and batches
  of three fill both. Safety was also explored with two workers and three
  calls (2.5 million states).
* In `roster` three handlers are what the worst cases need: a change of mode
  with a rotation and a deletion in between, a failed write with a login and a
  heartbeat around it. Two keys are one to revoke and one to take its place.
  Two devices with two handlers were also explored (5.9 million states); the
  proofs hold for any number.
* In `panel` two requests of one hook are an orphan and the one alive; `MaxFlight`
  = 2 lets any two requests of the tab overlap, `MaxLeft` = 1 one survive a page
  that is left by hand, `MaxNow` = 1 data be old or new, `MaxPress` = 2 a call be
  the previous or the present one. Larger values pass ten million states. The
  third and fourth hook of a page only display what they get, never send or
  enable anything, and are left out of this instance (`Hooks`); the proofs hold
  for any number. A list has one row: rows do not interact but
  through the list.
* Counters: `MaxFailures` and `MaxRestarts` bound what may go wrong in Persist;
  `MaxKeys`, `MaxNow` and `MaxPress` are the other counters with a bound. `inFlight` is bounded by the limits, the
  histories of `RoundRobin` are capped one above the value that violates.

Deadlock is checked in `round_robin`, `hub` and `roster`. The
connection runs end when every connection the instance may open has closed, and
`panel` when its bounds on requests and on changes of the data are used up, so
they say `CHECK_DEADLOCK FALSE`.

### What the properties say

Section 4 lists which of them are also proved.

* `RosterInv`, `CursorInv`, `NoLostWakeup` (Registry): see the module.
* `NoOvertaking`, `BoundedWait` (RoundRobin): while nobody joins or leaves, no
  device is served twice ahead of a device that could have taken both. When
  devices leave and come back this fails, because the cursor is an index and
  the entries behind a leaver shift under it, but a steady device still waits
  at most N(N-1)-1 picks (reached for N = 4, proved for every N).
* `NoStrandedCaller`, `LedgerMatchesVerdict`, `LedgerForward` (Hub): a waiting
  call can be answered or already is; a device is told "late" only about a call
  that timed out, and the only disagreement possible is an answer acknowledged
  as delivered that a call timing out at that moment leaves unread; an ending
  is recorded once, so repeated answers free one slot.
* `JobInOnePlace`, `QueuesAtHome`, `NoSleepOnJobs` (Hub).
* `NoStrayConnection`, `SlotsCovered`, `JobAccounted`, `LoadWithinLimit`,
  `Served` (ClientWS). A device may have several connections alive at a moment, as
  long as all but the one in the table are about to be cancelled.
* `CountedOnce`, `Isolated` (Persist): a batch that failed half-way may be
  repeated because its second transaction is the only one that is not an
  upsert, and it is the last. A commit that MySQL carries out while its answer
  is lost (a time-out of `persistTaskTimeout` at the wrong moment) is not
  modelled: the repetition would count its calls twice.

* `DeletionSparesOnline`, `OnlineWasListed`, `FailedBeatRetried`,
  `ApiModeHasKey`, `RevokedStaysRevoked` (Roster), all proved. They promise what
  the code can keep: a device that comes online between the check and the
  deletion is not spared; a deleted device whose token is still good is online
  without being listed; a key rotated while a change of mode holds it comes
  back, although the panel announces that the old key is void at once
  (`GroupsPage.tsx:263`, and every edit of a group sends its mode). A change of mode
  that reads and writes in one statement would need no such exception.
* `OneLiveCall`, `ShownAnswersQuestion`, `LatestSpec` (UseFetch), proved for the
  hook by itself; `HooksAsSpecified` shows that the pages use it so, which
  carries the three over to the panel.
* `EndsAtLogin`, `PageExists`, `SettledActionOfGroup`, `ResultOfLastPress`,
  `ShownHasMyWrites`, `SavedMeansWhole` (Panel). `SettledActionOfGroup` leaves
  out a choice made before the group's own options had come, which can be another
  group's (`ActionOfGroup`, run `stale_action`). `SavedMeansWhole` relates what a
  handler takes for saved to what took effect on the server, with requests that
  are refused, fail before or after they took effect, or expire. A page number is
  only right for the list whose pager led there: a pager used while another
  filter is loading can lead past the end, where `RequestsPage` shows no records and, when the
  list has one page or none, no pager either. An edit of a user whose second
  request fails has changed the profile and does not reload the list. A refusal
  of an old token that arrives after a new login forgets the new token: the tab
  is sent to the login page once more, which `EndsAtLogin` allows.

`SlotsCovered` is checked with broken sockets and timeouts, and proved with
logouts as well, for any number of everything. It does not hold, and is not
claimed, with the other five faults:

* After an ambiguous write the slot is given back and the job queued again while
  the device may already run it; the answer that comes first settles the call,
  so the slot taken for the second delivery is freed by nobody. That is the
  at-least-once delivery the code chose.
* An answer that comes when its group is disabled is dropped before the hub
  hears of it, one whose group cannot be looked up (`app.go:448`) likewise, and
  one that comes more than ten minutes after its call ended finds no record
  (`hub.go:379`); none of them frees the slot.
* A device that forgets a job never answers it.

In all five the slot comes back only when the session is dropped, and until then
the device takes one call fewer at a time.

### Fairness

`FairSpec` asks for weak fairness of the goroutines (Go's scheduler runs every
runnable goroutine), of the heartbeats and answers of a device whose
connection is open (`examples/device_client.py` sends a heartbeat every five
seconds and answers each job in a thread of its own), and of a call's context
ending once its deadline has passed. In Persist it asks for the goroutines
only, and in Panel of `Follow` only: the browser dispatches the `hashchange` event
it has queued, whatever the requests do. For Persist, a statement returns within `persistTaskTimeout`, with or without an
error. Nothing is assumed of logins, of callers, of deadlines passing or of
faults. Weak fairness is enough for mutexes here
because each locked section is one action that stays enabled; a slot is awaited
only while it is taken, and the wake-up is part of the release. Where a `select`
has two branches ready it picks at random, so a writer that is cancelled and
could go on does not go on for ever (`WriterReturns`).

### Findings

* **`overload`** (`hub.go:226`, `hub.go:533`). A device's socket breaks while it
  runs a job; the session is dropped, the device reconnects and the new session
  has `InFlight = 0`. The device still runs the old job in its thread and is
  sent another one although its limit is 1. `config.example.yaml:31` promises
  the number of requests in flight on one device. Worse, the answer to the old
  job then frees a slot of the new session.
* **`orphan`** (`client_ws.go:111`). The new connection registers
  (`handleClientWS`, line 102) before it enters the table (line 106), and the
  old one leaves the table before it unregisters (lines 111-112). In either
  window the old connection unregisters the session the new one counts on. The
  new writer then returns on `ErrClientSessionGone`; the reader goes on, and the
  next heartbeat registers the device again, so the router keeps choosing a
  device nobody writes to. Every call sent to it waits for its deadline until
  the connection breaks. `README.md:21` promises a resident connection and
  delivery within milliseconds.
* **`stale_action`** (`InvokePage.tsx:47`). Choosing another group clears the
  action, but the options stay those of the last group until the new ones have
  come or failed to. An action picked from them in between is kept and posted to
  the new group. `InvokePage.tsx:46` says that choosing a group fetches the
  actions scanned for that group.
* **`shrink`** (`main.go:41`). Every start rebuilds the daily metrics of the last
  `raw_retention_days` from `rpc_requests`, of which the maintenance keeps only
  the latest `raw_request_keep_latest_per_scope` of a scope: two calls counted, one record
  trimmed, a restart, one call left in the totals. The comment of the rebuild
  (`store.go:872`) calls it an operator's tool that does not run by itself, and
  `config.example.yaml:37` keeps daily aggregates for 30 days.

## 4. Proofs

`RegistryProofs` proves, for every set of clients, groups, session objects and
writers and every limit, from the assumptions named in `Registry`:

* `RegTypeCorrect`: `RegSpec => []RegTypeOK`. Inductive as it stands.
* `RosterCorrect`: `RegSpec => []RosterInv`. The invariant relates the maps and
  the orders (`MembersInv`, `OrderInv`); it is inductive only together with
  `OwnerInv`, which says that two clients never share an object: without it,
  moving one client to another group could move another one's object. The
  proof has a lemma for each action that writes the roster and one
  (`RosterFrame`) for all the others; lists are handled by `WithoutRange` and
  `AppendRange`, which say what removing and appending do to the range of a
  list without duplicates.
* `CursorCorrect`: `RegSpec => []CursorInv`. `CursorLeaves` covers the reset in
  `removeClientFromGroup`, `CursorJoins` that an order only grows when a client
  is added, and `PickedIsCandidate` and `ModBounds` the index arithmetic of
  `pickSession`. It rests on `RosterInv` for one fact: a registered client's
  group is a group, so the cursor that is reset is the right one.
* `WakeupCorrect`: `RegSpec => []NoLostWakeup`. Inductive with the types: each
  action that drops a session, frees a slot or raises a limit empties the set
  of blocked writers in the same step.
* `PickedIsCandidate`: if the search has a candidate, it returns one. The least
  offset exists because `<` is well founded on the naturals.

`PanelProofs` first proves about `FetchSpec`, for any hooks, questions and slots for
requests:

* `FetchTypeCorrect`, inductive as it stands.
* `LiveCallIsUnique`: `[]OneLiveCall`, inductive with the types. The steps of
  different hooks are independent, so the proof is about one hook and one step;
  a request enters a free slot just after every other has been made an orphan.
* `NothingStaleIsShown`: needs that a request alive asks what the hook asks, and
  that an answer was read no earlier than it was asked and no later than now.
* `HookImplementsView`: initial states map to initial states; a load is an
  `Asked`, the answer to the request alive a `Settled`, a leave a `Gone`, and
  everything else, the answers to orphans above all, a stutter.

and then, on top of it, about the whole panel, `PanelSpec`, for any groups,
filters, pages of records, requests in flight and bound on the
clock:

* `PanelImplementsHooks`: `PanelSpec => FetchSpec`. Each of the panel's steps is, for
  every hook, a step of that hook or nothing (`HooksMove`, one lemma for each kind
  of step). Showing a page, leaving one and losing the credentials touch all hooks
  in one step, which `FetchSpec` allows; what has to be shown is that each hook then
  does one of its own steps, that the questions are legal ones, and that a request
  goes into a free slot. `PanelKeepsHooks` then repeats
  what is proved of the hook for the panel.
* `PageInv` carries the rest. Its parts are there for one property each, and each
  says what a page *assumes* when an answer comes in:
  * `PanelTypeCorrect`: `TabInv` and `PostsInv` type the form by the page it belongs
    to; a request whose component is still there was sent from the page that is
    there (`Home`), or an answer would change a form of another shape. `FlightInv`
    counts requests over two finite sets.
  * `PageAskedForExists`: what RequestsPage's hook holds is an answer to some list
    (`AskInv`), read at a moment the server has lists for; the pager looks at it.
  * `ActionBelongsToGroup` (`GroupInv`): a list of groups is loaded once, so while it
    loads there is no data, and no group was chosen by default before it came. Its
    part `MenuInv` says that the options of the test call are asked for the group it
    is for; `NothingStaleIsShown` makes of it that they are that group's once the
    hook has settled.
  * `ResultIsOfLastPress` (`PressInv`): of the test calls on their way, at most one is
    waited for, and it has the number of the last press; the button is off
    meanwhile.
  * `ListHasMyWrites` (`RowInv`): the list was last asked for no earlier than the last
    change reported. That what a *settled* hook shows was read no earlier than it
    was asked is `NothingStaleIsShown`; the property is the two together.
  * `SavedIsWhole` (`HeardSound`): what a handler has seen succeed took effect, and
    what took effect was asked for. An answer keeps this (`ReturnedKeeps`) since it
    says "ok" only after the part it answers took effect. A handler reports when it
    has seen everything succeed, so nothing it asked for is missing.

`RosterProofs` proves all the properties of `Roster`, for any devices, any number
of handlers and any bound on the keys:

* `RosterTypeCorrect`.
* `OnlineIsSpared`: `steady` only shrinks and is within what is fresh
  (`SteadyInv`), so a deletion that passed `CheckOnline` has an empty one.
* `OnlineIsListedFirst`: sessions, tokens and the devices of handlers past the
  row are all known (`KnownInv`); a handler's token comes from an earlier login.
* `FailedWriteIsRetried` (`FlushInv`): it also takes that a login between its row
  and its mark owes nothing, or the mark would claim a write that failed
  meanwhile.
* `ApiModeAlwaysHasKey` and `RevokedForGood` (`KeyInv`): a handler that is about to
  write holds a key that fits its mode and is not revoked, and new keys are
  larger than all old ones.

`RoundRobinProofs` proves `RotationIsFair`: `RRSpec => []NoOvertaking` for groups of
any size. A pick puts the cursor just behind the device it picked, so that one is
last in the round, and moves everyone it passed over nearer to the front.
`TurnsInv` therefore adds to `NoOvertaking` that once y was picked ahead of x, x
comes before y in the round, seen from the cursor; a second pick of y would pass
x, which it may not while x is a candidate. That the cursor is in range and a
client has one place in one order is taken from `RegistryProofs`.

It also proves `WaitIsBounded`: `RRSpec => []BoundedWait`, with the exact bound the run
reaches. What makes it hard is that a round shifts under the cursor when others come
and go. `AtWorst` says how many picks a device may still have to wait, from its place
and the cursor alone: the number of others before it in the order can only shrink, and
for each of them the cursor may step over it once more. `WaitInv` says that what a
device has waited and what it may have to wait are within the bound together; a pick
of another device lowers the second by one or more (`WorstAfterPick`), a device that
leaves or joins does not raise it (`WorstAfterLeaving`, `StayingIsNoWorse`), and no place
is worse than the bound (`WorstOfAll`). The clients are assumed to be finitely many.

`HubProofs` proves about `HubSpec`, for any calls, writers and queue limit:

* `HubImplementsRegistry`: every step of the hub is a step of the registry or leaves
  it alone, so `HubKeepsRegistry` repeats the registry's invariants for the hub
  without proving them again.
* `HubTypeCorrect`; it uses `RosterInv`, since a caller picks among the registered.
* `NobodyIsStranded`, `LedgerAgrees` (`LedgerInv`): the two invariants do not say enough
  to be inductive. `CallSound` gives, for each place of a call's goroutine, what
  its waiter, channel, record and verdict may be; a record can be old only when
  its caller has returned. `LedgerOnlyForward` follows step by step.
* `JobsStayHome`, `NobodySleepsOnJobs` (`QueueInv`): the queue of an object holds jobs of
  the client that owns the object, and what a writer holds is its client's
  (`JobsAtHome`); a caller pushes through a pointer it picked earlier, so it is also
  needed that this pointer still belongs to the client it was picked for
  (`TargetInv`), which rests on a pointed-to object not being used again.
* `JobsInOnePlace` (`PlaceInv`): the property counts places; the invariant says it
  without counting (once in one queue, or in one hand), which is what the steps
  preserve. `PushPlaces` and `RestHolds` say what pushing, pruning and taking the
  first live job do to a queue.

`ClientWSProofs` proves about the composed `Spec`, for any connections and faults:

* `WsTypeCorrect`.
* `ConnectionsImplementHub`: needs `JobsInv`, which says that what a goroutine carries
  from one step to the next is still good: a writer's session pointer is its
  client's, the call in an answer is one whose job went out.
* `SystemKeepsHub`: by `Spec => HubSpec => RegSpec`, everything proved of the two lower
  modules holds of the whole.
* `NoConnectionStrays`: inductive with the types. A connection leaves the table by
  its own clean-up, when it is cancelled, or by the hand of the one that comes
  after it, which then remembers it until it has cancelled it. `TableInv` says that
  a connection that is remembered so has lost its place for good.

`SlotProofs` proves `SlotsAreCovered` under `Lossless` (none of the five faults named
above). A slot is given back when the ledger takes an answer, so the ledger has
to take every answer that arrives. `FlowInv` follows a job: it is with the server,
on one device or with one reader, one of these at a time, and while it is, its
call is waited for or on record as expired, the two cases that free a slot.
`SlotInv` counts: writers that hold a slot, jobs on the device and answers at the
reader are finite sets, and each step changes their number at least as much as
`InFlight`.

The same module proves the two properties that hold while nothing breaks.
`Unbroken` says so: no socket fails, no write fails, nobody logs out; limits,
lost answers, repeats, timeouts and reconnections over a connection that is
replaced are all allowed.

* `LoadStaysWithinLimit` (`LoadInv`), under `Unbroken` and `SameLimit` (a device names
  the same limit every time it connects). Without the second the session may shrink
  while its jobs run, which no server could prevent. The invariant counts a client's
  jobs in hands, on the way and on the device against `InFlight`, and says the limit of
  the session is the device's.
* `WaitingJobsAreAccounted` (`AccountedInv`), under `Lossless`, `Unbroken` and one of
  two: every device connects once (`OneEach`) or a queue can hold every call
  (`Roomy`). The disjunction is needed: a replaced connection puts its job back into a
  queue that new calls may have filled since, and then the job is dropped with its
  caller still waiting (TLC shows this with two connections and a queue of one). That
  a job is never refused otherwise is a counting argument (`RoomForAll` in
  `HubProofs`): pruning takes out what is expired, and the jobs that are left are of
  calls that wait, each in one place.

`PersistProofs` proves, for any calls, workers and sizes and any number of failures
and restarts:

* `PersistTypeCorrect`.
* `CountedAtMostOnce` (`CallsInv`): a task is in one place (channel, overflow
  goroutine or batch), a metric task on its way has not been counted, and a call
  that still runs has no row. The rebuild at start counts rows and finds no task
  on its way, because a restart has lost them all.

Assumptions on constants are those named in the modules: `None` is none of the
things it stands in for, limits are positive numbers, tokens name groups that
exist. `FaultsAssumption`, `Lossless` and `Unbroken` are about which faults are considered.

Those of the panel: it has the hooks `first` and `second`, there are finitely many
hooks and slots for requests (they are counted), what the pages ask is among the
questions, and the server has an answer for every moment the clock can reach.

Every safety property of the passing runs is proved. Only model-checked is liveness:
`Served`, `Isolated` and `EndsAtLogin` are out of the prover's reach (fairness,
`ENABLED`). There
is no induction over data in the proofs: where a definition is a recursive
function (`Live`, `WithRows`), a lemma walks it by a least counterexample.

## 5. Abstractions

* Payloads, statuses and error texts are left out; a result is the fact that it
  came, from whom.
* `UserID` and `Platform` of a session are read by nothing that decides.
* `TouchClientPresence` is one action although `Register` and `Touch` lock
  separately: the second only sets the time the first has just set. What it
  writes to the database is in Roster, where the hub is only whether a session
  is there and fresh: the two modules meet in what a session is.
* The check of `ctx.Err()` in `Invoke` and the `Push` are one action: a context
  that ends between them is one that ends just after the push.
* `pickSession` holds `Hub.mu` and reads the length of each queue under that
  queue's lock, one after the other; `PickInGroup` reads them at one instant. A
  queue that changed in between is one that changes before the push, which looks
  at the length again; no property depends on the difference.
* The heartbeat acknowledgements and the ping goroutine only matter by closing
  a dead connection; `BreakSocket` and `ReaderEnds` stand for that.
* Go's allocator and collector: a session object may be used again when no
  map, call or writer points to it.

* Roster has one group: handlers of different groups share nothing but the hub
  and the cache, which are keyed by device. A statement that MySQL refuses and
  one that fails are the same: the handler ends. Updates of a row that is
  unchanged count as found, as the default DSN (`clientFoundRows=true`,
  `config.go:123`) has it; `config.example.yaml:24` shows parameters without it,
  and with those saving an unchanged group would answer 404.
* Credentials are good or not, and all those given out stop being good together
  (`Expire`): the twelve hours of a login or a new secret.
* React: a handler runs to its next `await` in one step with the render and the
  effects it causes. `StrictMode`'s doubled effects exist only in development.
* Of a request whose page is gone only a possible 401 matters, so its question
  is forgotten (`Strays`, `Left`).

## 6. Not modelled

* **Configuration**: read once at start; its values are the constants here.
* **Payload codec**: decompression of one message by library calls; a message that
  cannot be decoded is dropped, which the models allow a device to cause by
  never answering.
* **Token signing and password hashing**: cryptographic libraries.
* **Device keys and user rows** on the server: a device key is compared once at
  login and rotated in one statement; users are written one statement at a time.
* **Deletion by age and the split of metrics into days**: `WHERE` clauses of
  single statements; and commits whose outcome the server does not learn.
* **Schema DDL, `dbinit`, the example caller, deployment files, the built bundle
  of the panel**: no state of the running program depends on their steps.
* **What the panel only displays**: charts, wording, the clipboard, the details of
  a record.
