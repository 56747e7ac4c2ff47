# A TLA+ model of the Herdr web bridge

The repository is a bridge between *Herdr* (a terminal multiplexer that runs coding
agents) and a phone. A single Bun process polls one Herdr per session over unix
sockets, keeps a snapshot of each session's panes and agents, serves it over REST
and a WebSocket, lets the phone type into panes, and pushes Web Push notifications
when an agent blocks or finishes. The phone side is a React PWA with a service
worker. This directory models the bridge's core in TLA+, checks it with TLC and
proves its main safety properties with TLAPS.

Paths below are relative to `src/`; `file:a-b` are lines.

- [1. Inventory](#1-inventory)
- [2. Modules and how they correspond to the code](#2-modules-and-how-they-correspond-to-the-code)
- [3. Runs](#3-runs)
- [4. Proofs](#4-proofs)
- [5. What the runs found](#5-what-the-runs-found)
- [6. Plan](#6-plan)
- [7. What is not modelled, and why](#7-what-is-not-modelled-and-why)

The code is single-threaded JavaScript. **The unit of atomicity is the code between
two awaits (or between entering and leaving a callback).** Every action below is such
a stretch, and interleaving happens only where the code yields.

## 1. Inventory

### Session engine - `bridge/state-engine.ts`
- *State*: `started`, `lifecycleGeneration`, the interval `timer` and `cadence`,
  `polling`, `queuedPoll`, `supportsSnapshot`, `prevStatus`, the published snapshot
  (`agents`, `bridge`), `hydrated`, listener lists.
- *Operations*: `start`, `stop`, `pokeNow`, `setCadence`, the interval tick, and
  `poll()` with two awaits (the RPCs, then the transcript probes) and a `finally`
  that runs one queued follow-up.
- *Hard*: ticks, pokes and a poll that resumes after `stop()`; a server without
  `session.snapshot` (three list calls instead); transitions inferred from the
  difference of two polls.
- *Correct when*: polls never overlap; a poke is never lost; the callbacks tell the
  same story as the snapshots; the published state never goes back; a stopped engine
  is silent; a running one converges and shows an outage.

### Event stream - `bridge/event-poker.ts` over `HerdrClient.subscribeEvents`
- *State*: the current stream handle, `agentPaneIds` and the subscriptions they gave,
  `healthy`, the debounce timer, the reconnect timer and its backoff index; in the
  client, the acknowledgement timer and the "down once" latch.
- *Operations*: `start`, `stop`, `setAgentPanes`, `connect`/`reconnect`, onUp,
  onEvent, onDown, and the three timers.
- *Interacts*: pokes the engine (`pokeNow`) and switches its cadence with the health
  of the stream; the engine's snapshots come back as `setAgentPanes`.
- *Hard*: three ways to reconnect, servers that accept and hang, streams that flap.
- *Correct when*: there is always exactly one way back to a stream, health is only
  claimed under supervision, no event is swallowed, and the interval remains a
  safety net under every behaviour of the stream.

### Notifications - `bridge/notifications.ts`, `snooze.ts`, `notify-prefs.ts`, `completion-state.ts`
- *State*: per session `pending` (debouncing timers), `outstanding` (delivered
  alerts), the reconciler's `initiallyReconciled` and `resumePending`; bridge-wide the
  snooze deadline and the enabled kinds (both on disk), and the ledger of completion
  timestamps (on disk).
- *Operations*: engine callbacks (`onTransition`, `onRemove`, `onUpdate`), the
  debounce timers, `onSeen`, `applyPrefs`, `clearAll`, `reconcile`, and the routes for
  snooze and preferences; clean and unclean restarts.
- *Hard*: the sink's `isMuted()` can end a snooze and re-enter the coordinator in the
  middle of a method; the poll's callbacks run before the new snapshot is published.
- *Correct when*: the one lock-screen slot always says what is outstanding; alerts
  match the herd; no blocked agent is forgotten; nothing buzzes twice; a snooze is
  silent.

### Notification sink - `makeNotifySink` (`bridge/notifications.ts:79-163`)
- *State*: `queued`, `delivering`, flush waiters. *Operations*: `render`, `clear`,
  `forceClear`, `flush`, and the completion of a delivery.
- *Correct when*: one delivery at a time, the last summary wins, an alert's buzz
  survives being overwritten by a silent summary, and `flush()` covers what was
  accepted before it.

### Session registry - `bridge/sessions.ts`, `bridge/index.ts`
- *State*: the map of live sessions, the lifecycle queue, `closed`.
- *Operations*: `refresh` (discover sockets, spawn and dispose), `disposeAll`, the
  fan-outs of snooze and preferences over `all()`, and the process's shutdown sequence.
- *Hard*: a session is disposed by awaits (clear, flush) while it is still listed; a
  session comes back under the same name.
- *Correct when*: lifecycle operations are serial, nothing spawns after `disposeAll`,
  a vanished session's slot is closed and stays closed.

### Live updates - `bridge/live-updates.ts`
- *State*: clients, per-session health. *Operations*: add, remove, health, snapshot
  changed, pane output, `closeAll`. Its clients are native ones; the web client of this
  repository opens no live socket.
- *Correct when*: a client's idea of a session's health is that of the session that
  now has the name.

### Requests - `bridge/server.ts`, `bridge/herdr-client.ts`, `bridge/wire.ts`
- *State*: `RequestDeduplicator` entries (in flight, settled with a time to live, at
  most 512), `PaneMutationQueue` chains, one socket per RPC with a write buffer and a
  timer.
- *Operations*: reply, keys, input, submit, focus, close (pane, tab and scope), create
  and rename tab, create workspace, worktrees, upload, read. Before each: the host,
  origin, identity and device checks.
- *Hard*: a lost answer followed by a retry; a request that failed after part of it
  was written; a multi-step reply that fails halfway; two requests for one pane.
- *Correct when*: a mutation is executed at most once per request id within the
  window, an outcome reported as "not executed" was not, one pane's mutations do
  not interleave, and every request is answered.

### Update monitor - `bridge/update.ts`, `bridge/index.ts:72-120`
- *State*: latest release, in-flight check, the announced-version marker (on disk),
  the update preference, the ordered delivery queue.
- *Operations*: scheduled and manual checks, preference changes, shutdown, restart.
- *Correct when*: a version is announced once, opting out closes the slot whatever
  check is under way, and a clean stop leaves no orphaned slot.

### Push - `bridge/push.ts`, `web/src/lib/push.ts`, `web/src/hooks/usePush.ts`
- *State*: in the bridge, subscriptions in memory and on disk and a serial mutation
  chain; in the browser, the subscription of the push manager, the opt-out in
  localStorage, and the two flows that change them.
- *Operations*: add, remove, broadcast with pruning of dead endpoints and of owners that
  lost permission, load; opt in, opt out, repair.
- *Hard*: the flows await the bridge beside each other; writes fail; a restart changes
  who is permitted.
- *Correct when*: what was confirmed is on disk, and off is off.

### Terminal watch - `bridge/terminal-observer.ts`, `bridge/server.ts`
- *State*: per socket a watched pane, its observer process, its size. *Operations*:
  watch, unwatch, resize, scroll, frames, the end of a process, the socket's close.
- *Correct when*: a client only receives frames of the pane it watches, no process is
  left behind, and the end of a stream is reported.

### Transcripts - `bridge/transcript*.ts`
- *State*: per inode a cached object (records, offset, checksums), mutated in place.
- *Operations*: incremental read under a retry, verification, eviction.
- *Hard*: the agent appends, rewrites or replaces the file at any time.
- *Correct when*: a cached object is the parse of one version of the file.

### Workspace inspection - `bridge/workspace-inspection.ts`
- *State*: `GitSubprocessLimiter`. *Operations*: listing, file preview, status, diff,
  summary, each a chain of git commands.
- *Correct when*: slots are neither lost nor given out twice, and every inspection is
  answered although it holds no slot while it waits for one.

### Web client - `web/src/hooks/useHerdr.ts`, `web/src/lib/*.ts`, `web/src/sw.ts`
- *State*: bridge, session, snapshot and its request, selection, created panes, pane
  output, the action in flight. *Hard*: answers of an earlier session or bridge that
  arrive late; refs and state that disagree until the next render.
- *Correct when*: what is shown belongs to the selected bridge and session, and the
  client never stops asking.

### The rest
Uploads, audit log, HTTP cache, configuration, PWA assets (pure I/O and conversions),
React components, and `scripts/collie-ctl.sh` (start, stop and ownership of the running
bridge).

### How the parts interact
```
        Herdr (unix socket)
     RPC |            | event stream
  HerdrClient     subscribeEvents
     |   |            |
     |  StateEngine <-- EventPoker        pokeNow, setCadence
     |   |   |   \________^              setAgentPanes (each snapshot)
     |   |   |
     |   |   onTransition/onRemove/onUpdate
     |   |   CompletionState ; NotificationCoordinator/Reconciler
     |   |                        |  render/clear/forceClear
     |   |   Snooze, NotifyPrefs  NotifySink --> Push.broadcast() --> phone
     |   |        ^ resume event, isMuted()        ^ subscriptions
     |   |                                         |
   HTTP routes: access checks, deduplicators, pane queues <--> web client
     |                  |
   TranscriptStore   git (limiter)      LiveUpdateHub, terminal watch --> live sockets
```

## 2. Modules and how they correspond to the code

| Module | Models | Notes |
|---|---|---|
| `StateEngine` | `state-engine.ts` | `poll()` cut at its awaits; every public method an action |
| `EventPoker` | `event-poker.ts`, `subscribeEvents`' ack timer and single onDown | discrete time, no `Next` of its own |
| `PollLoop` | the wiring of `makeSession()` (`index.ts:126-175`) | composes the poker with the timing half of the engine |
| `NotificationSlot` | - | abstract: what a lock-screen slot promises |
| `NotifySink` | `makeNotifySink` | implements `NotificationSlot` |
| `Notifications` | coordinator, reconciler, snooze, prefs, ledger, their routes, restarts | the sink is its last queued message |
| `UpdateMonitor` | `update.ts`, its wiring and the ordered queue (`index.ts:72-120`, `push.ts:159-179`) | `life` is the process: running, resetting the marker, flushing, stopped |
| `SessionRegistry` | `sessions.ts`, the fan-outs and shutdown in `index.ts`, the snooze and preference routes | a runtime is what teardown depends on |
| `Mutations` | the mutating routes of `server.ts`, `RequestDeduplicator`, `PaneMutationQueue`, `HerdrClient.request` | Herdr and the client are the environment |
| `Access` | `checkAccess`, `deviceAuth`, the guards and the CORS preflight of `server.ts` | operators only |
| `PushSubscriptions` | `push.ts`, its routes, `web/src/lib/push.ts`, `usePush.ts` | both ends; uses `Access` |
| `TerminalWatch` | the live socket's handlers, `terminal-observer.ts` | one socket |
| `TranscriptStore` | `TranscriptStore` of `transcript.ts` | the file is the environment |
| `GitInspection` | `workspace-inspection.ts` | one record for the whole state |
| `WebClient` | `useHerdr.ts` with the requests of `receiver.ts` | refs, state and effects apart |
| `StateEngineProofs`, `NotificationsProofs`, `UpdateMonitorProofs`, `MutationsProofs` | - | proofs about the module of the same name |
| `InspectionsProofs` | - | proofs about `PollLoop` with `EventPoker`, and `GitInspection` |
| `ClientProofs` | - | proofs about `NotifySink`, and `WebClient` |
| `SessionsProofs` | - | proofs about `SessionRegistry`, and `TerminalWatch` |
| `StoresProofs` | - | proofs about `TranscriptStore`, and `PushSubscriptions` |
| `MC*` | - | constants for TLC, and two modules in one run where they share nothing |

Some definitions stand next to a variant of themselves that differs by one guard,
reset or order (`Poll` and `PollStacked`, `Leave` and `LeaveStuck`, ...). The
variants are no part of any specification: each is a plausible bug of the code it
stands beside, and substituting it for the original makes TLC violate the property
`PROJECT.json` pairs it with. They show that the properties can fail.

### StateEngine
| Model | Code |
|---|---|
| `polls[i].phase` | where one `poll()` call stands: at `await fetchWire` (`asked`; `listing` on the list calls; `answered` once Herdr has read its herd), at the probes (`probing`) |
| `polls[i].gen`, `generation` | the captured and the current `lifecycleGeneration` |
| `polling`, `queuedPoll`, `supportsSnapshot`, `started`, `timer`, `cadence` | the fields of those names |
| `prevStatus`, `agents`, `bridge`, `hydrated` | likewise; a pane's data is its status |
| `herd`, `epoch`, `herdrUp`, `legacy` | Herdr: which panes run which agent, whether it answers, whether it knows `session.snapshot` |
| `agentsEpoch`, `told`, `owed` | observers: the age of the published data, what the callbacks told, a poke not yet read |

`polls` is a set of possible concurrent calls, more than the flag allows: single
flight is something the model could get wrong. `told` is what a listener who believes
every callback would think; `ListenersMatchSnapshot` compares that with the snapshot.
The conversion of wire panes to agents, and the names of panes, are data the
properties do not distinguish. `poll()` calls its listeners bare, inside its own `try`
(`state-engine.ts:264-293`): one that throws would end the commit halfway and mark the
bridge disconnected. That is not modelled, because none of those `index.ts:140-163`
registers throws (section 7).

### EventPoker and PollLoop
Time is discrete: a timer is the time left or `Off`, `Elapse` takes one unit from all
of them and waits for the timers that are due. Streams that were closed cannot act
(the code compares handles before it reacts), so one `stream` suffices. In `PollLoop`
the callbacks are part of the step that makes them: `StreamUp` is the poker's onUp with
`setCadence(relaxed)`, `PollSettles` is the engine's commit with `setAgentPanes` and the
queued follow-up. The engine is reduced to what times it; `StateEngine` has the rest.
`quiet` measures the time since a poll was last in flight, `losses` counts how often a
healthy stream was lost in it. `NetPerLoss` says what the interval is worth as a safety net
when `setCadence()` arms it anew at every change: with the stream up, a fast and a relaxed
interval, and as much again for every loss. It holds for any delays, so also for the
defaults, for which `SafetyNet`, the bound that does not count losses, is refuted
(`flapping_stream`).

### NotifySink and NotificationSlot
Messages are numbered; what they say is immaterial. `inflight` holds the `push.send()`
calls that have not settled, so one-at-a-time is not built in. `shown` is the last
message that some push service took; a delivery that fails leaves it alone.
`push.send()` may also throw synchronously, after which the flag must come down.

### Notifications
The code's methods call one another and re-enter through the sink's `isMuted()`, so each is
an operator from a record of the coordinator's state to the next one (`Current`, `Becomes`):
`Emitted` first lets the snooze notice its deadline, which can run `reconcile()` from the
engine's *published* snapshot, and then queues the summary computed before. A commit of the
engine is cut into one step per callback (`turn`, `left`): nothing but the passing of time
can happen between them. `mute = "lapsed"` is a deadline that has passed and that nobody has
noticed. It passes at any moment (`DeadlinePasses`, inside a commit too), so that any reader
may be the first to notice: the timer, a request, an `emit()`, a callback of a poll. What
goes wrong then is observed, not excluded: `overtaken` marks the message an `emit()` queued
over what the rebuild in its own `isMuted()` had just rendered, `astray` the panes that a
rebuild inside a commit took from the previous snapshot although a callback had already told
of a newer status. The three properties of the slot and the herd hold up to these two marks,
which go with the next message, the pane's next callback or the next rebuild (section 5).
`rings` counts buzzes since the pane's last transition. Completion timestamps are reduced to
their presence, debounce delays to "may fire at any later time".

### UpdateMonitor
Releases are numbers: only their order matters. `check` is the one shared
check, at its fetch, its marker write or the write that puts the marker back, with the
marker it found (`prev`) and whether a preference change has advanced the policy
generation since (`overtaken`). `queue` is the promise chain of `PushDeliveryQueue`,
`Final` the newest message of the slot (queued or shown), `said` counts announcements
per version since the marker was last reset. Writes fail (`DiskFails`), a delivery may fail
and is dropped (`dropped`: the slot shows what it showed before), the process is killed
(`Killed`) and comes back with any version. The check timers fire during a shutdown too, as
they do in the code until `index.ts:269`; `late` records that one did. A late check's write
of the marker and the shutdown's own, which the code may have in flight together, are taken
one after the other.

### SessionRegistry
| Model | Code |
|---|---|
| `registry` | `runtimes`: per name whether the last snapshot is live (`up`) and has work that needs the user (`needy`), and the alert made of it |
| `engines` | running engines per name; `dispose()` stops one |
| `waiting`, `op` | `lifecycleChain` and the operation under way; `op.awaited` is the `rt` of `await this.dispose(rt)`, which is still in `runtimes` |
| `closed`, `stage` | the field, and how far `shutdown()` is |
| `ghosts` | debounce timers of runtimes that were dropped while one was armed |
| `muted`, `slot` | snooze; the last message queued under the session's tag |
| `reached` | observer: sessions whose disposal a fan-out reached while it waited |

Which alert a coordinator makes is the subject of `Notifications`; here any is possible
while a live snapshot needs the user and none otherwise. An engine that is stopped while
it polls publishes nothing: `QuietAfterStop` of `StateEngine`, assumed here. That an
awaited `flush()` covers the clear before it is `FlushCovers` of `NotifySink`; that it ends,
because every request of a delivery has a timeout, is part of the fairness assumed here.
`Polled` may emit and reconcile more often than the code does, which is on the safe side.

### Mutations and Access
A *wish* is one thing a user wants done, a *post* one HTTP request for it, a *job* the
operation that the post started unless a deduplicator handed it an earlier one, and a
*call* `<<n, i, t>>` the RPC of job n's step i at target t.

| Model | Code |
|---|---|
| `ReplyPane` ... `CloseScope`, `PlanOf` | the route handlers: body parser, key and signature, whether the pane queue is used, the steps |
| `entry`, `MakeRoom`, `RunKeyed` | `RequestDeduplicator`: a Map in insertion order, pruning by age, eviction of completed entries, 409 and 503 |
| `tail`, `Enlist`, `Turn`, `Finish` | `PaneMutationQueue.run` |
| `phase`, `Write`, `ReplyArrives`, `CallFails` | one `request()`: connecting, bytes taken, settled; `requestWritten` |
| `SendReplySteps`, `MutationFailureResponse` | `textDelivered` and `deliveryAmbiguous` of the answer |
| `wire`, `done`, `refused` | Herdr (external) |

A body is the set of its fields with whether each is of the right type. Time to live is a step
that may come at any time. `lapsed` and `split` are observers. Closing a scope is several
parallel calls; the first failure answers the client, and a plain failure can then hide a pane
that was closed. `FailureIsHonest` leaves that route out: the route's answer makes no claim
about single panes. A create reads the new pane out of the result after `request()` has
resolved; when the result has another shape it throws a plain `TypeError`, and the phase is
`misread` (section 5). The other mutating methods do not look into their result. A `write()` of
the socket that throws after an earlier one of the same call took bytes
(`herdr-client.ts:190-204`, `248-251`: `requestWritten` stays false) is not modelled: a socket
reports its failures through `error` and `close`, which are.

### PushSubscriptions
The chain of mutations is `chain`, each one at `queued`, `writing` or `renamed`; the
live map `subs` follows the file. The browser's two flows, the set-up of a page and
the settings dialog, are program counters with their locals; `reply` is the promise they
await. `ManagerFails` is a rejected `subscribe()` or `unsubscribe()`, in the roll-back too
(an `unsubscribe()` that answers false leads to the same end, for `subscribe()` then finds the
other key's subscription). A permission of notifications is granted throughout. One broadcast
at a time is a bound: in the bridge those of several sessions, the update queue and the push
test may overlap. So is one flow of the settings dialog, whose refresh on opening may run
beside its switch (`usePush.ts:24-30`). The request's identity is
what `Access` computes from the headers of `Me` and the configuration, which may change
at a restart.

### TerminalWatch
An observer is a process and the closure that reads its pipe: the process may end before its
last lines are read, its exit may be noticed before them, and what a closed closure does is
part of the model. A process that failed to start (`spawned` false) has nothing to write to,
so that neither a resize nor a scroll touches it; a write to one that has ended may report
the end of the stream (`Scroll`, and in `Watch` the resize that failed). Two consequences
are visible in it and are no property: a frame (and `onUp`) may follow `onDown`, and a
client that watches the same pane at the same size again after its process ended is not
given a new one (`SameWatch`).

### TranscriptStore
A line is two bytes, so that an odd size is a torn one. Each write makes a new version,
which stands for mtime and ctime (every write changes them: an assumption); hashes are
what they are of, a sample is read in one step, the checksum is a second reading of the
bytes. `Contents` are the texts the file may hold; they extend, alter and exceed the cap
of one another. Objects are named by numbers, because the code mutates them in place
while others hold them. A key has one read under way: the code's pending map distinguishes
agents, its cache does not (`transcript.ts:439`, `469`), but two such reads work on objects
of their own. Which entries the budget evicts is left open.

### GitInspection
A request is a record with the step it is at; the `After` operators give the steps that
may follow an exit code. What git prints decides between them and is left open. Each
command is two children, the first of which lists the filters to turn off. Nobody leaves
the limiter's queue early: a call whose time has passed is handed a slot and throws. A
request that gives a slot back asks for its next one in the same step, where the code may
read files in between.

### WebClient
`st` is the last rendered state and `nx` the one with the queued updates; refs (`sess`,
`selRef`, `ref`) change at once. A click is rendered together with what was queued, and
effects run before anything else does, as React 19 does it. `SelectBridge` is the one
render whose effects see the old pane with the new receiver. Values carry the target they
came from, which the program does not record: that is what makes a stale value visible.
`SetSession` is exported by the hook and covers what a session picker would do. One
assumption, stated at `PaneArrives`: the render that leaves a session precedes the next
answer to a pane read.

## 3. Runs

| Run | Module, cfg | Question | Bounds |
|---|---|---|---|
| `engine` | `MCStateEngine`, `StateEngine.cfg` | overlap, lost pokes, callbacks against snapshots, monotony, silence after stop, convergence | 2 panes, 2 concurrent calls, 2 herd changes, 1 outage, 1 stop |
| `inspections` | `MCInspections`, `Inspections.cfg` | poll loop: stream bookkeeping, the safety net per loss, every event read; git: slots, every inspection answered | delays of 1-4 units in the order of the defaults, two pane sets, two backoff steps, 2 losses counted; 2 requests, 1 slot, 1 place in the queue |
| `notifications` | `MCNotifications`, `Notifications.cfg` | accuracy, forgetting, double buzz, snooze, a block reaching the phone | 2 panes, a snooze noticed at any time |
| `update_monitor` | `MCUpdateMonitor`, `UpdateMonitor.cfg` | one announcement per version, closed slots, a release announced | 3 releases, queue of 2, failed writes and deliveries, kills, late checks |
| `client` | `MCClient`, `Client.cfg` | sink: kept buzzes, sound flushes, refinement of `NotificationSlot`; web: the view is of what is selected, created panes stay, it keeps asking | 4 messages, 2 flushes; 2 bridges, 2 sessions, 1 pane id, 1 switch |
| `sessions` | `MCSessions`, `Sessions.cfg` | registry: one engine per session, closed slots, following the sockets; watch: no process left, frames of the watched pane, ends reported | 2 sessions and the primary, 2 queued operations; 2 panes, 2 sizes, 2 processes |
| `mutations` | `MCMutations`, `Mutations.cfg` | at most once, honest failures, whole replies, every post answered | 3 posts of 8 wishes, one deduplicator entry, 1 restart |
| `stores` | `MCStores`, `Stores.cfg` | push: confirmed is durable, off is silent; transcripts: the cache is one version | 2 endpoints, 2 flows, 2 faults, 1 broadcast, 2 restarts, 4 configurations; 2 inodes, 2 requests, 2 writes |
| `flapping_stream` | `MCPollLoop`, `PollLoopFlap.cfg` | section 5 | as `inspections` |
| `session_ghost` | `SessionRegistry`, `SessionGhost.cfg` | section 5 | 1 session |
| `transcript_mixed`, `opt_out_undone` | `MCStores`, `TranscriptMixed.cfg`, `PushOptOut.cfg` | section 5 | as `stores` |

**Two modules in one run.** `MCInspections`, `MCClient`, `MCSessions` and `MCStores` each
hold two modules that share no variable. `part` says which of the two a behaviour is of;
the other stays in one initial state, so that the states add up and do not multiply. The
fairness of a part with something due in its initial state is asked only of behaviours of
that part: otherwise the other's behaviours would all be unfair, and liveness would hold of
nothing.

**Why the bounds suffice.** *Engine*: panes only interact through the phase of the poll and the
`hydrated` flag; two show a transition beside a removal in one poll. Two herd changes separate
what a poll read from what it published and from what is true; a stop and a restart make a
retired and a current generation. *Poll loop*: only the order of the delays matters, and the
constants realise that of the defaults: debounce < first reconnect delay < fast cadence <
relaxed cadence, debounce < ack timeout, and a growing backoff. Time is not bounded;
`MaxLosses` bounds the losses that are counted, and the observer `quiet` is capped just above
the largest bound it is compared with. *Notifications*: two panes show one pane's emit
clobbering another's; the number of steps is not bounded. *Sink*: a message in flight, one
queued, one that overwrites it and one after a flush are four. *Update monitor*: three releases
give an older, a current and a newer one; two queued messages are an offer and what overtakes
it; kills and upgrades are not bounded. *Registry*: two sessions let one come or go while the
other's disposal waits. `Polling` names the sessions whose polls are followed: they do not read
each other's alerts, and the theorems hold for any choice. *Watch*: two processes are the one
before and the one now; a second line in a pipe is read like the first. *Mutations*: `Script`
lists the sequences of posts: a retry, a conflicting one, keys before and behind a reply, a
scope, a bad body, and creations that contend for the one entry, with the retry before and
after the eviction; three posts are a first attempt, its retry and a third party. *Push*: an
old and a new endpoint, the tablet's entry and one of the legacy format, and a limit of two
subscriptions, so that a registration can be refused; two flows are an opt-in and, beside it or
after it, an opt-out with its refresh or a set-up with another key; two faults are two of a
failed write, a lost answer and a failing push manager; two restarts withdraw an owner's
permission and give it back (the first process has the keys and admits the phone, the other two
configurations come with a restart). *Transcripts*: a reused and a replaced inode; contents
that grow from a torn line, differ from it in the middle, and exceed the cap; two writes are
one before and one during a read. *Inspections*: one slot and one place in the queue make two
requests wait, be refused and hand over; `Op` leaves out the listing and the status, which are
the beginnings of a file preview and of a diff. *Web client*: one pane id, used by both
bridges, is the hard case; a single switch leaves something of the first target behind, and a
second one adds no kind of late answer.

**Fairness.** `StateEngine`: an armed interval ticks, a request is answered or times
out (`request()` has a 5 s timer), a settled await resumes. `PollLoop`: time passes and
due timers run; Herdr may do anything, for ever. `Notifications`: polls continue, a
turn of the event loop ends (`[]<>Idle`), and a debounce timer fires if it is infinitely often
able to (strong fairness: the module cuts a turn in pieces during which no timer can
fire, which in the code is one uninterrupted stretch). `UpdateMonitor`: the check interval
ticks, a fetch and a file write settle, a queued delivery is made. `SessionRegistry`: the
interval ticks, the chain starts the next operation, a flush resolves. `Mutations`: promise
chains run and the 5 s timer of every call fires; nothing is assumed of Herdr.
`TerminalWatch`: a pipe is read, an exit is noticed. `GitInspection`: a request's own steps
are taken: every child is killed at its timeout at the latest. `WebClient`: renders
and intervals come, and a request is answered or timed out. No fairness is assumed of
Herdr, the network, users, restarts or kills. `Converges` speaks of runs that settle on a
cadence. That is a real restriction, not a convenience: `flapping_stream` shows what
happens otherwise.

## 4. Proofs

All theorems hold for every value of the constants that satisfies the named
assumptions of the module.

**`StateEngineProofs`** (from `EngineAssumption`). `TypeOK`, `SingleFlight`,
`NoPokeLost` and `ListenersMatchSnapshot` are not inductive together. The strengthening
`IInv` adds three facts: a call from a retired generation implies that nothing newer
than that generation runs (`RetiredByStop`); the published data is no newer than any
data in flight, which is no newer than the herd (`EpochsOrdered`); and the baseline
`prevStatus` is the published snapshot (`BaselineIsSnapshot`), which is what makes
"announce the differences" complete. `EngineMovesForward` and `EngineQuietAfterStop` are
action properties proved from `IInv`.

**`InspectionsProofs`, the poll loop** (from `PokerAssumption` and `LoopAssumption`, which say
that delays are natural numbers and cadences positive ones). `Wiring` conjoins the bookkeeping
of streams, timers and cadence and is inductive by itself; that the interval follows the
stream's health (`CadenceIsRight`) is proved only, as no run needs to repeat it.
`LoopNetPerLoss` rests on `NetBound`, which bounds `quiet` plus the time left on the interval:
a stream that comes up replaces a fast interval by a relaxed one, and the loss of a healthy
one, which is counted, the other way round; both are paid for by the pair that a loss adds.
Nothing is assumed of the order of the delays. What the theorem does not give is a bound free
of `losses`: `flapping_stream` shows there is none for the defaults.

**`InspectionsProofs`, the limiter** (from `InspectionsAssumption`). `SlotsAreHeld` counts
slots in the limiter and holders among the calls. `Good` makes it inductive: the queue holds
waiting calls, each once and none that runs; the count is that of a finite set; and a call
waits only while every slot is taken. `CallsFollowSteps` is needed beside it: a request at a
step has only the commands of that step under way, so that starting the next one cannot
overwrite a call that still holds a slot.

**`NotificationsProofs`** (from `NotifyAssumption`). The methods of the coordinator are
operators on a record, so each has a lemma that says what it does to that record, and the
nesting (emit, mute check, resume, reconcile, emit) is followed once, in the lemmas.
`IInv` speaks of what a pane is *known* to be: what the callbacks of the commit in progress
have told of it, before its snapshot is published. It adds that a session without a first
snapshot holds nothing, that a live one has been reconciled, that the ledger is ahead of the
snapshot a reconciliation inside a commit reads (`LedgerAhead`), and that a block that has
buzzed is not debouncing again. This gives `NotifyBuzzesOnce` and the action property
`NotifyStaysSilent`. The other three need `Prompt` beside it: every alert is what its pane is
known to be (`Matched`), and when heard and rebuilt no wanted block is without one (`Held`) and
the slot shows all alerts (`Ready`), up to the panes `astray` and the message `overtaken`. The
lemmas follow the two marks through the nesting: only a rebuild inside a commit sets the first,
only an `emit()` that ends the snooze the second. No theorem assumes anything of the snooze
timer.

**`ClientProofs`, the sink** (from `SinkAssumption`, `NoneIsNoMessage`). `IInv` adds that
every message's number is between the last shown and the last accepted (`Numbered`) and
that a clear carries no buzz. `SinkImplementsSlot` is the refinement: initial states map
to initial states and each step is a `Want`, a `Show` or a stutter of
`NotificationSlot`.

**`ClientProofs`, the web client** (from `ClientAssumption`: no pane is the absence of one).
What is rendered *and* what is queued is of the present bridge and of its own session; the refs
agree with the queued state; a request whose answer may still be applied is for the present
bridge, and so is the pane read under way (`ClientInv`). `ClientShowsHere` follows;
`ClientKeepsCreated` is an action property that needs the agreement of the refs with the queued
selection.

**`UpdateMonitorProofs`** (from `UpdateAssumption`). `AnnouncedOnce` rests on
`MarkerCovers`: whatever was said is covered by the marker, and by the marker a check in
flight would put back, and what such a check is about to say is newer. `OptOutCloses`
follows from the policy generation (`overtaken`). `UpdateCleanStopCloses` rests on
`ShutdownDrains`: the retraction is the last message `flush()` waits for, and what is queued
behind it is a clear or the offer of a check that began during the shutdown (`Behind`). When
the last awaited delivery is made, the slot therefore shows such a message, or the
retraction's delivery failed (`StopLeaves`); and `MarkerCovers` says that the marker covers
every offer that was made.

**`SessionsProofs`, the registry** (from `RegistryAssumption`, `NoneIsNoRuntime`). The
invariant adds `LifecycleOrdered` (what an operation disposes is registered, and a disposal of
all comes after the shutdown) and `DisposedQuietly`: a runtime whose disposal waits has
nothing to say, and its slot is closed, unless a fan-out reached it, and only such a one
leaves an armed timer behind. Both are needed: without the first a poll could be that of
a disposed runtime, without the second its slot could be open when it is forgotten.

**`SessionsProofs`, the watch** (no assumption). `OthersAreSilent` says of every process but
the watched one that it is dead and that its closure is closed or has nothing left to read or
to notice; `WatchIsOpen`, that the watched closure is not closed, is what makes closing it
kill its process. `WatchSpeaks` is an action property proved from both.

**`MutationsProofs`** (from `MutationAssumption`). `OnceUntilForgotten` follows from what the
deduplicator guarantees, that two jobs of one request exist only when the first was forgotten
(`OneJob`, which needs that an entry tells how far its job is: `Entered`). `ReplyIsWhole`
follows from the pane's queue: jobs of a pane settle in the order of their numbers, and one
that waits has a chain of predecessors to the first that is not over (`Queued`, stated as a
theorem of its own, `MutationsQueueInOrder`), together with `Phased`: a job that goes on has
had every call of its earlier steps carried out. `FailureIsHonest` (with `Misread`, the one
exception, in its statement) needs what a client waits for (`Waits`: its own job, or an earlier
one of the same request and the same content) and that a job that failed plainly has reached
nothing and will reach nothing (`JobsHonest`).

**`StoresProofs`, transcripts** (from `TranscriptsAssumption`: finitely many inodes and
requests, and a file as long as its size says). `StoreInv` follows the object a read works
on: it is in nobody's entry (`ReadTyped`, `OneEntryEach`), and as long as nothing was written
since the read began, object and buffer together are a prefix of the version it reads
(`ReadIsTrue`), which each of the read's awaits must preserve. When it is stored the check of
the version has just been made, so `CacheIsWhole` holds of it, and `CacheIsTrue` is what that
says of the lines.

**`StoresProofs`, push subscriptions** (from `PushAssumption`: an earlier process wrote the
file within the limit, an endpoint the browser makes is new, and no device is named like the
kinds of owner that are not devices). `ConfirmedIsDurable` and `OffIsSilent` are proved from
one invariant, `PushInv`. For the first: only the head of the chain writes, what it writes is
what its mutation makes of the live map (`ChainSound`), file and live map differ only between
rename and adoption (`Durable`), and owners in the live map are permitted (`StoreSound`). For
the second: a flow that waits has exactly one request on its way (`FlowsWait`), so that a
switch-off that was alone finds nothing else that could add (`NothingAdds`), and nothing adds
until the user opts in again (`AloneSound`, `OffSound`); a broadcast that begins then does not
have the browser's endpoint among those it sends to (`CastSound`). Both need that an endpoint
that was not made is nowhere (`UnmadeIsNowhere`), so that a new one cannot be taken for an old.

**Only model-checked.** The liveness properties of the runs: `Converges`, `EventIsRead`,
`InspectionAnswered`, `BlockReachesPhone`, `ReleaseAnnounced`, `KeepsUp`,
`RegistryFollowsSockets`, `EndIsReported`, `EveryPostAnswered` (fairness and `ENABLED` are
outside the prover's reach). Every invariant and action property of a passing run is also a
theorem. The type invariants (`TypeOK` of each module), `SubscriptionFollowsHerd`,
`EventNeverSwallowed` and `NoSpawnAfterClose` are proved and repeated by no run.

## 5. What the runs found

Each of the first four is a run that TLC ends with a counterexample.

1. **A flapping stream starves polling** (`flapping_stream`). `setCadence()` restarts the
   interval on every change (`state-engine.ts:124-129`), and with the defaults a stream
   that is acknowledged and dropped changes cadence every second while the fast interval
   needs 1.5 s. No poll begins for as long as this lasts, where `config.ts:102-103` says
   a missed poke "costs at most one of these, never correctness".
2. **A session can come back as a ghost on the lock screen** (`session_ghost`). While
   `dispose()` waits for its clear to be delivered, the runtime is still one of
   `registry.all()`. A snooze that ends (`index.ts:201-203`) or a kind that is switched
   back on (`server.ts:848-850`) in that wait reconciles it from its last snapshot and
   queues an alert behind the clear; the runtime is then forgotten and nothing retracts
   the alert, which is what `clearAll()` is documented to prevent
   (`notifications.ts:306-307`). `ClosedUnlessReached` is proved: nothing else can.
3. **A transcript of two versions can be published** (`transcript_mixed`). `transcript()`
   awaits the status and the children between loading the cached object and reading its
   records (`transcript.ts:574-611`); another read appends to the same object meanwhile
   and only then finds that the file changed. That read drops the object, the waiting
   request answers from it. `CacheIsTrue` holds: the mixed object is never cached.
4. **An opt-out can be undone** (`opt_out_undone`). `enablePush()` clears the opt-out after
   its awaits (`web/src/lib/push.ts:92`), so that the set-up of a page that was loading when
   the user switched push off forgets it. `OffIsSilent` holds for a switch-off with nothing
   else of the browser in flight.

The following have no run of their own. The first three are exceptions that the checked
properties state, and without which TLC refutes them. The others are defined beside
the checked properties and refuted, or are excepted as said.

- *A snooze noticed late* (a long turn, a host that was suspended; `Notifications`): `emit()`
  computes its summary, `isMuted()` then notices the deadline, the resume listeners render, and
  the older summary is queued on top (`notifications.ts:335`; `overtaken` in
  `SlotShowsOutstanding`). Inside a poll's callbacks the same resume reconciles from the
  previous snapshot and cancels the alert of the pane that has just blocked
  (`snooze.ts:68`; `astray` in `AlertsMatchHerd` and `BlockedNotForgotten`). The first is mended
  by the next message, the second only by the pane's next transition, the end of another snooze, a
  preference that comes back on or a restart: until then the block is not on the phone.
- *A check that starts during the shutdown announces behind the closing message*: the timers
  are cleared only at `index.ts:269-270` (`late` in `CleanStopCloses`). The marker covers the
  offer, so that the next process closes it once it has caught up and never makes it again.
- *A create may fail plainly although it was carried out*: `createTab()`, `createWorkspace()`
  and `createWorktree()` read the result after `request()` (`herdr-client.ts:480-543`), and a
  `TypeError` there is no `HerdrRequestError`, so that the answer is a definite failure
  (`Misread` in `FailureIsHonest`), against the intent of the comment at
  `herdr-client.ts:272-273` that a damaged reply "remains ambiguous because success may have
  preceded the damage".
- *A completion buzzes again after a snooze* (`OneBuzzPerCompletion`): the ledger keeps its
  timestamp after delivery (`notifications.ts:291`), while `index.ts:199-200` says
  reconciliation "deliberately does not resurrect them".
- *A stop that is killed leaves an update offer* (`CaughtUpCloses` of `UpdateMonitor` with
  `DiskFails = FALSE`, `Killed = TRUE`): `prepareShutdown()` resets the marker before the
  retraction is delivered (`update.ts:318`; `collie-ctl.sh:119-123` waits 5 s, one push may
  take 10 s).
- *A completed pane is reported seen at the wrong bridge* (`NeverStray` of `WebClient`): the
  effect at `useHerdr.ts:243` runs once with the new receiver and the old pane, against
  the concern of the comment at 271.
- *`load()` can leave revoked entries on disk*: a failed rewrite is ignored
  (`push.ts:421`), and a process with a wider allowlist adopts them again: a removed entry
  is back, and a browser that was switched off meanwhile is sent to. It takes two restarts.
  `unswept` excepts such entries in `ConfirmedIsDurable` and in `OffIsSilent`.

## 6. Plan

| # | Modules | State | Left |
|---|---|---|---|
| 1 | `StateEngine`, `EventPoker`, `PollLoop` | checked, proved | - |
| 2 | `NotificationSlot`, `NotifySink`, `Notifications` | checked, proved | - |
| 3 | `UpdateMonitor` | checked, proved | - |
| 4 | `SessionRegistry` | checked, proved | - |
| 5 | `Mutations`, `Access` | checked, proved | - |
| 6 | `PushSubscriptions` | checked, proved | - |
| 7 | `TranscriptStore` | checked, proved | child transcripts |
| 8 | `TerminalWatch` | checked, proved | - |
| 9 | `GitInspection` | checked, proved | - |
| 10 | `WebClient` | checked, proved | completions and drafts |

The order follows what the bridge is for: first that it sees the herd, then that it
tells the phone the truth, then that what the phone asks is done once.

## 7. What is not modelled, and why

- Wording, formatting, HTTP headers beyond those that decide access, the parsing of agents'
  own formats and of git's output: no property distinguishes them.
- `Snooze`, `NotifyPrefs` and `CompletionState` write files; here a change and its write
  are one step, so a crash between the two is not modelled.
- Socket paths and discovery's directory listing: a session is its name.
- Exceptions thrown by the engine's listeners, which `poll()` does not catch one by one. Those
  that are registered (`index.ts:140-163`) do not throw: `LiveUpdateHub.publish` catches each
  `send()` (`live-updates.ts:73-78`), the sink catches `push.send()` (`notifications.ts:106-123`),
  the ledger its writes (`completion-state.ts:55-70`), the snooze its resume listeners
  (`snooze.ts:117-127`).
- `LiveUpdateHub`: its readers are native clients outside this repository.
- Transcripts: line and record caps, invalid lines, child transcripts, status derivation.
- Web client: completions, drafts, demo mode, the texts of errors. The retry of a request
  keeps its id only until the bridge or session changes (`replyRequests` is cleared);
  `Mutations` takes a retry with another id for another wish.
- Uploads, audit log, HTTP cache, configuration parsing, static assets, rendering (React),
  the service worker, `collie-ctl.sh`: pure I/O, conversions, or no state that anything
  modelled depends on.
