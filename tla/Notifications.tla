---------------------------- MODULE Notifications ----------------------------
(***************************************************************************)
(* One session's lock-screen notification: NotificationCoordinator and     *)
(* NotificationReconciler (bridge/notifications.ts) with the bridge-wide   *)
(* Snooze (bridge/snooze.ts), the notification preferences and the durable *)
(* completion ledger, driven by the StateEngine's callbacks as             *)
(* bridge/index.ts wires them.                                             *)
(*                                                                         *)
(* A poll's callbacks run in one turn of the event loop: they are steps of *)
(* their own (`turn' = "commit"), because the sink they reach can call     *)
(* back into the coordinator, but nothing else runs between them.  `slot'  *)
(* is the last message handed to the sink's queue; module NotifySink shows *)
(* that the device is brought to it.                                       *)
(***************************************************************************)
EXTENDS Naturals, FiniteSets

CONSTANTS
  Panes,        \* pane ids
  Quiet,        \* statuses that never notify ("working")
  None          \* no agent in the pane; no alert for the pane

Kinds == {"blocked", "done"}

ASSUME NotifyAssumption == Kinds \cap Quiet = {} /\ None \notin Kinds \cup Quiet

VARIABLES
  agents, bridge, hydrated,  \* the engine's published snapshot; also its diff baseline
  turn, fresh, left,         \* a commit in progress: its view, callbacks still to make
  pending,                   \* pane -> status of its debouncing alert, or None
  outstanding,               \* pane -> status of its delivered alert, or None
  completions,               \* panes with a completion timestamp (survives restarts)
  enabled,                   \* notification kinds switched on (survives restarts)
  mute,                      \* "off" | "on" | "lapsed": deadline passed, not yet noticed
  initiallyReconciled, resumePending,
  slot,                      \* the alerts of the last message queued; all None: a clear
  rings,                     \* observer: buzzes since the pane's last transition or restart, capped at 2
  overtaken,                 \* observer: the last message queued is a summary its emit() had taken
                             \* before its own look at the snooze rebuilt the alerts
  astray                     \* observer: panes whose alerts the last rebuild took from a snapshot
                             \* older than what onTransition() or onRemove() had told of them

engine == <<agents, bridge, hydrated>>
commit == <<turn, fresh, left>>
coord  == <<pending, outstanding, mute, initiallyReconciled, resumePending, slot>>
seen   == <<overtaken, astray>>
vars   == <<engine, commit, coord, completions, enabled, rings, seen>>

View   == [Panes -> Kinds \cup Quiet \cup {None}]
Alerts == [Panes -> Kinds \cup {None}]
NoAlerts == [p \in Panes |-> None]

TypeOK ==
  /\ agents \in View /\ bridge \in {"connected", "disconnected"} /\ hydrated \in BOOLEAN
  /\ turn \in {"idle", "commit"} /\ fresh \in View /\ left \in SUBSET Panes
  /\ pending \in Alerts /\ outstanding \in Alerts
  /\ completions \in SUBSET Panes /\ enabled \in SUBSET Kinds
  /\ mute \in {"off", "on", "lapsed"}
  /\ initiallyReconciled \in BOOLEAN /\ resumePending \in BOOLEAN
  /\ slot \in Alerts /\ rings \in [Panes -> 0..2]
  /\ overtaken \in BOOLEAN /\ astray \in SUBSET Panes

Init ==
  /\ agents = NoAlerts /\ bridge = "disconnected" /\ hydrated = FALSE
  /\ turn = "idle" /\ fresh = NoAlerts /\ left = {}
  /\ pending = NoAlerts /\ outstanding = NoAlerts
  /\ completions = {} /\ enabled = Kinds
  /\ mute = "off" /\ initiallyReconciled = FALSE /\ resumePending = FALSE
  /\ slot = NoAlerts /\ rings = [p \in Panes |-> 0]
  /\ overtaken = FALSE /\ astray = {}

----------------------------------------------------------------------------
(* The coordinator's methods, on a record c of its state and of what it    *)
(* reads: a callback may make several calls, and a call may re-enter.      *)

Current == [pend |-> pending, out |-> outstanding, mute |-> mute, slot |-> slot,
            init |-> initiallyReconciled, wait |-> resumePending,
            view |-> agents, up |-> bridge = "connected",
            kinds |-> enabled, done |-> completions,
            told |-> [p \in Panes |-> IF turn = "commit" /\ p \notin left THEN fresh[p] ELSE agents[p]],
            over |-> overtaken, astray |-> astray]

\* The record becomes the state (the quantifier has TLC evaluate it once).
Becomes(record) ==
  \E c \in {record} :
     /\ pending' = c.pend /\ outstanding' = c.out /\ mute' = c.mute /\ slot' = c.slot
     /\ initiallyReconciled' = c.init /\ resumePending' = c.wait
     /\ overtaken' = c.over /\ astray' = c.astray

\* The alerts of a that are still the pane's status, of an enabled kind.
Matching(a, c) == [p \in Panes |-> IF a[p] = c.view[p] /\ a[p] \in c.kinds THEN a[p] ELSE None]

\* Reconciliation that starts a fresh debounce for a blocked pane.
RebuiltRearming(c) ==
  [c EXCEPT
     !.pend = [p \in Panes |-> IF Matching(c.out, c)[p] = None /\ c.view[p] \in c.kinds
                                    /\ (c.view[p] = "blocked" \/ p \in c.done)
                                 THEN c.view[p] ELSE Matching(c.pend, c)[p]],
     !.out  = Matching(c.out, c)]

\* reconcile() up to its emit: matching alerts survive, others go, panes that
\* need attention come back - a done one only with a completion timestamp.
Rebuilt(c) ==
  LET pend == Matching(c.pend, c)
      out  == Matching(c.out, c)
      free(p) == pend[p] = None /\ out[p] = None /\ c.view[p] \in c.kinds
  IN  [c EXCEPT
        !.pend = [p \in Panes |-> IF free(p) /\ c.view[p] = "done" /\ p \in c.done
                                     THEN "done" ELSE pend[p]],
        !.out  = [p \in Panes |-> IF free(p) /\ c.view[p] = "blocked"
                                     THEN "blocked" ELSE out[p]],
        !.astray = {p \in Panes : c.told[p] # c.view[p]}]

\* reconcile() from a resume; its emit replaces the slot unless snooze is still
\* on (a preference came back during a snooze).  If that emit is the first to notice
\* the deadline, the nested reconcile() finds nothing left to do.
Reconciled(c) ==
  LET r == Rebuilt([c EXCEPT !.init = TRUE, !.wait = FALSE])
  IN  IF r.mute = "on" THEN r ELSE [r EXCEPT !.slot = r.out, !.mute = "off", !.over = FALSE]

\* onResume() that rebuilds from whatever snapshot there is.
ResumedEagerly(c) == Reconciled(c)

\* NotificationReconciler.onResume(engine.current()): what the engine publishes
\* NOW, which during a commit is still the previous snapshot.
Resumed(c) == IF c.up THEN Reconciled(c) ELSE [c EXCEPT !.wait = TRUE]

\* Snooze.until(): the first reader past the deadline ends the snooze and runs
\* every resume listener before it returns.
Noticed(c) == IF c.mute = "lapsed" THEN Resumed([c EXCEPT !.mute = "off"]) ELSE c

\* A sink without the mute gate.
EmittedUnmuted(c) == [Noticed(c) EXCEPT !.slot = c.out]

\* emit(): the summary is taken from `outstanding' BEFORE the sink asks isMuted().
Emitted(c) ==
  LET n == Noticed(c)
  IN  IF n.mute = "on" THEN n ELSE [n EXCEPT !.slot = c.out, !.over = c.out # n.out]

\* resolve() without its emit.
ResolvedSilently(c, p) == [c EXCEPT !.pend[p] = None, !.out[p] = None]

\* Dropping p's timer and its delivered alert, emitting when there was one.
Resolved(c, p) ==
  LET d == [c EXCEPT !.pend[p] = None, !.out[p] = None, !.astray = @ \ {p}]
  IN  IF c.out[p] = None THEN d ELSE Emitted(d)

\* onTransition(): the old alert goes at once, the new one waits its delay.
Transitioned(c, p, to) ==
  LET r == Resolved(c, p)
  IN  IF to \in c.kinds THEN [r EXCEPT !.pend[p] = to] ELSE r

\* applyPrefs() that forgets the debouncing alerts.
AppliedToDelivered(c) ==
  LET d == [c EXCEPT !.out = [p \in Panes |-> IF c.out[p] \in c.kinds THEN c.out[p] ELSE None]]
  IN  IF d.out = c.out THEN d ELSE Emitted(d)

\* applyPrefs(), with the new preferences already stored.
Applied(c) ==
  LET keep(a) == [p \in Panes |-> IF a[p] \in c.kinds THEN a[p] ELSE None]
      d == [c EXCEPT !.pend = keep(c.pend), !.out = keep(c.out)]
  IN  IF d.out = c.out THEN d ELSE Emitted(d)

\* clearAll(): forget everything, close the slot past the mute gate.
Cleared(c) ==
  [c EXCEPT !.pend = NoAlerts, !.out = NoAlerts, !.slot = NoAlerts, !.over = FALSE, !.astray = {}]

----------------------------------------------------------------------------
(* A poll and its callbacks.                                               *)

Idle == turn = "idle"

PollReturns ==
  /\ Idle
  /\ turn' = "commit"
  /\ UNCHANGED <<engine, coord, completions, enabled, rings, seen>>
  /\ \E view \in View :
       /\ fresh' = view
       /\ left' = IF ~hydrated THEN {}
                  ELSE {p \in Panes : /\ view[p] # agents[p]
                                      /\ agents[p] # None \/ view[p] \in Kinds}

PollFails ==
  /\ Idle /\ bridge = "connected"
  /\ bridge' = "disconnected"
  /\ UNCHANGED <<agents, hydrated, commit, coord, completions, enabled, rings, seen>>

\* onTransition(agent, from, to): the ledger first, then the alert.
CallTransition(p) ==
  /\ turn = "commit" /\ p \in left /\ fresh[p] # None
  /\ left' = left \ {p}
  /\ UNCHANGED <<engine, turn, fresh, enabled>>
  /\ completions' = IF fresh[p] = "done" THEN completions \cup {p} ELSE completions \ {p}
  /\ Becomes(Transitioned([Current EXCEPT !.done = completions', !.told[p] = fresh[p]], p, fresh[p]))
  /\ rings' = [rings EXCEPT ![p] = 0]

\* onRemove(paneId), after every transition of this poll.
CallRemove(p) ==
  /\ turn = "commit" /\ p \in left /\ \A q \in left : fresh[q] = None
  /\ left' = left \ {p}
  /\ UNCHANGED <<engine, turn, fresh, enabled>>
  /\ completions' = completions \ {p}
  /\ Becomes(Resolved([Current EXCEPT !.done = completions', !.told[p] = None], p))
  /\ rings' = [rings EXCEPT ![p] = 0]

\* The reconciler's onUpdate() with the published snapshot: the first one, and
\* the first one after a deferred resume, rebuild.
Updated(c) ==
  IF ~c.init \/ c.wait
    THEN Emitted(Rebuilt([c EXCEPT !.init = TRUE, !.wait = FALSE])) ELSE c

\* The new snapshot is assigned, then the update listeners run.
Publish ==
  /\ turn = "commit" /\ left = {}
  /\ agents' = fresh /\ bridge' = "connected" /\ hydrated' = TRUE
  /\ turn' = "idle" /\ fresh' = NoAlerts
  /\ Becomes(Updated([Current EXCEPT !.view = fresh, !.up = TRUE]))
  /\ UNCHANGED <<left, completions, enabled, rings>>

----------------------------------------------------------------------------
(* Timers and requests.                                                    *)

\* A debounce timer fires: the alert is delivered with a buzz, unless muted.
TimerFires(p) ==
  /\ Idle /\ pending[p] # None
  /\ UNCHANGED <<engine, commit, completions, enabled>>
  /\ LET c == Emitted([Current EXCEPT !.pend[p] = None, !.out[p] = pending[p]])
     IN  /\ Becomes(c)
         /\ rings' = IF c.mute = "off" /\ rings[p] < 2
                       THEN [rings EXCEPT ![p] = @ + 1] ELSE rings

\* onSeen() that also drops a pending blocked alert.
SeenAll(p) ==
  /\ Idle
  /\ completions' = completions \ {p}
  /\ Becomes(Resolved([Current EXCEPT !.done = completions'], p))
  /\ UNCHANGED <<engine, commit, enabled, rings>>

\* onSeen(paneId): the pane was focused at the PC, or shown in a visible client.
Seen(p) ==
  /\ Idle
  /\ completions' = completions \ {p}
  /\ LET c == [Current EXCEPT !.done = completions']
         d == IF pending[p] = "done" THEN [c EXCEPT !.pend[p] = None] ELSE c
     IN  Becomes(IF outstanding[p] = "done" THEN Emitted([d EXCEPT !.out[p] = None]) ELSE d)
  /\ UNCHANGED <<engine, commit, enabled, rings>>

\* Snoozing that keeps the coordinator's alerts.
SnoozeOnly ==
  /\ Idle
  /\ mute' = "on"
  /\ UNCHANGED <<engine, commit, completions, enabled, rings, pending, outstanding,
                 initiallyReconciled, resumePending, slot, seen>>

\* POST /api/notifications/snooze with a future deadline: set, then clearAll.
SnoozeOn ==
  /\ Idle
  /\ Becomes(Cleared([Current EXCEPT !.mute = "on"]))
  /\ UNCHANGED <<engine, commit, completions, enabled, rings>>

\* The same with null or a past deadline: resume when a snooze was set.
SnoozeOff ==
  /\ Idle /\ mute # "off"
  /\ Becomes(Resumed([Current EXCEPT !.mute = "off"]))
  /\ UNCHANGED <<engine, commit, completions, enabled, rings>>

\* The deadline passes: anywhere, for the timer may be late (a long turn, a
\* suspended host) and the callbacks read the clock themselves.
DeadlinePasses ==
  /\ mute = "on"
  /\ mute' = "lapsed"
  /\ UNCHANGED <<engine, commit, completions, enabled, rings, pending, outstanding,
                 initiallyReconciled, resumePending, slot, seen>>

\* The snooze timer, or a request that reads until(), outside any callback.
SnoozeExpires ==
  /\ Idle /\ mute = "lapsed"
  /\ Becomes(Resumed([Current EXCEPT !.mute = "off"]))
  /\ UNCHANGED <<engine, commit, completions, enabled, rings>>

\* Preferences saved with the retraction but not the rebuild.
SetPrefsShrinking(kinds) ==
  /\ Idle /\ kinds # enabled
  /\ enabled' = kinds
  /\ Becomes(Applied([Current EXCEPT !.kinds = kinds]))
  /\ UNCHANGED <<engine, commit, completions, rings>>

\* POST /api/notifications/prefs: save, applyPrefs, and a rebuild when a kind
\* came back on.
SetPrefs(kinds) ==
  /\ Idle /\ kinds # enabled
  /\ enabled' = kinds
  /\ LET a == Applied([Current EXCEPT !.kinds = kinds])
     IN  Becomes(IF kinds \subseteq enabled THEN a ELSE Resumed(a))
  /\ UNCHANGED <<engine, commit, completions, rings>>

\* The process ends and a new one starts: cleanly, having closed the slot, or by
\* a crash.  The preferences, the snooze, the ledger and the slot survive; a
\* deadline that passed meanwhile is dropped by load() without a resume event.
Restart ==
  /\ \E clean \in BOOLEAN : slot' = IF clean THEN NoAlerts ELSE slot
  /\ agents' = NoAlerts /\ bridge' = "disconnected" /\ hydrated' = FALSE
  /\ turn' = "idle" /\ fresh' = NoAlerts /\ left' = {}
  /\ pending' = NoAlerts /\ outstanding' = NoAlerts
  /\ mute' \in IF mute = "on" THEN {"on", "off"} ELSE {"off"}
  /\ initiallyReconciled' = FALSE /\ resumePending' = FALSE
  /\ rings' = [p \in Panes |-> 0]
  /\ overtaken' = FALSE /\ astray' = {}
  /\ UNCHANGED <<completions, enabled>>

Next ==
  \/ PollReturns \/ PollFails \/ Publish
  \/ \E p \in Panes : CallTransition(p) \/ CallRemove(p) \/ TimerFires(p) \/ Seen(p)
  \/ SnoozeOn \/ SnoozeOff \/ DeadlinePasses \/ SnoozeExpires
  \/ \E kinds \in SUBSET Kinds : SetPrefs(kinds)
  \/ Restart

Spec == Init /\ [][Next]_vars

\* Polls go on, a turn of the event loop ends, timers fire.  A timer cannot fire
\* inside a turn, which this module cuts into several steps: "fires once due" is
\* strong fairness at that grain.
FairSpec == Spec /\ WF_vars(PollReturns) /\ []<>Idle /\ \A p \in Panes : SF_vars(TimerFires(p))

----------------------------------------------------------------------------
\* The slot is accurate: whenever nothing mutes it and the first rebuild is done,
\* the last message queued for the device is the summary of the alerts the
\* coordinator holds as delivered - unless its own emit() ended an overdue snooze,
\* whose rebuild that older summary then overtook.
SlotShowsOutstanding ==
  mute = "off" /\ initiallyReconciled /\ ~resumePending /\ ~overtaken => slot = outstanding

\* Between polls an alert, debouncing or delivered, is the status its pane was
\* last seen in, and of a kind the user wants: handled work does not linger.  The
\* panes that a late end of a snooze rebuilt from an outdated snapshot are excepted
\* until their next callback or rebuild.
AlertsMatchHerd ==
  Idle => \A p \in Panes : \A a \in {pending[p], outstanding[p]} \ {None} :
            a \in enabled /\ (a = agents[p] \/ p \in astray)

\* A blocked agent is never forgotten: with a live snapshot and no snooze it is
\* debouncing or on the phone, whatever restarts, outages, snoozes and
\* preference changes came before, with the same exception.
BlockedNotForgotten ==
  Idle /\ bridge = "connected" /\ mute = "off" /\ "blocked" \in enabled =>
    \A p \in Panes \ astray : agents[p] = "blocked" => "blocked" \in {pending[p], outstanding[p]}

\* A block buzzes the phone at most once: rebuilding the slot is silent.
OneBuzzPerBlock == \A p \in Panes : Idle /\ agents[p] = "blocked" => rings[p] <= 1

\* A completion buzzes the phone at most once: "Done alerts require a live
\* completion timestamp, so reconciliation deliberately does not resurrect them"
\* (bridge/index.ts).
OneBuzzPerCompletion == \A p \in Panes : Idle /\ agents[p] = "done" => rings[p] <= 1

\* While snoozed, no message but a clear is queued.
SnoozeIsSilent == [][mute = "on" /\ mute' = "on" => slot' \in {slot, NoAlerts}]_vars

\* A block that lasts, unmuted and wanted, ends up on the phone, if a late end of a
\* snooze does not leave its pane or the slot behind for good.
BlockReachesPhone ==
  \A p \in Panes :
    <>[](/\ agents[p] = "blocked" /\ bridge = "connected" /\ mute = "off"
         /\ "blocked" \in enabled /\ ~overtaken /\ p \notin astray)
      => <>[](slot[p] = "blocked")

=============================================================================
