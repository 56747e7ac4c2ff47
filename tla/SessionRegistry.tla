--------------------------- MODULE SessionRegistry ---------------------------
(***************************************************************************)
(* The sessions of a bridge: SessionRegistry (bridge/sessions.ts) with its *)
(* serial lifecycle queue, the runtimes it spawns and disposes, the fan-   *)
(* outs of snooze and preferences over them (bridge/index.ts, server.ts)   *)
(* and the shutdown.  Of a runtime this module keeps what teardown depends *)
(* on: whether its engine runs, whether its last snapshot is a live one    *)
(* with work that needs the user, and the alert its coordinator made of    *)
(* that.  Which alerts it makes is module Notifications' subject: here any *)
(* is possible while there is such work, and none without.  `slot' is the  *)
(* last message queued for a session's notification tag.                   *)
(***************************************************************************)
EXTENDS Naturals, Sequences

CONSTANTS
  Primary,     \* name of the primary session
  Others,      \* names of sessions that come and go
  None,        \* no runtime, no session
  Polling,     \* bound: the sessions whose polls and alerts are followed
  MaxOps       \* bound: lifecycle operations queued

ASSUME RegistryAssumption ==
  /\ Primary \notin Others /\ None \notin Others \cup {Primary}
  /\ Polling \subseteq Others \cup {Primary}
  /\ MaxOps \in Nat \ {0}

Names == Others \cup {Primary}

Alerts  == {"none", "armed", "held"}   \* held: delivered; armed: debouncing
Runtime == [up : BOOLEAN, needy : BOOLEAN, alert : Alerts]

ASSUME NoneIsNoRuntime == None \notin Runtime

VARIABLES
  sockets,   \* the other sessions' sockets on disk
  registry,  \* name -> its runtime, or None
  engines,   \* name -> number of engines polling it
  ghosts,    \* sessions of dropped runtimes whose debounce timer is still armed
  waiting,   \* lifecycle operations queued
  op,        \* the one under way: its kind, names left to dispose, the one awaited
  closed,
  stage,     \* of the process: "up" | "closing" | "down"
  muted,     \* snooze
  slot,
  reached    \* observer: sessions whose disposal a fan-out reached while it waited

queueVars == <<waiting, op, closed, stage>>
vars == <<sockets, registry, engines, ghosts, queueVars, muted, slot, reached>>

NoOp    == [kind |-> "none", todo |-> {}, awaited |-> None]
Spawned == [up |-> FALSE, needy |-> FALSE, alert |-> "none"]

Registered == {n \in Names : registry[n] # None}

TypeOK ==
  /\ sockets \in SUBSET Others
  /\ registry \in [Names -> Runtime \cup {None}]
  /\ engines \in [Names -> Nat] /\ ghosts \in SUBSET Names
  /\ waiting \in Seq({"refresh", "disposeAll"})
  /\ op \in [kind : {"none", "refresh", "disposeAll"}, todo : SUBSET Others,
             awaited : Others \cup {None}]
  /\ closed \in BOOLEAN /\ stage \in {"up", "closing", "down"} /\ muted \in BOOLEAN
  /\ slot \in [Names -> {"closed", "alert"}] /\ reached \in SUBSET Names

\* The constructor has spawned the primary.
Init ==
  /\ sockets \in SUBSET Others
  /\ registry = [n \in Names |-> IF n = Primary THEN Spawned ELSE None]
  /\ engines = [n \in Names |-> IF n = Primary THEN 1 ELSE 0]
  /\ ghosts = {}
  /\ waiting = <<>> /\ op = NoOp /\ closed = FALSE /\ stage = "up"
  /\ muted \in BOOLEAN
  /\ slot = [n \in Names |-> "closed"] /\ reached = {}

----------------------------------------------------------------------------
(* A session's engine and coordinator.                                     *)

\* What the coordinator may make of a live snapshot.
Verdicts(needy) == IF needy THEN Alerts ELSE {"none"}

\* emit(): the slot after an alert changed, gated by the mute.
Emitted(n, before, after, mute) ==
  IF mute \/ (before # "held" /\ after # "held") THEN slot[n]
  ELSE IF after = "held" THEN "alert" ELSE "closed"

\* The engine is stopped while it is disposed: only a running one polls.
Polled(n) ==
  /\ engines[n] > 0 /\ registry[n] # None
  /\ \E needy \in BOOLEAN : \E alert \in Verdicts(needy) :
       /\ registry' = [registry EXCEPT ![n] = [up |-> TRUE, needy |-> needy, alert |-> alert]]
       /\ slot' = [slot EXCEPT ![n] = Emitted(n, registry[n].alert, alert, muted)]
  /\ UNCHANGED <<sockets, engines, ghosts, queueVars, muted, reached>>

PollFailed(n) ==
  /\ engines[n] > 0 /\ registry[n] # None
  /\ registry' = [registry EXCEPT ![n].up = FALSE]
  /\ UNCHANGED <<sockets, engines, ghosts, queueVars, muted, slot, reached>>

TimerFires(n) ==
  /\ registry[n] # None /\ registry[n].alert = "armed" /\ stage # "down"
  /\ registry' = [registry EXCEPT ![n].alert = "held"]
  /\ slot' = [slot EXCEPT ![n] = Emitted(n, "armed", "held", muted)]
  /\ UNCHANGED <<sockets, engines, ghosts, queueVars, muted, reached>>

\* The timer of a dropped runtime: its coordinator delivers the alert all the same.
GhostFires(n) ==
  /\ n \in ghosts /\ stage # "down"
  /\ ghosts' = ghosts \ {n}
  /\ slot' = [slot EXCEPT ![n] = Emitted(n, "armed", "held", muted)]
  /\ UNCHANGED <<sockets, registry, engines, queueVars, muted, reached>>

----------------------------------------------------------------------------
(* Fan-outs over registry.all().                                           *)

\* A disposal of a vanished session is waiting for its last delivery: the runtime is
\* still one of registry.all().
Awaiting == op.awaited # None

\* resumeNotifications() of every registered runtime: from its last snapshot, or
\* put off while that is not a live one.
ResumeAll(mute) ==
  LET live == {n \in Registered : registry[n].up}
  IN  /\ reached' = IF Awaiting THEN reached \cup {op.awaited} ELSE reached
      /\ \E verdict \in [live -> Alerts] :
        /\ \A n \in live : verdict[n] \in Verdicts(registry[n].needy)
        /\ registry' = [n \in Names |-> IF n \in live
                                          THEN [registry[n] EXCEPT !.alert = verdict[n]]
                                          ELSE registry[n]]
        /\ slot' = [n \in Names |-> IF n \in live /\ ~mute
                                      THEN IF verdict[n] = "held" THEN "alert" ELSE "closed"
                                      ELSE slot[n]]

\* clearAll() of the runtimes of `names': nothing debounces, nothing is held, the
\* slot is closed past the mute.
ClearAll(names) ==
  LET gone == names \cap Registered
  IN  /\ registry' = [n \in Names |-> IF n \in gone
                                        THEN [registry[n] EXCEPT !.alert = "none"]
                                        ELSE registry[n]]
      /\ slot' = [n \in Names |-> IF n \in gone THEN "closed" ELSE slot[n]]

\* The snooze route: mute, then clear every session.
SnoozeOn ==
  /\ stage = "up" /\ ~muted
  /\ muted' = TRUE
  /\ ClearAll(Names)
  /\ UNCHANGED <<sockets, engines, ghosts, queueVars, reached>>

\* The snooze ends, by route or deadline; the shutdown has removed the listener.
SnoozeEnds ==
  /\ muted /\ stage # "down"
  /\ muted' = FALSE
  /\ IF stage = "up" THEN ResumeAll(FALSE) ELSE UNCHANGED <<registry, slot, reached>>
  /\ UNCHANGED <<sockets, engines, ghosts, queueVars>>

\* The preferences route, with a kind switched back on.
KindReenabled ==
  /\ stage = "up"
  /\ ResumeAll(muted)
  /\ UNCHANGED <<sockets, engines, ghosts, queueVars, muted>>

----------------------------------------------------------------------------
(* The lifecycle queue.                                                    *)

\* refresh(), from its interval.
RefreshTick ==
  /\ stage = "up" /\ Len(waiting) < MaxOps
  /\ waiting' = Append(waiting, "refresh")
  /\ UNCHANGED <<sockets, registry, engines, ghosts, op, closed, stage, muted, slot, reached>>

Starting(kind) ==
  /\ op.kind = "none" /\ waiting # <<>> /\ Head(waiting) = kind
  /\ waiting' = Tail(waiting)

\* A scan that returns, instead of continuing, at a session it knows.
ScanUpToKnown(appeared) ==
  LET new == IF sockets \subseteq appeared THEN appeared ELSE {}
  IN  /\ registry' = [n \in Names |-> IF n \in new THEN Spawned ELSE registry[n]]
      /\ engines' = [n \in Names |-> IF n \in new THEN engines[n] + 1 ELSE engines[n]]
      /\ op' = [kind |-> "refresh", awaited |-> None,
                todo |-> {n \in Others : registry[n] # None} \ sockets]

\* The scan: spawn what appeared, remember what vanished.
Scan(appeared) ==
  /\ registry' = [n \in Names |-> IF n \in appeared THEN Spawned ELSE registry[n]]
  /\ engines' = [n \in Names |-> IF n \in appeared THEN engines[n] + 1 ELSE engines[n]]
  /\ op' = [kind |-> "refresh", awaited |-> None,
            todo |-> {n \in Others : registry[n] # None} \ sockets]

\* A scan that spawns a runtime for every socket it finds.
BeginRefreshRespawning ==
  /\ Starting("refresh")
  /\ IF closed THEN UNCHANGED <<registry, engines, op>> ELSE Scan(sockets)
  /\ UNCHANGED <<sockets, ghosts, closed, stage, muted, slot, reached>>

\* A queued refresh: nothing any more once closed.
BeginRefresh ==
  /\ Starting("refresh")
  /\ IF closed THEN UNCHANGED <<registry, engines, op>> ELSE Scan(sockets \ Registered)
  /\ UNCHANGED <<sockets, ghosts, closed, stage, muted, slot, reached>>

\* dispose() that leaves the slot as it is.
DisposeOnly(names) ==
  /\ engines' = [n \in Names |-> IF n \in names \cap Registered THEN engines[n] - 1
                                 ELSE engines[n]]
  /\ registry' = [n \in Names |-> IF n \in names \cap Registered
                                    THEN [registry[n] EXCEPT !.alert = "none"]
                                    ELSE registry[n]]
  /\ UNCHANGED slot

\* dispose() of the runtimes of `names', up to the await of their last delivery.
Dispose(names) ==
  /\ engines' = [n \in Names |-> IF n \in names \cap Registered THEN engines[n] - 1
                                 ELSE engines[n]]
  /\ ClearAll(names)

DisposeVanished ==
  /\ op.kind = "refresh" /\ op.awaited = None
  /\ \E n \in op.todo : Dispose({n}) /\ op' = [op EXCEPT !.awaited = n]
  /\ UNCHANGED <<sockets, ghosts, waiting, closed, stage, muted, reached>>

\* Its flush() resolves: the name is forgotten, a timer armed meanwhile is not.
Disposed ==
  /\ Awaiting
  /\ registry' = [registry EXCEPT ![op.awaited] = None]
  /\ ghosts' = IF registry[op.awaited].alert = "armed" THEN ghosts \cup {op.awaited}
               ELSE ghosts
  /\ op' = [op EXCEPT !.todo = @ \ {op.awaited}, !.awaited = None]
  /\ UNCHANGED <<sockets, engines, waiting, closed, stage, muted, slot, reached>>

EndRefresh ==
  /\ op.kind = "refresh" /\ op.todo = {}
  /\ op' = NoOp
  /\ UNCHANGED <<sockets, registry, engines, ghosts, waiting, closed, stage, muted, slot, reached>>

\* shutdown(): the server, the snooze listener and the interval stop; disposeAll() queues.
Shutdown ==
  /\ stage = "up"
  /\ stage' = "closing" /\ closed' = TRUE
  /\ waiting' = Append(waiting, "disposeAll")
  /\ UNCHANGED <<sockets, registry, engines, ghosts, op, muted, slot, reached>>

BeginDisposeAll ==
  /\ Starting("disposeAll")
  /\ Dispose(Names)
  /\ op' = [NoOp EXCEPT !.kind = "disposeAll"]
  /\ UNCHANGED <<sockets, ghosts, closed, stage, muted, reached>>

\* Every flush has resolved; the rest of shutdown() ends the process.
EndDisposeAll ==
  /\ op.kind = "disposeAll"
  /\ registry' = [n \in Names |-> None]
  /\ op' = NoOp /\ stage' = "down"
  /\ UNCHANGED <<sockets, engines, ghosts, waiting, closed, muted, slot, reached>>

\* A Herdr session starts or stops.
SocketChanges ==
  /\ stage # "down"
  /\ \E n \in Others : sockets' = IF n \in sockets THEN sockets \ {n} ELSE sockets \cup {n}
  /\ UNCHANGED <<registry, engines, ghosts, queueVars, muted, slot, reached>>

Next ==
  \/ \E n \in Polling : Polled(n) \/ PollFailed(n) \/ TimerFires(n) \/ GhostFires(n)
  \/ SnoozeOn \/ SnoozeEnds \/ KindReenabled
  \/ RefreshTick \/ BeginRefresh \/ DisposeVanished \/ Disposed \/ EndRefresh
  \/ Shutdown \/ BeginDisposeAll \/ EndDisposeAll
  \/ SocketChanges

Spec == Init /\ [][Next]_vars

\* The interval ticks, a queued operation starts when the one before it ends, and a
\* flush() resolves (module NotifySink).
Fairness ==
  /\ WF_vars(RefreshTick) /\ WF_vars(BeginRefresh) /\ WF_vars(DisposeVanished)
  /\ WF_vars(Disposed) /\ WF_vars(EndRefresh) /\ WF_vars(BeginDisposeAll)
  /\ WF_vars(EndDisposeAll)

FairSpec == Spec /\ Fairness

----------------------------------------------------------------------------
\* A registered session is polled by one engine and any other by none: no session
\* is polled twice, no dropped runtime polls for ever, and requests reach a stopped
\* engine only while its disposal is awaited.
OneEngineEach ==
  \A n \in Names :
    engines[n] = IF n \notin Registered \/ op.awaited = n \/ op.kind = "disposeAll"
                   THEN 0 ELSE 1

\* A session that is gone has left the lock screen: "its alerts never linger on the
\* lock screen with no live session behind them" (clearAll()).
GoneIsClosed == \A n \in Names \ Registered : slot[n] = "closed"

\* It has, unless a snooze ended or a kind was switched on while dispose() waited:
\* nothing else puts an alert of a disposed session back, neither a poll in flight,
\* a timer, an outage nor another session's disposal.
ClosedUnlessReached == \A n \in Names \ Registered : slot[n] = "closed" \/ n \in reached

\* Once closed, the registry starts no engine, not even by a scan that was already
\* queued (refresh()).
NoSpawnAfterClose == [][closed => \A n \in Names : engines'[n] <= engines[n]]_vars

\* The registry follows the sockets.
RegistryFollowsSockets ==
  \A n \in Others :
    /\ <>[](stage = "up" /\ n \in sockets) => <>[](registry[n] # None)
    /\ <>[](stage = "up" /\ n \notin sockets) => <>[](registry[n] = None)

=============================================================================
