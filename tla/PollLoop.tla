------------------------------ MODULE PollLoop ------------------------------
(***************************************************************************)
(* One session's poll loop as makeSession() wires it (bridge/index.ts): the*)
(* EventPoker's poke and health callbacks drive the StateEngine's interval,*)
(* and every committed snapshot drives the poker's subscriptions.  The     *)
(* engine is reduced to what times it: flag, queued follow-up, interval.   *)
(***************************************************************************)
EXTENDS EventPoker

CONSTANTS
  PollMs,       \* fast cadence, in time units
  PollIdleMs,   \* relaxed cadence while the stream is healthy
  PollMax,      \* longest a poll can take (the request timeout)
  MaxLosses     \* bound: losses of the stream that are counted

ASSUME LoopAssumption ==
  /\ PollMs \in Nat \ {0} /\ PollIdleMs \in Nat \ {0} /\ PollMax \in Nat
  /\ MaxLosses \in Nat \ {0}

VARIABLES
  engineOn,     \* StateEngine.started
  cadenceMs,
  interval,     \* time left on the interval timer, or Off
  polling,
  pollTimer,    \* time left before the running poll must settle
  queuedPoll,
  quiet,        \* observer: time since a poll was last in flight, capped
  losses,       \* observer: how often a healthy stream was lost since then, capped
  unread        \* observer: an event came in and no poll has begun since

engineVars == <<engineOn, cadenceMs, interval, polling, pollTimer, queuedPoll>>
observers == <<quiet, losses, unread>>
vars == <<pokerVars, engineVars, observers>>

\* The longest the loop should go without a poll, counted generously: a fast
\* interval replaced by a relaxed one as the stream comes up, and that one by a
\* fast one as it is lost.
MaxQuiet == PollMs + PollIdleMs + PollMs

\* quiet is counted up to here.
QuietCap == (MaxLosses + 1) * (PollMs + PollIdleMs)

TypeOK ==
  /\ PokerTypeOK
  /\ engineOn \in BOOLEAN
  /\ cadenceMs \in {PollMs, PollIdleMs}
  /\ interval \in {Off} \cup Nat
  /\ polling \in BOOLEAN /\ pollTimer \in Timer(PollMax) /\ queuedPoll \in BOOLEAN
  /\ quiet \in 0..(QuietCap + 1) /\ losses \in 0..MaxLosses
  /\ unread \in BOOLEAN

\* Just after makeSession(): engine.start() has begun the first poll.
Init ==
  /\ PokerInit
  /\ engineOn = TRUE /\ cadenceMs = PollMs /\ interval = PollMs
  /\ polling = TRUE /\ pollTimer = PollMax /\ queuedPoll = FALSE
  /\ quiet = 0 /\ losses = 0 /\ unread = FALSE

----------------------------------------------------------------------------
BeginPoll ==
  /\ polling' = TRUE
  /\ pollTimer' = PollMax
  /\ unread' = FALSE
  /\ quiet' = 0 /\ losses' = 0

\* An interval that trusts a healthy stream to report everything.
PollOnTickTrusting ==
  IF polling \/ healthy THEN UNCHANGED <<polling, pollTimer, observers>> ELSE BeginPoll

\* poll() from the interval.
PollOnTick ==
  IF polling THEN UNCHANGED <<polling, pollTimer, observers>> ELSE BeginPoll

\* pokeNow()
PokeNow ==
  IF polling \/ ~engineOn
    THEN /\ queuedPoll' = engineOn
         /\ UNCHANGED <<polling, pollTimer, observers>>
    ELSE BeginPoll /\ UNCHANGED queuedPoll

\* setCadence(ms): an unchanged cadence leaves the interval alone.
SetCadence(ms) ==
  IF ~engineOn \/ ms = cadenceMs
    THEN UNCHANGED <<cadenceMs, interval>>
    ELSE /\ cadenceMs' = ms
         /\ interval' = ms

----------------------------------------------------------------------------
(* The wiring: a poker step with what its callbacks do.                    *)

StreamUp ==
  /\ OnUp
  /\ SetCadence(PollIdleMs)
  /\ UNCHANGED <<engineOn, polling, pollTimer, queuedPoll, observers>>

StreamDown ==
  /\ OnDown \/ AckExpires
  /\ IF healthy THEN SetCadence(PollMs) ELSE UNCHANGED <<cadenceMs, interval>>
  /\ losses' = IF healthy /\ ~polling /\ losses < MaxLosses THEN losses + 1 ELSE losses
  /\ UNCHANGED <<engineOn, polling, pollTimer, queuedPoll, quiet, unread>>

StreamEvent ==
  /\ OnEvent
  /\ unread' = TRUE
  /\ UNCHANGED <<engineVars, quiet, losses>>

Retry == ReconnectFires /\ UNCHANGED <<engineVars, observers>>

Poke ==
  /\ DebounceFires
  /\ PokeNow
  /\ UNCHANGED <<engineOn, cadenceMs, interval>>

Tick ==
  /\ interval = 0
  /\ interval' = cadenceMs
  /\ PollOnTick
  /\ UNCHANGED <<pokerVars, engineOn, cadenceMs, queuedPoll>>

\* A poll that settles without lowering its flag.
PollSettlesStuck ==
  /\ polling /\ pollTimer # Off
  /\ pollTimer' = Off
  /\ UNCHANGED <<pokerVars, engineOn, cadenceMs, interval, polling, queuedPoll, observers>>

\* The poll settles: a success reports its agent panes, then the queued
\* follow-up of the finally block runs.
PollSettles ==
  /\ polling
  /\ \/ engineOn /\ \E panes \in PaneSets : SetAgentPanes(panes)
     \/ UNCHANGED pokerVars
  /\ queuedPoll' = FALSE
  /\ IF queuedPoll /\ engineOn
       THEN BeginPoll
       ELSE /\ polling' = FALSE /\ pollTimer' = Off
            /\ UNCHANGED observers
  /\ UNCHANGED <<engineOn, cadenceMs, interval>>

\* SessionRegistry.dispose(): engine.stop(), poker.stop() in one turn.
Dispose ==
  /\ engineOn /\ PokerStop
  /\ engineOn' = FALSE /\ interval' = Off
  /\ unread' = FALSE
  /\ UNCHANGED <<cadenceMs, polling, pollTimer, queuedPoll, quiet, losses>>

\* A unit of time passes; a timer that is due runs first.
Elapse ==
  /\ ~Due(interval) /\ ~Due(pollTimer)
  /\ PokerElapse
  /\ interval' = Aged(interval)
  /\ pollTimer' = Aged(pollTimer)
  /\ quiet' = IF polling \/ ~engineOn \/ quiet > QuietCap THEN quiet ELSE quiet + 1
  /\ UNCHANGED <<engineOn, cadenceMs, polling, queuedPoll, losses, unread>>

Next ==
  \/ StreamUp \/ StreamDown \/ StreamEvent \/ Retry \/ Poke
  \/ Tick \/ PollSettles \/ Dispose \/ Elapse

Spec == Init /\ [][Next]_vars

\* The event loop runs due callbacks and time passes; nothing is assumed of
\* Herdr: it may never acknowledge, never answer, never send an event.
Fairness == /\ WF_vars(Elapse) /\ WF_vars(Tick) /\ WF_vars(Retry) /\ WF_vars(Poke)
            /\ WF_vars(ackTimer = 0 /\ StreamDown)
            /\ WF_vars(pollTimer = 0 /\ PollSettles)

FairSpec == Spec /\ Fairness

----------------------------------------------------------------------------
\* An event that reached the poker is waiting behind the debounce or behind the
\* poll in flight until a poll begins after it; it is never swallowed.
EventNeverSwallowed == unread => Running(debounceTimer) \/ (polling /\ queuedPoll)

\* The relaxed cadence is in force exactly while the stream is claimed healthy.
CadenceFollowsHealth ==
  engineOn => cadenceMs = (IF healthy THEN PollIdleMs ELSE PollMs)

\* A running engine keeps an interval that is no longer than its cadence.
IntervalArmed == engineOn => interval \in 0..cadenceMs

\* The safety net that setCadence leaves, which arms the interval anew at every
\* change: a poll is at most one relaxed and one fast interval away, and every loss
\* of a healthy stream on the way puts it off by another two, no more.
NetPerLoss ==
  engineOn /\ losses < MaxLosses =>
    quiet <= losses * (PollMs + PollIdleMs) + (IF healthy THEN PollMs + PollIdleMs ELSE PollMs)

\* The safety net as it is documented, however often the stream is lost: the bridge
\* is never without a poll for longer than one relaxed interval between two fast ones
\* ("this interval only backstops a missed poke - a miss costs at most one of these,
\* never correctness", bridge/config.ts).
SafetyNet == engineOn => quiet <= MaxQuiet

\* An event is read within bounded time even if Herdr then goes silent.
EventIsRead == unread ~> (~unread \/ ~engineOn)

=============================================================================
