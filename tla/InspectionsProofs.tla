--------------------------- MODULE InspectionsProofs ---------------------------
(***************************************************************************)
(* The poll loop for every choice of delays: its stream bookkeeping, and   *)
(* the safety net of its interval.  And the limiter of the git inspections *)
(* for every number of requests, slots and waiting places.                 *)
(***************************************************************************)
EXTENDS MCInspections, Sequences, FiniteSetTheorems, TLAPS

\* Engine and poker run together, and nothing is read after they end.
Together ==
  /\ engineOn = pokerOn
  /\ ~engineOn => ~unread
  /\ engineOn /\ polling => quiet = 0 /\ losses = 0

Wiring ==
  /\ TypeOK
  /\ OneWayBack
  /\ HealthIsWatched
  /\ SubscriptionFollowsHerd
  /\ CadenceFollowsHealth
  /\ IntervalArmed
  /\ EventNeverSwallowed
  /\ Together

\* The observers count up to a natural number.
LEMMA CapIsNat == QuietCap \in Nat
<1>1. \A a, b \in Nat : a * b \in Nat
  OBVIOUS
<1>2. MaxLosses + 1 \in Nat /\ PollMs + PollIdleMs \in Nat
  BY LoopAssumption
<1> QED
  BY <1>1, <1>2 DEF QuietCap

\* The loop starts correctly wired.
LEMMA InitIsWired == Init => Wiring
<1> SUFFICES ASSUME Init PROVE Wiring
  OBVIOUS
<1> USE PokerAssumption, LoopAssumption DEF Init, PokerInit
<1>1. TypeOK
  <2>1. PokerTypeOK
    <3>1. pokerOn \in BOOLEAN /\ healthy \in BOOLEAN
      OBVIOUS
    <3>2. agentPanes \in PaneSets /\ subscribed \in PaneSets /\ stream \in {"none", "opening", "up"}
      OBVIOUS
    <3>3. ackTimer \in Timer(AckTimeout) /\ debounceTimer \in Timer(Debounce)
          /\ reconnectTimer \in {Off} \cup Nat /\ backoffIdx \in 0..BackoffSteps
      BY DEF Timer
    <3> QED
      BY <3>1, <3>2, <3>3 DEF PokerTypeOK
  <2>2. quiet \in 0..(QuietCap + 1) /\ losses \in 0..MaxLosses
    BY CapIsNat
  <2>3. pollTimer \in Timer(PollMax) /\ interval \in {Off} \cup Nat
    BY DEF Timer
  <2> QED
    BY <2>1, <2>2, <2>3 DEF TypeOK
<1>2. OneWayBack /\ HealthIsWatched /\ SubscriptionFollowsHerd /\ EventNeverSwallowed /\ Together
  BY DEF OneWayBack, HealthIsWatched, SubscriptionFollowsHerd, EventNeverSwallowed, Together,
     Running, Off
<1>3. CadenceFollowsHealth /\ IntervalArmed
  BY DEF CadenceFollowsHealth, IntervalArmed
<1> QED
  BY <1>1, <1>2, <1>3 DEF Wiring

----------------------------------------------------------------------------
(* The poker's steps keep its own bookkeeping.                             *)

PokerWired == PokerTypeOK /\ OneWayBack /\ HealthIsWatched /\ SubscriptionFollowsHerd

\* Retrying picks a delay of the schedule, and always leaves a retry pending.
LEMMA ScheduleArms ==
  ASSUME PokerTypeOK, ScheduleReconnect
  PROVE  /\ reconnectTimer' \in Nat /\ backoffIdx' \in 0..BackoffSteps
         /\ reconnectTimer = Off => \E k \in 1..BackoffSteps : reconnectTimer' = Backoff[k]
<1> DEFINE k == IF backoffIdx < BackoffSteps THEN backoffIdx + 1 ELSE BackoffSteps
<1>1. k \in 1..BackoffSteps
  BY PokerAssumption DEF PokerTypeOK
<1>2. Backoff[k] \in Nat
  BY <1>1, PokerAssumption
<1>3. reconnectTimer' = IF reconnectTimer = Off THEN Backoff[k] ELSE reconnectTimer
  BY DEF ScheduleReconnect
<1>4. backoffIdx' \in 0..BackoffSteps
  BY PokerAssumption DEF ScheduleReconnect, PokerTypeOK
<1> HIDE DEF k
<1> QED
  BY <1>1, <1>2, <1>3, <1>4 DEF PokerTypeOK

\* A snapshot's panes resubscribe the poker, or leave it alone.
LEMMA SetPanesIsWired ==
  ASSUME PokerWired, pokerOn, NEW panes \in PaneSets, SetAgentPanes(panes)
  PROVE  PokerWired'
<1> USE DEF PokerWired
<1>1. CASE panes # agentPanes
  <2>1. /\ stream' = "opening" /\ ackTimer' = AckTimeout /\ subscribed' = panes
        /\ reconnectTimer' = Off /\ agentPanes' = panes
        /\ UNCHANGED <<pokerOn, healthy, debounceTimer, backoffIdx>>
    BY <1>1 DEF SetAgentPanes, Reconnect, Connect
  <2>2. ackTimer' \in Timer(AckTimeout) /\ Running(ackTimer') /\ ~Running(reconnectTimer')
    BY <2>1, PokerAssumption DEF Timer, Running, Off
  <2> QED
    BY <2>1, <2>2 DEF PokerTypeOK, OneWayBack, HealthIsWatched, SubscriptionFollowsHerd
<1>2. CASE panes = agentPanes
  BY <1>2 DEF SetAgentPanes, PokerTypeOK, OneWayBack, HealthIsWatched, SubscriptionFollowsHerd
<1> QED
  BY <1>1, <1>2

\* Acknowledgement, event, loss and retry.
LEMMA StreamIsWired ==
  ASSUME PokerWired, OnUp \/ OnEvent \/ OnDown \/ ReconnectFires
  PROVE  PokerWired'
<1> USE DEF PokerWired
<1>1. CASE OnUp
  BY <1>1, PokerAssumption DEF OnUp, PokerTypeOK, OneWayBack, HealthIsWatched, SubscriptionFollowsHerd,
     Running,
     Timer
<1>2. CASE OnEvent
  BY <1>2, PokerAssumption DEF OnEvent, PokerTypeOK, OneWayBack, HealthIsWatched,
     SubscriptionFollowsHerd, Timer, Running, Off
<1>3. CASE OnDown
  <2>1. reconnectTimer' \in Nat /\ backoffIdx' \in 0..BackoffSteps
    BY <1>3, ScheduleArms DEF OnDown
  <2>2. /\ stream # "none" /\ stream' = "none" /\ ackTimer' = Off /\ healthy' = FALSE
        /\ UNCHANGED <<pokerOn, agentPanes, subscribed, debounceTimer>>
    BY <1>3 DEF OnDown
  <2>3. Running(reconnectTimer') /\ ~Running(ackTimer') /\ ackTimer' \in Timer(AckTimeout)
    BY <2>1, <2>2 DEF Running, Off, Timer
  <2>4. pokerOn
    BY <2>2 DEF OneWayBack
  <2> QED
    BY <2>1, <2>2, <2>3, <2>4 DEF PokerTypeOK, OneWayBack, HealthIsWatched,
       SubscriptionFollowsHerd
<1>4. CASE ReconnectFires
  <2>1. pokerOn /\ stream = "none"
    BY <1>4 DEF ReconnectFires, OneWayBack, Running, Off
  <2>2. /\ stream' = "opening" /\ ackTimer' = AckTimeout /\ subscribed' = agentPanes
        /\ reconnectTimer' = Off
        /\ UNCHANGED <<pokerOn, healthy, agentPanes, debounceTimer, backoffIdx>>
    BY <1>4 DEF ReconnectFires, Connect
  <2>3. ackTimer' \in Timer(AckTimeout) /\ Running(ackTimer') /\ ~Running(reconnectTimer')
    BY <2>2, PokerAssumption DEF Timer, Running, Off
  <2> QED
    BY <2>1, <2>2, <2>3 DEF PokerTypeOK, OneWayBack, HealthIsWatched, SubscriptionFollowsHerd
<1> QED
  BY <1>1, <1>2, <1>3, <1>4

\* The debounce, the end and the passing of time.
LEMMA TimersAreWired ==
  ASSUME PokerWired, DebounceFires \/ PokerStop \/ PokerElapse
  PROVE  PokerWired'
<1> USE DEF PokerWired
<1>1. CASE DebounceFires
  BY <1>1 DEF DebounceFires, PokerTypeOK, OneWayBack, HealthIsWatched,
     SubscriptionFollowsHerd, Timer, Running
<1>2. CASE PokerStop
  BY <1>2 DEF PokerStop, PokerTypeOK, OneWayBack, HealthIsWatched,
     SubscriptionFollowsHerd, Timer, Running
<1>3. CASE PokerElapse
  <2>1. /\ ackTimer' \in Timer(AckTimeout) /\ debounceTimer' \in Timer(Debounce)
        /\ reconnectTimer' \in {Off} \cup Nat
        /\ Running(ackTimer') = Running(ackTimer)
        /\ Running(debounceTimer') = Running(debounceTimer)
        /\ Running(reconnectTimer') = Running(reconnectTimer)
    BY <1>3, PokerAssumption DEF PokerElapse, PokerIdle, Due, Aged, PokerTypeOK, Timer, Running, Off
  <2>2. UNCHANGED <<pokerOn, healthy, agentPanes, stream, subscribed, backoffIdx>>
    BY <1>3 DEF PokerElapse
  <2> QED
    BY <2>1, <2>2 DEF PokerTypeOK, OneWayBack, HealthIsWatched, SubscriptionFollowsHerd
<1> QED
  BY <1>1, <1>2, <1>3

----------------------------------------------------------------------------
(* The wiring.                                                             *)

\* Whatever is handed to setCadence, the interval is armed for the cadence.
LEMMA SetCadenceArms ==
  ASSUME engineOn \in BOOLEAN, cadenceMs \in {PollMs, PollIdleMs}, IntervalArmed,
         NEW ms \in {PollMs, PollIdleMs}, SetCadence(ms)
  PROVE  /\ cadenceMs' \in {PollMs, PollIdleMs}
         /\ engineOn => cadenceMs' = ms /\ interval' \in 0..ms
         /\ ~engineOn => UNCHANGED <<cadenceMs, interval>>
  BY LoopAssumption DEF SetCadence, IntervalArmed

EngineTypeOK ==
  /\ engineOn \in BOOLEAN
  /\ cadenceMs \in {PollMs, PollIdleMs}
  /\ interval \in {Off} \cup Nat
  /\ polling \in BOOLEAN /\ pollTimer \in Timer(PollMax) /\ queuedPoll \in BOOLEAN

ObserverTypeOK == quiet \in 0..(QuietCap + 1) /\ losses \in 0..MaxLosses /\ unread \in BOOLEAN

LEMMA TypeParts == TypeOK <=> PokerTypeOK /\ EngineTypeOK /\ ObserverTypeOK
  BY DEF TypeOK, EngineTypeOK, ObserverTypeOK

\* A poll that begins resets the observers.
LEMMA BeginPollTypes ==
  ASSUME BeginPoll
  PROVE  /\ polling' = TRUE /\ pollTimer' \in Timer(PollMax)
         /\ unread' = FALSE /\ quiet' = 0 /\ losses' = 0 /\ ObserverTypeOK'
<1>1. QuietCap' = QuietCap
  BY DEF QuietCap
<1>2. polling' = TRUE /\ pollTimer' = PollMax /\ unread' = FALSE /\ quiet' = 0 /\ losses' = 0
  BY DEF BeginPoll
<1>3. 0 \in 0..(QuietCap + 1) /\ 0 \in 0..MaxLosses
  BY CapIsNat, LoopAssumption
<1>4. ObserverTypeOK'
  BY <1>1, <1>2, <1>3, Zenon DEF ObserverTypeOK
<1> QED
  BY <1>2, <1>4, LoopAssumption DEF Timer

\* The stream's steps, with the cadence they set.
LEMMA StreamStepIsWired ==
  ASSUME Wiring, StreamUp \/ StreamDown
  PROVE  Wiring'
<1> USE DEF Wiring
<1>1. PokerTypeOK /\ EngineTypeOK /\ ObserverTypeOK
  BY TypeParts
<1>2. PokerWired' /\ UNCHANGED <<pokerOn, debounceTimer>>
  BY <1>1, StreamIsWired DEF PokerWired, StreamUp, StreamDown, OnUp, OnDown, AckExpires
<1>3. /\ UNCHANGED <<engineOn, polling, pollTimer, queuedPoll, quiet, unread>>
      /\ losses' = losses \/ (~polling /\ losses < MaxLosses /\ losses' = losses + 1)
  BY DEF StreamUp, StreamDown, observers
<1>4. EngineTypeOK' /\ CadenceFollowsHealth' /\ IntervalArmed'
  <2>1. CASE StreamUp
    <3>1. SetCadence(PollIdleMs) /\ healthy'
      BY <2>1 DEF StreamUp, OnUp
    <3> QED
      BY <1>1, <1>3, <3>1, SetCadenceArms, LoopAssumption
      DEF EngineTypeOK, CadenceFollowsHealth, IntervalArmed
  <2>2. CASE StreamDown /\ healthy
    <3>1. SetCadence(PollMs) /\ ~healthy'
      BY <2>2 DEF StreamDown, OnDown, AckExpires
    <3> QED
      BY <1>1, <1>3, <3>1, SetCadenceArms, LoopAssumption
      DEF EngineTypeOK, CadenceFollowsHealth, IntervalArmed
  <2>3. CASE StreamDown /\ ~healthy
    <3>1. UNCHANGED <<cadenceMs, interval>> /\ ~healthy'
      BY <2>3 DEF StreamDown, OnDown, AckExpires
    <3> QED
      BY <1>1, <1>3, <2>3, <3>1 DEF EngineTypeOK, CadenceFollowsHealth, IntervalArmed
  <2> QED
    BY <2>1, <2>2, <2>3
<1>5. EventNeverSwallowed' /\ Together'
  BY <1>2, <1>3 DEF EventNeverSwallowed, Together, Running
<1>6. ObserverTypeOK'
  <2>1. losses' \in 0..MaxLosses
    BY <1>1, <1>3, LoopAssumption DEF ObserverTypeOK
  <2>2. QuietCap' = QuietCap
    BY DEF QuietCap
  <2> QED
    BY <1>1, <1>3, <2>1, <2>2 DEF ObserverTypeOK
<1>7. TypeOK'
  BY <1>2, <1>4, <1>6 DEF TypeOK, PokerWired, EngineTypeOK, ObserverTypeOK
<1> QED
  BY <1>2, <1>4, <1>5, <1>7 DEF PokerWired

\* An event, a retry and a fired debounce.
LEMMA PokerStepIsWired ==
  ASSUME Wiring, StreamEvent \/ Retry \/ Poke
  PROVE  Wiring'
<1> USE DEF Wiring
<1>1. PokerTypeOK /\ EngineTypeOK /\ ObserverTypeOK
  BY TypeParts
<1>2. PokerWired' /\ UNCHANGED <<pokerOn, healthy>>
  BY <1>1, StreamIsWired, TimersAreWired
  DEF PokerWired, StreamEvent, Retry, Poke, OnEvent, ReconnectFires, DebounceFires
<1>3. CASE StreamEvent
  <2>1. /\ unread' = TRUE /\ debounceTimer' = Debounce /\ stream # "none"
        /\ UNCHANGED <<engineVars, quiet, losses>>
    BY <1>3 DEF StreamEvent, OnEvent
  <2>2. pokerOn /\ Running(debounceTimer')
    BY <2>1, PokerAssumption DEF OneWayBack, Running, Off
  <2>3. EventNeverSwallowed' /\ Together' /\ CadenceFollowsHealth' /\ IntervalArmed'
    BY <1>2, <2>1, <2>2 DEF EventNeverSwallowed, Together, CadenceFollowsHealth, IntervalArmed,
       engineVars
  <2>4. TypeOK'
    BY <1>1, <1>2, <2>1 DEF TypeOK, PokerWired, EngineTypeOK, ObserverTypeOK, engineVars
  <2> QED
    BY <1>2, <2>3, <2>4 DEF PokerWired
<1>4. CASE Retry
  <2>1. UNCHANGED <<engineVars, quiet, losses, unread, debounceTimer>>
    BY <1>4 DEF Retry, ReconnectFires, observers
  <2>2. EventNeverSwallowed' /\ Together' /\ CadenceFollowsHealth' /\ IntervalArmed'
    BY <1>2, <2>1 DEF EventNeverSwallowed, Together, CadenceFollowsHealth, IntervalArmed,
       engineVars, Running
  <2>3. TypeOK'
    BY <1>1, <1>2, <2>1 DEF TypeOK, PokerWired, EngineTypeOK, ObserverTypeOK, engineVars
  <2> QED
    BY <1>2, <2>2, <2>3 DEF PokerWired
<1>5. CASE Poke
  <2>1. engineOn /\ UNCHANGED <<engineOn, cadenceMs, interval>> /\ PokeNow
    BY <1>5 DEF Poke, DebounceFires, OneWayBack, Together, Running, Off
  <2>2. CASE polling
    <3>1. queuedPoll' = TRUE /\ UNCHANGED <<polling, pollTimer, unread, quiet, losses>>
      BY <1>1, <2>1, <2>2 DEF PokeNow, EngineTypeOK, observers
    <3>2. EventNeverSwallowed' /\ Together' /\ CadenceFollowsHealth' /\ IntervalArmed'
      BY <1>2, <2>1, <2>2, <3>1 DEF EventNeverSwallowed, Together, CadenceFollowsHealth,
         IntervalArmed
    <3>3. TypeOK'
      BY <1>1, <1>2, <2>1, <3>1 DEF TypeOK, PokerWired, EngineTypeOK, ObserverTypeOK
    <3> QED
      BY <1>2, <3>2, <3>3 DEF PokerWired
  <2>3. CASE ~polling
    <3>1. BeginPoll /\ UNCHANGED queuedPoll
      BY <2>1, <2>3 DEF PokeNow
    <3>2. /\ polling' = TRUE /\ pollTimer' \in Timer(PollMax)
          /\ unread' = FALSE /\ quiet' = 0 /\ losses' = 0 /\ ObserverTypeOK'
      BY <3>1, BeginPollTypes
    <3>3. EventNeverSwallowed' /\ Together' /\ CadenceFollowsHealth' /\ IntervalArmed'
      BY <1>2, <2>1, <3>2 DEF EventNeverSwallowed, Together, CadenceFollowsHealth, IntervalArmed
    <3>4. TypeOK'
      BY <1>1, <1>2, <2>1, <3>1, <3>2 DEF TypeOK, PokerWired, EngineTypeOK, ObserverTypeOK
    <3> QED
      BY <1>2, <3>3, <3>4 DEF PokerWired
  <2> QED
    BY <2>2, <2>3
<1> QED
  BY <1>3, <1>4, <1>5

\* The interval's tick and the end of a poll.
LEMMA EngineStepIsWired ==
  ASSUME Wiring, Tick \/ PollSettles
  PROVE  Wiring'
<1> USE DEF Wiring
<1>1. PokerTypeOK /\ EngineTypeOK /\ ObserverTypeOK
  BY TypeParts
<1>2. CASE Tick
  <2>1. /\ interval' = cadenceMs /\ interval = 0
        /\ UNCHANGED <<pokerVars, engineOn, cadenceMs, queuedPoll>>
    BY <1>2 DEF Tick
  <2>2. engineOn => interval' \in 0..cadenceMs
    BY <1>1, <2>1, LoopAssumption DEF EngineTypeOK
  <2>3. interval' \in Nat
    BY <1>1, <2>1, LoopAssumption DEF EngineTypeOK
  <2>4. PokerWired'
    BY <1>1, <2>1 DEF PokerWired, pokerVars, PokerTypeOK, OneWayBack, HealthIsWatched,
       SubscriptionFollowsHerd
  <2>5. CadenceFollowsHealth' /\ IntervalArmed'
    BY <2>1, <2>2 DEF CadenceFollowsHealth, IntervalArmed, pokerVars
  <2>6. CASE polling
    <3>1. UNCHANGED <<polling, pollTimer, unread, quiet, losses>>
      BY <1>2, <2>6 DEF Tick, PollOnTick, observers
    <3>2. EventNeverSwallowed' /\ Together'
      BY <2>1, <3>1 DEF EventNeverSwallowed, Together, pokerVars, Running
    <3>3. TypeOK'
      BY <1>1, <2>1, <2>3, <2>4, <3>1 DEF TypeOK, PokerWired, EngineTypeOK, ObserverTypeOK
    <3> QED
      BY <2>4, <2>5, <3>2, <3>3 DEF PokerWired
  <2>7. CASE ~polling
    <3>1. /\ polling' = TRUE /\ pollTimer' \in Timer(PollMax)
          /\ unread' = FALSE /\ quiet' = 0 /\ losses' = 0 /\ ObserverTypeOK'
      BY <1>2, <2>7, BeginPollTypes DEF Tick, PollOnTick
    <3>2. EventNeverSwallowed' /\ Together'
      BY <2>1, <3>1 DEF EventNeverSwallowed, Together, pokerVars
    <3>3. TypeOK'
      BY <1>1, <2>1, <2>3, <2>4, <3>1 DEF TypeOK, PokerWired, EngineTypeOK, ObserverTypeOK
    <3> QED
      BY <2>4, <2>5, <3>2, <3>3 DEF PokerWired
  <2> QED
    BY <2>6, <2>7
<1>3. CASE PollSettles
  <2>1. queuedPoll' = FALSE /\ UNCHANGED <<engineOn, cadenceMs, interval>>
    BY <1>3 DEF PollSettles
  <2>2. PokerWired' /\ UNCHANGED <<pokerOn, healthy, debounceTimer>>
    <3>1. CASE UNCHANGED pokerVars
      BY <1>1, <3>1 DEF PokerWired, pokerVars, PokerTypeOK, OneWayBack, HealthIsWatched,
         SubscriptionFollowsHerd
    <3>2. ASSUME NEW panes \in PaneSets, engineOn, SetAgentPanes(panes)
          PROVE  PokerWired' /\ UNCHANGED <<pokerOn, healthy, debounceTimer>>
      BY <1>1, <3>2, SetPanesIsWired DEF PokerWired, Together, SetAgentPanes
    <3> QED
      BY <1>3, <3>1, <3>2 DEF PollSettles
  <2>3. CadenceFollowsHealth' /\ IntervalArmed'
    BY <2>1, <2>2 DEF CadenceFollowsHealth, IntervalArmed
  <2>4. CASE queuedPoll /\ engineOn
    <3>1. /\ polling' = TRUE /\ pollTimer' \in Timer(PollMax)
          /\ unread' = FALSE /\ quiet' = 0 /\ losses' = 0 /\ ObserverTypeOK'
      BY <1>3, <2>4, BeginPollTypes DEF PollSettles
    <3>2. EventNeverSwallowed' /\ Together'
      BY <2>1, <2>2, <3>1 DEF EventNeverSwallowed, Together
    <3>3. TypeOK'
      BY <1>1, <2>1, <2>2, <3>1 DEF TypeOK, PokerWired, EngineTypeOK, ObserverTypeOK
    <3> QED
      BY <2>2, <2>3, <3>2, <3>3 DEF PokerWired
  <2>5. CASE ~(queuedPoll /\ engineOn)
    <3>1. /\ polling' = FALSE /\ pollTimer' = Off /\ UNCHANGED <<unread, quiet, losses>>
          /\ pollTimer' \in Timer(PollMax)
      BY <1>3, <2>5 DEF PollSettles, Timer, observers
    <3>2. EventNeverSwallowed' /\ Together'
      BY <1>1, <2>1, <2>2, <2>5, <3>1 DEF EventNeverSwallowed, Together, Running
    <3>3. TypeOK'
      BY <1>1, <2>1, <2>2, <3>1 DEF TypeOK, PokerWired, EngineTypeOK, ObserverTypeOK
    <3> QED
      BY <2>2, <2>3, <3>2, <3>3 DEF PokerWired
  <2> QED
    BY <2>4, <2>5
<1> QED
  BY <1>2, <1>3

\* The end of the session and the passing of time.
LEMMA ClockStepIsWired ==
  ASSUME Wiring, Dispose \/ Elapse
  PROVE  Wiring'
<1> USE DEF Wiring
<1>1. PokerTypeOK /\ EngineTypeOK /\ ObserverTypeOK
  BY TypeParts
<1>2. PokerWired' /\ healthy' = healthy
  BY <1>1, TimersAreWired DEF PokerWired, Dispose, Elapse, PokerStop, PokerElapse
<1>3. CASE Dispose
  <2>1. /\ engineOn' = FALSE /\ interval' = Off /\ unread' = FALSE /\ pokerOn' = FALSE
        /\ UNCHANGED <<cadenceMs, polling, pollTimer, queuedPoll, quiet, losses>>
    BY <1>3 DEF Dispose, PokerStop
  <2>2. EventNeverSwallowed' /\ Together' /\ CadenceFollowsHealth' /\ IntervalArmed'
    BY <2>1 DEF EventNeverSwallowed, Together, CadenceFollowsHealth, IntervalArmed
  <2>3. TypeOK'
    BY <1>1, <1>2, <2>1 DEF TypeOK, PokerWired, EngineTypeOK, ObserverTypeOK
  <2> QED
    BY <1>2, <2>2, <2>3 DEF PokerWired
<1>4. CASE Elapse
  <2>1. /\ interval # 0 /\ pollTimer # 0
        /\ interval' = Aged(interval) /\ pollTimer' = Aged(pollTimer)
        /\ quiet' = IF polling \/ ~engineOn \/ quiet > QuietCap THEN quiet ELSE quiet + 1
        /\ UNCHANGED <<engineOn, cadenceMs, polling, queuedPoll, losses, unread, pokerOn>>
        /\ Running(debounceTimer) => Running(debounceTimer')
    BY <1>1, <1>4, PokerAssumption
    DEF Elapse, Due, PokerElapse, PokerIdle, Aged, Running, Off, PokerTypeOK, Timer
  <2>2. interval' \in {Off} \cup Nat /\ (engineOn => interval' \in 0..cadenceMs)
    BY <1>1, <2>1, LoopAssumption DEF Aged, Off, EngineTypeOK, IntervalArmed
  <2>3. pollTimer' \in Timer(PollMax)
    BY <1>1, <2>1, LoopAssumption DEF Aged, Off, EngineTypeOK, Timer
  <2>4. quiet' \in 0..(QuietCap + 1) /\ (engineOn /\ polling => quiet' = 0)
    BY <1>1, <2>1, CapIsNat DEF ObserverTypeOK, Together
  <2>5. EventNeverSwallowed' /\ Together' /\ CadenceFollowsHealth' /\ IntervalArmed'
    BY <1>2, <2>1, <2>2, <2>4 DEF EventNeverSwallowed, Together, CadenceFollowsHealth,
       IntervalArmed
  <2>6. TypeOK'
    BY <1>1, <1>2, <2>1, <2>2, <2>3, <2>4 DEF TypeOK, PokerWired, EngineTypeOK, ObserverTypeOK
  <2> QED
    BY <1>2, <2>5, <2>6 DEF PokerWired
<1> QED
  BY <1>3, <1>4

\* Every step, or stutter, keeps the loop wired.
LEMMA StepIsWired == Wiring /\ [Next]_vars => Wiring'
<1> SUFFICES ASSUME Wiring, [Next]_vars PROVE Wiring'
  OBVIOUS
<1>1. CASE UNCHANGED vars
  BY <1>1 DEF vars, pokerVars, engineVars, observers, Wiring, TypeOK, PokerTypeOK, OneWayBack,
     HealthIsWatched, SubscriptionFollowsHerd, CadenceFollowsHealth, IntervalArmed,
     EventNeverSwallowed, Together, Running
<1> QED
  BY <1>1, StreamStepIsWired, PokerStepIsWired, EngineStepIsWired, ClockStepIsWired DEF Next

\* The loop stays wired in every behaviour.
THEOREM LoopIsWired == Spec => []Wiring
<1> QED
  BY InitIsWired, StepIsWired, PTL DEF Spec

----------------------------------------------------------------------------
(* The safety net.                                                         *)

\* A fast and a relaxed interval.
Pair == PollMs + PollIdleMs

\* The silence there has been and the silence until the next tick: a lost stream is
\* followed by one fast interval, a stream that comes up by one relaxed interval.
NetBound ==
  engineOn /\ ~polling /\ losses < MaxLosses =>
    quiet + interval <= losses * Pair + (IF healthy THEN Pair ELSE PollMs)

\* What a loss adds to the bound.
LEMMA OnePairMore ==
  ASSUME NEW n \in Nat
  PROVE  n * Pair \in Nat /\ (n + 1) * Pair = n * Pair + Pair
<1>1. \A a, b \in Nat : a * b \in Nat /\ (a + 1) * b = a * b + b
  OBVIOUS
<1>2. Pair \in Nat
  BY LoopAssumption DEF Pair
<1> QED
  BY <1>1, <1>2

\* Types of what the bound adds up.
LEMMA NetTypes ==
  ASSUME Wiring, engineOn
  PROVE  /\ quiet \in Nat /\ losses \in 0..MaxLosses /\ interval \in Nat /\ interval <= cadenceMs
         /\ cadenceMs = (IF healthy THEN PollIdleMs ELSE PollMs)
         /\ polling => quiet = 0 /\ losses = 0
         /\ PollMs \in Nat /\ PollIdleMs \in Nat /\ Pair = PollMs + PollIdleMs
         /\ pokerOn /\ healthy \in BOOLEAN
<1>1. PokerTypeOK /\ EngineTypeOK /\ ObserverTypeOK
  BY TypeParts DEF Wiring
<1>2. interval \in 0..cadenceMs /\ cadenceMs = (IF healthy THEN PollIdleMs ELSE PollMs)
  BY DEF Wiring, IntervalArmed, CadenceFollowsHealth
<1> QED
  BY <1>1, <1>2, LoopAssumption, CapIsNat
  DEF Wiring, Together, PokerTypeOK, EngineTypeOK, ObserverTypeOK, Pair

\* A stream that comes up replaces a fast interval by a relaxed one, a healthy one
\* that is lost the other way round.
LEMMA StreamKeepsBound ==
  ASSUME Wiring, Wiring', NetBound, StreamUp \/ StreamDown
  PROVE  NetBound'
<1> SUFFICES ASSUME engineOn', ~polling', losses' < MaxLosses
             PROVE  quiet' + interval' <= losses' * Pair + (IF healthy' THEN Pair ELSE PollMs)
  BY DEF NetBound, Pair
<1>0. UNCHANGED <<engineOn, polling, quiet>>
  BY DEF StreamUp, StreamDown, observers
<1>1. engineOn /\ ~polling /\ quiet' = quiet
  BY <1>0
<1>2. /\ quiet \in Nat /\ losses \in 0..MaxLosses /\ interval \in Nat /\ interval <= cadenceMs
      /\ cadenceMs = (IF healthy THEN PollIdleMs ELSE PollMs)
      /\ PollMs \in Nat /\ PollIdleMs \in Nat /\ Pair = PollMs + PollIdleMs
      /\ MaxLosses \in Nat
  BY <1>1, NetTypes, LoopAssumption
<1>3. CASE StreamUp
  <2>1. healthy' /\ SetCadence(PollIdleMs) /\ losses' = losses
    BY <1>3 DEF StreamUp, OnUp, observers
  <2>2. interval' = IF PollIdleMs = cadenceMs THEN interval ELSE PollIdleMs
    BY <1>1, <2>1 DEF SetCadence
  <2>3. quiet + interval <= losses * Pair + (IF healthy THEN Pair ELSE PollMs)
    BY <1>1, <2>1 DEF NetBound
  <2>4. losses * Pair \in Nat
    BY <1>2, OnePairMore
  <2> HIDE DEF Pair
  <2> QED
    BY <1>1, <1>2, <2>1, <2>2, <2>3, <2>4
<1>4. CASE StreamDown
  <2>1. /\ ~healthy'
        /\ IF healthy THEN SetCadence(PollMs) ELSE UNCHANGED <<cadenceMs, interval>>
        /\ losses' = IF healthy /\ losses < MaxLosses THEN losses + 1 ELSE losses
    BY <1>1, <1>4 DEF StreamDown, OnDown, AckExpires
  <2>2. losses < MaxLosses
    BY <1>2, <2>1
  <2>3. quiet + interval <= losses * Pair + (IF healthy THEN Pair ELSE PollMs)
    BY <1>1, <2>2 DEF NetBound
  <2>4. CASE ~healthy
    BY <1>1, <2>1, <2>3, <2>4
  <2>5. CASE healthy
    <3>1. interval' = IF PollMs = cadenceMs THEN interval ELSE PollMs
      BY <1>1, <2>1, <2>5 DEF SetCadence
    <3>2. interval' <= PollMs /\ interval' \in Nat
      BY <1>2, <3>1
    <3>3. losses' * Pair = losses * Pair + Pair /\ losses * Pair \in Nat /\ Pair \in Nat
      BY <1>2, <2>1, <2>2, <2>5, OnePairMore
    <3>4. quiet + interval <= losses * Pair + Pair
      BY <2>3, <2>5
    <3>5. \A p, q, i, j \in Nat : q + i <= p + Pair /\ j <= PollMs => q + j <= p + Pair + PollMs
      BY <1>2, <3>3
    <3>6. quiet + interval' <= losses * Pair + Pair + PollMs
      BY <1>2, <3>2, <3>3, <3>4, <3>5
    <3> QED
      BY <1>1, <2>1, <3>3, <3>6
  <2> QED
    BY <2>4, <2>5
<1> QED
  BY <1>3, <1>4

\* Every other step leaves the sum alone, or begins or ends a poll.
LEMMA StepKeepsBound ==
  ASSUME Wiring, Wiring', NetBound, [Next]_vars
  PROVE  NetBound'
<1> SUFFICES ASSUME engineOn', ~polling', losses' < MaxLosses PROVE NetBound'
  BY DEF NetBound
<1>1. CASE StreamUp \/ StreamDown
  BY <1>1, StreamKeepsBound
<1>2. CASE StreamEvent \/ Retry \/ UNCHANGED vars
  <2>1. UNCHANGED <<engineOn, polling, interval, healthy, quiet, losses>>
    BY <1>2 DEF StreamEvent, OnEvent, Retry, ReconnectFires, vars, pokerVars, engineVars, observers
  <2> QED
    BY <2>1 DEF NetBound, Pair
<1>3. CASE Poke \/ Tick
  <2>1. polling' \/ ~engineOn'
    BY <1>3 DEF Poke, PokeNow, BeginPoll, Tick, PollOnTick
  <2> QED
    BY <2>1
<1>4. CASE PollSettles
  <2>1. engineOn /\ polling /\ UNCHANGED <<engineOn, cadenceMs, interval, quiet, losses, healthy>>
    BY <1>4 DEF PollSettles, BeginPoll, SetAgentPanes, pokerVars, observers
  <2>2. /\ quiet = 0 /\ losses = 0 /\ interval \in Nat /\ interval <= cadenceMs
        /\ cadenceMs = (IF healthy THEN PollIdleMs ELSE PollMs)
        /\ PollMs \in Nat /\ PollIdleMs \in Nat /\ Pair = PollMs + PollIdleMs
    BY <2>1, NetTypes
  <2>3. 0 * Pair = 0
    BY <2>2
  <2>4. quiet' + interval' <= losses' * Pair + (IF healthy' THEN Pair ELSE PollMs)
    BY <2>1, <2>2, <2>3
  <2> QED
    BY <2>4 DEF NetBound, Pair
<1>5. CASE Dispose
  BY <1>5 DEF Dispose
<1>6. CASE Elapse
  <2>1. /\ engineOn /\ ~polling /\ UNCHANGED <<healthy, losses>>
        /\ interval # 0 /\ interval' = Aged(interval)
        /\ quiet' = IF quiet > QuietCap THEN quiet ELSE quiet + 1
    BY <1>6 DEF Elapse, Due, PokerElapse
  <2>2. quiet \in Nat /\ interval \in Nat /\ losses \in Nat /\ QuietCap \in Nat
    BY <2>1, NetTypes, LoopAssumption, CapIsNat
  <2>3. quiet' + interval' <= quiet + interval /\ quiet' + interval' \in Nat
    BY <2>1, <2>2 DEF Aged, Off
  <2>4. quiet + interval <= losses * Pair + (IF healthy THEN Pair ELSE PollMs)
    BY <2>1 DEF NetBound
  <2> DEFINE bound == losses * Pair + (IF healthy THEN Pair ELSE PollMs)
  <2>5. bound \in Nat
    BY <2>2, OnePairMore, LoopAssumption DEF Pair
  <2> HIDE DEF bound
  <2>6. quiet' + interval' <= bound
    BY <2>2, <2>3, <2>4, <2>5 DEF bound
  <2> QED
    BY <2>1, <2>6 DEF NetBound, Pair, bound
<1> QED
  BY <1>1, <1>2, <1>3, <1>4, <1>5, <1>6 DEF Next

\* For every choice of delays: a poll is never further away than one relaxed and
\* one fast interval for each time the stream comes up or is lost before it.
THEOREM LoopNetPerLoss == Spec => []NetPerLoss
<1>1. Init => NetBound
  BY DEF Init, NetBound
<1>2. Wiring /\ Wiring' /\ NetBound /\ [Next]_vars => NetBound'
  BY StepKeepsBound
<1>3. Wiring /\ NetBound => NetPerLoss
  <2> SUFFICES ASSUME Wiring, NetBound, engineOn, losses < MaxLosses
               PROVE  quiet <= losses * Pair + (IF healthy THEN Pair ELSE PollMs)
    BY DEF NetPerLoss, Pair
  <2>1. /\ quiet \in Nat /\ losses \in Nat /\ interval \in Nat /\ (polling => quiet = 0)
        /\ PollMs \in Nat /\ Pair \in Nat
    BY NetTypes, LoopAssumption
  <2>2. losses * Pair \in Nat
    BY <2>1, OnePairMore
  <2>3. ~polling => quiet + interval <= losses * Pair + (IF healthy THEN Pair ELSE PollMs)
    BY DEF NetBound
  <2> QED
    BY <2>1, <2>2, <2>3
<1> QED
  BY <1>1, <1>2, <1>3, LoopIsWired, PTL DEF Spec

----------------------------------------------------------------------------
(* The results about the wiring.                                           *)

\* Every variable stays in its type.
THEOREM LoopTypeCorrect == Spec => []TypeOK
<1>1. Wiring => TypeOK
  BY DEF Wiring
<1> QED
  BY <1>1, LoopIsWired, PTL

\* The poker holds one stream or waits for its retry, watches every stream it
\* has not heard from, and is subscribed to the panes it was last told of.
THEOREM PokerIsWired == Spec => [](StreamSupervised /\ SubscriptionFollowsHerd)
<1>1. Wiring => StreamSupervised /\ SubscriptionFollowsHerd
  BY DEF Wiring, StreamSupervised
<1> QED
  BY <1>1, LoopIsWired, PTL

\* An event that reached the poker is never swallowed.
THEOREM NoEventSwallowed == Spec => []EventNeverSwallowed
<1>1. Wiring => EventNeverSwallowed
  BY DEF Wiring
<1> QED
  BY <1>1, LoopIsWired, PTL

\* The interval is armed for the cadence the stream's health calls for.
THEOREM CadenceIsRight == Spec => [](CadenceFollowsHealth /\ IntervalArmed)
<1>1. Wiring => CadenceFollowsHealth /\ IntervalArmed
  BY DEF Wiring
<1> QED
  BY <1>1, LoopIsWired, PTL

----------------------------------------------------------------------------
(* The limiter of the git inspections.                                     *)

Call == Inspections!Call

Commands ==
  {"root", "probe", "context", "ls-files", "status", "attributes", "numstat", "head", "both",
   "untracked", "recontext", "diff", "loose", "unborn", "summary", "index", "submodule"}

\* A request at these steps has no command under way.
Bare == {"idle", "look", "open", "read"}

CallType ==
  [phase: {"none", "queued", "granted", "running"}, filter: BOOLEAN, code: Nat]

RequestType ==
  [op: Op \cup {"list"}, step: Commands \cup Bare \cup {"over"}, left: 0..MaxRounds,
   label: {"none", "untracked", "added", "added, deleted", "other"}, status: Nat,
   seen: File \cup {Absent}, open: File \cup {Absent}]

GitType ==
  [active: Nat, queue: Seq(Call), call: [Call -> CallType], req: [Request -> RequestType]]

\* The commands that have a slot.
Holders(w) == {c \in Call : w.call[c].phase \in {"granted", "running"}}

\* The queue holds waiting commands, each once.
QueueWaits(w) ==
  /\ \A i \in 1..Len(w.queue) : w.call[w.queue[i]].phase = "queued"
  /\ \A i, j \in 1..Len(w.queue) : w.queue[i] = w.queue[j] => i = j
  /\ Len(w.queue) <= MaxQueued

\* The count of the slots is right, within the limit, and none is free while a call waits.
SlotsCounted(w) ==
  /\ IsFiniteSet(Holders(w)) /\ w.active = Cardinality(Holders(w))
  /\ w.active <= MaxActive
  /\ w.queue # <<>> => w.active = MaxActive

\* The limiter and its calls are in order, whatever the requests do.
Good(w) == w \in GitType /\ QueueWaits(w) /\ SlotsCounted(w)

\* Command k of a request may be under way: the second only beside the first, or when
\* the first has failed the request already.
MayRun(q, k) == IF k = 1 THEN q.step \notin Bare ELSE q.step \in {"both", "over"}

CallsFollowSteps(w) == \A c \in Call : w.call[c].phase # "none" => MayRun(w.req[c[1]], c[2])

GitInv == Good(git) /\ CallsFollowSteps(git)

\* From w to v nothing starts but command c, and a request is at most failed.
NoneButStarts(w, v, c) ==
  /\ \A d \in Call \ {c} : w.call[d].phase = "none" => v.call[d].phase = "none"
  /\ \A r \in Request : v.req[r] = w.req[r] \/ v.req[r].step = "over"

\* A call that changes its phase is a call.
LEMMA PhaseTyped ==
  ASSUME NEW m \in [Call -> CallType], NEW c \in Call,
         NEW p \in {"none", "queued", "granted", "running"}
  PROVE  /\ [m EXCEPT ![c].phase = p] \in [Call -> CallType]
         /\ [m EXCEPT ![c].phase = p][c].phase = p
         /\ [m EXCEPT ![c].phase = p][c].filter = m[c].filter
         /\ \A d \in Call \ {c} : [m EXCEPT ![c].phase = p][d] = m[d]
<1>1. m[c] \in CallType
  OBVIOUS
<1>2. /\ [m[c] EXCEPT !.phase = p] \in CallType /\ [m[c] EXCEPT !.phase = p].phase = p
      /\ [m[c] EXCEPT !.phase = p].filter = m[c].filter
  BY <1>1 DEF CallType
<1> QED BY <1>2

\* An answered request is over, and nothing else of the limiter changes.
LEMMA AnsweredKeeps ==
  ASSUME NEW w, Good(w), NEW r \in Request, NEW n \in Nat
  PROVE  /\ Good(Inspections!Answered(w, r, n))
         /\ \A c : NoneButStarts(w, Inspections!Answered(w, r, n), c)
         /\ Inspections!Answered(w, r, n).call = w.call
<1> DEFINE v == Inspections!Answered(w, r, n)
<1>1. w \in GitType
  BY DEF Good
<1>2. /\ v.active = w.active /\ v.queue = w.queue /\ v.call = w.call
      /\ \A s \in Request : v.req[s] = w.req[s] \/ v.req[s].step = "over"
      /\ v \in GitType
  <2>1. CASE w.req[r].step = "over"
    BY <1>1, <2>1 DEF Inspections!Answered, Inspections!Over
  <2>2. CASE w.req[r].step # "over"
    <3> DEFINE q == [w.req[r] EXCEPT !.step = "over", !.status = n]
    <3>1. w.req[r] \in RequestType
      BY <1>1 DEF GitType
    <3>2. q \in RequestType /\ q.step = "over"
      BY <3>1 DEF RequestType
    <3>3. v = [w EXCEPT !.req[r] = q]
      BY <2>2 DEF Inspections!Answered, Inspections!Over
    <3> HIDE DEF q, v
    <3> QED BY <1>1, <3>2, <3>3 DEF GitType
  <2> QED BY <2>1, <2>2
<1> HIDE DEF v
<1>3. QueueWaits(v) /\ SlotsCounted(v)
  BY <1>2 DEF Good, QueueWaits, SlotsCounted, Holders
<1>4. \A c : NoneButStarts(w, v, c)
  BY <1>2 DEF NoneButStarts
<1> QED BY <1>2, <1>3, <1>4 DEF Good, v

\* A command that is not under way takes a slot, waits for one, or is refused.
LEMMA AcquireKeeps ==
  ASSUME NEW w, Good(w), NEW c \in Call, w.call[c].phase = "none"
  PROVE  Good(Inspections!Acquire(w, c)) /\ NoneButStarts(w, Inspections!Acquire(w, c), c)
<1> USE InspectionsAssumption
<1>1. w \in GitType /\ QueueWaits(w) /\ SlotsCounted(w)
  BY DEF Good
<1>2. c[1] \in Request
  BY DEF Call, Inspections!Call
<1>3. CASE w.active < MaxActive
  <2> DEFINE v == [w EXCEPT !.active = @ + 1, !.call[c].phase = "granted"]
  <2>1. /\ v \in GitType /\ v.active = w.active + 1 /\ v.queue = w.queue /\ v.req = w.req
        /\ v.call[c].phase = "granted" /\ \A d \in Call \ {c} : v.call[d] = w.call[d]
    <3>1. /\ w.call \in [Call -> CallType] /\ w.active \in Nat /\ w.queue \in Seq(Call)
          /\ w.req \in [Request -> RequestType]
      BY <1>1 DEF GitType
    <3> DEFINE m == [w.call EXCEPT ![c].phase = "granted"]
    <3>2. /\ m \in [Call -> CallType] /\ m[c].phase = "granted"
          /\ \A d \in Call \ {c} : m[d] = w.call[d]
      BY <3>1, PhaseTyped
    <3>3. v = [w EXCEPT !.active = w.active + 1, !.call = m]
      OBVIOUS
    <3>4. w.active + 1 \in Nat
      BY <3>1
    <3> HIDE DEF m, v
    <3>5. v \in GitType /\ v.call = m /\ v.active = w.active + 1 /\ v.queue = w.queue /\ v.req = w.req
      BY <1>1, <3>2, <3>3, <3>4 DEF GitType
    <3> QED BY <3>2, <3>5
  <2>2. Inspections!Acquire(w, c) = v
    BY <1>3 DEF Inspections!Acquire
  <2> HIDE DEF v
  <2>3. Holders(v) = Holders(w) \cup {c} /\ c \notin Holders(w)
    BY <2>1 DEF Holders
  <2>4. IsFiniteSet(Holders(v)) /\ Cardinality(Holders(v)) = Cardinality(Holders(w)) + 1
    BY <1>1, <2>3, FS_AddElement DEF SlotsCounted
  <2>5. w.active \in Nat
    BY <1>1 DEF GitType
  <2>6. SlotsCounted(v)
    BY <1>1, <1>3, <2>1, <2>4, <2>5 DEF SlotsCounted
  <2>7. QueueWaits(v)
    <3>1. \A i \in 1..Len(w.queue) : w.queue[i] \in Call /\ w.queue[i] # c
      BY <1>1 DEF QueueWaits, GitType
    <3> QED BY <1>1, <2>1, <3>1 DEF QueueWaits
  <2> QED BY <2>1, <2>2, <2>6, <2>7 DEF Good, NoneButStarts
<1>4. CASE ~(w.active < MaxActive) /\ Len(w.queue) < MaxQueued
  <2> DEFINE v == [w EXCEPT !.queue = Append(@, c), !.call[c].phase = "queued"]
  <2>1. /\ v \in GitType /\ v.active = w.active /\ v.queue = Append(w.queue, c) /\ v.req = w.req
        /\ v.call[c].phase = "queued" /\ \A d \in Call \ {c} : v.call[d] = w.call[d]
    <3>1. /\ w.call \in [Call -> CallType] /\ w.active \in Nat /\ w.queue \in Seq(Call)
          /\ w.req \in [Request -> RequestType]
      BY <1>1 DEF GitType
    <3> DEFINE m == [w.call EXCEPT ![c].phase = "queued"]
    <3>2. /\ m \in [Call -> CallType] /\ m[c].phase = "queued"
          /\ \A d \in Call \ {c} : m[d] = w.call[d]
      BY <3>1, PhaseTyped
    <3>3. v = [w EXCEPT !.queue = Append(w.queue, c), !.call = m] /\ Append(w.queue, c) \in Seq(Call)
      BY <3>1
    <3> HIDE DEF m, v
    <3> QED BY <1>1, <3>1, <3>2, <3>3 DEF GitType
  <2>2. Inspections!Acquire(w, c) = v
    BY <1>4 DEF Inspections!Acquire
  <2> HIDE DEF v
  <2>3. Holders(v) = Holders(w)
    BY <2>1 DEF Holders
  <2>4. w.active \in Nat /\ w.queue \in Seq(Call)
    BY <1>1 DEF GitType
  <2>5. SlotsCounted(v)
    BY <1>1, <1>4, <2>1, <2>3, <2>4 DEF SlotsCounted
  <2>6. QueueWaits(v)
    <3>1. \A i \in 1..Len(w.queue) : w.queue[i] \in Call /\ w.queue[i] # c
      BY <1>1 DEF QueueWaits, GitType
    <3>2. /\ Len(v.queue) = Len(w.queue) + 1 /\ v.queue[Len(w.queue) + 1] = c
          /\ \A i \in 1..Len(w.queue) : v.queue[i] = w.queue[i]
      BY <2>1, <2>4
    <3>3. \A i \in 1..Len(v.queue) : v.call[v.queue[i]].phase = "queued"
      BY <1>1, <2>1, <2>4, <3>1, <3>2 DEF QueueWaits
    <3>4. \A i, j \in 1..Len(v.queue) : v.queue[i] = v.queue[j] => i = j
      BY SMTT(30), <1>1, <2>4, <3>1, <3>2 DEF QueueWaits
    <3> QED BY <1>4, <2>4, <3>2, <3>3, <3>4 DEF QueueWaits
  <2> QED BY <2>1, <2>2, <2>5, <2>6 DEF Good, NoneButStarts
<1>5. CASE ~(w.active < MaxActive) /\ ~(Len(w.queue) < MaxQueued)
  <2> DEFINE v == [w EXCEPT !.call[c].phase = "none"]
  <2>1. v = w
    BY <1>1 DEF GitType, CallType
  <2>2. Inspections!Acquire(w, c) = Inspections!Answered(w, c[1], 429)
    BY <1>5, <2>1 DEF Inspections!Acquire
  <2> QED BY <1>2, <2>2, AnsweredKeeps
<1> QED BY <1>3, <1>4, <1>5

\* runGit of a command that is not under way.
LEMMA RunGitKeeps ==
  ASSUME NEW w, Good(w), NEW c \in Call, w.call[c].phase = "none"
  PROVE  Good(Inspections!RunGit(w, c)) /\ NoneButStarts(w, Inspections!RunGit(w, c), c)
<1> DEFINE v == [w EXCEPT !.call[c] = [phase |-> "none", filter |-> TRUE, code |-> 0]]
<1>1. w \in GitType /\ QueueWaits(w) /\ SlotsCounted(w)
  BY DEF Good
<1>2. /\ v \in GitType /\ v.active = w.active /\ v.queue = w.queue /\ v.req = w.req
      /\ v.call[c].phase = "none" /\ \A d \in Call \ {c} : v.call[d] = w.call[d]
  BY <1>1 DEF GitType, CallType
<1>3. Inspections!RunGit(w, c) = Inspections!Acquire(v, c)
  BY DEF Inspections!RunGit
<1> HIDE DEF v
<1>4. Holders(v) = Holders(w)
  BY <1>2 DEF Holders
<1>5. QueueWaits(v)
  <2>1. \A i \in 1..Len(w.queue) : w.queue[i] \in Call /\ w.queue[i] # c
    BY <1>1 DEF QueueWaits, GitType
  <2> QED BY <1>1, <1>2, <2>1 DEF QueueWaits
<1>6. Good(v)
  BY <1>1, <1>2, <1>4, <1>5 DEF Good, SlotsCounted
<1> QED BY <1>2, <1>3, <1>6, AcquireKeeps DEF NoneButStarts

\* A command with a slot gives it to the first that waits, or frees it.
LEMMA ReleaseKeeps ==
  ASSUME NEW w, Good(w), NEW c \in Holders(w)
  PROVE  /\ Good(Inspections!Release(w, c)) /\ NoneButStarts(w, Inspections!Release(w, c), c)
         /\ Inspections!Release(w, c).call[c].phase = "none"
         /\ Inspections!Release(w, c).call[c].filter = w.call[c].filter
         /\ Inspections!Release(w, c).req = w.req
<1>1. w \in GitType /\ QueueWaits(w) /\ SlotsCounted(w)
  BY DEF Good
<1>2. c \in Call /\ w.call[c].phase \in {"granted", "running"}
  BY DEF Holders
<1>3. w.active \in Nat /\ w.queue \in Seq(Call) /\ Cardinality(Holders(w)) \in Nat
  BY <1>1, FS_CardinalityType DEF GitType, SlotsCounted
<1>4. /\ IsFiniteSet(Holders(w) \ {c})
      /\ Cardinality(Holders(w) \ {c}) = w.active - 1
  BY <1>1, FS_RemoveElement DEF SlotsCounted
<1>5. w.active - 1 \in Nat
  BY <1>4, FS_CardinalityType
<1>6. CASE w.queue = <<>>
  <2> DEFINE v == [[w EXCEPT !.call[c].phase = "none"] EXCEPT !.active = @ - 1]
  <2>1. /\ v \in GitType /\ v.active = w.active - 1 /\ v.queue = <<>> /\ v.req = w.req
        /\ v.call[c].phase = "none" /\ v.call[c].filter = w.call[c].filter
        /\ \A d \in Call \ {c} : v.call[d] = w.call[d]
    BY <1>1, <1>2, <1>5, <1>6 DEF GitType, CallType
  <2>2. Inspections!Release(w, c) = v
    BY <1>6 DEF Inspections!Release
  <2> HIDE DEF v
  <2>3. Holders(v) = Holders(w) \ {c}
    BY <2>1 DEF Holders
  <2>4. SlotsCounted(v)
    BY <1>1, <1>3, <1>4, <2>1, <2>3, InspectionsAssumption DEF SlotsCounted
  <2>5. QueueWaits(v)
    BY <2>1, InspectionsAssumption DEF QueueWaits
  <2> QED BY <2>1, <2>2, <2>4, <2>5 DEF Good, NoneButStarts
<1>7. CASE w.queue # <<>>
  <2> DEFINE h == Head(w.queue)
             f == [w EXCEPT !.call[c].phase = "none"]
             v == [f EXCEPT !.queue = Tail(@), !.call[h].phase = "granted"]
  <2>1. /\ h \in Call /\ h = w.queue[1] /\ Tail(w.queue) \in Seq(Call)
        /\ Len(Tail(w.queue)) = Len(w.queue) - 1 /\ Len(w.queue) \in Nat \ {0}
        /\ \A i \in 1..Len(Tail(w.queue)) : Tail(w.queue)[i] = w.queue[i + 1]
    BY <1>3, <1>7
  <2>2. w.call[h].phase = "queued" /\ h # c
    BY <1>1, <1>2, <2>1 DEF QueueWaits
  <2> HIDE DEF h
  <2>3. /\ f \in GitType /\ f.active = w.active /\ f.queue = w.queue /\ f.req = w.req
        /\ f.call[c].phase = "none" /\ f.call[c].filter = w.call[c].filter
        /\ \A d \in Call \ {c} : f.call[d] = w.call[d]
    BY <1>1, <1>2 DEF GitType, CallType
  <2> HIDE DEF f
  <2>4. /\ v \in GitType /\ v.active = w.active /\ v.queue = Tail(w.queue) /\ v.req = w.req
        /\ v.call[c] = f.call[c] /\ v.call[h].phase = "granted"
        /\ \A d \in Call \ {c, h} : v.call[d] = w.call[d]
    <3>1. /\ f.call \in [Call -> CallType] /\ f.active \in Nat /\ f.req \in [Request -> RequestType]
      BY <2>3 DEF GitType
    <3> DEFINE m == [f.call EXCEPT ![h].phase = "granted"]
    <3>2. /\ m \in [Call -> CallType] /\ m[h].phase = "granted"
          /\ \A d \in Call \ {h} : m[d] = f.call[d]
      <4>1. h \in Call
        BY <2>1
      <4> QED BY ZenonT(60), <3>1, <4>1, PhaseTyped
    <3>3. v = [f EXCEPT !.queue = Tail(f.queue), !.call = m]
      OBVIOUS
    <3> HIDE DEF m, v
    <3> QED BY <1>2, <2>1, <2>2, <2>3, <3>1, <3>2, <3>3 DEF GitType
  <2>5. Inspections!Release(w, c) = v
    BY <1>7 DEF Inspections!Release, f, h
  <2> HIDE DEF v
  <2>6. Holders(v) = (Holders(w) \ {c}) \cup {h} /\ h \notin Holders(w) \ {c}
    BY <1>2, <2>1, <2>2, <2>3, <2>4 DEF Holders
  <2>7. IsFiniteSet(Holders(v)) /\ Cardinality(Holders(v)) = (w.active - 1) + 1
    BY SMTT(30), <1>4, <2>6, FS_AddElement
  <2>8. SlotsCounted(v)
    BY <1>1, <1>3, <1>7, <2>4, <2>7 DEF SlotsCounted
  <2>9. QueueWaits(v)
    <3>1. \A i \in 1..Len(w.queue) : w.queue[i] \in Call /\ w.queue[i] # c
      BY <1>1, <1>2 DEF QueueWaits, GitType
    <3>2. /\ Len(v.queue) = Len(w.queue) - 1
          /\ \A i \in 1..Len(v.queue) : v.queue[i] = w.queue[i + 1] /\ i + 1 \in 1..Len(w.queue)
      BY <2>1, <2>4
    <3>3. \A i \in 1..Len(v.queue) : v.queue[i] \in Call \ {c, h}
      BY <1>1, <2>1, <3>1, <3>2 DEF QueueWaits
    <3>4. \A i \in 1..Len(v.queue) : v.call[v.queue[i]].phase = "queued"
      BY <1>1, <2>4, <3>2, <3>3 DEF QueueWaits
    <3>5. \A i, j \in 1..Len(v.queue) : v.queue[i] = v.queue[j] => i = j
      <4> SUFFICES ASSUME NEW i \in 1..Len(v.queue), NEW j \in 1..Len(v.queue), v.queue[i] = v.queue[j]
                   PROVE  i = j
        OBVIOUS
      <4>1. /\ i + 1 \in 1..Len(w.queue) /\ j + 1 \in 1..Len(w.queue)
            /\ w.queue[i + 1] = w.queue[j + 1]
        BY <3>2
      <4>2. i + 1 = j + 1
        BY <1>1, <4>1 DEF QueueWaits
      <4> QED BY <4>2
    <3>6. Len(v.queue) <= MaxQueued
      BY <1>1, <2>1, <3>2, InspectionsAssumption DEF QueueWaits
    <3> QED BY <3>4, <3>5, <3>6 DEF QueueWaits
  <2>10. NoneButStarts(w, v, c)
    BY <2>2, <2>4 DEF NoneButStarts
  <2> QED BY <2>3, <2>4, <2>5, <2>8, <2>9, <2>10 DEF Good
<1> QED BY <1>6, <1>7

\* A step that starts only a command that may run keeps the calls in line with the steps.
LEMMA CallsStayInLine ==
  ASSUME NEW w, NEW v, NEW c \in Call, CallsFollowSteps(w), NoneButStarts(w, v, c),
         MayRun(w.req[c[1]], c[2]) \/ v.call[c].phase = "none"
  PROVE  CallsFollowSteps(v)
<1> SUFFICES ASSUME NEW d \in Call, v.call[d].phase # "none" PROVE MayRun(v.req[d[1]], d[2])
  BY DEF CallsFollowSteps
<1>1. d[1] \in Request
  BY DEF Call, Inspections!Call
<1>2. CASE v.req[d[1]].step = "over"
  BY <1>2 DEF MayRun, Bare
<1>3. CASE v.req[d[1]] = w.req[d[1]]
  <2>1. MayRun(w.req[d[1]], d[2])
    <3>1. CASE d = c
      BY <3>1
    <3>2. CASE d # c
      BY <3>2 DEF NoneButStarts, CallsFollowSteps
    <3> QED BY <3>1, <3>2
  <2> QED BY <1>3, <2>1
<1> QED BY <1>1, <1>2, <1>3 DEF NoneButStarts

\* What may follow a command is a command, a look at the file, or the answer.
Moved == {q \in RequestType : q.step \in Commands \cup {"look", "over"}}

LEMMA AfterMoves ==
  ASSUME NEW q \in RequestType, q.step \in Commands, NEW code, NEW p \in Inspections!After(q, code)
  PROVE  p \in Moved
<1> USE InspectionsAssumption
<1>0. q.step \in Commands /\ q.left \in 0..MaxRounds
  BY DEF RequestType
<1>b. ASSUME NEW s \in Commands \cup {"look", "over"} PROVE [q EXCEPT !.step = s] \in Moved
  <2>1. [q EXCEPT !.step = s].step = s /\ s \in Commands \cup Bare \cup {"over"}
    BY DEF RequestType, Bare
  <2>2. [q EXCEPT !.step = s] \in RequestType
    BY <2>1 DEF RequestType
  <2> QED BY <2>1, <2>2 DEF Moved
<1>1. \A n \in Nat : Inspections!Say(q, n) \in Moved
  BY DEF Moved, RequestType, Inspections!Say
<1>2. \A s \in Commands \cup {"look"} : Inspections!Go(q, s) \in Moved
  BY <1>b DEF Inspections!Go
<1>3. ASSUME NEW s \in Commands PROVE Inspections!Again(q, s) \subseteq Moved
  <2>1. CASE q.left > 0
    <3> DEFINE p1 == [q EXCEPT !.step = s]
    <3>1. p1 \in Moved /\ p1.left = q.left
      BY <1>b DEF RequestType
    <3>2. [q EXCEPT !.step = s, !.left = @ - 1] = [p1 EXCEPT !.left = q.left - 1]
      BY DEF RequestType
    <3> HIDE DEF p1
    <3>3. q.left - 1 \in 0..MaxRounds
      BY <1>0, <2>1
    <3>4. [p1 EXCEPT !.left = q.left - 1] \in Moved
      BY <3>1, <3>3 DEF Moved, RequestType
    <3> QED BY <2>1, <3>2, <3>4 DEF Inspections!Again
  <2>2. CASE ~(q.left > 0)
    BY <2>2 DEF Inspections!Again
  <2> QED BY <2>1, <2>2
<1>4. ASSUME NEW s \in Commands, NEW l \in {"untracked", "added", "added, deleted", "other"}
      PROVE  [Inspections!Go(q, s) EXCEPT !.label = l] \in Moved
  BY <1>2 DEF Moved, RequestType
<1>5. Inspections!Listed(q) \subseteq Moved
  BY <1>1, <1>2 DEF Inspections!Listed
<1>6. Inspections!Counted(q) \subseteq Moved
  <2>1. "loose" \in Commands /\ "recontext" \in Commands /\ "untracked" \in Commands
    BY DEF Commands
  <2>2. [Inspections!Go(q, "loose") EXCEPT !.label = "untracked"] \in Moved
    BY <1>4, <2>1
  <2>3. \A l \in {"added", "added, deleted", "other"} :
          [Inspections!Go(q, "recontext") EXCEPT !.label = l] \in Moved
    BY <1>4, <2>1
  <2>4. Inspections!Say(q, 200) \in Moved /\ Inspections!Say(q, 404) \in Moved
    BY <1>1
  <2> HIDE <1>1, <1>2
  <2> QED BY ZenonT(60), <2>2, <2>3, <2>4 DEF Inspections!Counted
<1>7. Inspections!NewFiles(q) \subseteq Moved
  BY <1>1, <1>2, <1>6 DEF Inspections!NewFiles, Commands
<1>8. Inspections!Submodules(q) \subseteq Moved
  BY <1>1, <1>3 DEF Inspections!Submodules, Commands
<1>a. /\ "probe" \in Commands /\ "root" \in Commands /\ "context" \in Commands
      /\ "ls-files" \in Commands /\ "summary" \in Commands /\ "status" \in Commands
      /\ "attributes" \in Commands /\ "numstat" \in Commands /\ "head" \in Commands
      /\ "both" \in Commands /\ "untracked" \in Commands /\ "diff" \in Commands
      /\ "loose" \in Commands /\ "unborn" \in Commands /\ "index" \in Commands
      /\ "submodule" \in Commands
  BY DEF Commands
<1> USE <1>1, <1>2, <1>3, <1>a
<1>9. Inspections!AfterRoot(q, code) \subseteq Moved
  BY DEF Inspections!AfterRoot
<1>10. Inspections!AfterProbe(q, code) \subseteq Moved
  BY <1>5 DEF Inspections!AfterProbe
<1>11. Inspections!AfterContext(q, code) \subseteq Moved
  BY <1>5 DEF Inspections!AfterContext
<1>12. Inspections!AfterListing(q, code) \subseteq Moved
  BY <1>5 DEF Inspections!AfterListing
<1>13. Inspections!AfterStatus(q, code) \subseteq Moved
  BY DEF Inspections!AfterStatus
<1>14. Inspections!AfterAttributes(q, code) \subseteq Moved
  BY DEF Inspections!AfterAttributes
<1>15. Inspections!AfterNumstat(q, code) \subseteq Moved
  BY <1>7 DEF Inspections!AfterNumstat
<1>16. Inspections!AfterHead(q, code) \subseteq Moved
  BY <1>7 DEF Inspections!AfterHead
<1>17. Inspections!AfterBoth(q, code) \subseteq Moved
  BY <1>7 DEF Inspections!AfterBoth
<1>18. Inspections!AfterUntracked(q, code) \subseteq Moved
  BY <1>6 DEF Inspections!AfterUntracked
<1>19. Inspections!AfterRecontext(q, code) \subseteq Moved
  BY DEF Inspections!AfterRecontext
<1>20. Inspections!AfterDiff(q, code) \subseteq Moved
  <2>1. /\ Inspections!Say(q, 200) \in Moved /\ Inspections!Say(q, 500) \in Moved
        /\ Inspections!Go(q, "loose") \in Moved /\ Inspections!Go(q, "unborn") \in Moved
    OBVIOUS
  <2>2. Inspections!AfterDiff(q, code) \subseteq
          {Inspections!Say(q, 200), Inspections!Say(q, 500), Inspections!Go(q, "loose"), Inspections!Go(q, "unborn")}
    BY ZenonT(40) DEF Inspections!AfterDiff
  <2> QED BY <2>1, <2>2
<1>21. Inspections!AfterLoose(q, code) \subseteq Moved
  BY DEF Inspections!AfterLoose
<1>22. Inspections!AfterUnborn(q, code) \subseteq Moved
  BY DEF Inspections!AfterUnborn
<1>23. Inspections!AfterSummary(q, code) \subseteq Moved
  BY DEF Inspections!AfterSummary
<1>24. Inspections!AfterIndex(q, code) \subseteq Moved
  BY <1>8 DEF Inspections!AfterIndex
<1>25. Inspections!AfterSubmodule(q, code) \subseteq Moved
  BY <1>8 DEF Inspections!AfterSubmodule
<1> QED
  BY <1>9, <1>10, <1>11, <1>12, <1>13, <1>14, <1>15, <1>16, <1>17, <1>18, <1>19, <1>20, <1>21,
     <1>22, <1>23, <1>24, <1>25 DEF Commands, Inspections!After

\* A request without a command under way goes on with the commands of its next step.
LEMMA ProceedKeeps ==
  ASSUME NEW w, Good(w), CallsFollowSteps(w), NEW r \in Request, NEW q \in Moved,
         w.call[<<r, 1>>].phase = "none", w.call[<<r, 2>>].phase = "none"
  PROVE  Good(Inspections!Proceed(w, r, q)) /\ CallsFollowSteps(Inspections!Proceed(w, r, q))
<1> DEFINE on == [w EXCEPT !.req[r] = q]
           one == <<r, 1>>
           two == <<r, 2>>
           v == Inspections!RunGit(on, one)
<1>1. one \in Call /\ two \in Call /\ one # two /\ one[1] = r /\ one[2] = 1 /\ two[1] = r /\ two[2] = 2
  BY DEF Call, Inspections!Call
<1>2. /\ on \in GitType /\ on.active = w.active /\ on.queue = w.queue /\ on.call = w.call
      /\ on.req[r] = q /\ \A s \in Request \ {r} : on.req[s] = w.req[s]
  BY DEF Good, GitType, Moved
<1>3. Inspections!Proceed(w, r, q)
        = IF q.step \in {"over", "look"} THEN on
          ELSE IF q.step = "both" THEN Inspections!RunGit(v, two) ELSE v
  BY DEF Inspections!Proceed
<1> HIDE DEF on
<1>4. Good(on)
  BY <1>2 DEF Good, QueueWaits, SlotsCounted, Holders
<1>5. CallsFollowSteps(on)
  <2> SUFFICES ASSUME NEW d \in Call, on.call[d].phase # "none" PROVE MayRun(on.req[d[1]], d[2])
    BY DEF CallsFollowSteps
  <2>1. d[1] \in Request /\ (d[1] = r => d \in {one, two})
    BY DEF Call, Inspections!Call
  <2>2. d[1] # r
    BY <1>2, <2>1
  <2> QED BY <1>2, <2>1, <2>2 DEF CallsFollowSteps
<1>6. CASE q.step \in {"over", "look"}
  BY <1>3, <1>4, <1>5, <1>6
<1>7. CASE q.step \notin {"over", "look"}
  <2>1. MayRun(on.req[r], 1)
    BY <1>2, <1>7 DEF MayRun, Moved, Commands, Bare
  <2>2. on.call[one].phase = "none"
    BY <1>2
  <2>3. Good(v) /\ NoneButStarts(on, v, one)
    BY <1>1, <1>4, <2>2, RunGitKeeps
  <2> HIDE DEF v
  <2>4. CallsFollowSteps(v)
    BY <1>1, <1>5, <2>1, <2>3, CallsStayInLine
  <2>5. CASE q.step = "both"
    <3> DEFINE u == Inspections!RunGit(v, two)
    <3>1. v.call[two].phase = "none"
      BY <1>1, <1>2, <2>3 DEF NoneButStarts
    <3>2. Good(u) /\ NoneButStarts(v, u, two)
      BY <1>1, <2>3, <3>1, RunGitKeeps
    <3>3. MayRun(v.req[r], 2)
      BY <1>2, <2>3, <2>5 DEF MayRun, NoneButStarts
    <3> HIDE DEF u
    <3>4. CallsFollowSteps(u)
      BY <1>1, <2>4, <3>2, <3>3, CallsStayInLine
    <3> QED BY <1>3, <1>7, <2>5, <3>2, <3>4 DEF u
  <2>6. CASE q.step # "both"
    BY <1>3, <1>7, <2>3, <2>4, <2>6
  <2> QED BY <2>5, <2>6
<1> QED BY <1>6, <1>7

\* A command with a slot gives up.
LEMMA GiveUpKeeps ==
  ASSUME GitInv, NEW c \in Holders(git), NEW n \in Nat
  PROVE  Good(Inspections!GiveUp(c, n)) /\ CallsFollowSteps(Inspections!GiveUp(c, n))
<1> DEFINE w == Inspections!Release(git, c)
           v == Inspections!Answered(w, c[1], n)
<1>1. c \in Call /\ c[1] \in Request
  BY DEF Holders, Call, Inspections!Call
<1>2. Good(w) /\ NoneButStarts(git, w, c) /\ w.call[c].phase = "none"
  BY ReleaseKeeps DEF GitInv
<1>3. CallsFollowSteps(w)
  BY <1>1, <1>2, CallsStayInLine DEF GitInv
<1> HIDE DEF w
<1>4. Good(v) /\ NoneButStarts(w, v, c) /\ v.call = w.call
  BY <1>1, <1>2, AnsweredKeeps
<1>5. Inspections!GiveUp(c, n) = v
  BY DEF Inspections!GiveUp, w
<1> HIDE DEF v
<1>6. v.call[c].phase = "none"
  BY <1>2, <1>4
<1>7. CallsFollowSteps(v)
  BY <1>1, <1>3, <1>4, <1>6, CallsStayInLine
<1> QED BY <1>4, <1>5, <1>7

LEMMA SpawnKeeps == ASSUME GitInv, NEW c \in Call, Inspections!Spawn(c) PROVE GitInv'
<1>1. git.call[c].phase = "granted" /\ c \in Holders(git)
  BY DEF Inspections!Spawn, Holders
<1>2. CASE git' = [git EXCEPT !.call[c].phase = "running"]
  <2>1. git \in GitType /\ QueueWaits(git) /\ SlotsCounted(git) /\ CallsFollowSteps(git)
    BY DEF GitInv, Good
  <2>2. /\ git' \in GitType /\ git'.active = git.active /\ git'.queue = git.queue
        /\ git'.req = git.req /\ git'.call[c].phase = "running"
        /\ \A d \in Call \ {c} : git'.call[d] = git.call[d]
    BY <1>2, <2>1 DEF GitType, CallType
  <2>3. Holders(git') = Holders(git)
    BY <1>1, <2>2 DEF Holders
  <2>4. \A i \in 1..Len(git.queue) : git.queue[i] \in Call /\ git.queue[i] # c
    BY <1>1, <2>1 DEF QueueWaits, GitType
  <2>5. QueueWaits(git')
    BY <2>1, <2>2, <2>4 DEF QueueWaits
  <2>6. NoneButStarts(git, git', c) /\ MayRun(git.req[c[1]], c[2])
    BY <1>1, <2>1, <2>2 DEF NoneButStarts, CallsFollowSteps
  <2>7. CallsFollowSteps(git')
    BY <2>1, <2>6, CallsStayInLine
  <2>8. Good(git')
    BY <2>1, <2>2, <2>3, <2>5 DEF Good, SlotsCounted
  <2> QED BY <2>7, <2>8 DEF GitInv, Good, QueueWaits, SlotsCounted, Holders, CallsFollowSteps
<1>3. ASSUME NEW n \in {413, 500}, git' = Inspections!GiveUp(c, n) PROVE GitInv'
  <2>1. Good(git') /\ CallsFollowSteps(git')
    BY <1>1, <1>3, GiveUpKeeps
  <2> QED BY <2>1 DEF GitInv, Good, QueueWaits, SlotsCounted, Holders, CallsFollowSteps
<1> QED BY <1>2, <1>3 DEF Inspections!Spawn

LEMMA ChildFailsKeeps == ASSUME GitInv, NEW c \in Call, Inspections!ChildFails(c) PROVE GitInv'
<1>1. c \in Holders(git)
  BY DEF Inspections!ChildFails, Holders
<1>2. PICK n \in Nat : git' = Inspections!GiveUp(c, n)
  BY DEF Inspections!ChildFails
<1> QED BY <1>1, <1>2, GiveUpKeeps DEF GitInv, Good, QueueWaits, SlotsCounted, Holders, CallsFollowSteps

\* The first child gives its slot up before the second queues for one.
LEMMA FiltersKnownKeeps == ASSUME GitInv, NEW c \in Call, Inspections!FiltersKnown(c) PROVE GitInv'
<1> DEFINE w == Inspections!Release(git, c)
           f == [w EXCEPT !.call[c].filter = FALSE]
           v == Inspections!Acquire(f, c)
<1>1. c \in Holders(git) /\ git' = v
  BY DEF Inspections!FiltersKnown, Holders
<1>2. Good(w) /\ NoneButStarts(git, w, c) /\ w.call[c].phase = "none" /\ w.req = git.req
  BY <1>1, ReleaseKeeps DEF GitInv
<1>3. CallsFollowSteps(w)
  BY <1>2, CallsStayInLine DEF GitInv
<1>4. MayRun(w.req[c[1]], c[2])
  BY <1>1, <1>2 DEF GitInv, CallsFollowSteps, Holders
<1> HIDE DEF w
<1>5. w \in GitType /\ QueueWaits(w) /\ SlotsCounted(w)
  BY <1>2 DEF Good
<1>6. /\ f \in GitType /\ f.active = w.active /\ f.queue = w.queue /\ f.req = w.req
      /\ f.call[c].phase = "none" /\ \A d \in Call \ {c} : f.call[d] = w.call[d]
  BY <1>2, <1>5 DEF GitType, CallType
<1> HIDE DEF f
<1>7. Holders(f) = Holders(w)
  BY <1>2, <1>6 DEF Holders
<1>8. QueueWaits(f)
  <2>1. \A i \in 1..Len(w.queue) : w.queue[i] \in Call /\ w.queue[i] # c
    BY <1>2, <1>5 DEF QueueWaits, GitType
  <2> QED BY <1>5, <1>6, <2>1 DEF QueueWaits
<1>9. Good(f) /\ CallsFollowSteps(f) /\ MayRun(f.req[c[1]], c[2])
  <2>1. NoneButStarts(w, f, c)
    BY <1>6 DEF NoneButStarts
  <2>2. CallsFollowSteps(f)
    BY <1>3, <1>4, <2>1, CallsStayInLine
  <2> QED BY <1>4, <1>5, <1>6, <1>7, <1>8, <2>2 DEF Good, SlotsCounted
<1>10. Good(v) /\ NoneButStarts(f, v, c)
  BY <1>6, <1>9, AcquireKeeps
<1>11. CallsFollowSteps(v)
  BY <1>9, <1>10, CallsStayInLine
<1> HIDE DEF v
<1> QED BY <1>1, <1>10, <1>11 DEF GitInv, Good, QueueWaits, SlotsCounted, Holders, CallsFollowSteps

LEMMA CommandExitsKeeps == ASSUME GitInv, NEW c \in Call, Inspections!CommandExits(c) PROVE GitInv'
<1> DEFINE r == c[1]
           o == <<r, 3 - c[2]>>
           q == git.req[r]
           done == Inspections!Release(git, c)
           noted(code) == [done EXCEPT !.call[c].code = code]
<1>1. /\ c \in Holders(git) /\ r \in Request /\ o \in Call /\ o # c /\ c \in {<<r, 1>>, <<r, 2>>}
      /\ o \in {<<r, 1>>, <<r, 2>>} /\ git.call[c].phase # "none" /\ c[2] \in {1, 2}
      /\ o[1] = r /\ o[2] = 3 - c[2]
  BY DEF Inspections!CommandExits, Holders, Call, Inspections!Call
<1>2. Good(done) /\ NoneButStarts(git, done, c) /\ done.call[c].phase = "none" /\ done.req = git.req
  BY <1>1, ReleaseKeeps DEF GitInv
<1>3. CallsFollowSteps(done)
  BY <1>1, <1>2, CallsStayInLine DEF GitInv
<1>4. MayRun(q, c[2]) /\ (git.call[o].phase # "none" => MayRun(q, o[2]))
  BY <1>1 DEF GitInv, CallsFollowSteps
<1>5. q \in RequestType
  BY <1>1 DEF GitInv, Good, GitType
<1>6. CASE q.step = "over"
  <2>1. git' = done
    BY <1>6 DEF Inspections!CommandExits
  <2> QED BY <1>2, <1>3, <2>1 DEF GitInv, Good, QueueWaits, SlotsCounted, Holders, CallsFollowSteps
<1>7. CASE q.step # "over"
  <2>1. q.step \in Commands
    BY <1>1, <1>4, <1>5, <1>7 DEF MayRun, RequestType, Commands
  <2>2. PICK code \in {0, 1, 2} :
          IF q.step = "both" /\ noted(code).call[o].phase # "none" THEN git' = noted(code)
          ELSE \E next \in Inspections!After(q, IF q.step = "both" /\ noted(code).call[o].code # 0
                                                 THEN noted(code).call[o].code ELSE code) :
                 git' = Inspections!Proceed(noted(code), r, next)
    BY <1>7 DEF Inspections!CommandExits, Inspections!Codes
  <2> DEFINE n == noted(code)
  <2> HIDE DEF done
  <2>3. done \in GitType /\ QueueWaits(done) /\ SlotsCounted(done)
    BY <1>2 DEF Good
  <2>4. /\ n \in GitType /\ n.active = done.active /\ n.queue = done.queue /\ n.req = done.req
        /\ n.call[c].phase = "none" /\ \A d \in Call \ {c} : n.call[d] = done.call[d]
    <3> DEFINE k == [done.call[c] EXCEPT !.code = code]
    <3>1. done.call \in [Call -> CallType] /\ c \in Call
      BY <1>1, <2>3 DEF GitType
    <3>2. k \in CallType /\ k.phase = "none"
      BY <1>2, <3>1 DEF CallType
    <3>3. n = [done EXCEPT !.call = [done.call EXCEPT ![c] = k]]
      BY <2>3, <3>1 DEF GitType, CallType
    <3> HIDE DEF k, n
    <3> QED BY <2>3, <3>1, <3>2, <3>3 DEF GitType
  <2>5. git' = n \/ ((q.step # "both" \/ n.call[o].phase = "none")
                     /\ \E code2 : \E next \in Inspections!After(q, code2) :
                          git' = Inspections!Proceed(n, r, next))
    BY <2>2
  <2>6. Good(n)
    <3>1. c \in Call
      OBVIOUS
    <3>2. Holders(n) = Holders(done)
      BY <1>2, <2>4 DEF Holders
    <3>3. \A i \in 1..Len(done.queue) : done.queue[i] \in Call /\ done.queue[i] # c
      BY <1>2, <2>3 DEF QueueWaits, GitType
    <3>4. QueueWaits(n)
      BY <2>3, <2>4, <3>3 DEF QueueWaits
    <3> QED BY <2>3, <2>4, <3>2, <3>4 DEF Good, SlotsCounted
  <2>7. CallsFollowSteps(n)
    <3>1. NoneButStarts(done, n, c)
      BY <2>4 DEF NoneButStarts
    <3> QED BY <1>3, <2>4, <3>1, CallsStayInLine
  <2>8. CASE git' = n
    BY <2>6, <2>7, <2>8 DEF GitInv, Good, QueueWaits, SlotsCounted, Holders, CallsFollowSteps
  <2>9. ASSUME NEW code2, NEW next \in Inspections!After(q, code2),
               q.step # "both" \/ n.call[o].phase = "none", git' = Inspections!Proceed(n, r, next)
        PROVE  GitInv'
    <3>1. next \in Moved
      BY <1>5, <2>1, AfterMoves
    <3>2. n.call[o].phase = "none"
      <4>1. CASE q.step # "both"
        <5>1. ~MayRun(q, 2)
          BY <1>7, <4>1 DEF MayRun
        <5>2. c[2] = 1 /\ o[2] = 2
          BY <1>1, <1>4, <5>1
        <5>3. git.call[o].phase = "none"
          BY <1>4, <5>1, <5>2
        <5>4. done.call[o].phase = "none"
          BY <1>1, <1>2, <5>3 DEF NoneButStarts
        <5> QED BY <1>1, <2>4, <5>4
      <4> QED BY <2>9, <4>1
    <3>3. n.call[<<r, 1>>].phase = "none" /\ n.call[<<r, 2>>].phase = "none"
      BY <1>1, <2>4, <3>2
    <3> HIDE DEF n
    <3>4. Good(Inspections!Proceed(n, r, next)) /\ CallsFollowSteps(Inspections!Proceed(n, r, next))
      BY <1>1, <2>6, <2>7, <3>1, <3>3, ProceedKeeps
    <3> QED BY <2>9, <3>4 DEF GitInv, Good, QueueWaits, SlotsCounted, Holders, CallsFollowSteps
  <2> QED BY <2>5, <2>8, <2>9
<1> QED BY <1>6, <1>7

LEMMA AskKeeps == ASSUME GitInv, NEW r \in Request, Inspections!Ask(r) PROVE GitInv'
<1>1. PICK op \in Op :
        git' = Inspections!Proceed(git, r, [Inspections!NotAsked EXCEPT !.op = op,
                                              !.step = IF op = "summary" THEN "probe" ELSE "root"])
  BY DEF Inspections!Ask
<1> DEFINE q == [Inspections!NotAsked EXCEPT !.op = op, !.step = IF op = "summary" THEN "probe" ELSE "root"]
<1>2. q \in Moved
  <2> DEFINE s == IF op = "summary" THEN "probe" ELSE "root"
  <2>1. s \in Commands
    BY DEF Commands
  <2> DEFINE z == Inspections!NotAsked
  <2>2. q = [z EXCEPT !.op = op, !.step = s]
    OBVIOUS
  <2>3. MaxRounds \in 0..MaxRounds
    BY InspectionsAssumption
  <2>4. z \in RequestType
    BY <2>3 DEF Inspections!NotAsked, RequestType, Bare
  <2> HIDE DEF s, q, z
  <2> QED BY <2>1, <2>2, <2>4 DEF Moved, RequestType
<1>3. <<r, 1>> \in Call /\ <<r, 2>> \in Call /\ git.req[r].step = "idle"
  BY DEF Call, Inspections!Call, Inspections!Ask
<1>4. git.call[<<r, 1>>].phase = "none" /\ git.call[<<r, 2>>].phase = "none"
  BY <1>3 DEF GitInv, CallsFollowSteps, MayRun, Bare
<1> HIDE DEF q
<1>5. Good(Inspections!Proceed(git, r, q)) /\ CallsFollowSteps(Inspections!Proceed(git, r, q))
  BY <1>2, <1>4, ProceedKeeps DEF GitInv
<1> QED BY <1>1, <1>5 DEF q, GitInv, Good, QueueWaits, SlotsCounted, Holders, CallsFollowSteps

\* A step that looks at the file changes only its request, which has no command.
LEMMA LookingKeeps ==
  ASSUME GitInv, NEW r \in Request, git.req[r].step \in Bare,
         NEW q \in RequestType, git' = [git EXCEPT !.req[r] = q]
  PROVE  GitInv'
<1>1. git \in GitType /\ QueueWaits(git) /\ SlotsCounted(git) /\ CallsFollowSteps(git)
  BY DEF GitInv, Good
<1>2. /\ git' \in GitType /\ git'.active = git.active /\ git'.queue = git.queue
      /\ git'.call = git.call /\ \A s \in Request \ {r} : git'.req[s] = git.req[s]
  BY <1>1 DEF GitType
<1>3. QueueWaits(git') /\ SlotsCounted(git')
  BY <1>1, <1>2 DEF QueueWaits, SlotsCounted, Holders
<1>4. ASSUME NEW d \in Call, git'.call[d].phase # "none" PROVE MayRun(git'.req[d[1]], d[2])
  <2>1. d[1] \in Request /\ d[2] \in {1, 2} /\ MayRun(git.req[d[1]], d[2])
    BY <1>1, <1>2, <1>4 DEF CallsFollowSteps, Call, Inspections!Call
  <2>2. d[1] # r
    BY <2>1 DEF MayRun, Bare
  <2> QED BY <1>2, <2>1, <2>2
<1> QED BY <1>2, <1>3, <1>4 DEF GitInv, Good, QueueWaits, SlotsCounted, Holders, CallsFollowSteps

LEMMA FileKeeps ==
  ASSUME GitInv, NEW r \in Request,
         Inspections!Look(r) \/ Inspections!OpenFile(r) \/ Inspections!ReadFile(r)
  PROVE  GitInv'
<1>1. git.req[r] \in RequestType
  BY DEF GitInv, Good, GitType
<1>2. \A n \in Nat : Inspections!Say(git.req[r], n) \in RequestType
  BY <1>1 DEF RequestType, Inspections!Say
<1>3. \A f \in File : [Inspections!Go(git.req[r], "open") EXCEPT !.seen = f] \in RequestType
  BY <1>1 DEF RequestType, Inspections!Go, Bare
<1>4. \A f \in File : [Inspections!Go(git.req[r], "read") EXCEPT !.open = f] \in RequestType
  BY <1>1 DEF RequestType, Inspections!Go, Bare
<1>5. git \in GitType /\ git.req[r].step \in Bare
  BY DEF GitInv, Good, Bare, Inspections!Look, Inspections!OpenFile, Inspections!ReadFile
<1>6. \E q \in RequestType : git' = [git EXCEPT !.req[r] = q]
  <2>1. CASE Inspections!Look(r)
    BY <1>2, <1>3, <2>1 DEF Inspections!Look
  <2>2. CASE Inspections!OpenFile(r)
    BY <1>2, <1>4, <2>2 DEF Inspections!OpenFile
  <2>3. CASE Inspections!ReadFile(r)
    BY <1>2, <2>3 DEF Inspections!ReadFile
  <2> QED BY <2>1, <2>2, <2>3
<1> QED BY <1>5, <1>6, LookingKeeps

LEMMA InitGit == Inspections!Init => GitInv
<1> SUFFICES ASSUME Inspections!Init PROVE GitInv
  OBVIOUS
<1>1. /\ git.active = 0 /\ git.queue = <<>> /\ git \in GitType
      /\ \A c \in Call : git.call[c].phase = "none"
  BY InspectionsAssumption DEF Inspections!Init, GitType, CallType, RequestType, Bare, Call,
     Inspections!NoCall, Inspections!NotAsked
<1>2. Holders(git) = {}
  BY <1>1 DEF Holders
<1> QED BY <1>1, <1>2, FS_EmptySet, InspectionsAssumption
        DEF GitInv, Good, QueueWaits, SlotsCounted, CallsFollowSteps

LEMMA StepGit == GitInv /\ [Inspections!Next]_git => GitInv'
<1>1. ASSUME GitInv, NEW r \in Request, Inspections!Ask(r) \/ Inspections!Steps(r) PROVE GitInv'
  <2>1. <<r, 1>> \in Call /\ <<r, 2>> \in Call
    BY DEF Call, Inspections!Call
  <2> QED BY <1>1, <2>1, AskKeeps, FileKeeps, SpawnKeeps, ChildFailsKeeps, FiltersKnownKeeps,
             CommandExitsKeeps
          DEF Inspections!Steps
<1>2. ASSUME GitInv, UNCHANGED git PROVE GitInv'
  BY <1>2 DEF GitInv, Good, QueueWaits, SlotsCounted, Holders, CallsFollowSteps
<1> QED BY <1>1, <1>2 DEF Inspections!Next

\* However the inspections fail, time out or outlive their request, every slot of the
\* limiter (bridge/workspace-inspection.ts) belongs to a command that has it, there are
\* never more commands than slots, and none waits while a slot is free.
THEOREM InspectionsHoldSlots == MCSpec => []SlotsAreHeld
<1>1. MCInit => Inspections!Init
  BY DEF MCInit
<1>2. [MCNext]_<<vars, git, part>> => [Inspections!Next]_git
  BY DEF MCNext
<1>3. GitInv => SlotsAreHeld
  <2>1. Inspections!Cardinality(Holders(git)) = Cardinality(Holders(git))
    BY Zenon DEF Inspections!Cardinality, Cardinality
  <2> QED BY <2>1 DEF GitInv, Good, SlotsCounted, Holders, Call, SlotsAreHeld, Inspections!SlotsAreHeld
<1> QED BY <1>1, <1>2, <1>3, InitGit, StepGit, PTL DEF MCSpec

=============================================================================
