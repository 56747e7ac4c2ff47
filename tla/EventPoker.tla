----------------------------- MODULE EventPoker -----------------------------
(***************************************************************************)
(* The event stream of one session (bridge/event-poker.ts) over            *)
(* HerdrClient.subscribeEvents, in discrete time: a timer is the number of *)
(* time units left, or Off.  close() ends a stream for good and its onDown *)
(* finds another handle, so only the current stream can act: `stream' is   *)
(* what that one is doing.                                                 *)
(***************************************************************************)
EXTENDS Integers

CONSTANTS
  PaneSets,     \* sets of agent panes a snapshot can report
  Debounce,     \* the trailing debounce, in time units
  Backoff,      \* the reconnect delays, a sequence; the last one repeats
  BackoffSteps, \* its length
  AckTimeout    \* subscribeEvents' ack timer

Off == -1

ASSUME PokerAssumption ==
  /\ PaneSets # {}
  /\ Debounce \in Nat /\ AckTimeout \in Nat
  /\ BackoffSteps \in Nat \ {0}
  /\ Backoff \in [1..BackoffSteps -> Nat]

VARIABLES
  pokerOn,      \* EventPoker.started
  healthy,
  agentPanes,
  stream,       \* "none" | "opening" (not acknowledged) | "up"
  subscribed,   \* the panes of the current stream's subscription list
  ackTimer, debounceTimer, reconnectTimer,
  backoffIdx

pokerVars == <<pokerOn, healthy, agentPanes, stream, subscribed, ackTimer,
               debounceTimer, reconnectTimer, backoffIdx>>

Timer(max) == {Off} \cup 0..max

PokerTypeOK ==
  /\ pokerOn \in BOOLEAN /\ healthy \in BOOLEAN
  /\ agentPanes \in PaneSets
  /\ stream \in {"none", "opening", "up"}
  /\ subscribed \in PaneSets
  /\ ackTimer \in Timer(AckTimeout)
  /\ debounceTimer \in Timer(Debounce)
  /\ reconnectTimer \in {Off} \cup Nat
  /\ backoffIdx \in 0..BackoffSteps

\* Just after start(): connect() has been called with no agent pane known.
PokerInit ==
  /\ pokerOn = TRUE /\ healthy = FALSE
  /\ agentPanes \in PaneSets /\ subscribed = agentPanes
  /\ stream = "opening" /\ ackTimer = AckTimeout
  /\ debounceTimer = Off /\ reconnectTimer = Off
  /\ backoffIdx = 0

----------------------------------------------------------------------------
\* connect(): subscribe with the panes known now.
Connect(panes) ==
  /\ stream' = "opening"
  /\ ackTimer' = AckTimeout
  /\ subscribed' = panes

\* connect() that leaves a pending reconnect timer armed.
ReconnectKeepingTimer(panes) ==
  /\ Connect(panes)
  /\ UNCHANGED reconnectTimer

\* reconnect(): drop the retry timer and the old stream, whose onDown is stale.
Reconnect(panes) ==
  /\ Connect(panes)
  /\ reconnectTimer' = Off

\* setAgentPanes(ids), called with every fresh snapshot.
SetAgentPanes(panes) ==
  /\ agentPanes' = panes
  /\ IF panes # agentPanes /\ pokerOn
       THEN Reconnect(panes)
       ELSE UNCHANGED <<stream, subscribed, ackTimer, reconnectTimer>>
  /\ UNCHANGED <<pokerOn, healthy, debounceTimer, backoffIdx>>

\* scheduleReconnect() that gives up once the schedule is used up.
ScheduleUntilExhausted ==
  /\ reconnectTimer' = IF backoffIdx < BackoffSteps THEN Backoff[backoffIdx + 1] ELSE Off
  /\ backoffIdx' = IF backoffIdx < BackoffSteps THEN backoffIdx + 1 ELSE backoffIdx

\* scheduleReconnect(): the index grows without bound in the code, but only
\* Min(index, last) is read.
ScheduleReconnect ==
  /\ reconnectTimer' = IF reconnectTimer = Off
                         THEN Backoff[IF backoffIdx < BackoffSteps THEN backoffIdx + 1
                                      ELSE BackoffSteps]
                         ELSE reconnectTimer
  /\ backoffIdx' = IF reconnectTimer = Off /\ backoffIdx < BackoffSteps
                     THEN backoffIdx + 1 ELSE backoffIdx

\* The subscription is acknowledged.
OnUp ==
  /\ stream = "opening"
  /\ stream' = "up"
  /\ ackTimer' = Off
  /\ backoffIdx' = 0
  /\ healthy' = TRUE
  /\ UNCHANGED <<pokerOn, agentPanes, subscribed, debounceTimer, reconnectTimer>>

\* An event: whatever it says, it (re)arms the trailing debounce.
OnEvent ==
  /\ stream # "none"
  /\ debounceTimer' = Debounce
  /\ UNCHANGED <<pokerOn, healthy, agentPanes, stream, subscribed, ackTimer,
                 reconnectTimer, backoffIdx>>

\* A lost stream that is still reported healthy.
OnDownSilent ==
  /\ stream # "none"
  /\ stream' = "none"
  /\ ackTimer' = Off
  /\ ScheduleReconnect
  /\ UNCHANGED <<pokerOn, healthy, agentPanes, subscribed, debounceTimer>>

\* The stream ends for any reason: error line, close, socket error, ack timeout.
OnDown ==
  /\ stream # "none"
  /\ stream' = "none"
  /\ ackTimer' = Off
  /\ healthy' = FALSE
  /\ ScheduleReconnect
  /\ UNCHANGED <<pokerOn, agentPanes, subscribed, debounceTimer>>

AckExpires == ackTimer = 0 /\ OnDown

ReconnectFires ==
  /\ reconnectTimer = 0
  /\ reconnectTimer' = Off
  /\ Connect(agentPanes)
  /\ UNCHANGED <<pokerOn, healthy, agentPanes, debounceTimer, backoffIdx>>

\* The debounce timer fires: the poke itself is the listener's business.
DebounceFires ==
  /\ debounceTimer = 0
  /\ debounceTimer' = Off
  /\ UNCHANGED <<pokerOn, healthy, agentPanes, stream, subscribed, ackTimer,
                 reconnectTimer, backoffIdx>>

\* stop() that forgets the reconnect timer.
PokerStopLeaky ==
  /\ pokerOn' = FALSE
  /\ debounceTimer' = Off
  /\ stream' = "none" /\ ackTimer' = Off
  /\ UNCHANGED <<healthy, agentPanes, subscribed, backoffIdx, reconnectTimer>>

\* stop(): both timers cleared, the stream detached before it is closed.
PokerStop ==
  /\ pokerOn
  /\ pokerOn' = FALSE
  /\ debounceTimer' = Off
  /\ reconnectTimer' = Off
  /\ stream' = "none" /\ ackTimer' = Off
  /\ UNCHANGED <<healthy, agentPanes, subscribed, backoffIdx>>

----------------------------------------------------------------------------
(* Time.                                                                   *)

Running(timer) == timer # Off
Due(timer) == timer = 0
Aged(timer) == IF timer = Off THEN Off ELSE timer - 1

PokerIdle == ~Due(ackTimer) /\ ~Due(debounceTimer) /\ ~Due(reconnectTimer)

PokerElapse ==
  /\ PokerIdle
  /\ ackTimer' = Aged(ackTimer)
  /\ debounceTimer' = Aged(debounceTimer)
  /\ reconnectTimer' = Aged(reconnectTimer)
  /\ UNCHANGED <<pokerOn, healthy, agentPanes, stream, subscribed, backoffIdx>>

----------------------------------------------------------------------------
(* What the poker keeps true.                                              *)

\* While it runs, it holds one stream or waits to open one, never both and
\* never neither: two live subscriptions would double every poke, none would
\* leave the bridge deaf for good.
OneWayBack ==
  IF pokerOn THEN stream = "none" <=> Running(reconnectTimer)
             ELSE stream = "none" /\ ~Running(reconnectTimer) /\ ~Running(debounceTimer)

\* A stream that has not been acknowledged is under its ack timer, so a server
\* that accepts and hangs does not count as healthy for longer than that, and
\* health is only claimed while there is a stream.
HealthIsWatched ==
  /\ stream = "opening" <=> Running(ackTimer)
  /\ pokerOn /\ healthy => stream # "none"

\* However streams fail - refused, dropped, or accepted and never acknowledged -
\* there is a way back to a healthy one, and only one.
StreamSupervised == OneWayBack /\ HealthIsWatched

\* The current stream is subscribed to exactly the panes last reported.
SubscriptionFollowsHerd == stream # "none" => subscribed = agentPanes

=============================================================================
