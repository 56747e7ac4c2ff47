----------------------------- MODULE NotifySink -----------------------------
(***************************************************************************)
(* makeNotifySink() (bridge/notifications.ts): one collapse tag, at most   *)
(* one delivery in flight, and one queued replacement that later messages  *)
(* overwrite.  Messages carry the number of the summary they stand for.    *)
(***************************************************************************)
EXTENDS Naturals

CONSTANTS
  Flushes,   \* calls of flush()
  None,      \* no message queued
  MaxSeq     \* bound: messages accepted

ASSUME SinkAssumption == MaxSeq \in Nat

Msg == [seq : Nat, clear : BOOLEAN, buzz : BOOLEAN]

ASSUME NoneIsNoMessage == None \notin Msg

VARIABLES
  muted,       \* the mute gate (Snooze)
  queued,      \* the replacement waiting, or None
  delivering,  \* the flag
  inflight,    \* push.send() calls that have not settled
  flushing,    \* flush -> "idle" | "waiting" | "resolved"
  floor,       \* observer: number of the newest message when the flush was called
  last,        \* number of the newest message accepted
  shown,       \* number of the last message a push service took
  buzzOwed     \* observer: an alert edge waits behind the delivery in flight

vars == <<muted, queued, delivering, inflight, flushing, floor, last, shown, buzzOwed>>

TypeOK ==
  /\ muted \in BOOLEAN
  /\ queued \in Msg \cup {None}
  /\ delivering \in BOOLEAN /\ inflight \in SUBSET Msg
  /\ flushing \in [Flushes -> {"idle", "waiting", "resolved"}]
  /\ floor \in [Flushes -> Nat]
  /\ last \in Nat /\ shown \in Nat /\ buzzOwed \in BOOLEAN

Init ==
  /\ muted \in BOOLEAN
  /\ queued = None /\ delivering = FALSE /\ inflight = {}
  /\ flushing = [f \in Flushes |-> "idle"] /\ floor = [f \in Flushes |-> 0]
  /\ last = 0 /\ shown = 0 /\ buzzOwed = FALSE

----------------------------------------------------------------------------
\* settleFlushWaiters(): nothing in flight, nothing queued.
SettleWaiters ==
  flushing' = [f \in Flushes |-> IF flushing[f] = "waiting" THEN "resolved" ELSE flushing[f]]

\* pump() with the flag down and m taken from the queue: push.send() starts, or
\* throws, and then there is nothing left to pump.
PumpIdle(m, others) ==
  /\ queued' = None
  /\ \/ /\ delivering' = TRUE
        /\ inflight' = others \cup {m}
        /\ UNCHANGED flushing
     \/ /\ delivering' = FALSE
        /\ inflight' = others
        /\ SettleWaiters

\* Replacement without the carried-over buzz.
MergedPlain(m) == m

\* A silent summary inherits the buzz of the render it overwrites; a clear
\* inherits nothing and passes nothing on.
Merged(m) ==
  IF ~m.clear /\ queued # None /\ ~queued.clear /\ queued.buzz
    THEN [m EXCEPT !.buzz = TRUE] ELSE m

\* An enqueue whose pump does not look at the flag.
EnqueueFreely(m) ==
  /\ queued' = None
  /\ delivering' = TRUE
  /\ inflight' = inflight \cup {m}
  /\ buzzOwed' = FALSE
  /\ UNCHANGED flushing

\* enqueue(): replace the queued message, then pump.
Enqueue(m) ==
  IF delivering
    THEN /\ queued' = Merged(m)
         /\ buzzOwed' = (~m.clear /\ (m.buzz \/ buzzOwed))
         /\ UNCHANGED <<delivering, inflight, flushing>>
    ELSE PumpIdle(Merged(m), inflight) /\ buzzOwed' = FALSE

Accept(m) ==
  /\ last < MaxSeq
  /\ last' = last + 1
  /\ Enqueue(m)
  /\ UNCHANGED <<muted, floor, shown>>

Render(buzz) == ~muted /\ Accept([seq |-> last + 1, clear |-> FALSE, buzz |-> buzz])

\* clear(), and forceClear() which skips the gate.
Clear == ~muted /\ Accept([seq |-> last + 1, clear |-> TRUE, buzz |-> FALSE])
ForceClear == Accept([seq |-> last + 1, clear |-> TRUE, buzz |-> FALSE])

\* The finally of a delivery: flag down, pump again.
AfterDelivery(m) ==
  LET rest == inflight \ {m}
  IN  /\ buzzOwed' = FALSE
      /\ IF queued # None
           THEN PumpIdle(queued, rest)
           ELSE /\ delivering' = FALSE
                /\ inflight' = rest
                /\ SettleWaiters
                /\ UNCHANGED queued

\* A delivery settles, taken by the push services or failed: either way it is over.
Settles(m) ==
  /\ shown' \in {shown, m.seq}
  /\ AfterDelivery(m)
  /\ UNCHANGED <<muted, floor, last>>

\* flush() that only waits for the delivery in flight.
FlushInflight(f) ==
  /\ flushing[f] = "idle"
  /\ flushing' = [flushing EXCEPT ![f] = "resolved"]
  /\ floor' = [floor EXCEPT ![f] = last]
  /\ UNCHANGED <<muted, queued, delivering, inflight, last, shown, buzzOwed>>

Flush(f) ==
  /\ flushing[f] = "idle"
  /\ flushing' = [flushing EXCEPT ![f] =
                    IF delivering \/ queued # None THEN "waiting" ELSE "resolved"]
  /\ floor' = [floor EXCEPT ![f] = last]
  /\ UNCHANGED <<muted, queued, delivering, inflight, last, shown, buzzOwed>>

MuteChanges ==
  /\ muted' = ~muted
  /\ UNCHANGED <<queued, delivering, inflight, flushing, floor, last, shown, buzzOwed>>

Next ==
  \/ \E buzz \in BOOLEAN : Render(buzz)
  \/ Clear \/ ForceClear
  \/ \E m \in inflight : Settles(m)
  \/ \E f \in Flushes : Flush(f)
  \/ MuteChanges

Spec == Init /\ [][Next]_vars

\* A push.send() settles: every request in it has a timeout.
FairSpec == Spec /\ WF_vars(\E m \in inflight : Settles(m))

----------------------------------------------------------------------------
\* One delivery at a time, announced by the flag; nothing waits behind nothing.
OneDelivery ==
  /\ \A m, n \in inflight : m = n
  /\ delivering <=> inflight # {}
  /\ queued # None => delivering

\* The message waiting, or the one in flight when none waits, is the newest:
\* when the queue drains, the last summary is the last one sent.
LastWins ==
  /\ queued # None => queued.seq = last
  /\ queued = None => \A m \in inflight : m.seq = last

\* "A new alert edge must survive a later silent summary while delivery is busy"
\* (enqueue): an edge accepted behind a delivery, and not cleared since, is still
\* in the queue with its buzz.
BuzzSurvives == buzzOwed => queued # None /\ queued.buzz

\* A resolved flush has seen every message accepted before it settle.
FlushCovers ==
  \A f \in Flushes : flushing[f] = "resolved" =>
    /\ \A m \in inflight : m.seq > floor[f]
    /\ queued # None => queued.seq > floor[f]

\* The slot the device shows only moves forward (NotificationSlot).
Slot == INSTANCE NotificationSlot WITH wanted <- last, shown <- shown
MovesForward == Slot!Spec

=============================================================================
