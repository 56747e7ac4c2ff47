---------------------------- MODULE UpdateMonitor ----------------------------
(***************************************************************************)
(* The update notification: UpdateMonitor and its marker                   *)
(* (bridge/update.ts), the `updates' preference, the ordered queue of its  *)
(* slot (PushDeliveryQueue, bridge/push.ts), the shutdown of               *)
(* bridge/index.ts and the restarts between which only the marker, the     *)
(* preference and the slot itself survive.  Versions are numbered in the   *)
(* order compareSemver() gives them; 0 is "none", as a message a clear.    *)
(* A write of the marker is one step: the two that can overlap, a late     *)
(* check's and the shutdown's reset, are taken one after the other.        *)
(***************************************************************************)
EXTENDS Integers, Sequences

CONSTANTS
  Versions,    \* release numbers
  DiskFails,   \* a write of the marker may fail
  Killed,      \* the process may be killed at any point
  MaxQueue     \* bound: messages waiting when a new request or check comes in

None   == 0
Closed == 0   \* the message that closes the slot

ASSUME UpdateAssumption ==
  /\ Versions \subseteq Nat \ {0}
  /\ {DiskFails, Killed} \subseteq BOOLEAN
  /\ MaxQueue \in Nat

VARIABLES
  upstream,   \* the newest published release
  current,    \* the running version
  enabled,    \* a repository to check is configured
  updates,    \* the preference (survives restarts)
  marker,     \* lastNotified (survives restarts)
  latest,     \* the newest release a check has seen (the time of that check is not kept)
  check,      \* the check in flight: phase, captured marker, generation overtaken since
  life,       \* of the process
  flushLeft,  \* deliveries the shutdown's flush() still waits for
  queue, sent,\* messages waiting; the message the slot shows
  dropped,    \* the delivery made last failed: the slot shows what it showed before
  late,       \* observer: a check has begun during the shutdown of this process
  said        \* observer: announcements of a version since the marker was last reset, capped at 2

process == <<current, enabled, latest, check, life, flushLeft>>
slot    == <<queue, sent, dropped>>
vars    == <<upstream, updates, marker, process, slot, late, said>>

Releases == Versions \cup {None}
Idle     == [phase |-> "idle", prev |-> None, overtaken |-> FALSE]
Up       == life \in {"running", "preparing", "resetting", "flushing"}
Unsaid   == [v \in Versions |-> 0]

TypeOK ==
  /\ upstream \in Releases /\ current \in Versions
  /\ enabled \in BOOLEAN /\ updates \in BOOLEAN
  /\ marker \in Releases /\ latest \in Releases
  /\ check \in [phase : {"idle", "fetching", "marking", "restoring"},
                prev : Releases, overtaken : BOOLEAN]
  /\ life \in {"running", "preparing", "resetting", "flushing", "stopped", "killed"}
  /\ flushLeft \in Nat
  /\ queue \in Seq(Releases) /\ sent \in Releases
  /\ dropped \in BOOLEAN /\ late \in BOOLEAN
  /\ said \in [Versions -> 0..2]

\* A first installation, about to start.
Init ==
  /\ upstream \in Releases /\ current \in Versions
  /\ enabled = TRUE /\ updates = TRUE /\ marker = None
  /\ latest = None /\ check = Idle
  /\ life = "stopped" /\ flushLeft = 0
  /\ queue = <<>> /\ sent = Closed /\ dropped = FALSE
  /\ late = FALSE /\ said = Unsaid

----------------------------------------------------------------------------
Enqueue(m) == queue' = Append(queue, m) /\ UNCHANGED <<sent, dropped>>

\* The newest message for the slot, shown or on its way.
Final == IF queue = <<>> THEN sent ELSE queue[Len(queue)]

\* The slot is closed or about to be, unless the message that should have closed it was lost.
ClosedAtLast == Final = Closed \/ (queue = <<>> /\ dropped)

Room == Len(queue) < MaxQueue

\* notify(): queued, and counted.
Announce(v) ==
  /\ Enqueue(v)
  /\ said' = [said EXCEPT ![v] = IF @ < 2 THEN @ + 1 ELSE @]

\* checkRelease() from a timer or the route; a caller that finds one in flight joins it.
\* The timers run until the very end of a shutdown (nothing fires between the end of
\* the check that prepareShutdown() awaits and its going on).
CheckStarts ==
  /\ enabled /\ check.phase = "idle" /\ Room
  /\ life \in {"running", "resetting", "flushing"}
  /\ check' = [Idle EXCEPT !.phase = "fetching"]
  /\ late' = (late \/ life # "running")
  /\ UNCHANGED <<upstream, updates, marker, current, enabled, latest, life,
                 flushLeft, slot, said>>

FetchFails ==
  /\ check.phase = "fetching"
  /\ check' = Idle
  /\ UNCHANGED <<upstream, updates, marker, current, enabled, latest, life,
                 flushLeft, slot, late, said>>

\* shouldNotify() that only compares with the last announcement for equality.
ShouldNotifyOther == upstream > current /\ upstream # marker

\* shouldNotify() that tells of one release only.
ShouldNotifyFirst == upstream > current /\ marker = None

\* shouldNotify(), of the release just fetched.
ShouldNotify == upstream > current /\ (marker = None \/ upstream > marker)

\* After the fetch: nothing to tell clears the slot, a new version goes to the marker first.
FetchReturns ==
  /\ check.phase = "fetching"
  /\ latest' = upstream
  /\ IF ~updates \/ upstream <= current
       THEN check' = Idle /\ Enqueue(Closed)
       ELSE /\ check' = IF ShouldNotify
                          THEN [phase |-> "marking", prev |-> marker, overtaken |-> FALSE]
                          ELSE Idle
            /\ UNCHANGED slot
  /\ UNCHANGED <<upstream, updates, marker, current, enabled, life, flushLeft, late, said>>

\* A check that trusts what it read before the write.
MarkerSavedTrusting ==
  /\ check.phase = "marking"
  /\ marker' = latest
  /\ check' = Idle /\ Announce(latest)
  /\ UNCHANGED <<upstream, updates, current, enabled, latest, life, flushLeft, late>>

\* The marker is written: announce, unless the policy moved meanwhile.
MarkerSaved ==
  /\ check.phase = "marking"
  /\ marker' = latest
  /\ IF check.overtaken \/ ~updates
       THEN check' = [check EXCEPT !.phase = "restoring"] /\ UNCHANGED <<slot, said>>
       ELSE check' = Idle /\ Announce(latest)
  /\ UNCHANGED <<upstream, updates, current, enabled, latest, life, flushLeft, late>>

MarkerFails ==
  /\ check.phase = "marking" /\ DiskFails
  /\ check' = Idle
  /\ UNCHANGED <<upstream, updates, marker, current, enabled, latest, life,
                 flushLeft, slot, late, said>>

\* The marker is put back, or that write fails too; then the slot is closed.
MarkerRestored ==
  /\ check.phase = "restoring"
  /\ \/ marker' = check.prev
     \/ DiskFails /\ UNCHANGED marker
  /\ check' = Idle
  /\ Enqueue(Closed)
  /\ UNCHANGED <<upstream, updates, current, enabled, latest, life, flushLeft, late,
                 said>>

----------------------------------------------------------------------------
\* The policy generation advances, which a check under way will find out.
Overtake == check' = [check EXCEPT !.overtaken = check.phase # "idle"]

\* POST /api/notifications/prefs: off also overtakes a check and closes the slot.
SetUpdates(on) ==
  /\ life = "running" /\ Room
  /\ updates' = on
  /\ IF on THEN UNCHANGED <<check, slot>>
     ELSE Overtake /\ Enqueue(Closed)
  /\ UNCHANGED <<upstream, marker, current, enabled, latest, life, flushLeft, late,
                 said>>

\* shutdown() reaches prepareShutdown(), which waits for a check in flight.
PrepareShutdown ==
  /\ life = "running" /\ Room
  /\ Overtake
  /\ life' = IF check.phase = "idle" THEN "resetting" ELSE "preparing"
  /\ UNCHANGED <<upstream, updates, marker, current, enabled, latest,
                 flushLeft, slot, late, said>>

CheckAwaited ==
  /\ life = "preparing" /\ check.phase = "idle"
  /\ life' = "resetting"
  /\ UNCHANGED <<upstream, updates, marker, current, enabled, latest, check,
                 flushLeft, slot, late, said>>

\* A reset of the marker whose failure skips the retraction.
MarkerResetOrNothing ==
  /\ life = "resetting"
  /\ \/ marker' = None /\ said' = Unsaid /\ Enqueue(Closed)
     \/ DiskFails /\ UNCHANGED <<marker, said, slot>>
  /\ life' = "flushing" /\ flushLeft' = Len(queue')
  /\ UNCHANGED <<upstream, updates, current, enabled, latest, check, late>>

\* setLastNotified(null) settles, the slot is closed either way, flush() is called.
MarkerReset ==
  /\ life = "resetting"
  /\ \/ marker' = None /\ said' = Unsaid
     \/ DiskFails /\ UNCHANGED <<marker, said>>
  /\ Enqueue(Closed)
  /\ life' = "flushing" /\ flushLeft' = Len(queue')
  /\ UNCHANGED <<upstream, updates, current, enabled, latest, check, late>>

\* The delivery of the head of the queue settles; one that failed is logged and dropped.
Delivers ==
  /\ Up /\ queue # <<>>
  /\ \/ sent' = Head(queue) /\ dropped' = FALSE
     \/ UNCHANGED sent /\ dropped' = TRUE
  /\ queue' = Tail(queue)
  /\ flushLeft' = IF flushLeft = 0 THEN 0 ELSE flushLeft - 1
  /\ UNCHANGED <<upstream, updates, marker, current, enabled, latest, check,
                 life, late, said>>

Ends(how) ==
  /\ life' = how
  /\ check' = Idle /\ flushLeft' = 0 /\ queue' = <<>>
  /\ UNCHANGED <<upstream, updates, marker, current, enabled, latest, sent, dropped,
                 late, said>>

\* flush() has resolved, then the audit log's: process.exit().
Exit == life = "flushing" /\ flushLeft = 0 /\ Ends("stopped")

Kill == Killed /\ Up /\ Ends("killed")

\* What reconcileStartupNotification() closes.
StaleAtStart(version, on) == ~on \/ ~updates \/ (marker # None /\ version >= marker)

\* A process starts, maybe after an upgrade or with another configuration.
Start ==
  /\ ~Up
  /\ \E version \in Versions, on \in BOOLEAN :
       /\ current' = version /\ enabled' = on
       /\ IF StaleAtStart(version, on) THEN Enqueue(Closed) ELSE UNCHANGED slot
  /\ latest' = None /\ late' = FALSE
  /\ life' = "running"
  /\ UNCHANGED <<upstream, updates, marker, check, flushLeft, said>>

\* A release is published, or withdrawn.
Published ==
  /\ \E v \in Releases : upstream' = v
  /\ UNCHANGED <<updates, marker, process, slot, late, said>>

Next ==
  \/ CheckStarts \/ FetchFails \/ FetchReturns \/ MarkerSaved \/ MarkerFails \/ MarkerRestored
  \/ \E on \in BOOLEAN : SetUpdates(on)
  \/ PrepareShutdown \/ CheckAwaited \/ MarkerReset \/ Delivers \/ Exit \/ Kill
  \/ Start \/ Published

Spec == Init /\ [][Next]_vars

\* The check interval fires, a fetch settles (10 s) and of infinitely many some
\* succeed, and so with writes; deliveries settle.
Fairness ==
  /\ SF_vars(CheckStarts) /\ WF_vars(FetchFails \/ FetchReturns) /\ SF_vars(FetchReturns)
  /\ WF_vars(MarkerSaved \/ MarkerFails) /\ SF_vars(MarkerSaved) /\ WF_vars(MarkerRestored)
  /\ WF_vars(CheckAwaited) /\ WF_vars(MarkerReset) /\ WF_vars(Delivers) /\ WF_vars(Exit)

FairSpec == Spec /\ Fairness

----------------------------------------------------------------------------
\* A version is announced at most once until a clean stop takes it back, whatever
\* crashes, failed writes and opt-outs lie between ("at-most-once push", runCheck()).
AnnouncedOnce == \A v \in Versions : said[v] <= 1

\* A user who has opted out, or a bridge that no longer checks, has an empty slot
\* or one about to be emptied, whatever check was under way.
OptOutCloses == Up /\ (~updates \/ ~enabled) => ClosedAtLast

\* "Clear every slot on any clean stop" (shutdown(), bridge/index.ts), even when the marker
\* cannot be written: an offer that stands afterwards is one whose retraction was lost, or
\* was made by a check that began during the shutdown.  The marker then covers it, so that
\* the next process neither makes it again nor lets it stand once it has caught up.
CleanStopCloses == life = "stopped" /\ sent # Closed /\ ~dropped => late /\ sent <= marker

\* A process that runs a version never lets its slot stand: "Clear a stale update
\* slot after startup if this process caught up" (reconcileStartupNotification()).
CaughtUpCloses == life = "running" /\ ~ClosedAtLast => Final > current

\* A release that stays out while the user wants to hear of it is eventually dealt
\* with: it, or a newer one, becomes the last one announced.
ReleaseAnnounced ==
  \A v \in Versions :
    <>[](life = "running" /\ enabled /\ updates /\ upstream = v /\ current < v)
      => <>(marker >= v)

=============================================================================
