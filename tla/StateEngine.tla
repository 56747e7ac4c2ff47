---------------------------- MODULE StateEngine ----------------------------
(***************************************************************************)
(* The polling engine of one Herdr session (bridge/state-engine.ts).       *)
(*                                                                         *)
(* A poll is three stretches of synchronous code separated by two awaits:  *)
(* the request is sent (phase "asked", or "listing" on the legacy          *)
(* three-call path), Herdr reads its herd and answers ("answered"), the    *)
(* readable transcripts are probed ("probing"), and the snapshot is        *)
(* committed.  Everything else - timer ticks, pokes, cadence changes,      *)
(* stop() - interleaves at the awaits.  `polling' is the flag the code     *)
(* keeps; `polls' are the poll() calls really in flight, so that the flag  *)
(* is something the model can get wrong.                                   *)
(***************************************************************************)
EXTENDS Naturals

CONSTANTS
  Panes,       \* pane ids of the session
  Statuses,    \* agent statuses Herdr reports
  Attention,   \* the statuses a first sighting announces: "blocked" and "done"
  NoAgent,     \* the pane is closed, or is a bare shell
  PollId,      \* names for concurrent poll() calls
  MaxEpoch,    \* bound: changes of the herd
  MaxOutages,  \* bound: times Herdr goes away
  MaxStops     \* bound: calls of stop()

ASSUME EngineAssumption ==
  /\ Attention \subseteq Statuses
  /\ NoAgent \notin Statuses
  /\ MaxEpoch \in Nat /\ MaxOutages \in Nat /\ MaxStops \in Nat

VARIABLES
  herd,        \* Herdr's own state: pane -> status, or NoAgent
  epoch,       \* how often it has changed
  herdrUp,     \* Herdr answers its socket
  outages,     \* how often it went away
  legacy,      \* this server predates session.snapshot
  started, generation, timer, cadence,
  polling, queuedPoll, supportsSnapshot,
  polls,       \* poll() calls in flight
  prevStatus, agents, bridge, hydrated,
  agentsEpoch, \* observer: the epoch the published agents were read at
  told,        \* observer: what onTransition / onRemove / the first onUpdate told a listener
  owed         \* observer: a poke was accepted and no read has begun since

env    == <<herd, epoch, herdrUp, outages, legacy>>
control== <<started, generation, timer, cadence>>
snap   == <<prevStatus, agents, bridge, hydrated, agentsEpoch, told>>
vars   == <<env, control, polling, queuedPoll, supportsSnapshot, polls, snap, owed>>

View     == [Panes -> Statuses \cup {NoAgent}]
Nothing  == [p \in Panes |-> NoAgent]
Phases   == {"free", "asked", "listing", "answered", "probing"}
Cadences == {"pollMs", "pollIdleMs"}
Free     == [phase |-> "free", gen |-> 0, view |-> Nothing, epoch |-> 0]

TypeOK ==
  /\ herd \in View /\ epoch \in Nat /\ herdrUp \in BOOLEAN /\ outages \in Nat
  /\ legacy \in BOOLEAN
  /\ started \in BOOLEAN /\ generation \in Nat /\ timer \in BOOLEAN
  /\ cadence \in Cadences
  /\ polling \in BOOLEAN /\ queuedPoll \in BOOLEAN /\ supportsSnapshot \in BOOLEAN
  /\ polls \in [PollId -> [phase : Phases, gen : Nat, view : View, epoch : Nat]]
  /\ prevStatus \in View /\ agents \in View
  /\ bridge \in {"connected", "disconnected"} /\ hydrated \in BOOLEAN
  /\ agentsEpoch \in Nat /\ told \in View /\ owed \in BOOLEAN

Init ==
  /\ herd \in View /\ epoch = 0 /\ herdrUp \in BOOLEAN /\ outages = 0
  /\ legacy \in BOOLEAN
  /\ started = FALSE /\ generation = 0 /\ timer = FALSE /\ cadence = "pollMs"
  /\ polling = FALSE /\ queuedPoll = FALSE /\ supportsSnapshot = TRUE
  /\ polls = [i \in PollId |-> Free]
  /\ prevStatus = Nothing /\ agents = Nothing
  /\ bridge = "disconnected" /\ hydrated = FALSE
  /\ agentsEpoch = 0 /\ told = Nothing /\ owed = FALSE

----------------------------------------------------------------------------
(* Entering and leaving poll().                                            *)

\* A poll that has sent its first request.
Asked == [Free EXCEPT !.phase = IF supportsSnapshot THEN "asked" ELSE "listing",
                      !.gen   = generation]

\* poll() called from `calls', the calls left in flight by the caller's own step.
Enter(calls) ==
  /\ \E i \in PollId : /\ calls[i].phase = "free"
                       /\ polls' = [calls EXCEPT ![i] = Asked]
  /\ polling' = TRUE
  /\ owed' = FALSE

\* Without its first line, poll() would let ticks stack.
PollStacked == Enter(polls)

\* void this.poll(): skipped when a poll is running.
Poll ==
  IF polling THEN UNCHANGED <<polling, polls, owed>> ELSE Enter(polls)

\* A finally block that forgets the flag.
LeaveStuck(i) ==
  /\ polls' = [polls EXCEPT ![i] = Free]
  /\ UNCHANGED <<polling, queuedPoll, owed>>

\* A finally block that drops the queued follow-up.
LeaveForgetful(i) ==
  /\ polls' = [polls EXCEPT ![i] = Free]
  /\ queuedPoll' = FALSE
  /\ polling' = FALSE
  /\ UNCHANGED owed

\* The finally block of call i: at most one follow-up, and only while started.
Leave(i) ==
  LET rest == [polls EXCEPT ![i] = Free]
  IN  /\ queuedPoll' = FALSE
      /\ IF queuedPoll /\ started
           THEN Enter(rest)
           ELSE /\ polls' = rest
                /\ polling' = FALSE
                /\ UNCHANGED owed

----------------------------------------------------------------------------
(* What a fetched view announces, against the previous poll's statuses.    *)

\* Announces changes only, never a pane first seen needing attention.
AnnouncedChangesOnly(view) ==
  {p \in Panes : view[p] # NoAgent /\ prevStatus[p] # NoAgent /\ prevStatus[p] # view[p]}

\* Panes for which onTransition fires.
Announced(view) ==
  {p \in Panes :
     /\ view[p] # NoAgent
     /\ \/ prevStatus[p] # NoAgent /\ prevStatus[p] # view[p]
        \/ prevStatus[p] = NoAgent /\ hydrated /\ view[p] \in Attention}

\* Panes for which onRemove fires.
Removed(view) == {p \in Panes : prevStatus[p] # NoAgent /\ view[p] = NoAgent}

\* A commit that never records a vanished pane's baseline as gone.
BaselineKept(view) ==
  [p \in Panes |-> IF view[p] = NoAgent THEN prevStatus[p] ELSE view[p]]

\* prevStatus after the loop: what was seen, and nothing for the panes that left.
Baseline(view) == view

\* The synchronous tail of poll(): transitions, removals, assignment, onUpdate.
Commit(i) ==
  LET view == polls[i].view
  IN  /\ prevStatus' = Baseline(view)
      /\ agents' = view
      /\ bridge' = "connected"
      /\ hydrated' = TRUE
      /\ agentsEpoch' = polls[i].epoch
      /\ told' = IF hydrated
                   THEN [p \in Panes |-> IF p \in Announced(view) \cup Removed(view)
                                           THEN view[p] ELSE told[p]]
                   ELSE view

----------------------------------------------------------------------------
(* The public operations.                                                  *)

Start ==
  /\ ~started
  /\ started' = TRUE
  /\ timer' = TRUE
  /\ cadence' = "pollMs"
  /\ Poll
  /\ UNCHANGED <<env, generation, queuedPoll, supportsSnapshot, snap>>

Stop ==
  /\ started /\ generation < MaxStops
  /\ started' = FALSE
  /\ generation' = generation + 1
  /\ timer' = FALSE
  /\ owed' = FALSE
  /\ UNCHANGED <<env, cadence, polling, queuedPoll, supportsSnapshot, polls, snap>>

\* A poke that trusts the poll already in flight.
PokeUnqueued ==
  /\ started
  /\ IF polling THEN owed' = TRUE /\ UNCHANGED <<polls, polling>> ELSE Enter(polls)
  /\ UNCHANGED <<env, control, queuedPoll, supportsSnapshot, snap>>

\* Called by the EventPoker; a no-op once stopped.
PokeNow ==
  /\ started
  /\ IF polling
       THEN /\ queuedPoll' = TRUE
            /\ owed' = TRUE
            /\ UNCHANGED <<polling, polls>>
       ELSE /\ Enter(polls)
            /\ UNCHANGED queuedPoll
  /\ UNCHANGED <<env, control, supportsSnapshot, snap>>

SetCadence(ms) ==
  /\ started /\ ms # cadence
  /\ cadence' = ms
  /\ timer' = TRUE
  /\ UNCHANGED <<env, started, generation, polling, queuedPoll, supportsSnapshot,
                 polls, snap, owed>>

IntervalTick ==
  /\ timer
  /\ Poll
  /\ UNCHANGED <<env, control, queuedPoll, supportsSnapshot, snap>>

----------------------------------------------------------------------------
(* The steps of a poll in flight.                                          *)

\* Herdr handles the request: this is the moment the herd is read.
HerdrAnswers(i) ==
  /\ herdrUp
  /\ \/ polls[i].phase = "asked" /\ ~legacy
     \/ polls[i].phase = "listing"
  /\ polls' = [polls EXCEPT ![i].phase = "answered", ![i].view = herd, ![i].epoch = epoch]
  /\ UNCHANGED <<env, control, polling, queuedPoll, supportsSnapshot, snap, owed>>

\* "unknown variant": off for good, and the same tick goes on with the list calls.
SnapshotUnknown(i) ==
  /\ herdrUp /\ legacy /\ polls[i].phase = "asked"
  /\ supportsSnapshot' = FALSE
  /\ polls' = [polls EXCEPT ![i].phase = "listing"]
  /\ UNCHANGED <<env, control, polling, queuedPoll, snap, owed>>

\* The catch block: a poll of an older generation may not touch the bridge state.
MarkDisconnected(i) ==
  IF polls[i].gen = generation THEN bridge' = "disconnected" ELSE UNCHANGED bridge

FetchFails(i) ==
  /\ ~herdrUp /\ polls[i].phase \in {"asked", "listing"}
  /\ MarkDisconnected(i)
  /\ Leave(i)
  /\ UNCHANGED <<env, control, supportsSnapshot, prevStatus, agents, hydrated,
                 agentsEpoch, told>>

\* After the fetch: the first generation check, then the transcript probes.
Resume(i) ==
  /\ polls[i].phase = "answered"
  /\ IF polls[i].gen = generation
       THEN /\ polls' = [polls EXCEPT ![i].phase = "probing"]
            /\ UNCHANGED <<polling, queuedPoll, owed>>
       ELSE Leave(i)
  /\ UNCHANGED <<env, control, supportsSnapshot, snap>>

\* Commits without asking again whether the engine was stopped.
FinishUnchecked(i) ==
  /\ polls[i].phase = "probing"
  /\ Commit(i)
  /\ Leave(i)
  /\ UNCHANGED <<env, control, supportsSnapshot>>

\* After the probes: the second generation check, then the commit.
Finish(i) ==
  /\ polls[i].phase = "probing"
  /\ IF polls[i].gen = generation THEN Commit(i) ELSE UNCHANGED snap
  /\ Leave(i)
  /\ UNCHANGED <<env, control, supportsSnapshot>>

----------------------------------------------------------------------------
(* Herdr itself.                                                           *)

HerdChanges ==
  /\ epoch < MaxEpoch
  /\ \E p \in Panes, s \in Statuses \cup {NoAgent} :
       /\ s # herd[p]
       /\ herd' = [herd EXCEPT ![p] = s]
  /\ epoch' = epoch + 1
  /\ UNCHANGED <<herdrUp, outages, legacy, control, polling, queuedPoll,
                 supportsSnapshot, polls, snap, owed>>

HerdrGoes ==
  /\ herdrUp /\ outages < MaxOutages
  /\ herdrUp' = FALSE
  /\ outages' = outages + 1
  /\ UNCHANGED <<herd, epoch, legacy, control, polling, queuedPoll,
                 supportsSnapshot, polls, snap, owed>>

HerdrReturns ==
  /\ ~herdrUp
  /\ herdrUp' = TRUE
  /\ UNCHANGED <<herd, epoch, outages, legacy, control, polling, queuedPoll,
                 supportsSnapshot, polls, snap, owed>>

Call(i) ==
  \/ HerdrAnswers(i) \/ SnapshotUnknown(i) \/ FetchFails(i) \/ Resume(i) \/ Finish(i)

Next ==
  \/ Start \/ Stop \/ PokeNow \/ IntervalTick
  \/ \E ms \in Cadences : SetCadence(ms)
  \/ \E i \in PollId : Call(i)
  \/ HerdChanges \/ HerdrGoes \/ HerdrReturns

Spec == Init /\ [][Next]_vars

\* An armed setInterval fires (the two liveness properties ask only about runs in
\* which setCadence stops re-arming it), a request is answered or times out, and an await
\* whose promise has settled resumes.  Nothing is assumed of Herdr's restarts.
Fairness ==
  /\ WF_vars(IntervalTick)
  /\ \A i \in PollId : WF_vars(Call(i))

FairSpec == Spec /\ Fairness

----------------------------------------------------------------------------
(* Safety.                                                                 *)

\* At most one poll() call is in flight, and the flag says exactly whether
\* there is one ("overlapping in-flight polls", poll() line 162).
SingleFlight ==
  /\ \A i, j \in PollId :
       polls[i].phase # "free" /\ polls[j].phase # "free" => i = j
  /\ polling <=> \E i \in PollId : polls[i].phase # "free"

\* A poke that arrived while a poll was in flight is remembered until a read
\* that starts after it: "the event that poked us may describe state that poll
\* already read past" (pokeNow).
NoPokeLost == owed => queuedPoll /\ polling /\ started

\* Once a snapshot is published, what the transition, removal and first update
\* callbacks have told a listener names the same panes needing attention as the
\* snapshot: no announcement is missing, none outlives its pane.
ListenersMatchSnapshot ==
  hydrated => \A p \in Panes :
    agents[p] \in Attention \/ told[p] \in Attention => told[p] = agents[p]

\* The published agents never go back to an older state of the herd.
SnapshotsMoveForward == [][agentsEpoch' >= agentsEpoch]_vars

\* A stopped engine publishes nothing and announces nothing, whatever polls
\* are still awaiting Herdr (lifecycleGeneration).
QuietAfterStop == [][~started => UNCHANGED snap]_vars

(* Liveness.                                                               *)

Running(up) == started /\ (herdrUp <=> up)

\* When the engine keeps running at a settled cadence and Herdr keeps answering,
\* the published snapshot settles on the herd, whatever failed before.  (What a
\* cadence that never settles does to the interval is PollLoop's subject.)
Converges ==
  \A ms \in Cadences :
    <>[](Running(TRUE) /\ cadence = ms) => <>[](bridge = "connected" /\ agents = herd)

=============================================================================
