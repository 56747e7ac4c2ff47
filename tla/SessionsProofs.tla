---------------------------- MODULE SessionsProofs ----------------------------
(***************************************************************************)
(* The session registry, for any number of sessions and any bounds: types, *)
(* one engine per session, nothing spawned once closed, and a slot that    *)
(* stays closed behind a disposal no fan-out reached.  And the terminal    *)
(* watch of one socket, for any number of panes, processes and lines.      *)
(***************************************************************************)
EXTENDS MCSessions, TLAPS

\* What an operation under way disposes is registered; the last operation, and
\* every disposal of all, comes after the shutdown.
LifecycleOrdered ==
  /\ op.awaited # None => op.kind = "refresh" /\ op.awaited \in op.todo
  /\ op.todo \subseteq Registered
  /\ op.kind = "disposeAll" => stage # "up"
  /\ \A i \in 1..Len(waiting) : waiting[i] = "disposeAll" => stage # "up"

\* A runtime with nothing to say: cleared and not reached since.
Quiet(n) == n \in reached \/ (slot[n] = "closed" /\ registry[n].alert = "none")

\* Runtimes being disposed are quiet, and so are the timers they leave behind.
DisposedQuietly ==
  /\ Awaiting => Quiet(op.awaited)
  /\ op.kind = "disposeAll" => \A n \in Registered : Quiet(n)
  /\ ghosts \subseteq reached

IInv ==
  /\ TypeOK /\ OneEngineEach /\ ClosedUnlessReached
  /\ LifecycleOrdered /\ DisposedQuietly

----------------------------------------------------------------------------
LEMMA InitIInv == Init => IInv
<1> SUFFICES ASSUME Init PROVE IInv  OBVIOUS
<1> USE RegistryAssumption, NoneIsNoRuntime DEF Names
<1>1. Spawned \in Runtime  BY DEF Spawned, Runtime, Alerts
<1>2. waiting \in Seq({"refresh", "disposeAll"}) /\ Len(waiting) = 0  BY DEF Init
<1>3. registry \in [Names -> Runtime \cup {None}] /\ engines \in [Names -> Nat]
  BY <1>1 DEF Init
<1>4. Registered = {Primary}  BY <1>1, <1>3 DEF Init, Registered
<1>5. TypeOK  BY <1>2, <1>3 DEF Init, TypeOK, NoOp
<1>6. OneEngineEach  BY <1>4 DEF Init, OneEngineEach, NoOp
<1>7. ClosedUnlessReached /\ DisposedQuietly
  BY DEF Init, ClosedUnlessReached, DisposedQuietly, Awaiting, NoOp
<1>8. LifecycleOrdered  BY <1>2 DEF Init, LifecycleOrdered, NoOp
<1> QED  BY <1>5, <1>6, <1>7, <1>8 DEF IInv

----------------------------------------------------------------------------
\* The operators the actions are built from.

\* A registered session's runtime is one (SessionRegistry.runtimes).
LEMMA RegisteredRuntime ==
  ASSUME TypeOK, NEW n \in Registered
  PROVE  n \in Names /\ registry[n] \in Runtime
  BY DEF TypeOK, Registered

\* An emit touches the slot of its own session (makeNotifySink()).
LEMMA EmittedType ==
  ASSUME TypeOK, NEW n \in Names, NEW before, NEW after, NEW mute
  PROVE  Emitted(n, before, after, mute) \in {"closed", "alert"}
  BY DEF TypeOK, Emitted

\* clearAll() leaves its runtimes with no alert and a closed slot, registered as
\* they were, and the others alone.
LEMMA ClearAllClears ==
  ASSUME TypeOK, NEW names \in SUBSET Names, ClearAll(names)
  PROVE  /\ registry' \in [Names -> Runtime \cup {None}]
         /\ slot' \in [Names -> {"closed", "alert"}]
         /\ Registered' = Registered
         /\ \A n \in names \cap Registered : slot'[n] = "closed" /\ registry'[n].alert = "none"
         /\ \A n \in Names \ (names \cap Registered) :
              slot'[n] = slot[n] /\ registry'[n] = registry[n]
<1> USE NoneIsNoRuntime
<1>1. \A n \in names \cap Registered :
        registry'[n] \in Runtime /\ registry'[n].alert = "none" /\ slot'[n] = "closed"
  BY DEF TypeOK, ClearAll, Registered, Runtime, Alerts
<1>2. \A n \in Names \ (names \cap Registered) :
        slot'[n] = slot[n] /\ registry'[n] = registry[n]
  BY DEF TypeOK, ClearAll
<1>3. registry' \in [Names -> Runtime \cup {None}]
  <2>1. DOMAIN registry' = Names /\ registry' = [n \in Names |-> registry'[n]]
    BY DEF ClearAll
  <2>2. \A n \in Names : registry'[n] \in Runtime \cup {None}
    BY <1>1, <1>2 DEF TypeOK
  <2> QED  BY <2>1, <2>2
<1>4. slot' \in [Names -> {"closed", "alert"}]
  <2>1. slot' = [n \in Names |-> slot'[n]]  BY DEF ClearAll
  <2>2. \A n \in Names : slot'[n] \in {"closed", "alert"}  BY <1>1, <1>2 DEF TypeOK
  <2> QED  BY <2>1, <2>2
<1>5. Registered' = Registered
  <2>1. \A n \in Names : registry'[n] # None <=> registry[n] # None
    BY <1>1, <1>2 DEF Registered
  <2> QED  BY <2>1 DEF Registered
<1> QED  BY <1>1, <1>2, <1>3, <1>4, <1>5

\* resumeNotifications() changes registered runtimes and their slots only, and is
\* noted for a disposal it reaches.
LEMMA ResumeAllReaches ==
  ASSUME TypeOK, NEW mute \in BOOLEAN, ResumeAll(mute)
  PROVE  /\ registry' \in [Names -> Runtime \cup {None}]
         /\ slot' \in [Names -> {"closed", "alert"}]
         /\ Registered' = Registered
         /\ \A n \in Names \ Registered : slot'[n] = slot[n]
         /\ reached' = IF Awaiting THEN reached \cup {op.awaited} ELSE reached
<1> USE NoneIsNoRuntime
<1> DEFINE live == {n \in Registered : registry[n].up}
<1>1. PICK verdict \in [live -> Alerts] :
        /\ registry' = [n \in Names |-> IF n \in live
                                          THEN [registry[n] EXCEPT !.alert = verdict[n]]
                                          ELSE registry[n]]
        /\ slot' = [n \in Names |-> IF n \in live /\ ~mute
                                      THEN IF verdict[n] = "held" THEN "alert" ELSE "closed"
                                      ELSE slot[n]]
  BY DEF ResumeAll
<1>2. live \subseteq Registered  OBVIOUS
<1>3. \A n \in live : [registry[n] EXCEPT !.alert = verdict[n]] \in Runtime
  BY <1>1, <1>2, RegisteredRuntime DEF Runtime
<1> HIDE DEF live
<1>4. registry' \in [Names -> Runtime \cup {None}]  BY <1>1, <1>3 DEF TypeOK
<1>5. slot' \in [Names -> {"closed", "alert"}]  BY <1>1 DEF TypeOK
<1>6. \A n \in Names : registry'[n] # None <=> registry[n] # None
  BY <1>1, <1>2, <1>3 DEF Registered
<1>7. Registered' = Registered  BY <1>6 DEF Registered
<1>8. \A n \in Names \ Registered : slot'[n] = slot[n]  BY <1>1, <1>2
<1>9. reached' = IF Awaiting THEN reached \cup {op.awaited} ELSE reached  BY DEF ResumeAll
<1> QED  BY <1>4, <1>5, <1>7, <1>8, <1>9

----------------------------------------------------------------------------
\* The parts of the invariant an action leaves alone.
LEMMA FrameKeeps ==
  ASSUME IInv, Registered' = Registered,
         UNCHANGED <<sockets, engines, queueVars, muted>>,
         registry' \in [Names -> Runtime \cup {None}], slot' \in [Names -> {"closed", "alert"}],
         ghosts' \subseteq ghosts, reached' \in SUBSET Names
  PROVE  TypeOK' /\ OneEngineEach' /\ LifecycleOrdered'
<1> USE DEF queueVars
<1>1. TypeOK'  BY DEF IInv, TypeOK
<1>2. OneEngineEach'  BY DEF IInv, OneEngineEach
<1>3. LifecycleOrdered'  BY DEF IInv, LifecycleOrdered
<1> QED  BY <1>1, <1>2, <1>3

\* One session's coordinator speaks: a running one, or one that is not quiet.
LEMMA SpeakerKeeps ==
  ASSUME IInv, NEW n \in Names, NEW rt \in Runtime, NEW s \in {"closed", "alert"},
         registry[n] # None, registry' = [registry EXCEPT ![n] = rt],
         slot' = [slot EXCEPT ![n] = s],
         UNCHANGED <<sockets, engines, ghosts, queueVars, muted, reached>>,
         (Awaiting /\ op.awaited = n) \/ op.kind = "disposeAll" =>
            (Quiet(n) => n \in reached \/ (s = "closed" /\ rt.alert = "none"))
  PROVE  IInv'
<1> USE NoneIsNoRuntime
<1>1. registry' \in [Names -> Runtime \cup {None}] /\ slot' \in [Names -> {"closed", "alert"}]
  BY DEF IInv, TypeOK
<1>2. Registered' = Registered
  <2>1. \A m \in Names : registry'[m] # None <=> registry[m] # None  BY DEF IInv, TypeOK
  <2> QED  BY <2>1 DEF Registered
<1>3. \A m \in Names : registry'[m] = (IF m = n THEN rt ELSE registry[m])
                      /\ slot'[m] = (IF m = n THEN s ELSE slot[m])
  BY DEF IInv, TypeOK
<1>4. TypeOK' /\ OneEngineEach' /\ LifecycleOrdered'
  <2>1. reached' \in SUBSET Names /\ ghosts' \subseteq ghosts  BY DEF IInv, TypeOK
  <2> QED  BY <1>1, <1>2, <2>1, FrameKeeps
<1>5. ClosedUnlessReached'
  BY <1>2, <1>3 DEF IInv, ClosedUnlessReached, Registered
<1>6. DisposedQuietly'
  <2>1. Awaiting => Quiet(op.awaited)'
    <3> SUFFICES ASSUME Awaiting PROVE Quiet(op.awaited)'  OBVIOUS
    <3>1. op.awaited \in Names /\ Quiet(op.awaited) /\ op' = op
      BY DEF IInv, LifecycleOrdered, DisposedQuietly, Awaiting, Registered, queueVars
    <3> QED  BY <1>3, <3>1 DEF Quiet
  <2>2. op.kind = "disposeAll" => \A m \in Registered : Quiet(m)'
    <3> SUFFICES ASSUME op.kind = "disposeAll", NEW m \in Registered PROVE Quiet(m)'  OBVIOUS
    <3>1. m \in Names /\ Quiet(m)  BY DEF IInv, DisposedQuietly, Registered
    <3> QED  BY <1>3, <3>1 DEF Quiet
  <2> QED  BY <1>2, <2>1, <2>2 DEF IInv, DisposedQuietly, Awaiting, queueVars
<1> QED  BY <1>4, <1>5, <1>6 DEF IInv

----------------------------------------------------------------------------
\* The session's own steps: an engine that polls is not being disposed.
LEMMA PollStep ==
  ASSUME IInv, NEW n \in Names, Polled(n) \/ PollFailed(n)
  PROVE  IInv'
<1> USE NoneIsNoRuntime
<1>1. n \in Registered /\ registry[n] \in Runtime
  BY RegisteredRuntime DEF IInv, Polled, PollFailed, Registered
<1>2. op.awaited # n /\ op.kind # "disposeAll"
  <2>1. engines[n] > 0  BY DEF Polled, PollFailed
  <2> QED  BY <2>1 DEF IInv, OneEngineEach
<1>3. CASE Polled(n)
  <2>0. PICK needy \in BOOLEAN : \E alert \in Verdicts(needy) :
          /\ registry' = [registry EXCEPT ![n] = [up |-> TRUE, needy |-> needy, alert |-> alert]]
          /\ slot' = [slot EXCEPT ![n] = Emitted(n, registry[n].alert, alert, muted)]
    BY <1>3 DEF Polled
  <2>1. PICK alert \in Verdicts(needy) :
          /\ registry' = [registry EXCEPT ![n] = [up |-> TRUE, needy |-> needy, alert |-> alert]]
          /\ slot' = [slot EXCEPT ![n] = Emitted(n, registry[n].alert, alert, muted)]
    BY <2>0
  <2>2. [up |-> TRUE, needy |-> needy, alert |-> alert] \in Runtime
    BY DEF Verdicts, Runtime, Alerts
  <2>3. Emitted(n, registry[n].alert, alert, muted) \in {"closed", "alert"}
    BY EmittedType DEF IInv
  <2>4. UNCHANGED <<sockets, engines, ghosts, queueVars, muted, reached>>
    BY <1>3 DEF Polled
  <2> HIDE DEF Emitted
  <2> QED  BY <1>1, <1>2, <2>1, <2>2, <2>3, <2>4, SpeakerKeeps DEF Registered
<1>4. CASE PollFailed(n)
  <2> DEFINE rt == [registry[n] EXCEPT !.up = FALSE]
  <2>1. rt \in Runtime  BY <1>1 DEF Runtime
  <2>2. registry' = [registry EXCEPT ![n] = rt]  BY <1>4 DEF PollFailed
  <2>3. slot' = [slot EXCEPT ![n] = slot[n]] /\ slot[n] \in {"closed", "alert"}
    BY <1>4 DEF PollFailed, IInv, TypeOK
  <2>4. UNCHANGED <<sockets, engines, ghosts, queueVars, muted, reached>>
    BY <1>4 DEF PollFailed
  <2> HIDE DEF rt
  <2> QED  BY <1>1, <1>2, <2>1, <2>2, <2>3, <2>4, SpeakerKeeps DEF Registered
<1> QED  BY <1>3, <1>4

\* A timer that is armed is not that of a quiet runtime.
LEMMA TimerStep ==
  ASSUME IInv, NEW n \in Names, TimerFires(n)
  PROVE  IInv'
<1> USE NoneIsNoRuntime
<1>1. n \in Registered /\ registry[n] \in Runtime /\ registry[n].alert = "armed"
  BY RegisteredRuntime DEF IInv, TimerFires, Registered
<1> DEFINE rt == [registry[n] EXCEPT !.alert = "held"]
<1>2. rt \in Runtime  BY <1>1 DEF Runtime, Alerts
<1>3. registry' = [registry EXCEPT ![n] = rt]  BY DEF TimerFires
<1>4. Emitted(n, "armed", "held", muted) \in {"closed", "alert"}
  BY EmittedType DEF IInv
<1>5. slot' = [slot EXCEPT ![n] = Emitted(n, "armed", "held", muted)]
      /\ UNCHANGED <<sockets, engines, ghosts, queueVars, muted, reached>>
  BY DEF TimerFires
<1>6. Quiet(n) => n \in reached  BY <1>1 DEF Quiet
<1> HIDE DEF rt
<1> QED  BY <1>1, <1>2, <1>3, <1>4, <1>5, <1>6, SpeakerKeeps DEF Registered

\* The timer of a dropped runtime speaks for a session that was reached.
LEMMA GhostStep ==
  ASSUME IInv, NEW n \in Names, GhostFires(n)
  PROVE  IInv'
<1>1. n \in reached  BY DEF IInv, DisposedQuietly, GhostFires
<1>2. /\ slot' = [slot EXCEPT ![n] = Emitted(n, "armed", "held", muted)]
      /\ UNCHANGED <<sockets, registry, engines, queueVars, muted, reached>>
      /\ ghosts' \subseteq ghosts
  BY DEF GhostFires
<1>3. Emitted(n, "armed", "held", muted) \in {"closed", "alert"}
  BY EmittedType DEF IInv
<1>4. Registered' = Registered  BY <1>2 DEF Registered
<1>5. slot' \in [Names -> {"closed", "alert"}] /\ \A m \in Names : m # n => slot'[m] = slot[m]
  BY <1>2, <1>3 DEF IInv, TypeOK
<1>6. TypeOK' /\ OneEngineEach' /\ LifecycleOrdered'
  <2>1. registry' \in [Names -> Runtime \cup {None}] /\ reached' \in SUBSET Names
    BY <1>2 DEF IInv, TypeOK
  <2> QED  BY <1>2, <1>4, <1>5, <2>1, FrameKeeps
<1>7. ClosedUnlessReached'
  BY <1>1, <1>2, <1>4, <1>5 DEF IInv, ClosedUnlessReached
<1>8. \A m \in Names : Quiet(m) => Quiet(m)'
  BY <1>1, <1>2, <1>5 DEF Quiet
<1>9. DisposedQuietly'
  <2>1. Awaiting => op.awaited \in Names
    BY DEF IInv, LifecycleOrdered, Awaiting, Registered
  <2>2. op' = op  BY <1>2 DEF queueVars
  <2> QED  BY <1>2, <1>4, <1>8, <2>1, <2>2 DEF IInv, DisposedQuietly, Awaiting, Registered
<1> QED  BY <1>6, <1>7, <1>9 DEF IInv

\* Muting clears every runtime: all are quiet afterwards.
LEMMA SnoozeOnStep == ASSUME IInv, SnoozeOn PROVE IInv'
<1>1. /\ registry' \in [Names -> Runtime \cup {None}]
      /\ slot' \in [Names -> {"closed", "alert"}]
      /\ Registered' = Registered
      /\ \A n \in Registered : slot'[n] = "closed" /\ registry'[n].alert = "none"
      /\ \A n \in Names \ Registered : slot'[n] = slot[n]
  BY ClearAllClears DEF IInv, SnoozeOn, Registered
<1>2. UNCHANGED <<sockets, engines, ghosts, queueVars, reached>> /\ muted' = TRUE
  BY DEF SnoozeOn
<1>3. TypeOK'  BY <1>1, <1>2 DEF IInv, TypeOK, queueVars
<1>4. OneEngineEach'  BY <1>1, <1>2 DEF IInv, OneEngineEach, queueVars
<1>5. LifecycleOrdered'  BY <1>1, <1>2 DEF IInv, LifecycleOrdered, queueVars
<1>6. ClosedUnlessReached'  BY <1>1, <1>2 DEF IInv, ClosedUnlessReached
<1>7. DisposedQuietly'
  <2>1. Awaiting => op.awaited \in Registered  BY DEF IInv, LifecycleOrdered, Awaiting
  <2>2. \A n \in Registered : Quiet(n)'  BY <1>1 DEF Quiet
  <2> QED  BY <1>1, <1>2, <2>1, <2>2 DEF IInv, DisposedQuietly, Awaiting, queueVars
<1> QED  BY <1>3, <1>4, <1>5, <1>6, <1>7 DEF IInv

\* A fan-out reaches a disposal that waits, and is never under way with a disposal
\* of all: the shutdown came first.
LEMMA ResumeStep ==
  ASSUME IInv, NEW mute \in BOOLEAN, stage = "up", ResumeAll(mute), muted' \in BOOLEAN,
         UNCHANGED <<sockets, engines, ghosts, queueVars>>
  PROVE  IInv'
<1>1. /\ registry' \in [Names -> Runtime \cup {None}]
      /\ slot' \in [Names -> {"closed", "alert"}]
      /\ Registered' = Registered
      /\ \A n \in Names \ Registered : slot'[n] = slot[n]
      /\ reached' = IF Awaiting THEN reached \cup {op.awaited} ELSE reached
  BY ResumeAllReaches DEF IInv
<1>2. Awaiting => op.awaited \in Names  BY DEF IInv, LifecycleOrdered, Awaiting, Registered
<1>3. TypeOK'
  <2>1. reached' \in SUBSET Names  BY <1>1, <1>2 DEF IInv, TypeOK
  <2> QED  BY <1>1, <2>1 DEF IInv, TypeOK, queueVars
<1>4. OneEngineEach'  BY <1>1 DEF IInv, OneEngineEach, queueVars
<1>5. LifecycleOrdered'  BY <1>1 DEF IInv, LifecycleOrdered, queueVars
<1>6. ClosedUnlessReached'  BY <1>1 DEF IInv, ClosedUnlessReached
<1>7. DisposedQuietly'
  <2>1. op.kind # "disposeAll"  BY DEF IInv, LifecycleOrdered
  <2>2. Awaiting => op.awaited \in reached'  BY <1>1
  <2>3. ghosts' \subseteq reached'  BY <1>1 DEF IInv, DisposedQuietly
  <2> QED  BY <2>1, <2>2, <2>3 DEF DisposedQuietly, Quiet, Awaiting, queueVars
<1> QED  BY <1>3, <1>4, <1>5, <1>6, <1>7 DEF IInv

LEMMA SnoozeEndsStep == ASSUME IInv, SnoozeEnds PROVE IInv'
<1>1. CASE stage = "up"
  BY <1>1, ResumeStep DEF SnoozeEnds
<1>2. CASE stage # "up"
  <2>1. UNCHANGED <<sockets, registry, engines, ghosts, queueVars, slot, reached>>
        /\ muted' = FALSE
    BY <1>2 DEF SnoozeEnds
  <2>2. TypeOK'  BY <2>1 DEF IInv, TypeOK, queueVars
  <2>3. (OneEngineEach /\ ClosedUnlessReached /\ LifecycleOrdered /\ DisposedQuietly)'
    BY <2>1 DEF IInv, OneEngineEach, ClosedUnlessReached, LifecycleOrdered, DisposedQuietly,
                Quiet, Awaiting, Registered, queueVars
  <2> QED  BY <2>2, <2>3 DEF IInv
<1> QED  BY <1>1, <1>2

LEMMA KindReenabledStep == ASSUME IInv, KindReenabled PROVE IInv'
<1>1. muted \in BOOLEAN  BY DEF IInv, TypeOK
<1> QED  BY <1>1, ResumeStep DEF KindReenabled

----------------------------------------------------------------------------
\* The lifecycle queue.

\* Steps that touch neither a runtime nor a slot.
LEMMA RuntimesKept ==
  ASSUME IInv, UNCHANGED <<registry, engines, ghosts, slot, reached>>
  PROVE  Registered' = Registered /\ ClosedUnlessReached' /\ \A n \in Names : Quiet(n)' = Quiet(n)
  BY DEF IInv, ClosedUnlessReached, Registered, Quiet

LEMMA QueueStep == ASSUME IInv, RefreshTick \/ Shutdown PROVE IInv'
<1>1. UNCHANGED <<sockets, registry, engines, ghosts, op, muted, slot, reached>>
  BY DEF RefreshTick, Shutdown
<1>2. \E kind \in {"refresh", "disposeAll"} :
        waiting' = Append(waiting, kind) /\ (kind = "disposeAll" => stage' # "up")
  BY DEF RefreshTick, Shutdown
<1>3. /\ stage = "up" /\ closed' \in BOOLEAN /\ stage' \in {"up", "closing", "down"}
  BY DEF RefreshTick, Shutdown, IInv, TypeOK
<1>4. waiting \in Seq({"refresh", "disposeAll"})  BY DEF IInv, TypeOK
<1>5. waiting' \in Seq({"refresh", "disposeAll"})  BY <1>2, <1>4
<1>6. TypeOK'  BY <1>1, <1>3, <1>5 DEF IInv, TypeOK
<1>7. OneEngineEach' /\ ClosedUnlessReached' /\ DisposedQuietly'
  <2>1. OneEngineEach'  BY <1>1 DEF IInv, OneEngineEach, Registered
  <2>2. ClosedUnlessReached'  BY <1>1, RuntimesKept
  <2>3. DisposedQuietly'  BY <1>1 DEF IInv, DisposedQuietly, Quiet, Awaiting, Registered
  <2> QED  BY <2>1, <2>2, <2>3
<1>8. LifecycleOrdered'
  <2>1. \A i \in 1..Len(waiting) : waiting[i] # "disposeAll"
    BY <1>3 DEF IInv, LifecycleOrdered
  <2>2. \A i \in 1..Len(waiting') : waiting'[i] = "disposeAll" => stage' # "up"
    BY <1>2, <1>4, <2>1
  <2>3. op.kind # "disposeAll"  BY <1>3 DEF IInv, LifecycleOrdered
  <2> QED  BY <1>1, <2>2, <2>3 DEF IInv, LifecycleOrdered, Registered
<1> QED  BY <1>6, <1>7, <1>8 DEF IInv

\* Taking the head of the queue (enqueueLifecycle()).
LEMMA StartingTakes ==
  ASSUME IInv, NEW kind, Starting(kind), UNCHANGED stage
  PROVE  /\ op.kind = "none" /\ op.awaited = None
         /\ waiting' \in Seq({"refresh", "disposeAll"})
         /\ \A i \in 1..Len(waiting') : waiting'[i] = "disposeAll" => stage' # "up"
         /\ kind = "disposeAll" => stage # "up"
<1>1. op.kind = "none" /\ op.awaited = None  BY DEF Starting, IInv, LifecycleOrdered
<1>2. waiting \in Seq({"refresh", "disposeAll"}) /\ waiting # <<>> /\ waiting' = Tail(waiting)
      /\ waiting[1] = kind
  BY DEF IInv, TypeOK, Starting
<1>3. Len(waiting) \in Nat /\ Len(waiting) > 0 /\ Len(waiting') = Len(waiting) - 1
      /\ waiting' \in Seq({"refresh", "disposeAll"})
      /\ \A i \in 1..Len(waiting') : waiting'[i] = waiting[i + 1] /\ i + 1 \in 1..Len(waiting)
  BY <1>2
<1>4. \A i \in 1..Len(waiting) : waiting[i] = "disposeAll" => stage # "up"
  BY DEF IInv, LifecycleOrdered
<1>5. 1 \in 1..Len(waiting)  BY <1>3
<1> QED  BY <1>1, <1>2, <1>3, <1>4, <1>5

LEMMA BeginRefreshStep == ASSUME IInv, BeginRefresh PROVE IInv'
<1> USE RegistryAssumption, NoneIsNoRuntime DEF Names
<1>1. /\ op.kind = "none" /\ op.awaited = None
      /\ waiting' \in Seq({"refresh", "disposeAll"})
      /\ \A i \in 1..Len(waiting') : waiting'[i] = "disposeAll" => stage' # "up"
      /\ UNCHANGED <<sockets, ghosts, closed, stage, muted, slot, reached>>
  BY StartingTakes DEF BeginRefresh
<1>2. CASE closed
  <2>1. UNCHANGED <<registry, engines, op>>  BY <1>2 DEF BeginRefresh
  <2>2. TypeOK'  BY <1>1, <2>1 DEF IInv, TypeOK
  <2>3. OneEngineEach'  BY <2>1 DEF IInv, OneEngineEach, Registered
  <2>4. ClosedUnlessReached' /\ DisposedQuietly'
    BY <1>1, <2>1 DEF IInv, ClosedUnlessReached, DisposedQuietly, Quiet, Awaiting, Registered
  <2>5. LifecycleOrdered'  BY <1>1, <2>1 DEF IInv, LifecycleOrdered, Registered
  <2> QED  BY <2>2, <2>3, <2>4, <2>5 DEF IInv
<1>3. CASE ~closed
  <2> DEFINE appeared == sockets \ Registered
  <2>1. /\ registry' = [n \in Names |-> IF n \in appeared THEN Spawned ELSE registry[n]]
        /\ engines' = [n \in Names |-> IF n \in appeared THEN engines[n] + 1 ELSE engines[n]]
        /\ op' = [kind |-> "refresh", awaited |-> None,
                  todo |-> {n \in Others : registry[n] # None} \ sockets]
    BY <1>3 DEF BeginRefresh, Scan
  <2>2. appeared \subseteq Names /\ appeared \cap Registered = {}
    BY DEF IInv, TypeOK
  <2>3. Spawned \in Runtime  BY DEF Spawned, Runtime, Alerts
  <2> HIDE DEF appeared
  <2>4. TypeOK'  BY <1>1, <2>1, <2>3 DEF IInv, TypeOK
  <2>5. Registered' = Registered \cup appeared
    <3>1. \A n \in Names : registry'[n] # None <=> n \in appeared \/ registry[n] # None
      BY <2>1, <2>3
    <3> QED  BY <2>2, <3>1 DEF Registered
  <2>6. OneEngineEach'
    BY <1>1, <2>1, <2>2, <2>5 DEF IInv, OneEngineEach, TypeOK
  <2>7. ClosedUnlessReached'  BY <1>1, <2>5 DEF IInv, ClosedUnlessReached
  <2>8. DisposedQuietly'  BY <1>1, <2>1 DEF IInv, DisposedQuietly, Awaiting
  <2>9. LifecycleOrdered'
    <3>1. op'.awaited = None /\ op'.kind = "refresh"  BY <2>1
    <3>2. op'.todo \subseteq Registered'  BY <2>1, <2>5 DEF Registered
    <3> QED  BY <1>1, <3>1, <3>2 DEF LifecycleOrdered
  <2> QED  BY <2>4, <2>6, <2>7, <2>8, <2>9 DEF IInv
<1> QED  BY <1>2, <1>3

\* The parts of a disposal: running engines stop, runtimes fall silent (dispose()).
LEMMA DisposeStops ==
  ASSUME IInv, NEW names \in SUBSET Names, Dispose(names), op.awaited = None, op.kind # "disposeAll",
         reached' = reached
  PROVE  /\ registry' \in [Names -> Runtime \cup {None}]
         /\ slot' \in [Names -> {"closed", "alert"}]
         /\ engines' \in [Names -> Nat]
         /\ Registered' = Registered
         /\ \A n \in Names : engines'[n] = IF n \in Registered \ names THEN 1 ELSE 0
         /\ \A n \in names \cap Registered : Quiet(n)'
         /\ \A n \in Names \ Registered : slot'[n] = slot[n]
<1>1. /\ registry' \in [Names -> Runtime \cup {None}]
      /\ slot' \in [Names -> {"closed", "alert"}]
      /\ Registered' = Registered
      /\ \A n \in names \cap Registered : slot'[n] = "closed" /\ registry'[n].alert = "none"
      /\ \A n \in Names \ Registered : slot'[n] = slot[n]
  BY ClearAllClears DEF IInv, Dispose
<1>2. \A n \in Names : engines[n] = IF n \in Registered THEN 1 ELSE 0
  <2>1. None \notin Names  BY RegistryAssumption DEF Names
  <2> QED  BY <2>1 DEF IInv, OneEngineEach
<1>3. engines' = [n \in Names |-> IF n \in names \cap Registered THEN engines[n] - 1
                                 ELSE engines[n]]
  BY DEF Dispose
<1>4. \A n \in Names : engines'[n] = IF n \in Registered \ names THEN 1 ELSE 0
  BY <1>2, <1>3
<1>5. engines' \in [Names -> Nat]  BY <1>3, <1>4
<1>6. \A n \in names \cap Registered : Quiet(n)'  BY <1>1 DEF Quiet
<1> QED  BY <1>1, <1>4, <1>5, <1>6

LEMMA DisposeVanishedStep == ASSUME IInv, DisposeVanished PROVE IInv'
<1> USE RegistryAssumption DEF Names
<1>1. PICK n \in op.todo : Dispose({n}) /\ op' = [op EXCEPT !.awaited = n]
  BY DEF DisposeVanished
<1>2. op.kind = "refresh" /\ op.awaited = None
      /\ UNCHANGED <<sockets, ghosts, waiting, closed, stage, muted, reached>>
  BY DEF DisposeVanished
<1>3. n \in Others /\ n \in Registered  BY DEF IInv, TypeOK, LifecycleOrdered
<1>4. /\ registry' \in [Names -> Runtime \cup {None}]
      /\ slot' \in [Names -> {"closed", "alert"}]
      /\ engines' \in [Names -> Nat]
      /\ Registered' = Registered
      /\ \A m \in Names : engines'[m] = IF m \in Registered \ {n} THEN 1 ELSE 0
      /\ \A m \in {n} \cap Registered : Quiet(m)'
      /\ \A m \in Names \ Registered : slot'[m] = slot[m]
  BY <1>1, <1>2, <1>3, DisposeStops
<1>5. op'.awaited = n /\ op'.kind = "refresh" /\ op'.todo = op.todo
      /\ op' \in [kind : {"none", "refresh", "disposeAll"}, todo : SUBSET Others,
                  awaited : Others \cup {None}]
  BY <1>1, <1>2, <1>3 DEF IInv, TypeOK
<1>6. TypeOK'  BY <1>2, <1>4, <1>5 DEF IInv, TypeOK
<1>7. OneEngineEach'  BY <1>4, <1>5 DEF OneEngineEach
<1>8. ClosedUnlessReached'  BY <1>2, <1>4 DEF IInv, ClosedUnlessReached
<1>9. DisposedQuietly'  BY <1>2, <1>3, <1>4, <1>5 DEF IInv, DisposedQuietly
<1>10. LifecycleOrdered'  BY <1>2, <1>4, <1>5 DEF IInv, LifecycleOrdered
<1> QED  BY <1>6, <1>7, <1>8, <1>9, <1>10 DEF IInv

LEMMA DisposedStep == ASSUME IInv, Disposed PROVE IInv'
<1> USE RegistryAssumption, NoneIsNoRuntime DEF Names
<1> DEFINE n == op.awaited
<1>1. n # None /\ n \in Others /\ n \in Registered /\ n \in op.todo /\ op.kind = "refresh"
  BY DEF IInv, TypeOK, LifecycleOrdered, Disposed, Awaiting
<1>2. Quiet(n)  BY DEF IInv, DisposedQuietly, Disposed
<1>3. /\ registry' = [registry EXCEPT ![n] = None]
      /\ ghosts' = IF registry[n].alert = "armed" THEN ghosts \cup {n} ELSE ghosts
      /\ op' = [op EXCEPT !.todo = @ \ {n}, !.awaited = None]
      /\ UNCHANGED <<sockets, engines, waiting, closed, stage, muted, slot, reached>>
  BY DEF Disposed
<1> HIDE DEF n
<1>4. op'.awaited = None /\ op'.kind = "refresh" /\ op'.todo = op.todo \ {n}
      /\ op' \in [kind : {"none", "refresh", "disposeAll"}, todo : SUBSET Others,
                  awaited : Others \cup {None}]
  BY <1>1, <1>3 DEF IInv, TypeOK
<1>5. Registered' = Registered \ {n}
  BY <1>3 DEF IInv, TypeOK, Registered
<1>6. TypeOK'
  <2>1. registry' \in [Names -> Runtime \cup {None}]  BY <1>3 DEF IInv, TypeOK
  <2>2. ghosts' \in SUBSET Names  BY <1>1, <1>3 DEF IInv, TypeOK
  <2> QED  BY <1>3, <1>4, <2>1, <2>2 DEF IInv, TypeOK
<1>7. OneEngineEach'
  BY <1>1, <1>3, <1>4, <1>5 DEF IInv, OneEngineEach, n
<1>8. ClosedUnlessReached'
  BY <1>2, <1>3, <1>5 DEF IInv, ClosedUnlessReached, Quiet
<1>9. DisposedQuietly'
  <2>1. ghosts' \subseteq reached  BY <1>2, <1>3 DEF IInv, DisposedQuietly, Quiet
  <2> QED  BY <1>3, <1>4, <2>1 DEF DisposedQuietly, Awaiting
<1>10. LifecycleOrdered'  BY <1>3, <1>4, <1>5 DEF IInv, LifecycleOrdered
<1> QED  BY <1>6, <1>7, <1>8, <1>9, <1>10 DEF IInv

LEMMA EndRefreshStep == ASSUME IInv, EndRefresh PROVE IInv'
<1> USE RegistryAssumption DEF Names
<1>1. op.kind = "refresh" /\ op.awaited = None  BY DEF IInv, LifecycleOrdered, EndRefresh
<1>2. /\ op' = NoOp
      /\ UNCHANGED <<sockets, registry, engines, ghosts, waiting, closed, stage, muted, slot, reached>>
  BY DEF EndRefresh
<1>3. TypeOK'  BY <1>2 DEF IInv, TypeOK, NoOp
<1>4. OneEngineEach'  BY <1>1, <1>2 DEF IInv, OneEngineEach, NoOp, Registered
<1>5. ClosedUnlessReached'  BY <1>2, RuntimesKept
<1>6. DisposedQuietly'  BY <1>2 DEF IInv, DisposedQuietly, Awaiting, NoOp
<1>7. LifecycleOrdered'  BY <1>2 DEF IInv, LifecycleOrdered, NoOp
<1> QED  BY <1>3, <1>4, <1>5, <1>6, <1>7 DEF IInv

LEMMA BeginDisposeAllStep == ASSUME IInv, BeginDisposeAll PROVE IInv'
<1> USE RegistryAssumption DEF Names
<1>1. /\ op.kind = "none" /\ op.awaited = None /\ stage # "up"
      /\ waiting' \in Seq({"refresh", "disposeAll"})
      /\ \A i \in 1..Len(waiting') : waiting'[i] = "disposeAll" => stage' # "up"
      /\ UNCHANGED <<sockets, ghosts, closed, stage, muted, reached>>
  BY StartingTakes DEF BeginDisposeAll
<1>2. /\ registry' \in [Names -> Runtime \cup {None}]
      /\ slot' \in [Names -> {"closed", "alert"}]
      /\ engines' \in [Names -> Nat]
      /\ Registered' = Registered
      /\ \A m \in Names : engines'[m] = IF m \in Registered \ Names THEN 1 ELSE 0
      /\ \A m \in Names \cap Registered : Quiet(m)'
      /\ \A m \in Names \ Registered : slot'[m] = slot[m]
  BY <1>1, DisposeStops DEF BeginDisposeAll
<1>3. op' = [kind |-> "disposeAll", todo |-> {}, awaited |-> None]
  BY DEF BeginDisposeAll, NoOp
<1>4. TypeOK'  BY <1>1, <1>2, <1>3 DEF IInv, TypeOK
<1>5. OneEngineEach'  BY <1>2, <1>3 DEF OneEngineEach
<1>6. ClosedUnlessReached'  BY <1>1, <1>2 DEF IInv, ClosedUnlessReached
<1>7. DisposedQuietly'
  BY <1>1, <1>2, <1>3 DEF IInv, DisposedQuietly, Awaiting, Registered
<1>8. LifecycleOrdered'  BY <1>1, <1>3 DEF LifecycleOrdered
<1> QED  BY <1>4, <1>5, <1>6, <1>7, <1>8 DEF IInv

LEMMA EndDisposeAllStep == ASSUME IInv, EndDisposeAll PROVE IInv'
<1> USE RegistryAssumption DEF Names
<1>1. /\ op.kind = "disposeAll" /\ registry' = [n \in Names |-> None]
      /\ op' = NoOp /\ stage' = "down"
      /\ UNCHANGED <<sockets, engines, ghosts, waiting, closed, muted, slot, reached>>
  BY DEF EndDisposeAll
<1>2. Registered' = {}  BY <1>1 DEF Registered
<1>3. TypeOK'  BY <1>1 DEF IInv, TypeOK, NoOp
<1>4. OneEngineEach'  BY <1>1, <1>2 DEF IInv, OneEngineEach, NoOp
<1>5. ClosedUnlessReached'
  BY <1>1, <1>2 DEF IInv, ClosedUnlessReached, DisposedQuietly, Quiet
<1>6. DisposedQuietly'  BY <1>1 DEF IInv, DisposedQuietly, Awaiting, NoOp
<1>7. LifecycleOrdered'  BY <1>1 DEF LifecycleOrdered, NoOp
<1> QED  BY <1>3, <1>4, <1>5, <1>6, <1>7 DEF IInv

LEMMA SocketStep == ASSUME IInv, SocketChanges PROVE IInv'
<1>1. sockets' \in SUBSET Others
      /\ UNCHANGED <<registry, engines, ghosts, queueVars, muted, slot, reached>>
  BY DEF IInv, TypeOK, SocketChanges
<1>2. TypeOK'  BY <1>1 DEF IInv, TypeOK, queueVars
<1>3. (OneEngineEach /\ ClosedUnlessReached /\ LifecycleOrdered /\ DisposedQuietly)'
  BY <1>1 DEF IInv, OneEngineEach, ClosedUnlessReached, LifecycleOrdered, DisposedQuietly,
              Quiet, Awaiting, Registered, queueVars
<1> QED  BY <1>2, <1>3 DEF IInv

----------------------------------------------------------------------------
LEMMA NextIInv == IInv /\ [Next]_vars => IInv'
<1> SUFFICES ASSUME IInv, [Next]_vars PROVE IInv'  OBVIOUS
<1>1. CASE \E n \in Polling : Polled(n) \/ PollFailed(n) \/ TimerFires(n) \/ GhostFires(n)
  <2>1. Polling \subseteq Names  BY RegistryAssumption DEF Names
  <2> QED  BY <1>1, <2>1, PollStep, TimerStep, GhostStep
<1>2. CASE SnoozeOn \/ SnoozeEnds \/ KindReenabled
  BY <1>2, SnoozeOnStep, SnoozeEndsStep, KindReenabledStep
<1>3. CASE RefreshTick \/ BeginRefresh \/ DisposeVanished \/ Disposed \/ EndRefresh
  BY <1>3, QueueStep, BeginRefreshStep, DisposeVanishedStep, DisposedStep, EndRefreshStep
<1>4. CASE Shutdown \/ BeginDisposeAll \/ EndDisposeAll
  BY <1>4, QueueStep, BeginDisposeAllStep, EndDisposeAllStep
<1>5. CASE SocketChanges  BY <1>5, SocketStep
<1>6. CASE UNCHANGED vars
  <2>1. TypeOK'  BY <1>6 DEF IInv, TypeOK, vars, queueVars
  <2>2. (OneEngineEach /\ ClosedUnlessReached /\ LifecycleOrdered /\ DisposedQuietly)'
    BY <1>6 DEF IInv, OneEngineEach, ClosedUnlessReached, LifecycleOrdered, DisposedQuietly,
                Quiet, Awaiting, Registered, vars, queueVars
  <2> QED  BY <2>1, <2>2 DEF IInv
<1> QED  BY <1>1, <1>2, <1>3, <1>4, <1>5, <1>6 DEF Next

\* The inductive invariant holds (the parts above, of bridge/sessions.ts).
THEOREM RegistryInvariant == Spec => []IInv
  BY InitIInv, NextIInv, PTL DEF Spec

\* Every variable of the registry stays in its type (SessionRegistry, bridge/sessions.ts).
THEOREM RegistryTypeCorrect == Spec => []TypeOK
<1>1. IInv => TypeOK  BY DEF IInv
<1> QED  BY <1>1, RegistryInvariant, PTL

\* A registered session is polled by one engine, any other by none, whatever scans,
\* disposals and shutdowns were queued (refresh(), disposeAll(), dispose()).
THEOREM RegistryOneEngineEach == Spec => []OneEngineEach
<1>1. IInv => OneEngineEach  BY DEF IInv
<1> QED  BY <1>1, RegistryInvariant, PTL

\* A disposed session's slot stays closed unless a fan-out reached it while its
\* disposal waited for the last delivery (dispose(), clearAll()).
THEOREM RegistryClosesSlots == Spec => []ClosedUnlessReached
<1>1. IInv => ClosedUnlessReached  BY DEF IInv
<1> QED  BY <1>1, RegistryInvariant, PTL

\* A closed registry starts no engine, by no operation queued before (refresh()).
THEOREM RegistrySpawnsNoneClosed == Spec => NoSpawnAfterClose
<1>1. ASSUME IInv, [Next]_vars, closed PROVE \A n \in Names : engines'[n] <= engines[n]
  <2>1. engines \in [Names -> Nat]  BY <1>1 DEF IInv, TypeOK
  <2>2. CASE UNCHANGED engines  BY <2>1, <2>2
  <2>3. CASE BeginRefresh  BY <1>1, <2>2, <2>3 DEF BeginRefresh
  <2>4. ASSUME NEW names, Dispose(names) PROVE \A n \in Names : engines'[n] <= engines[n]
    <3>1. engines' = [n \in Names |-> IF n \in names \cap Registered THEN engines[n] - 1
                                     ELSE engines[n]]
      BY <2>4 DEF Dispose
    <3> QED  BY <2>1, <3>1
  <2>5. CASE DisposeVanished \/ BeginDisposeAll
    BY <2>4, <2>5 DEF DisposeVanished, BeginDisposeAll
  <2> QED
    BY <1>1, <2>2, <2>3, <2>5 DEF Next, vars, Polled, PollFailed, TimerFires, GhostFires,
       SnoozeOn, SnoozeEnds, KindReenabled, RefreshTick, Disposed, EndRefresh, Shutdown,
       EndDisposeAll, SocketChanges
<1>2. IInv /\ [Next]_vars => [closed => \A n \in Names : engines'[n] <= engines[n]]_vars
  BY <1>1
<1> QED  BY <1>2, RegistryInvariant, PTL DEF Spec, NoSpawnAfterClose

----------------------------------------------------------------------------
(* The watch.                                                              *)

Process ==
  [pane : Pane \union {NoPane}, size : Size \union {NoPane}, alive : BOOLEAN,
   pipe : Seq({"frame", "other"}), exited : BOOLEAN, spawned : BOOLEAN, closed : BOOLEAN,
   intentional : BOOLEAN, up : BOOLEAN, down : BOOLEAN]

WatchTyped ==
  /\ open \in BOOLEAN
  /\ watch.obs \in Terminal!Observer \union {Terminal!NoWatch}
  /\ obs \in [Terminal!Observer -> Process]

\* The watch the socket has is not closed.
WatchIsOpen == open /\ watch.obs \in Terminal!Observer => ~obs[watch.obs].closed

\* Whatever is not watched is dead, and its closure is closed or has nothing to say.
OthersAreSilent ==
  \A o \in Terminal!Observer : ~(open /\ o = watch.obs) =>
    /\ ~obs[o].alive
    /\ obs[o].closed \/ (obs[o].pipe = <<>> /\ obs[o].exited)

WatchInv == WatchTyped /\ WatchIsOpen /\ OthersAreSilent

LEMMA InitSilent == Terminal!Init => WatchInv
  BY DEF Terminal!Init, WatchInv, WatchTyped, WatchIsOpen, OthersAreSilent, Terminal!Observer,
     Terminal!Unwatched, Terminal!NoWatch, Terminal!NotStarted, Process

\* Closing the watch kills its process, whoever it is.
LEMMA ClosingKills ==
  ASSUME WatchInv, open
  PROVE  /\ Terminal!CloseWatch \in [Terminal!Observer -> Process]
         /\ \A o \in Terminal!Observer : ~Terminal!CloseWatch[o].alive
         /\ \A o \in Terminal!Observer :
              Terminal!CloseWatch[o].closed \/ (Terminal!CloseWatch[o].pipe = <<>> /\ Terminal!CloseWatch[o].exited)
<1>1. ASSUME NEW o \in Terminal!Observer, o = watch.obs
      PROVE  Terminal!Close(obs[o]) \in Process /\ ~Terminal!Close(obs[o]).alive /\ Terminal!Close(obs[o]).closed
  <2>1. obs[o] \in Process /\ ~obs[o].closed
    BY <1>1 DEF WatchInv, WatchTyped, WatchIsOpen
  <2>2. (obs[o].closed /\ obs[o].alive) = FALSE
    BY <2>1
  <2>3. Terminal!Close(obs[o]) = [obs[o] EXCEPT !.intentional = TRUE, !.closed = TRUE, !.alive = FALSE]
    BY <2>2, Zenon DEF Terminal!Close
  <2> QED BY <2>1, <2>3 DEF Process
<1> QED BY <1>1 DEF WatchInv, WatchTyped, OthersAreSilent, Terminal!CloseWatch

\* A step of the watched process keeps the invariant unless it closes the closure.
LEMMA WatchedKeeps ==
  ASSUME WatchInv, NEW o \in Terminal!Observer, open, o = watch.obs, UNCHANGED <<open, watch>>,
         NEW x \in Process, x.closed = obs[o].closed, obs' = [obs EXCEPT ![o] = x]
  PROVE  WatchInv'
  BY DEF WatchInv, WatchTyped, WatchIsOpen, OthersAreSilent

LEMMA UnwatchedKeeps ==
  ASSUME WatchInv, open, open' = open, obs' = Terminal!CloseWatch, watch' = Terminal!Unwatched
  PROVE  WatchInv'
<1>1. Terminal!Unwatched.obs = Terminal!NoWatch /\ Terminal!NoWatch \notin Terminal!Observer
  BY DEF Terminal!Unwatched, Terminal!NoWatch, Terminal!Observer
<1> QED BY <1>1, ClosingKills DEF WatchInv, WatchTyped, WatchIsOpen, OthersAreSilent

LEMMA StepSilent == WatchInv /\ [Terminal!Next]_terminal => WatchInv'
<1> SUFFICES ASSUME WatchInv, [Terminal!Next]_terminal PROVE WatchInv'
  OBVIOUS
<1> USE DEF WatchInv
<1>1. CASE Terminal!Unwatch
  BY <1>1, UnwatchedKeeps DEF Terminal!Unwatch
<1>2. CASE Terminal!SocketCloses
  BY <1>2, ClosingKills DEF Terminal!SocketCloses, WatchTyped, WatchIsOpen, OthersAreSilent
<1>3. CASE Terminal!SessionChanges
  BY <1>3 DEF Terminal!SessionChanges, WatchTyped, WatchIsOpen, OthersAreSilent
<1>4. ASSUME NEW p \in Pane, NEW z \in Size, Terminal!Watch(p, z) PROVE WatchInv'
  <2>1. CASE obs' = Terminal!CloseWatch /\ watch' = Terminal!Unwatched
    <3>1. open /\ open' = open
      BY <1>4 DEF Terminal!Watch
    <3> QED BY <2>1, <3>1, UnwatchedKeeps
  <2>2. ASSUME NEW o \in Terminal!Observer, NEW spawned \in BOOLEAN,
               obs' = [Terminal!CloseWatch EXCEPT ![o] = Terminal!Started(p, z, spawned)],
               watch' = [obs |-> o, pane |-> p, size |-> z]
        PROVE  WatchInv'
    <3> DEFINE x == Terminal!Started(p, z, spawned)
    <3>1. x \in Process /\ ~x.closed
      <4>1. Terminal!NotStarted \in Process /\ ~Terminal!NotStarted.closed
        BY DEF Terminal!NotStarted, Process
      <4> QED BY <4>1 DEF Terminal!Started, Process
    <3>2. open /\ open' = open
      BY <1>4 DEF Terminal!Watch
    <3>3. obs' = [Terminal!CloseWatch EXCEPT ![o] = x]
      BY <2>2
    <3> HIDE DEF x
    <3>4. obs' \in [Terminal!Observer -> Process] /\ obs'[o] = x
      BY <3>1, <3>2, <3>3, ClosingKills
    <3>5. \A k \in Terminal!Observer : k # o => obs'[k] = Terminal!CloseWatch[k]
      BY <3>2, <3>3, ClosingKills
    <3> QED BY <2>2, <3>1, <3>2, <3>4, <3>5, ClosingKills DEF WatchTyped, WatchIsOpen,
               OthersAreSilent
  <2> QED BY <1>4, <2>1, <2>2 DEF Terminal!Watch
<1>5. ASSUME NEW p \in Pane, NEW z \in Size, Terminal!Resize(p, z) PROVE WatchInv'
  BY <1>5 DEF Terminal!Resize, WatchTyped, WatchIsOpen, OthersAreSilent, Terminal!Observer,
     Terminal!NoWatch, Process
<1>6. ASSUME NEW o \in Terminal!Observer, Terminal!Prints(o) PROVE WatchInv'
  <2>1. open /\ o = watch.obs /\ UNCHANGED <<open, watch>>
    BY <1>6 DEF Terminal!Prints, OthersAreSilent
  <2>2. PICK line \in {"frame", "other"} : obs' = [obs EXCEPT ![o].pipe = Append(@, line)]
    BY <1>6 DEF Terminal!Prints
  <2> DEFINE x == [obs[o] EXCEPT !.pipe = Append(@, line)]
  <2>3. Append(obs[o].pipe, line) \in Seq({"frame", "other"})
    BY DEF WatchTyped, Process
  <2>4. x \in Process /\ x.closed = obs[o].closed
    BY <2>3 DEF WatchTyped, Process
  <2>5. obs' = [obs EXCEPT ![o] = x]
    BY <2>2
  <2> HIDE DEF x
  <2> QED BY <2>1, <2>4, <2>5, WatchedKeeps
<1>7. ASSUME NEW o \in Terminal!Observer, Terminal!Ends(o) PROVE WatchInv'
  <2>1. open /\ o = watch.obs /\ UNCHANGED <<open, watch>>
    BY <1>7 DEF Terminal!Ends, OthersAreSilent
  <2> DEFINE x == [obs[o] EXCEPT !.alive = FALSE]
  <2>2. x \in Process /\ x.closed = obs[o].closed
    BY DEF WatchTyped, Process
  <2>3. obs' = [obs EXCEPT ![o] = x]
    BY <1>7 DEF Terminal!Ends
  <2> HIDE DEF x
  <2> QED BY <2>1, <2>2, <2>3, WatchedKeeps
<1>8. ASSUME NEW o \in Terminal!Observer, Terminal!ReadLine(o) PROVE WatchInv'
  <2> DEFINE x == [obs[o] EXCEPT !.pipe = Tail(@)]
  <2>1. x \in Process /\ x.closed = obs[o].closed /\ x.alive = obs[o].alive
    <3>1. obs[o].pipe \in Seq({"frame", "other"}) /\ obs[o].pipe # <<>>
      BY <1>8 DEF Terminal!ReadLine, WatchTyped, Process
    <3>2. Tail(obs[o].pipe) \in Seq({"frame", "other"})
      BY <3>1
    <3> QED BY <3>2 DEF WatchTyped, Process
  <2>2. obs' \in [Terminal!Observer -> Process] /\ obs'[o].closed = obs[o].closed /\ (obs'[o].alive => obs[o].alive)
    <3> DEFINE y == [x EXCEPT !.up = TRUE]
               w == [x EXCEPT !.alive = FALSE]
               v == [w EXCEPT !.down = TRUE]
    <3>1. y \in Process /\ y.closed = x.closed /\ y.alive = x.alive
      BY <2>1 DEF Process
    <3>2. v \in Process /\ v.closed = x.closed /\ ~v.alive
      BY <2>1 DEF Process
    <3>3. obs' = [obs EXCEPT ![o] = x] \/ obs' = [obs EXCEPT ![o] = y] \/ obs' = [obs EXCEPT ![o] = v]
      BY <1>8 DEF Terminal!ReadLine, Terminal!FireDown
    <3> HIDE DEF x, y, v
    <3> QED BY <2>1, <3>1, <3>2, <3>3 DEF WatchTyped
  <2>3. \A k \in Terminal!Observer : k # o => obs'[k] = obs[k]
    BY <1>8 DEF Terminal!ReadLine, Terminal!FireDown, WatchTyped
  <2>4. obs[o].pipe # <<>> /\ UNCHANGED <<open, watch>>
    BY <1>8 DEF Terminal!ReadLine
  <2> QED BY <2>2, <2>3, <2>4 DEF WatchTyped, WatchIsOpen, OthersAreSilent
<1>9. ASSUME NEW o \in Terminal!Observer, Terminal!NoticeExit(o) PROVE WatchInv'
  <2>1. obs' \in [Terminal!Observer -> Process] /\ obs'[o].closed = obs[o].closed /\ obs'[o].alive = obs[o].alive
        /\ obs'[o].exited /\ obs'[o].pipe = obs[o].pipe
    <3> DEFINE x == [obs[o] EXCEPT !.exited = TRUE]
               y == [x EXCEPT !.down = TRUE]
    <3>1. x \in Process /\ x.closed = obs[o].closed /\ x.alive = obs[o].alive /\ x.exited /\ x.pipe = obs[o].pipe
      BY DEF WatchTyped, Process
    <3>2. y \in Process /\ y.closed = x.closed /\ y.alive = x.alive /\ y.exited /\ y.pipe = x.pipe
      BY <3>1 DEF Process
    <3>3. obs' = [obs EXCEPT ![o] = x] \/ obs' = [obs EXCEPT ![o] = y]
      BY <1>9 DEF Terminal!NoticeExit, Terminal!FireDown
    <3> HIDE DEF x, y
    <3> QED BY <3>1, <3>2, <3>3 DEF WatchTyped
  <2>2. \A k \in Terminal!Observer : k # o => obs'[k] = obs[k]
    BY <1>9 DEF Terminal!NoticeExit, Terminal!FireDown, WatchTyped
  <2>3. UNCHANGED <<open, watch>>
    BY <1>9 DEF Terminal!NoticeExit
  <2> QED BY <2>1, <2>2, <2>3 DEF WatchTyped, WatchIsOpen, OthersAreSilent
<1>10. CASE Terminal!Scroll
  <2> DEFINE o == watch.obs
             x == [obs[o] EXCEPT !.down = TRUE]
  <2>1. open /\ o \in Terminal!Observer /\ UNCHANGED <<open, watch>>
    BY <1>10 DEF Terminal!Scroll, WatchTyped
  <2>2. x \in Process /\ x.closed = obs[o].closed
    BY <2>1 DEF WatchTyped, Process
  <2>3. obs' = [obs EXCEPT ![o] = x]
    BY <1>10 DEF Terminal!Scroll, Terminal!FireDown
  <2> HIDE DEF x
  <2> QED BY <2>1, <2>2, <2>3, WatchedKeeps
<1>11. CASE UNCHANGED terminal
  BY <1>11 DEF terminal, WatchTyped, WatchIsOpen, OthersAreSilent
<1> QED BY <1>1, <1>2, <1>3, <1>4, <1>5, <1>6, <1>7, <1>8, <1>9, <1>10, <1>11 DEF Terminal!Next

\* A behaviour of the two parts is one of the watch, by its initial state and steps.
LEMMA WatchPart == MCSpec => []WatchInv /\ [][Terminal!Next]_terminal
<1>1. MCInit => Terminal!Init
  BY DEF MCInit
<1>2. [MCNext]_<<vars, terminal, part>> => [Terminal!Next]_terminal
  BY DEF MCNext
<1> QED BY <1>1, <1>2, InitSilent, StepSilent, PTL DEF MCSpec

\* A process that controls a terminal (bridge/terminal-observer.ts) runs only for
\* the watch its socket has.
THEOREM WatchLeaksNone == MCSpec => []NoProcessLeaks
<1>1. WatchInv => NoProcessLeaks
  BY DEF WatchInv, OthersAreSilent, NoProcessLeaks, Terminal!NoProcessLeaks
<1> QED BY <1>1, WatchPart, PTL

\* What a step sends is about the watch before it or the one after it.
LEMMA SendsForWatch == WatchInv /\ [Terminal!Next]_terminal => [sent' # sent => sent'.obs \in {watch.obs, watch'.obs}]_terminal
<1> SUFFICES ASSUME WatchInv, Terminal!Next, sent' # sent PROVE sent'.obs \in {watch.obs, watch'.obs}
  BY DEF terminal
<1> USE DEF WatchInv
<1>1. ASSUME NEW p \in Pane, NEW z \in Size, Terminal!Watch(p, z) PROVE sent'.obs \in {watch.obs, watch'.obs}
  <2>1. CASE sent' = [type |-> "down", obs |-> watch.obs, pane |-> p]
    BY <2>1
  <2>2. ASSUME NEW o \in Terminal!Observer, sent' = [type |-> "down", obs |-> o, pane |-> p],
               watch' = [obs |-> o, pane |-> p, size |-> z]
        PROVE  sent'.obs \in {watch.obs, watch'.obs}
    BY <2>2
  <2> QED BY <1>1, <2>1, <2>2 DEF Terminal!Watch
<1>2. ASSUME NEW o \in Terminal!Observer, Terminal!ReadLine(o) PROVE sent'.obs \in {watch.obs, watch'.obs}
  <2>1. ~obs[o].closed /\ obs[o].pipe # <<>>
    BY <1>2 DEF Terminal!ReadLine, Terminal!Forwards
  <2>2. open /\ o = watch.obs
    BY <2>1 DEF OthersAreSilent
  <2>3. sent'.obs = o
    BY <1>2, <2>2 DEF Terminal!ReadLine, Terminal!FireDown, Terminal!Say
  <2> QED BY <2>2, <2>3
<1>3. ASSUME NEW o \in Terminal!Observer, Terminal!NoticeExit(o) PROVE sent'.obs \in {watch.obs, watch'.obs}
  <2>1. ~obs[o].closed /\ ~obs[o].exited
    BY <1>3 DEF Terminal!NoticeExit
  <2>2. open /\ o = watch.obs
    BY <2>1 DEF OthersAreSilent
  <2>3. sent'.obs = o
    BY <1>3, <2>2 DEF Terminal!NoticeExit, Terminal!FireDown, Terminal!Say
  <2> QED BY <2>2, <2>3
<1>4. CASE Terminal!Scroll
  BY <1>4 DEF Terminal!Scroll, Terminal!FireDown, Terminal!Say
<1> QED BY <1>1, <1>2, <1>3, <1>4 DEF Terminal!Next, Terminal!Unwatch, Terminal!SocketCloses,
           Terminal!SessionChanges, Terminal!Resize, Terminal!Prints, Terminal!Ends

\* Nothing that was still in the pipe of an earlier watch, nor its end, reaches the
\* client (websocket handlers of bridge/server.ts).
THEOREM WatchSpeaks == MCSpec => SpeaksForWatch
<1>1. WatchInv /\ [Terminal!Next]_terminal =>
        [sent' # sent => sent'.obs \in {watch.obs, watch'.obs}]_(Terminal!vars)
  BY SendsForWatch DEF Terminal!vars, terminal
<1> QED BY <1>1, WatchPart, PTL DEF SpeaksForWatch, Terminal!SpeaksForWatch
=============================================================================
