------------------------- MODULE StateEngineProofs -------------------------
(***************************************************************************)
(* The safety properties of StateEngine, for every set of panes, statuses  *)
(* and concurrent calls, and every bound on the environment.               *)
(***************************************************************************)
EXTENDS StateEngine, TLAPS

InFlight(i) == polls[i].phase # "free"
HasRead(i)  == polls[i].phase \in {"answered", "probing"}

\* Stopping retires every call: a call of the current generation belongs to a
\* started engine, and only a started engine has a timer.
RetiredByStop ==
  /\ timer => started
  /\ \A i \in PollId : InFlight(i) /\ polls[i].gen = generation => started
  /\ \A i \in PollId : polls[i].gen <= generation

\* Epochs are read in order: published <= held by the call in flight <= Herdr's.
EpochsOrdered ==
  /\ agentsEpoch <= epoch
  /\ \A i \in PollId : HasRead(i) => agentsEpoch <= polls[i].epoch /\ polls[i].epoch <= epoch

\* The diff baseline is the published snapshot.
BaselineIsSnapshot == prevStatus = agents

IInv ==
  /\ TypeOK
  /\ SingleFlight
  /\ NoPokeLost
  /\ RetiredByStop
  /\ EpochsOrdered
  /\ BaselineIsSnapshot
  /\ ListenersMatchSnapshot

----------------------------------------------------------------------------
\* The engine starts in a state of the invariant.
LEMMA InitIsSafe == Init => IInv
<1> SUFFICES ASSUME Init PROVE IInv
  OBVIOUS
<1> USE EngineAssumption DEF Init
<1>1. TypeOK
  BY DEF TypeOK, View, Nothing, Phases, Cadences, Free
<1>2. SingleFlight /\ RetiredByStop /\ EpochsOrdered
  BY DEF SingleFlight, RetiredByStop, EpochsOrdered, InFlight, HasRead, Free
<1>3. NoPokeLost /\ BaselineIsSnapshot /\ ListenersMatchSnapshot
  BY DEF NoPokeLost, BaselineIsSnapshot, ListenersMatchSnapshot
<1> QED
  BY <1>1, <1>2, <1>3 DEF IInv

----------------------------------------------------------------------------
(* Entering and leaving poll(), whoever calls it.                          *)

\* A call entered when none is in flight is the only one, of this generation,
\* and has read nothing.
LEMMA EnterAlone ==
  ASSUME NEW calls, calls \in [PollId -> [phase : Phases, gen : Nat, view : View, epoch : Nat]],
         \A i \in PollId : calls[i].phase = "free" /\ calls[i].gen <= generation,
         generation \in Nat, supportsSnapshot \in BOOLEAN,
         Enter(calls)
  PROVE  /\ polls' \in [PollId -> [phase : Phases, gen : Nat, view : View, epoch : Nat]]
         /\ polling' = TRUE /\ owed' = FALSE
         /\ \E i \in PollId : polls'[i].phase # "free"
         /\ \A i, j \in PollId : polls'[i].phase # "free" /\ polls'[j].phase # "free" => i = j
         /\ \A i \in PollId : polls'[i].phase \notin {"answered", "probing"}
         /\ \A i \in PollId : polls'[i].gen <= generation
<1>1. PICK k \in PollId : calls[k].phase = "free" /\ polls' = [calls EXCEPT ![k] = Asked]
  BY DEF Enter
<1>2. Asked \in [phase : {"asked", "listing"}, gen : {generation}, view : View, epoch : Nat]
  BY DEF Asked, Free, View, Nothing
<1>3. \A i \in PollId : polls'[i] = IF i = k THEN Asked ELSE calls[i]
  BY <1>1
<1>4. polls' \in [PollId -> [phase : Phases, gen : Nat, view : View, epoch : Nat]]
  BY <1>1, <1>2 DEF Phases
<1>5. polls'[k].phase # "free" /\ polls'[k].phase \notin {"answered", "probing"} /\ polls'[k].gen <= generation
  BY <1>2, <1>3
<1> QED
  BY <1>3, <1>4, <1>5 DEF Enter

\* The finally block leaves no call, or one that has read nothing and that only
\* a started engine gets, and forgets no poke.
LEMMA LeaveIsSafe ==
  ASSUME TypeOK, SingleFlight, NoPokeLost, RetiredByStop,
         NEW i \in PollId, InFlight(i), Leave(i), UNCHANGED <<control, supportsSnapshot>>
  PROVE  /\ polls' \in [PollId -> [phase : Phases, gen : Nat, view : View, epoch : Nat]]
         /\ polling' \in BOOLEAN /\ queuedPoll' = FALSE /\ owed' \in BOOLEAN
         /\ SingleFlight' /\ NoPokeLost' /\ RetiredByStop'
         /\ \A j \in PollId : ~HasRead(j)'
<1> DEFINE rest == [polls EXCEPT ![i] = Free]
<1>1. /\ rest \in [PollId -> [phase : Phases, gen : Nat, view : View, epoch : Nat]]
      /\ \A j \in PollId : rest[j].phase = "free" /\ rest[j].gen <= generation
  <2>1. Free \in [phase : Phases, gen : Nat, view : View, epoch : Nat]
    BY DEF Free, Phases, View, Nothing
  <2>2. \A j \in PollId : j # i => polls[j].phase = "free" /\ polls[j].gen <= generation
    BY DEF SingleFlight, InFlight, RetiredByStop
  <2>3. Free.phase = "free" /\ Free.gen = 0 /\ generation \in Nat
    BY DEF Free, TypeOK
  <2> QED
    BY <2>1, <2>2, <2>3 DEF TypeOK
<1>2. CASE queuedPoll /\ started
  <2>1. Enter(rest) /\ queuedPoll' = FALSE
    BY <1>2 DEF Leave
  <2>2. generation \in Nat /\ supportsSnapshot \in BOOLEAN
    BY DEF TypeOK
  <2> HIDE DEF rest
  <2>3. /\ polls' \in [PollId -> [phase : Phases, gen : Nat, view : View, epoch : Nat]]
        /\ polling' = TRUE /\ owed' = FALSE
        /\ \E k \in PollId : polls'[k].phase # "free"
        /\ \A j, k \in PollId : polls'[j].phase # "free" /\ polls'[k].phase # "free" => j = k
        /\ \A k \in PollId : polls'[k].phase \notin {"answered", "probing"}
        /\ \A k \in PollId : polls'[k].gen <= generation
    BY <1>1, <2>1, <2>2, EnterAlone
  <2> QED
    BY <1>2, <2>1, <2>3
    DEF SingleFlight, NoPokeLost, RetiredByStop, InFlight, HasRead, control
<1>3. CASE ~(queuedPoll /\ started)
  <2>1. polls' = rest /\ polling' = FALSE /\ owed' = owed /\ queuedPoll' = FALSE
    BY <1>3 DEF Leave
  <2>2. owed' = FALSE
    BY <1>3, <2>1 DEF NoPokeLost, TypeOK
  <2> HIDE DEF rest
  <2> QED
    BY <1>1, <2>1, <2>2
    DEF SingleFlight, NoPokeLost, RetiredByStop, InFlight, HasRead, control
<1> QED
  BY <1>2, <1>3

\* A call entered by a started engine that has none: by start(), a tick or a poke.
LEMMA PollIsSafe ==
  ASSUME TypeOK, SingleFlight, NoPokeLost, RetiredByStop,
         ~polling, Enter(polls), started', UNCHANGED generation
  PROVE  /\ polls' \in [PollId -> [phase : Phases, gen : Nat, view : View, epoch : Nat]]
         /\ polling' = TRUE /\ owed' = FALSE
         /\ SingleFlight' /\ RetiredByStop'
         /\ \A j \in PollId : ~HasRead(j)'
<1>1. /\ polls \in [PollId -> [phase : Phases, gen : Nat, view : View, epoch : Nat]]
      /\ \A j \in PollId : polls[j].phase = "free" /\ polls[j].gen <= generation
      /\ generation \in Nat /\ supportsSnapshot \in BOOLEAN
  BY DEF TypeOK, SingleFlight, RetiredByStop
<1>2. /\ polls' \in [PollId -> [phase : Phases, gen : Nat, view : View, epoch : Nat]]
      /\ polling' = TRUE /\ owed' = FALSE
      /\ \E k \in PollId : polls'[k].phase # "free"
      /\ \A j, k \in PollId : polls'[j].phase # "free" /\ polls'[k].phase # "free" => j = k
      /\ \A k \in PollId : polls'[k].phase \notin {"answered", "probing"}
      /\ \A k \in PollId : polls'[k].gen <= generation
  BY <1>1, EnterAlone
<1> QED
  BY <1>2 DEF SingleFlight, RetiredByStop, InFlight, HasRead

----------------------------------------------------------------------------
(* What a commit publishes.                                                *)

\* A commit's callbacks and its snapshot agree on the panes needing attention.
LEMMA CommitIsAnnounced ==
  ASSUME TypeOK, BaselineIsSnapshot, ListenersMatchSnapshot,
         NEW i \in PollId, Commit(i)
  PROVE  BaselineIsSnapshot' /\ ListenersMatchSnapshot' /\ told' \in View
<1> DEFINE view == polls[i].view
<1>1. view \in View /\ told \in View /\ agents \in View
  BY DEF TypeOK
<1>2. prevStatus' = view /\ agents' = view /\ hydrated'
  BY DEF Commit, Baseline
<1>3. CASE ~hydrated
  BY <1>1, <1>2, <1>3 DEF Commit, BaselineIsSnapshot, ListenersMatchSnapshot
<1>4. CASE hydrated
  <2>1. told' = [p \in Panes |-> IF p \in Announced(view) \cup Removed(view)
                                   THEN view[p] ELSE told[p]]
    BY <1>4 DEF Commit
  <2>2. told' \in View
    BY <1>1, <2>1 DEF View
  <2>3. ASSUME NEW p \in Panes, view[p] \in Attention \/ told'[p] \in Attention
        PROVE  told'[p] = view[p]
    <3>1. CASE p \in Announced(view) \cup Removed(view)
      BY <2>1, <3>1
    <3>2. CASE p \notin Announced(view) \cup Removed(view)
      <4>1. told'[p] = told[p] /\ prevStatus[p] = agents[p]
        BY <2>1, <3>2 DEF BaselineIsSnapshot
      <4>2. agents[p] = view[p] \/ (agents[p] = NoAgent /\ view[p] \notin Attention)
        BY <1>4, <3>2, <4>1 DEF Announced, Removed
      <4>3. told[p] \in Attention => told[p] = agents[p]
        BY <1>4 DEF ListenersMatchSnapshot
      <4>4. agents[p] \in Attention => told[p] = agents[p]
        BY <1>4 DEF ListenersMatchSnapshot
      <4> QED
        BY <2>3, <4>1, <4>2, <4>3, <4>4, EngineAssumption
    <3> QED
      BY <3>1, <3>2
  <2> QED
    BY <1>2, <2>2, <2>3 DEF BaselineIsSnapshot, ListenersMatchSnapshot
<1> QED
  BY <1>3, <1>4

----------------------------------------------------------------------------
(* Every step preserves the invariant.                                     *)

\* Steps that enter no call and leave none.
LEMMA ControlIsSafe ==
  ASSUME IInv,
         Stop \/ (\E ms \in Cadences : SetCadence(ms)) \/ HerdChanges \/ HerdrGoes \/ HerdrReturns
  PROVE  IInv'
<1> USE EngineAssumption DEF IInv
<1>1. CASE Stop
  <2>1. TypeOK'
    <3>1. generation' \in Nat
      BY <1>1 DEF Stop, TypeOK
    <3>2. /\ started' = FALSE /\ timer' = FALSE /\ owed' = FALSE
          /\ UNCHANGED <<env, cadence, polling, queuedPoll, supportsSnapshot, polls, snap>>
      BY <1>1, Zenon DEF Stop
    <3> QED
      BY <3>1, <3>2 DEF TypeOK, env, snap
  <2>2. \A i \in PollId : polls'[i].gen < generation'
    BY <1>1 DEF Stop, TypeOK, RetiredByStop
  <2>3. RetiredByStop'
    BY <1>1, <2>1, <2>2 DEF Stop, TypeOK, RetiredByStop
  <2> QED
    BY <1>1, <2>1, <2>3 DEF Stop, SingleFlight, NoPokeLost, EpochsOrdered,
       BaselineIsSnapshot, ListenersMatchSnapshot, HasRead, env, snap
<1>2. ASSUME NEW ms \in Cadences, SetCadence(ms) PROVE IInv'
  BY <1>2 DEF SetCadence, TypeOK, SingleFlight, NoPokeLost, RetiredByStop, EpochsOrdered,
     BaselineIsSnapshot, ListenersMatchSnapshot, InFlight, HasRead, env, snap
<1>3. CASE HerdChanges
  <2>1. PICK p \in Panes, s \in Statuses \cup {NoAgent} : herd' = [herd EXCEPT ![p] = s]
    BY <1>3 DEF HerdChanges
  <2>2. herd' \in View
    BY <2>1 DEF TypeOK, View
  <2>3. TypeOK' /\ EpochsOrdered'
    BY <1>3, <2>2 DEF HerdChanges, TypeOK, EpochsOrdered, HasRead, control, snap
  <2> QED
    BY <1>3, <2>3 DEF HerdChanges, SingleFlight, NoPokeLost, RetiredByStop,
       BaselineIsSnapshot, ListenersMatchSnapshot, InFlight, control, snap
<1>4. CASE HerdrGoes \/ HerdrReturns
  <2>1. TypeOK'
    <3>1. outages' \in Nat
      BY <1>4 DEF HerdrGoes, HerdrReturns, TypeOK
    <3>2. /\ herdrUp' \in {TRUE, FALSE}
          /\ UNCHANGED <<herd, epoch, legacy, control, polling, queuedPoll, supportsSnapshot,
                         polls, snap, owed>>
      BY <1>4, Zenon DEF HerdrGoes, HerdrReturns
    <3> QED
      BY <3>1, <3>2 DEF TypeOK, control, snap
  <2> QED
    BY <1>4, <2>1 DEF HerdrGoes, HerdrReturns, SingleFlight, NoPokeLost, RetiredByStop,
       EpochsOrdered, BaselineIsSnapshot, ListenersMatchSnapshot, InFlight, HasRead, control, snap
<1> QED
  BY <1>1, <1>2, <1>3, <1>4

\* Steps that may enter a call.
LEMMA EntryIsSafe ==
  ASSUME IInv, Start \/ PokeNow \/ IntervalTick
  PROVE  IInv'
<1> USE DEF IInv
<1>1. started' /\ generation' = generation
  BY DEF Start, PokeNow, IntervalTick, control, RetiredByStop
<1>2. /\ timer' \in BOOLEAN /\ cadence' \in Cadences
      /\ UNCHANGED <<env, supportsSnapshot, snap>>
  BY DEF Start, PokeNow, IntervalTick, TypeOK, control, Cadences
<1>3. CASE ~polling
  <2>1. Enter(polls) /\ UNCHANGED queuedPoll
    BY <1>3 DEF Start, PokeNow, IntervalTick, Poll
  <2>2. /\ polls' \in [PollId -> [phase : Phases, gen : Nat, view : View, epoch : Nat]]
        /\ polling' = TRUE /\ owed' = FALSE
        /\ SingleFlight' /\ RetiredByStop'
        /\ \A j \in PollId : ~HasRead(j)'
    BY <1>1, <1>3, <2>1, PollIsSafe
  <2>3. TypeOK'
    BY <1>1, <1>2, <2>1, <2>2 DEF TypeOK, env, snap
  <2> QED
    BY <1>2, <2>2, <2>3 DEF NoPokeLost, EpochsOrdered, BaselineIsSnapshot,
       ListenersMatchSnapshot, HasRead, env, snap
<1>4. CASE polling
  <2>1. /\ UNCHANGED <<polls, polling>>
        /\ queuedPoll' \in BOOLEAN /\ owed' \in BOOLEAN
        /\ owed' => queuedPoll'
    BY <1>4 DEF Start, PokeNow, IntervalTick, Poll, TypeOK, NoPokeLost
  <2>2. TypeOK' /\ SingleFlight'
    BY <1>1, <1>2, <2>1 DEF TypeOK, SingleFlight, env, snap
  <2>3. NoPokeLost' /\ RetiredByStop'
    BY <1>1, <1>4, <2>1 DEF NoPokeLost, RetiredByStop, InFlight
  <2> QED
    BY <1>2, <2>1, <2>2, <2>3 DEF EpochsOrdered, BaselineIsSnapshot,
       ListenersMatchSnapshot, HasRead, env, snap
<1> QED
  BY <1>3, <1>4 DEF TypeOK

\* Steps of a call in flight that keep it there.
LEMMA ProgressIsSafe ==
  ASSUME IInv, NEW i \in PollId,
         HerdrAnswers(i) \/ SnapshotUnknown(i)
           \/ (polls[i].phase = "answered" /\ polls' = [polls EXCEPT ![i].phase = "probing"]
               /\ UNCHANGED <<env, control, polling, queuedPoll, supportsSnapshot, snap, owed>>)
  PROVE  IInv'
<1> USE DEF IInv
<1>1. /\ InFlight(i)
      /\ UNCHANGED <<env, control, polling, queuedPoll, snap, owed>>
      /\ supportsSnapshot' \in BOOLEAN
  BY DEF HerdrAnswers, SnapshotUnknown, InFlight, TypeOK
<1>2. \A j \in PollId : j # i => polls'[j] = polls[j]
  BY DEF HerdrAnswers, SnapshotUnknown, TypeOK
<1>3. /\ polls' \in [PollId -> [phase : Phases, gen : Nat, view : View, epoch : Nat]]
      /\ polls'[i].phase # "free" /\ polls'[i].gen = polls[i].gen
  BY DEF HerdrAnswers, SnapshotUnknown, TypeOK, Phases
<1>4. HasRead(i)' => agentsEpoch <= polls'[i].epoch /\ polls'[i].epoch <= epoch
  BY DEF HerdrAnswers, SnapshotUnknown, TypeOK, HasRead, EpochsOrdered
<1>5. TypeOK'
  BY <1>1, <1>3 DEF TypeOK, env, control, snap
<1>6. SingleFlight' /\ NoPokeLost' /\ RetiredByStop'
  BY <1>1, <1>2, <1>3 DEF SingleFlight, NoPokeLost, RetiredByStop, InFlight, control
<1>7. EpochsOrdered'
  BY <1>1, <1>2, <1>4 DEF EpochsOrdered, HasRead, env, snap
<1> QED
  BY <1>1, <1>5, <1>6, <1>7 DEF BaselineIsSnapshot, ListenersMatchSnapshot, snap

\* Steps that end a call, with or without a commit.
LEMMA ExitIsSafe ==
  ASSUME IInv, NEW i \in PollId, InFlight(i), Leave(i),
         UNCHANGED <<env, control, supportsSnapshot>>,
         \/ /\ bridge' \in {bridge, "disconnected"}
            /\ UNCHANGED <<prevStatus, agents, hydrated, agentsEpoch, told>>
         \/ HasRead(i) /\ Commit(i)
  PROVE  IInv'
<1> USE DEF IInv
<1>1. /\ polls' \in [PollId -> [phase : Phases, gen : Nat, view : View, epoch : Nat]]
      /\ polling' \in BOOLEAN /\ queuedPoll' = FALSE /\ owed' \in BOOLEAN
      /\ SingleFlight' /\ NoPokeLost' /\ RetiredByStop'
      /\ \A j \in PollId : ~HasRead(j)'
  BY LeaveIsSafe
<1>2. /\ BaselineIsSnapshot' /\ ListenersMatchSnapshot'
      /\ prevStatus' \in View /\ agents' \in View /\ told' \in View
      /\ bridge' \in {"connected", "disconnected"} /\ hydrated' \in BOOLEAN
      /\ agentsEpoch' \in Nat /\ agentsEpoch' <= epoch
  <2>1. CASE HasRead(i) /\ Commit(i)
    <3>1. BaselineIsSnapshot' /\ ListenersMatchSnapshot' /\ told' \in View
      BY <2>1, CommitIsAnnounced
    <3> QED
      BY <2>1, <3>1 DEF Commit, Baseline, TypeOK, EpochsOrdered
  <2>2. CASE /\ bridge' \in {bridge, "disconnected"}
             /\ UNCHANGED <<prevStatus, agents, hydrated, agentsEpoch, told>>
    BY <2>2 DEF TypeOK, EpochsOrdered, BaselineIsSnapshot, ListenersMatchSnapshot
  <2> QED
    BY <2>1, <2>2
<1>3. TypeOK'
  BY <1>1, <1>2 DEF TypeOK, env, control
<1>4. EpochsOrdered'
  BY <1>1, <1>2 DEF EpochsOrdered, env
<1> QED
  BY <1>1, <1>2, <1>3, <1>4

\* Every step, or stutter, stays in the invariant.
LEMMA StepIsSafe == IInv /\ [Next]_vars => IInv'
<1> SUFFICES ASSUME IInv, [Next]_vars PROVE IInv'
  OBVIOUS
<1>1. CASE Start \/ PokeNow \/ IntervalTick
  BY <1>1, EntryIsSafe
<1>2. CASE Stop \/ (\E ms \in Cadences : SetCadence(ms)) \/ HerdChanges \/ HerdrGoes \/ HerdrReturns
  BY <1>2, ControlIsSafe
<1>3. ASSUME NEW i \in PollId, Call(i) PROVE IInv'
  <2>1. CASE HerdrAnswers(i) \/ SnapshotUnknown(i)
    BY <2>1, ProgressIsSafe
  <2>2. CASE FetchFails(i)
    <3>1. InFlight(i) /\ bridge' \in {bridge, "disconnected"}
      BY <2>2 DEF FetchFails, InFlight, MarkDisconnected
    <3> QED
      BY <2>2, <3>1, ExitIsSafe DEF FetchFails
  <2>3. CASE Resume(i) /\ polls[i].gen = generation
    BY <2>3, ProgressIsSafe DEF Resume
  <2>4. CASE Resume(i) /\ polls[i].gen # generation
    BY <2>4, ExitIsSafe DEF Resume, InFlight, snap
  <2>5. CASE Finish(i)
    BY <2>5, ExitIsSafe DEF Finish, InFlight, HasRead, snap
  <2> QED
    BY <1>3, <2>1, <2>2, <2>3, <2>4, <2>5 DEF Call
<1>4. CASE UNCHANGED vars
  BY <1>4 DEF vars, env, control, snap, IInv, TypeOK, SingleFlight, NoPokeLost, RetiredByStop,
     EpochsOrdered, BaselineIsSnapshot, ListenersMatchSnapshot, InFlight, HasRead
<1> QED
  BY <1>1, <1>2, <1>3, <1>4 DEF Next

\* The invariant holds in every behaviour of the engine.
THEOREM Invariance == Spec => []IInv
<1> QED
  BY InitIsSafe, StepIsSafe, PTL DEF Spec

----------------------------------------------------------------------------
(* The results.                                                            *)

\* Every variable stays in its type.
THEOREM EngineTypeCorrect == Spec => []TypeOK
<1>1. IInv => TypeOK
  BY DEF IInv
<1> QED
  BY <1>1, Invariance, PTL

\* poll() never overlaps itself, and its flag is exact.
THEOREM EngineSingleFlight == Spec => []SingleFlight
<1>1. IInv => SingleFlight
  BY DEF IInv
<1> QED
  BY <1>1, Invariance, PTL

\* A poke accepted during a poll is followed by a read that starts after it.
THEOREM EngineKeepsPokes == Spec => []NoPokeLost
<1>1. IInv => NoPokeLost
  BY DEF IInv
<1> QED
  BY <1>1, Invariance, PTL

\* The callbacks tell listeners exactly the panes that need attention.
THEOREM EngineTellsListeners == Spec => []ListenersMatchSnapshot
<1>1. IInv => ListenersMatchSnapshot
  BY DEF IInv
<1> QED
  BY <1>1, Invariance, PTL

\* What a step may publish: nothing, a disconnection, or the commit of a call of
\* the current generation.
LEMMA OnlyFinishPublishes ==
  ASSUME [Next]_vars
  PROVE  \/ UNCHANGED snap
         \/ \E i \in PollId : /\ polls[i].gen = generation
                              /\ \/ /\ polls[i].phase \in {"asked", "listing"}
                                    /\ UNCHANGED <<prevStatus, agents, hydrated, agentsEpoch, told>>
                                 \/ polls[i].phase = "probing" /\ Commit(i)
<1>1. ASSUME NEW i \in PollId, Call(i), ~UNCHANGED snap
      PROVE  /\ polls[i].gen = generation
             /\ \/ /\ polls[i].phase \in {"asked", "listing"}
                   /\ UNCHANGED <<prevStatus, agents, hydrated, agentsEpoch, told>>
                \/ polls[i].phase = "probing" /\ Commit(i)
  BY <1>1 DEF Call, HerdrAnswers, SnapshotUnknown, FetchFails, MarkDisconnected, Resume, Finish, snap
<1> QED
  BY <1>1 DEF Next, Start, Stop, PokeNow, IntervalTick, SetCadence, HerdChanges, HerdrGoes,
     HerdrReturns, vars

\* The published agents never go back to an older herd.
THEOREM EngineMovesForward == Spec => SnapshotsMoveForward
<1>1. IInv /\ [Next]_vars => agentsEpoch' >= agentsEpoch \/ UNCHANGED vars
  <2> SUFFICES ASSUME IInv, [Next]_vars PROVE agentsEpoch' >= agentsEpoch
    OBVIOUS
  <2>1. agentsEpoch \in Nat
    BY DEF IInv, TypeOK
  <2>2. ASSUME NEW i \in PollId, polls[i].phase = "probing", Commit(i)
        PROVE  agentsEpoch' >= agentsEpoch
    <3>1. agentsEpoch <= polls[i].epoch /\ polls[i].epoch \in Nat
      BY <2>2 DEF IInv, TypeOK, EpochsOrdered, HasRead
    <3> QED
      BY <2>1, <2>2, <3>1 DEF Commit
  <2> QED
    BY <2>1, <2>2, OnlyFinishPublishes DEF snap
<1> QED
  BY <1>1, Invariance, PTL DEF Spec, SnapshotsMoveForward

\* A stopped engine publishes and announces nothing, however many of its polls
\* are still awaiting Herdr.
THEOREM EngineQuietAfterStop == Spec => QuietAfterStop
<1>1. IInv /\ [Next]_vars => (~started => UNCHANGED snap) \/ UNCHANGED vars
  <2> SUFFICES ASSUME IInv, [Next]_vars, ~started PROVE UNCHANGED snap
    OBVIOUS
  <2>1. \A i \in PollId : polls[i].gen = generation => polls[i].phase = "free"
    BY DEF IInv, RetiredByStop, InFlight
  <2> QED
    BY <2>1, OnlyFinishPublishes
<1> QED
  BY <1>1, Invariance, PTL DEF Spec, QuietAfterStop

=============================================================================
