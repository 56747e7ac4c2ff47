---------------------------- MODULE ClientProofs ----------------------------
(***************************************************************************)
(* The sink's safety properties and its refinement of NotificationSlot,    *)
(* for any number of messages and flushes.  And what the web client shows, *)
(* for any number of bridges, sessions and panes.                          *)
(***************************************************************************)
EXTENDS MCClient, TLAPS

\* What is in flight or queued has not been shown, and what was shown or is
\* awaited by a flush has been accepted.
Numbered ==
  /\ shown <= last
  /\ \A f \in Flushes : floor[f] <= last
  /\ \A m \in inflight : shown < m.seq /\ m.seq <= last
  /\ queued # None => \A m \in inflight : m.seq < queued.seq

\* Only a summary buzzes.
ClearIsSilent == queued # None /\ queued.buzz => ~queued.clear

IInv ==
  /\ TypeOK
  /\ OneDelivery
  /\ LastWins
  /\ BuzzSurvives
  /\ FlushCovers
  /\ Numbered
  /\ ClearIsSilent

\* The sink starts in a state of the invariant.
LEMMA InitIsSafe == Init => IInv
<1> SUFFICES ASSUME Init PROVE IInv
  OBVIOUS
<1>1. TypeOK
  BY DEF Init, TypeOK
<1> QED
  BY <1>1 DEF Init, IInv, OneDelivery, LastWins, BuzzSurvives, FlushCovers, Numbered,
     ClearIsSilent

\* A replacement is the message itself, possibly with a buzz.
LEMMA MergedIsMessage ==
  ASSUME NEW m \in Msg
  PROVE  /\ Merged(m) \in Msg /\ Merged(m) # None
         /\ Merged(m).seq = m.seq /\ Merged(m).clear = m.clear
         /\ m.buzz => Merged(m).buzz
         /\ Merged(m).buzz => m.buzz \/ ~m.clear
  BY NoneIsNoMessage DEF Merged, Msg

\* With nothing in flight, pumping the newest message keeps the invariant: it is
\* delivered, or it is lost and everybody who waits is told.
LEMMA PumpIsSafe ==
  ASSUME IInv, NEW n \in Msg, PumpIdle(n, {}),
         last' \in Nat, n.seq = last', shown' \in Nat, shown' < n.seq,
         muted' \in BOOLEAN, buzzOwed' = FALSE, floor' = floor,
         \A f \in Flushes : floor[f] <= last' /\ (flushing[f] = "resolved" => floor[f] < n.seq)
  PROVE  IInv'
<1> USE DEF IInv
<1>1. queued' = None
  BY DEF PumpIdle
<1>2. CASE delivering' = TRUE /\ inflight' = {n} /\ UNCHANGED flushing
  <2>1. TypeOK'
    BY <1>1, <1>2 DEF TypeOK
  <2>2. OneDelivery' /\ LastWins' /\ BuzzSurvives' /\ ClearIsSilent'
    BY <1>1, <1>2 DEF OneDelivery, LastWins, BuzzSurvives, ClearIsSilent
  <2>3. \A f \in Flushes : floor'[f] \in Nat /\ flushing'[f] = flushing[f]
    BY <1>2 DEF TypeOK
  <2>4. FlushCovers'
    BY <1>1, <1>2, <2>3 DEF FlushCovers, Msg
  <2>5. Numbered'
    BY <1>1, <1>2, <2>3 DEF Numbered, Msg
  <2> QED
    BY <2>1, <2>2, <2>4, <2>5
<1>3. CASE delivering' = FALSE /\ inflight' = {} /\ SettleWaiters
  <2>1. flushing' \in [Flushes -> {"idle", "waiting", "resolved"}]
    BY <1>3 DEF SettleWaiters, TypeOK
  <2>2. TypeOK'
    BY <1>1, <1>3, <2>1 DEF TypeOK
  <2> QED
    BY <1>1, <1>3, <2>2 DEF OneDelivery, LastWins, BuzzSurvives, FlushCovers, Numbered,
       ClearIsSilent, Msg
<1> QED
  BY <1>2, <1>3 DEF PumpIdle

\* An accepted message keeps the invariant: it is pumped at once, or queued
\* behind the delivery in flight.
LEMMA AcceptIsSafe ==
  ASSUME IInv, NEW m \in Msg, m.seq = last + 1, m.buzz => ~m.clear, Accept(m)
  PROVE  IInv'
<1> USE DEF IInv
<1> DEFINE n == Merged(m)
<1>1. /\ n \in Msg /\ n # None /\ n.seq = last + 1 /\ n.clear = m.clear
      /\ (m.buzz => n.buzz) /\ (n.buzz => ~n.clear)
  BY MergedIsMessage
<1>2. /\ last' = last + 1 /\ last \in Nat /\ shown \in Nat /\ muted \in BOOLEAN
      /\ UNCHANGED <<muted, floor, shown>>
      /\ \A f \in Flushes : floor[f] \in Nat /\ floor[f] <= last
  BY DEF Accept, TypeOK, Numbered
<1>3. CASE delivering
  <2>1. queued' = n /\ UNCHANGED <<delivering, inflight, flushing>>
    BY <1>3 DEF Accept, Enqueue
  <2>2. buzzOwed' \in BOOLEAN /\ (buzzOwed' => n.buzz)
    <3>1. buzzOwed' = (~m.clear /\ (m.buzz \/ buzzOwed))
      BY <1>3 DEF Accept, Enqueue
    <3>2. ~m.clear /\ buzzOwed => n.buzz
      <4> SUFFICES ASSUME ~m.clear, buzzOwed PROVE n.buzz
        OBVIOUS
      <4>1. queued # None /\ queued.buzz /\ ~queued.clear
        BY DEF BuzzSurvives, ClearIsSilent
      <4>2. n = [m EXCEPT !.buzz = TRUE]
        BY <4>1 DEF Merged
      <4> QED
        BY <4>2 DEF Msg
    <3> QED
      BY <1>1, <3>1, <3>2
  <2> HIDE DEF n
  <2>3. TypeOK'
    BY <1>1, <1>2, <2>1, <2>2 DEF TypeOK
  <2>4. OneDelivery' /\ LastWins' /\ BuzzSurvives' /\ ClearIsSilent'
    BY <1>1, <1>2, <1>3, <2>1, <2>2 DEF OneDelivery, LastWins, BuzzSurvives, ClearIsSilent
  <2>5. FlushCovers'
    BY <1>1, <1>2, <2>1 DEF FlushCovers
  <2>6. Numbered'
    BY <1>1, <1>2, <2>1 DEF Numbered, TypeOK, Msg
  <2> QED
    BY <2>3, <2>4, <2>5, <2>6
<1>4. CASE ~delivering
  <2>1. PumpIdle(n, {}) /\ buzzOwed' = FALSE
    BY <1>4 DEF Accept, Enqueue, OneDelivery
  <2> HIDE DEF n
  <2>2. last' \in Nat /\ shown' < n.seq /\ \A f \in Flushes : floor[f] <= last' /\ floor[f] < n.seq
    BY <1>1, <1>2 DEF Numbered
  <2> QED
    BY <1>1, <1>2, <2>1, <2>2, PumpIsSafe
<1> QED
  BY <1>3, <1>4

\* A delivery that settles makes room for what is queued, or drains the sink.
LEMMA SettlesIsSafe ==
  ASSUME IInv, NEW m \in inflight, Settles(m)
  PROVE  IInv'
<1> USE DEF IInv
<1>1. /\ m \in Msg /\ inflight \ {m} = {} /\ shown < m.seq /\ m.seq <= last
      /\ shown \in Nat /\ last \in Nat
  BY DEF TypeOK, OneDelivery, Numbered
<1>2. /\ shown' \in Nat /\ shown' <= m.seq /\ UNCHANGED <<muted, floor, last>>
      /\ buzzOwed' = FALSE
  BY <1>1 DEF Settles, AfterDelivery, Msg
<1>3. CASE queued # None
  <2>1. queued \in Msg /\ queued.seq = last /\ m.seq < queued.seq
    BY <1>3 DEF TypeOK, LastWins, Numbered
  <2>2. PumpIdle(queued, {})
    BY <1>1, <1>3 DEF Settles, AfterDelivery
  <2>3. \A f \in Flushes : floor[f] <= last /\ (flushing[f] = "resolved" => floor[f] < queued.seq)
    BY <1>3, <2>1 DEF FlushCovers, Numbered
  <2>4. shown' < queued.seq /\ muted' \in BOOLEAN /\ last' \in Nat
    BY <1>1, <1>2, <2>1 DEF TypeOK, Msg
  <2> QED
    BY <1>2, <2>1, <2>2, <2>3, <2>4, PumpIsSafe
<1>4. CASE queued = None
  <2>1. delivering' = FALSE /\ inflight' = {} /\ SettleWaiters /\ queued' = None
    BY <1>1, <1>4 DEF Settles, AfterDelivery
  <2>2. flushing' \in [Flushes -> {"idle", "waiting", "resolved"}]
    BY <2>1 DEF SettleWaiters, TypeOK
  <2>3. TypeOK'
    BY <1>2, <2>1, <2>2 DEF TypeOK
  <2> QED
    BY <1>1, <1>2, <2>1, <2>3 DEF OneDelivery, LastWins, BuzzSurvives, FlushCovers, Numbered,
       ClearIsSilent, Msg
<1> QED
  BY <1>3, <1>4

\* A flush waits, or resolves on an idle sink.
LEMMA FlushIsSafe ==
  ASSUME IInv, NEW f \in Flushes, Flush(f)
  PROVE  IInv'
<1> USE DEF IInv
<1>1. /\ flushing' = [flushing EXCEPT ![f] =
                        IF delivering \/ queued # None THEN "waiting" ELSE "resolved"]
      /\ floor' = [floor EXCEPT ![f] = last]
      /\ UNCHANGED <<muted, queued, delivering, inflight, last, shown, buzzOwed>>
  BY DEF Flush
<1>2. TypeOK'
  BY <1>1 DEF TypeOK
<1>3. flushing'[f] = "resolved" => inflight = {} /\ queued = None
  BY <1>1 DEF TypeOK, OneDelivery
<1>4. \A g \in Flushes : g # f => flushing'[g] = flushing[g] /\ floor'[g] = floor[g]
  BY <1>1 DEF TypeOK
<1>5. FlushCovers'
  BY <1>1, <1>3, <1>4 DEF FlushCovers
<1>6. Numbered'
  BY <1>1, <1>4 DEF Numbered, TypeOK
<1> QED
  BY <1>1, <1>2, <1>5, <1>6 DEF OneDelivery, LastWins, BuzzSurvives, ClearIsSilent

\* Every step, or stutter, stays in the invariant.
LEMMA StepIsSafe == IInv /\ [Next]_vars => IInv'
<1> SUFFICES ASSUME IInv, [Next]_vars PROVE IInv'
  OBVIOUS
<1>0. last + 1 \in Nat
  BY DEF IInv, TypeOK
<1>1. ASSUME NEW buzz \in BOOLEAN, Render(buzz) PROVE IInv'
  BY <1>0, <1>1, AcceptIsSafe DEF Render, Msg
<1>2. CASE Clear \/ ForceClear
  BY <1>0, <1>2, AcceptIsSafe DEF Clear, ForceClear, Msg
<1>3. ASSUME NEW m \in inflight, Settles(m) PROVE IInv'
  BY <1>3, SettlesIsSafe
<1>4. ASSUME NEW f \in Flushes, Flush(f) PROVE IInv'
  BY <1>4, FlushIsSafe
<1>5. CASE MuteChanges \/ UNCHANGED vars
  <2>1. /\ muted' \in BOOLEAN
        /\ UNCHANGED <<queued, delivering, inflight, flushing, floor, last, shown, buzzOwed>>
    BY <1>5 DEF MuteChanges, vars, IInv, TypeOK
  <2> QED
    BY <2>1 DEF IInv, TypeOK, OneDelivery, LastWins, BuzzSurvives, FlushCovers, Numbered,
       ClearIsSilent
<1> QED
  BY <1>1, <1>2, <1>3, <1>4, <1>5 DEF Next

\* The invariant holds in every behaviour of the sink.
THEOREM Invariance == Spec => []IInv
<1> QED
  BY InitIsSafe, StepIsSafe, PTL DEF Spec

----------------------------------------------------------------------------
(* The results.                                                            *)

\* Every variable stays in its type.
THEOREM SinkTypeCorrect == Spec => []TypeOK
<1>1. IInv => TypeOK
  BY DEF IInv
<1> QED
  BY <1>1, Invariance, PTL

\* The sink never has two push.send() calls in flight, and a message waits only
\* behind one.
THEOREM SinkDeliversOneAtATime == Spec => []OneDelivery
<1>1. IInv => OneDelivery
  BY DEF IInv
<1> QED
  BY <1>1, Invariance, PTL

\* The newest message is the last one sent, and an alert edge accepted behind a
\* delivery keeps its buzz through every silent replacement.
THEOREM SinkKeepsNewest == Spec => [](LastWins /\ BuzzSurvives)
<1>1. IInv => LastWins /\ BuzzSurvives
  BY DEF IInv
<1> QED
  BY <1>1, Invariance, PTL

\* A resolved flush covers everything accepted before it.
THEOREM SinkFlushCovers == Spec => []FlushCovers
<1>1. IInv => FlushCovers
  BY DEF IInv
<1> QED
  BY <1>1, Invariance, PTL

\* The sink implements the slot that only moves forward.
THEOREM SinkImplementsSlot == Spec => MovesForward
<1>1. Init => Slot!Init
  BY DEF Init, Slot!Init
<1>2. IInv /\ [Next]_vars => [Slot!Next]_(Slot!slotVars)
  <2> SUFFICES ASSUME IInv, [Next]_vars PROVE [Slot!Next]_(Slot!slotVars)
    OBVIOUS
  <2> USE DEF Slot!slotVars
  <2>1. ASSUME NEW m, Accept(m) PROVE Slot!Want
    BY <2>1 DEF Accept, Slot!Want
  <2>2. CASE (\E buzz \in BOOLEAN : Render(buzz)) \/ Clear \/ ForceClear
    BY <2>1, <2>2 DEF Render, Clear, ForceClear, Slot!Next
  <2>3. ASSUME NEW m \in inflight, Settles(m) PROVE Slot!Show \/ UNCHANGED <<last, shown>>
    <3>1. m.seq \in Nat /\ shown \in Nat /\ last \in Nat /\ shown < m.seq /\ m.seq <= last
      BY DEF IInv, TypeOK, Numbered, Msg
    <3> QED
      BY <2>3, <3>1 DEF Settles, Slot!Show
  <2>4. CASE (\E f \in Flushes : Flush(f)) \/ MuteChanges \/ UNCHANGED vars
    BY <2>4 DEF Flush, MuteChanges, vars
  <2> QED
    BY <2>2, <2>3, <2>4 DEF Next, Slot!Next
<1> QED
  BY <1>1, <1>2, Invariance, PTL DEF Spec, MovesForward, Slot!Spec

----------------------------------------------------------------------------
(* The web client.                                                         *)

Target == Bridge \X Client!Sessions
Choices == [pane: Pane \cup {None}, at: Target \cup {None}]
Created == [pane: Pane, at: Target]

State ==
  [session: Client!Sessions, selected: Choices,
   snap: [from: Target \cup {None}, panes: SUBSET Pane, created: SUBSET Created],
   mode: {"connecting", "live", "offline"},
   output: [pane: Pane \cup {None}, from: Target \cup {None}]]

Asked == [bridge: Bridge, session: Client!Sessions, latest: BOOLEAN]
Read == [pane: Pane, session: Client!Sessions, bridge: Bridge]

ClientTyped ==
  /\ bridge \in Bridge /\ sess \in Client!Sessions /\ selRef \in Pane \cup {None}
  /\ pend \subseteq Created /\ flying \subseteq Asked
  /\ st \in State /\ nx \in State
  /\ load \in Read \cup {None} /\ late \in Read \cup {None}

\* What a state of the screen shows comes from bridge b and from its own session.
ShowsOnly(state, b) ==
  /\ state.snap.from \in {None, <<b, state.session>>}
  /\ \A c \in state.snap.created : c.at = <<b, state.session>>
  /\ state.output.pane = None \/ state.output.from = <<b, state.session>>

\* The rendered and the queued state show the present bridge; the session and the
\* selection that the refs name are those of the queued state; a request whose answer may
\* be applied, and the read for the screen, are for the present bridge.
ClientInv ==
  /\ ClientTyped
  /\ ShowsOnly(st, bridge) /\ ShowsOnly(nx, bridge)
  /\ nx.session = sess
  /\ \A c \in pend : c.at = <<bridge, sess>>
  /\ nx.selected \in pend => selRef = nx.selected.pane
  /\ \A q \in flying : q.latest => q.bridge = bridge
  /\ load # None => load.bridge = bridge /\ load.session = st.session

\* The requests that may be applied are for bridge b.
Asks(f, b) == f \subseteq Asked /\ \A q \in f : q.latest => q.bridge = b

LEMMA OutdatedAskNothing ==
  ASSUME flying \subseteq Asked
  PROVE  Client!Outdated(flying) \subseteq Asked /\ \A o \in Client!Outdated(flying) : ~o.latest
BY DEF Client!Outdated, Asked

\* A refresh joins a request or outdates them all.
LEMMA RefreshAsks ==
  ASSUME NEW b \in Bridge, NEW s \in Client!Sessions, NEW r,
         flying \subseteq Asked, r = None \/ Asks(flying, b), Client!Refresh(b, s, r, flying)
  PROVE  Asks(flying', b)
<1> DEFINE q == [bridge |-> b, session |-> s, latest |-> TRUE]
<1>1. Client!Outdated(flying) \subseteq Asked /\ \A o \in Client!Outdated(flying) : ~o.latest
  BY OutdatedAskNothing
<1>2. q \in Asked /\ q.bridge = b
  BY DEF Asked
<1>3. CASE r # None /\ r.session = s
  BY <1>3 DEF Asks, Client!Refresh, Client!Refreshed
<1>4. CASE ~(r # None /\ r.session = s)
  <2>1. flying' = Client!Outdated(flying) \cup {q}
    BY <1>4 DEF Client!Refresh, Client!Refreshed
  <2> QED BY <1>1, <1>2, <2>1 DEF Asks
<1> QED BY <1>3, <1>4

LEMMA BlankShows ==
  ASSUME NEW s \in Client!Sessions, NEW b \in Bridge
  PROVE  Client!Blank(s) \in State /\ ShowsOnly(Client!Blank(s), b)
BY DEF Client!Blank, State, Choices, ShowsOnly, Client!NoChoice, Client!Choice, Client!NoSnapshot,
     Client!NoOutput

\* What the effect of a state reads is that state's pane.
LEMMA EffectReads ==
  ASSUME NEW state \in State, NEW b \in Bridge
  PROVE  /\ Client!PaneEffect(b, state) \in Read \cup {None}
         /\ Client!PaneEffect(b, state) # None =>
              /\ Client!PaneEffect(b, state).bridge = b
              /\ Client!PaneEffect(b, state).session = state.session
BY DEF Client!PaneEffect, State, Choices, Read

\* A committed state of this bridge stays what is shown.
LEMMA CommitShows ==
  ASSUME ClientTyped, NEW state \in State, NEW b \in Bridge, ShowsOnly(state, b), Client!Commit(state, b)
  PROVE  /\ st' \in State /\ nx' \in State /\ selRef' \in Pane \cup {None}
         /\ load' \in Read \cup {None} /\ late' \in Read \cup {None}
         /\ ShowsOnly(st', b) /\ ShowsOnly(nx', b)
         /\ st' = state /\ nx'.session = state.session /\ nx'.selected = state.selected
         /\ selRef' = nx'.selected.pane
         /\ load' # None => load'.bridge = b /\ load'.session = st'.session
<1>1. st' = state /\ selRef' = state.selected.pane /\ load' = Client!PaneEffect(b, state)
  BY DEF Client!Commit
<1>2. /\ nx' \in State /\ nx'.session = state.session /\ nx'.selected = state.selected
      /\ nx'.snap = state.snap
      /\ nx'.output = state.output \/ nx'.output = Client!NoOutput
  BY DEF Client!Commit, State, Client!NoOutput
<1>3. ShowsOnly(nx', b)
  BY <1>2 DEF ShowsOnly, Client!NoOutput
<1>4. late' \in Read \cup {None}
  BY DEF Client!Commit, ClientTyped
<1>5. state.selected.pane \in Pane \cup {None}
  BY DEF State, Choices
<1> QED BY <1>1, <1>2, <1>3, <1>4, <1>5, EffectReads

LEMMA RenderShows == ASSUME ClientInv, Client!Render PROVE ClientInv'
<1>1. nx \in State /\ bridge \in Bridge /\ ShowsOnly(nx, bridge) /\ sess \in Client!Sessions
  BY DEF ClientInv, ClientTyped
<1>2. Client!Commit(nx, bridge) /\ bridge' = bridge /\ sess' = sess /\ pend' = pend
  BY DEF Client!Render
<1>3. Asks(flying', bridge)
  <2>1. Asks(flying, bridge)
    BY DEF ClientInv, ClientTyped, Asks
  <2>2. CASE nx.mode # st.mode
    BY <1>1, <2>1, <2>2, RefreshAsks DEF Client!Render, Asks
  <2>3. CASE nx.mode = st.mode
    BY <2>1, <2>3 DEF Client!Render, Client!asking
  <2> QED BY <2>2, <2>3
<1> QED BY <1>1, <1>2, <1>3, CommitShows DEF ClientInv, ClientTyped, Asks

LEMMA SelectPaneShows == ASSUME ClientInv, NEW p \in Pane, Client!SelectPane(p) PROVE ClientInv'
<1> DEFINE state == [nx EXCEPT !.selected = Client!Choice(p, st.snap.from)]
<1>1. bridge \in Bridge /\ sess \in Client!Sessions /\ nx \in State /\ st \in State
  BY DEF ClientInv, ClientTyped
<1>2. state \in State /\ state.session = nx.session
  BY <1>1 DEF State, Choices, Client!Choice
<1>3. ShowsOnly(state, bridge)
  BY <1>1 DEF ClientInv, ShowsOnly, State
<1>4. Client!Commit(state, bridge) /\ bridge' = bridge /\ sess' = sess /\ pend' = pend
  BY DEF Client!SelectPane
<1>5. Asks(flying', bridge)
  <2>1. Asks(flying, bridge)
    BY DEF ClientInv, ClientTyped, Asks
  <2>2. CASE nx.mode # st.mode
    BY <1>1, <2>1, <2>2, RefreshAsks DEF Client!SelectPane, Asks
  <2>3. CASE nx.mode = st.mode
    BY <2>1, <2>3 DEF Client!SelectPane, Client!asking
  <2> QED BY <2>2, <2>3
<1> HIDE DEF state
<1> QED BY <1>1, <1>2, <1>3, <1>4, <1>5, CommitShows DEF ClientInv, ClientTyped, Asks

LEMMA SetSessionShows == ASSUME ClientInv, NEW s \in Client!Sessions, Client!SetSession(s) PROVE ClientInv'
<1>1. bridge \in Bridge /\ flying \subseteq Asked
  BY DEF ClientInv, ClientTyped
<1>2. Client!Blank(s) \in State /\ ShowsOnly(Client!Blank(s), bridge) /\ Client!Blank(s).session = s
  BY <1>1, BlankShows DEF Client!Blank
<1>3. Client!Commit(Client!Blank(s), bridge) /\ bridge' = bridge /\ sess' = s /\ pend' = {}
  BY DEF Client!SetSession
<1>4. Asks(flying', bridge)
  <2>1. CASE st.mode # "connecting"
    BY <1>1, <2>1, RefreshAsks DEF Client!SetSession
  <2>2. CASE st.mode = "connecting"
    BY <1>1, <2>2, OutdatedAskNothing DEF Client!SetSession, Asks
  <2> QED BY <2>1, <2>2
<1> QED BY <1>1, <1>2, <1>3, <1>4, CommitShows DEF ClientInv, ClientTyped, Asks

LEMMA SelectBridgeShows == ASSUME ClientInv, NEW b \in Bridge, Client!SelectBridge(b) PROVE ClientInv'
<1>1. Primary \in Client!Sessions /\ flying \subseteq Asked /\ nx \in State
  BY DEF ClientInv, ClientTyped, Client!Sessions
<1>2. /\ bridge' = b /\ sess' = Primary /\ pend' = {} /\ selRef' = None /\ load' = None
      /\ st' = Client!Blank(Primary) /\ nx' = Client!Blank(Primary)
      /\ Client!Refresh(b, Primary, None, flying)
      /\ late' \in {Client!PaneEffect(b, nx), load, late}
  BY DEF Client!SelectBridge
<1>3. Asks(flying', b)
  BY <1>1, <1>2, RefreshAsks
<1>4. st' \in State /\ ShowsOnly(st', b) /\ nx'.session = Primary
  BY <1>1, <1>2, BlankShows DEF Client!Blank
<1>5. late' \in Read \cup {None}
  BY <1>1, <1>2, EffectReads DEF ClientInv, ClientTyped
<1> QED BY <1>1, <1>2, <1>3, <1>4, <1>5 DEF ClientInv, ClientTyped, Asks

\* A request that has settled is gone, and the others ask as before.
LEMMA SettledAsks ==
  ASSUME ClientInv, NEW q \in flying, Client!Settled(q)
  PROVE  Asks(flying', bridge)
BY DEF ClientInv, ClientTyped, Asks, Client!Settled

\* The snapshot that arrives is for the bridge and the session that are shown.
LEMMA SnapshotShows == ASSUME ClientInv, NEW q \in flying, Client!SnapshotArrives(q) PROVE ClientInv'
<1>1. PICK panes \in SUBSET Pane, mode \in {"live", "offline"}, expired \in SUBSET pend :
        LET target == <<q.bridge, q.session>>
            created == Client!Pending(panes, expired)
            snap == [from |-> target, panes |-> panes, created |-> created]
            kept == selRef \in Client!Listed(snap)
        IN  /\ pend' = created
            /\ \E p \in IF panes = {} THEN {None} ELSE panes :
                 nx' = [nx EXCEPT !.snap = snap, !.mode = mode,
                                  !.selected = IF kept THEN @ ELSE IF p = None THEN Client!NoChoice
                                                                   ELSE Client!Choice(p, target)]
  BY DEF Client!SnapshotArrives
<1> DEFINE target == <<q.bridge, q.session>>
           created == Client!Pending(panes, expired)
           snap == [from |-> target, panes |-> panes, created |-> created]
           kept == selRef \in Client!Listed(snap)
<1>2. PICK p \in IF panes = {} THEN {None} ELSE panes :
        nx' = [nx EXCEPT !.snap = snap, !.mode = mode,
                         !.selected = IF kept THEN @ ELSE IF p = None THEN Client!NoChoice
                                                          ELSE Client!Choice(p, target)]
  BY <1>1
<1>3. /\ pend' = created /\ UNCHANGED <<bridge, sess, selRef, st, load, late>>
      /\ q.latest /\ q.session = sess /\ Client!Settled(q)
  BY <1>1 DEF Client!SnapshotArrives, Client!ShouldApply, Client!refs
<1>4. /\ nx \in State /\ q \in Asked /\ q.bridge = bridge /\ nx.session = sess /\ target = <<bridge, sess>>
      /\ target \in Target /\ pend \subseteq Created
  BY <1>3 DEF ClientInv, ClientTyped, Asked, Target
<1>5. created \subseteq pend /\ \A c \in created : c.pane \notin panes
  BY DEF Client!Pending
<1>6. snap \in [from: Target \cup {None}, panes: SUBSET Pane, created: SUBSET Created]
  BY <1>4, <1>5
<1>7. p \in Pane \cup {None} /\ (p # None => p \in panes)
  BY ClientAssumption
<1> HIDE DEF created, target
<1>8. /\ nx' \in State /\ nx'.session = nx.session /\ nx'.output = nx.output /\ nx'.snap = snap
      /\ nx'.selected = IF kept THEN nx.selected ELSE IF p = None THEN Client!NoChoice ELSE Client!Choice(p, target)
  <2>1. Client!NoChoice \in Choices /\ (p # None => Client!Choice(p, target) \in Choices)
    BY <1>4, <1>7 DEF Choices, Client!NoChoice, Client!Choice
  <2> HIDE DEF snap, kept
  <2> QED BY <1>2, <1>4, <1>6, <1>7, <2>1 DEF State
<1>9. ShowsOnly(nx', bridge)
  BY <1>3, <1>4, <1>5, <1>8 DEF ClientInv, ShowsOnly
<1>10. nx'.selected \in pend' => selRef' = nx'.selected.pane
  <2>1. CASE kept
    BY <1>3, <1>5, <1>8, <2>1 DEF ClientInv
  <2>2. CASE ~kept /\ p = None
    BY <1>3, <1>4, <1>5, <1>8, <2>2, ClientAssumption DEF Created, Client!NoChoice, Client!Choice
  <2>3. CASE ~kept /\ p # None
    BY <1>3, <1>5, <1>7, <1>8, <2>3 DEF Client!Choice
  <2> QED BY <2>1, <2>2, <2>3
<1>11. Asks(flying', bridge)
  BY <1>3, SettledAsks
<1> HIDE DEF snap, kept
<1> QED BY <1>3, <1>4, <1>5, <1>8, <1>9, <1>10, <1>11 DEF ClientInv, ClientTyped, Asks

LEMMA OtherAnswersShow ==
  ASSUME ClientInv, NEW q \in flying,
         Client!SnapshotIgnored(q) \/ Client!SessionGone(q) \/ Client!SnapshotFails(q)
  PROVE  ClientInv'
<1>1. Asks(flying', bridge)
  BY SettledAsks DEF Client!SnapshotIgnored, Client!SessionGone, Client!SnapshotFails
<1>2. bridge \in Bridge /\ Primary \in Client!Sessions
  BY DEF ClientInv, ClientTyped, Client!Sessions
<1>3. CASE Client!SnapshotIgnored(q)
  BY <1>1, <1>3 DEF Client!SnapshotIgnored, Client!refs, Client!screen, ClientInv, ClientTyped, Asks
<1>4. CASE Client!SessionGone(q)
  <2>1. nx' \in State /\ ShowsOnly(nx', bridge) /\ nx'.session = Primary
    BY <1>2, <1>4, BlankShows DEF Client!SessionGone, Client!Blank
  <2> QED BY <1>1, <1>2, <1>4, <2>1 DEF Client!SessionGone, ClientInv, ClientTyped, Asks
<1>5. CASE Client!SnapshotFails(q)
  <2>1. /\ nx' \in State /\ nx'.session = nx.session /\ nx'.output = nx.output /\ nx'.snap = nx.snap
        /\ nx'.selected = nx.selected
    BY <1>5 DEF ClientInv, ClientTyped, State, Client!SnapshotFails
  <2>2. ShowsOnly(nx', bridge)
    BY <2>1 DEF ClientInv, ShowsOnly
  <2> QED BY <1>1, <1>5, <2>1, <2>2 DEF Client!SnapshotFails, Client!refs, ClientInv, ClientTyped, Asks
<1> QED BY <1>3, <1>4, <1>5

\* An answer is shown only if it is to the read for the present screen.
LEMMA PaneShows ==
  ASSUME ClientInv, NEW x \in {late, load} \ {None}, Client!PaneArrives(x)
  PROVE  ClientInv'
<1>1. /\ nx \in State /\ UNCHANGED <<bridge, sess, selRef, pend, flying, st, load>>
      /\ nx.session = st.session /\ late' \in {late, None} /\ x \in Read
  BY DEF ClientInv, ClientTyped, Client!PaneArrives, Client!refs, Client!asking
<1>2. CASE x = load
  <2>1. nx' = [nx EXCEPT !.output = [pane |-> x.pane, from |-> <<x.bridge, x.session>>]]
    BY <1>2 DEF Client!PaneArrives, Client!Shown
  <2>2. x.bridge = bridge /\ x.session = nx.session
    BY <1>1, <1>2 DEF ClientInv
  <2>3. [pane |-> x.pane, from |-> <<x.bridge, x.session>>] \in [pane: Pane \cup {None}, from: Target \cup {None}]
    BY <1>1 DEF Read, Target
  <2>4. /\ nx' \in State /\ nx'.session = nx.session /\ nx'.snap = nx.snap /\ nx'.selected = nx.selected
        /\ nx'.output.from = <<bridge, nx.session>>
    BY <1>1, <2>1, <2>2, <2>3 DEF State
  <2>5. ShowsOnly(nx', bridge)
    BY <2>4 DEF ClientInv, ShowsOnly
  <2> QED BY <1>1, <2>4, <2>5 DEF ClientInv, ClientTyped
<1>3. CASE x # load
  BY <1>1, <1>3 DEF Client!PaneArrives, Client!Shown, ClientInv, ClientTyped
<1> QED BY <1>2, <1>3

LEMMA CreateShows == ASSUME ClientInv, Client!CreateEnds PROVE ClientInv'
<1>1. PICK p \in Pane :
        LET new == Client!Choice(p, <<act.bridge, act.session>>)
        IN  /\ pend' = {c \in pend : c.pane # p} \union {new}
            /\ nx' = [nx EXCEPT !.selected = new] /\ Client!SelectCreated(p)
  BY DEF Client!CreateEnds
<1> DEFINE new == Client!Choice(p, <<act.bridge, act.session>>)
<1>2. /\ act.bridge = bridge /\ act.session = sess /\ UNCHANGED <<bridge, sess, st, load, late>>
      /\ Client!Refresh(bridge, sess, ref, flying) /\ selRef' = p
      /\ pend' = {c \in pend : c.pane # p} \union {new} /\ nx' = [nx EXCEPT !.selected = new]
  BY <1>1 DEF Client!CreateEnds, Client!SelectCreated
<1>3. new \in Created /\ new \in Choices /\ new.pane = p /\ new.at = <<bridge, sess>>
  BY <1>2 DEF Created, Choices, Target, Client!Choice, ClientInv, ClientTyped
<1> HIDE DEF new
<1>4. /\ nx' \in State /\ nx'.session = nx.session /\ nx'.output = nx.output /\ nx'.snap = nx.snap
      /\ nx'.selected = new
  BY <1>2, <1>3 DEF ClientInv, ClientTyped, State
<1>5. ShowsOnly(nx', bridge)
  BY <1>4 DEF ClientInv, ShowsOnly
<1>6. Asks(flying', bridge)
  BY <1>2, RefreshAsks DEF ClientInv, ClientTyped, Asks
<1> QED BY <1>2, <1>3, <1>4, <1>5, <1>6 DEF ClientInv, ClientTyped, Asks

\* A poll, an action that starts, fails or is over: at most the snapshot is asked for.
LEMMA OtherStepsShow ==
  ASSUME ClientInv,
         \/ Client!Poll \/ Client!ActionFails \/ Client!ActionRefreshes
         \/ \E kind \in {"create", "reply"} : Client!StartAction(kind)
  PROVE  ClientInv'
<1>1. UNCHANGED <<bridge, sess, selRef, pend, st, nx, load, late>>
  BY DEF Client!Poll, Client!ActionFails, Client!ActionRefreshes, Client!StartAction, Client!refs,
     Client!screen
<1>2. bridge \in Bridge /\ sess \in Client!Sessions /\ Asks(flying, bridge)
  BY DEF ClientInv, ClientTyped, Asks
<1>3. flying' = flying \/ Client!Refresh(bridge, sess, ref, flying)
  BY DEF Client!Poll, Client!ActionFails, Client!ActionRefreshes, Client!StartAction, Client!asking
<1>4. Asks(flying', bridge)
  BY <1>2, <1>3, RefreshAsks DEF Asks
<1> QED BY <1>1, <1>2, <1>4 DEF ClientInv, ClientTyped, Asks

LEMMA InitShows == Client!Init => ClientInv
<1> SUFFICES ASSUME Client!Init PROVE ClientInv
  OBVIOUS
<1>1. bridge \in Bridge /\ sess \in Client!Sessions /\ pend = {} /\ load = None /\ late = None
  BY DEF Client!Init
<1>2. PICK p \in Pane \cup {None} :
        LET chosen == IF p = None THEN Client!NoChoice ELSE Client!Choice(p, <<bridge, sess>>)
        IN  selRef = p /\ st = [Client!Blank(sess) EXCEPT !.selected = chosen] /\ nx = st
  BY DEF Client!Init
<1>3. Client!Blank(sess) \in State /\ ShowsOnly(Client!Blank(sess), bridge) /\ Client!Blank(sess).session = sess
  BY <1>1, BlankShows DEF Client!Blank
<1>4. (IF p = None THEN Client!NoChoice ELSE Client!Choice(p, <<bridge, sess>>)) \in Choices
  BY <1>1 DEF Choices, Target, Client!NoChoice, Client!Choice
<1>5. st \in State /\ nx = st /\ ShowsOnly(st, bridge) /\ st.session = sess /\ selRef = p
  BY <1>2, <1>3, <1>4 DEF State, ShowsOnly
<1>6. Asks(flying, bridge)
  <2>1. flying = {[bridge |-> bridge, session |-> sess, latest |-> TRUE]}
    BY DEF Client!Init, Client!Refreshed
  <2> QED BY <1>1, <2>1 DEF Asks, Asked
<1> QED BY <1>1, <1>5, <1>6 DEF ClientInv, ClientTyped, Asks

LEMMA StepShows == ClientInv /\ [Client!Next]_client => ClientInv'
<1>1. ASSUME ClientInv, Client!Next PROVE ClientInv'
  <2>1. CASE \E q \in flying : Client!Settles(q)
    BY <1>1, <2>1, SnapshotShows, OtherAnswersShow DEF Client!Settles
  <2>2. CASE \E p \in Pane : Client!SelectPane(p)
    BY <1>1, <2>2, SelectPaneShows
  <2>3. CASE \E s \in Client!Sessions : Client!SetSession(s)
    BY <1>1, <2>3, SetSessionShows
  <2>4. CASE \E b \in Bridge : Client!SelectBridge(b)
    BY <1>1, <2>4, SelectBridgeShows
  <2>5. CASE \E x \in {late, load} \ {None} : Client!PaneArrives(x)
    BY <1>1, <2>5, PaneShows
  <2> QED BY <1>1, <2>1, <2>2, <2>3, <2>4, <2>5, RenderShows, CreateShows,
             OtherStepsShow DEF Client!Next
<1>2. ASSUME ClientInv, UNCHANGED client PROVE ClientInv'
  BY <1>2 DEF ClientInv, ClientTyped, ShowsOnly, client
<1> QED BY <1>1, <1>2

\* A behaviour of the two parts is one of the client, by its initial state and steps.
LEMMA ClientPart == MCSpec => []ClientInv /\ [][Client!Next]_client
<1>1. MCInit => Client!Init
  BY DEF MCInit
<1>2. [MCNext]_<<vars, client, part>> => [Client!Next]_client
  BY DEF MCNext
<1> QED BY <1>1, <1>2, InitShows, StepShows, PTL DEF MCSpec

\* What is on the screen (web/src/hooks/useHerdr.ts) is the bridge's and the session's
\* that are shown, whatever was still on its way when another was selected.
THEOREM ClientShowsHere == MCSpec => []OnScreenIsHere
<1>1. ClientInv => OnScreenIsHere
  <2> SUFFICES ASSUME ClientInv PROVE Client!OnScreenIsHere
    BY DEF OnScreenIsHere
  <2>1. ShowsOnly(st, bridge)
    BY DEF ClientInv
  <2> QED BY <2>1 DEF ShowsOnly, Client!OnScreenIsHere, Client!Here
<1> QED BY <1>1, ClientPart, PTL

\* A step that takes the selection from a created pane that is still pending.
Deselects(c) == c \in pend /\ c \in pend' /\ nx.selected = c /\ nx'.selected # c

\* A snapshot keeps the pane that the ref names, and a pending pane is named and listed.
LEMMA SnapshotKeepsCreated ==
  ASSUME ClientInv, NEW q \in flying, Client!SnapshotArrives(q), NEW c, Deselects(c)
  PROVE  FALSE
<1>1. PICK panes \in SUBSET Pane, mode \in {"live", "offline"}, expired \in SUBSET pend :
        LET target == <<q.bridge, q.session>>
            created == Client!Pending(panes, expired)
            snap == [from |-> target, panes |-> panes, created |-> created]
            kept == selRef \in Client!Listed(snap)
        IN  /\ pend' = created
            /\ \E p \in IF panes = {} THEN {None} ELSE panes :
                 nx' = [nx EXCEPT !.snap = snap, !.mode = mode,
                                  !.selected = IF kept THEN @ ELSE IF p = None THEN Client!NoChoice
                                                                   ELSE Client!Choice(p, target)]
  BY DEF Client!SnapshotArrives
<1> DEFINE target == <<q.bridge, q.session>>
           created == Client!Pending(panes, expired)
           snap == [from |-> target, panes |-> panes, created |-> created]
<1>2. c \in created /\ selRef = c.pane
  BY <1>1 DEF Deselects, ClientInv
<1>3. selRef \in Client!Listed(snap)
  BY <1>2 DEF Client!Listed
<1>4. nx'.selected = nx.selected
  <2>1. \E p : nx' = [nx EXCEPT !.snap = snap, !.mode = mode, !.selected = nx.selected]
    BY <1>1, <1>3
  <2> QED BY <2>1 DEF ClientInv, ClientTyped, State
<1> QED BY <1>4 DEF Deselects

LEMMA StepKeepsCreated ==
  ASSUME ClientInv, Client!Next, NEW c, Deselects(c)
  PROVE  <<bridge, sess>>' # <<bridge, sess>> \/ Client!CreateEnds \/ \E p \in Pane : Client!SelectPane(p)
<1>1. nx \in State
  BY DEF ClientInv, ClientTyped
<1>2. ASSUME Client!Render PROVE FALSE
  BY <1>1, <1>2 DEF Client!Render, Client!Commit, State, Deselects
<1>3. ASSUME NEW q \in flying, Client!Settles(q) PROVE FALSE
  <2>1. CASE Client!SnapshotArrives(q)
    BY <2>1, SnapshotKeepsCreated
  <2>2. CASE Client!SnapshotIgnored(q)
    BY <2>2 DEF Client!SnapshotIgnored, Client!screen, Deselects
  <2>3. CASE Client!SessionGone(q)
    BY <2>3 DEF Client!SessionGone, Deselects
  <2>4. CASE Client!SnapshotFails(q)
    BY <1>1, <2>4 DEF Client!SnapshotFails, State, Deselects
  <2> QED BY <1>3, <2>1, <2>2, <2>3, <2>4 DEF Client!Settles
<1>4. ASSUME NEW s \in Client!Sessions, Client!SetSession(s) PROVE FALSE
  BY <1>4 DEF Client!SetSession, Deselects
<1>5. ASSUME NEW b \in Bridge, Client!SelectBridge(b) PROVE FALSE
  BY <1>5 DEF Client!SelectBridge, Deselects
<1>6. ASSUME NEW x, Client!PaneArrives(x) PROVE FALSE
  BY <1>1, <1>6 DEF Client!PaneArrives, State, Deselects
<1>7. ASSUME \/ Client!Poll \/ Client!ActionFails \/ Client!ActionRefreshes
             \/ \E kind \in {"create", "reply"} : Client!StartAction(kind)
      PROVE  FALSE
  BY <1>7 DEF Client!Poll, Client!ActionFails, Client!ActionRefreshes, Client!StartAction,
     Client!screen,
              Deselects
<1> QED BY <1>2, <1>3, <1>4, <1>5, <1>6, <1>7 DEF Client!Next

\* A pane that was just created stays selected though snapshots asked for before it was
\* created arrive after it (web/src/hooks/useHerdr.ts).
THEOREM ClientKeepsCreated == MCSpec => CreatedStays
<1>1. ClientInv /\ [Client!Next]_client =>
        [\A c \in pend \intersect pend' :
           nx.selected = c /\ nx'.selected # c => \/ <<bridge, sess>>' # <<bridge, sess>>
                                                  \/ Client!CreateEnds
                                                  \/ \E p \in Pane : Client!SelectPane(p)]_(Client!vars)
  <2>1. UNCHANGED client => UNCHANGED Client!vars
    BY DEF client, Client!vars, Client!refs, Client!asking, Client!screen
  <2>2. ASSUME ClientInv, Client!Next, NEW c \in pend \intersect pend', nx.selected = c, nx'.selected # c
        PROVE  <<bridge, sess>>' # <<bridge, sess>> \/ Client!CreateEnds \/ \E p \in Pane : Client!SelectPane(p)
    <3>1. Deselects(c)
      BY <2>2 DEF Deselects
    <3> QED BY <2>2, <3>1, StepKeepsCreated
  <2> QED BY <2>1, <2>2
<1> QED BY <1>1, ClientPart, PTL DEF CreatedStays, Client!CreatedStays

=============================================================================
