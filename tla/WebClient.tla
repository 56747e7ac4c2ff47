------------------------------ MODULE WebClient ------------------------------
(***************************************************************************)
(* What the browser shows and where it posts (web/src/hooks/useHerdr.ts):  *)
(* one bridge, one session of it, its snapshot, one selected pane and what *)
(* the pane printed.  Pane ids are reused by other sessions and bridges,   *)
(* so that every value carries the target it came from, which the program  *)
(* does not record.                                                        *)
(*                                                                         *)
(* Refs change at once.  State set by a promise's continuation is queued   *)
(* and shown at the next render; a click sees what was rendered, is shown  *)
(* at once together with what was queued, and its effects run before       *)
(* anything else does (React 19).  Demo mode is left out.                  *)
(***************************************************************************)
EXTENDS Naturals, FiniteSets

CONSTANTS
  Bridge,       \* the configured bridges
  Session,      \* named sessions
  Primary,      \* session undefined
  Pane,         \* pane ids
  None,         \* no pane, no target, no request
  MaxSwitches   \* bound: bridges and sessions selected

VARIABLES
  bridge,      \* the receiver
  sess,        \* sessionRef
  selRef,      \* selectedPaneIdRef
  pend,        \* pendingCreatedPanesRef: panes created in a target and not listed yet
  ref,         \* snapshotRequestRef: the request that others join
  flying,      \* snapshot requests not settled; latest: of the current generation
  st,          \* the state of the last render
  nx,          \* the state with the queued updates
  load,        \* the pane that is being read for the screen
  late,        \* the read that was cancelled last and may still be answered
  act,         \* actionInFlightRef: the action that is awaited
  stray,       \* a POST went to another target than the one its pane was chosen in
  switches

refs == <<bridge, sess, selRef>>
asking == <<ref, flying>>
screen == <<st, nx, load, late>>
vars == <<refs, pend, asking, screen, act, stray, switches>>

Sessions == Session \union {Primary}
Choice(p, t) == [pane |-> p, at |-> t]
NoChoice == Choice(None, None)
NoSnapshot == [from |-> None, panes |-> {}, created |-> {}]
NoOutput == [pane |-> None, from |-> None]
NoAction == [kind |-> "none", bridge |-> None, session |-> None]

Listed(snap) == snap.panes \union {c.pane : c \in snap.created}

(***************************************************************************)
(* Asking for the snapshot.                                                *)
(***************************************************************************)
\* Another generation: what was asked before is not shown.
Outdated(f) == {[q EXCEPT !.latest = FALSE] : q \in f}

\* refreshSnapshot: join the request of this session, or abort it and ask again.
Refreshed(b, s, r, f) ==
  LET q == [bridge |-> b, session |-> s, latest |-> TRUE]
  IN  IF r # None /\ r.session = s THEN [ref |-> r, flying |-> f]
      ELSE [ref |-> q, flying |-> Outdated(f) \union {q}]

Refresh(b, s, r, f) == ref' = Refreshed(b, s, r, f).ref /\ flying' = Refreshed(b, s, r, f).flying

(***************************************************************************)
(* A render and its effects.                                               *)
(***************************************************************************)
Blank(s) == [session |-> s, selected |-> NoChoice, snap |-> NoSnapshot, mode |-> "connecting", output |-> NoOutput]

PaneEffect(b, state) ==
  IF state.selected.pane = None \/ state.mode # "live" THEN None
  ELSE [pane |-> state.selected.pane, session |-> state.session, bridge |-> b]

\* The effect that reads the pane is cancelled when what it depends on changes; without a
\* selected pane there is no output.
Commit(state, b) ==
  /\ st' = state
  /\ nx' = IF state.selected.pane = None THEN [state EXCEPT !.output = NoOutput] ELSE state
  /\ selRef' = state.selected.pane
  /\ load' = PaneEffect(b, state)
  /\ late' = IF load \in {None, PaneEffect(b, state)} THEN late ELSE load

\* A completed pane on the screen is reported seen, with the receiver of this render.
SeenStray(b, state) ==
  /\ state.selected.pane \in Listed(state.snap)
  /\ state.selected.at # <<b, state.session>>

Posts(misses) == \E done \in BOOLEAN : stray' = (stray \/ (done /\ misses))

Render ==
  /\ nx # st /\ Commit(nx, bridge)
  /\ IF nx.mode # st.mode THEN Refresh(bridge, sess, ref, flying) ELSE UNCHANGED asking
  /\ Posts(SeenStray(bridge, nx))
  /\ UNCHANGED <<bridge, sess, pend, act, switches>>

Init ==
  /\ bridge \in Bridge /\ sess \in Sessions
  /\ \E p \in Pane \union {None} :
       LET chosen == IF p = None THEN NoChoice ELSE Choice(p, <<bridge, sess>>)
       IN  selRef = p /\ st = [Blank(sess) EXCEPT !.selected = chosen] /\ nx = st
  /\ pend = {} /\ ref = Refreshed(bridge, sess, None, {}).ref /\ flying = {ref}
  /\ load = None /\ late = None /\ act = NoAction /\ stray = FALSE /\ switches = 0

(***************************************************************************)
(* Clicks.                                                                 *)
(***************************************************************************)
SelectPane(p) ==
  /\ p \in Listed(st.snap) /\ p # st.selected.pane
  /\ Commit([nx EXCEPT !.selected = Choice(p, st.snap.from)], bridge)
  /\ IF nx.mode # st.mode THEN Refresh(bridge, sess, ref, flying) ELSE UNCHANGED asking
  /\ UNCHANGED <<bridge, sess, pend, act, stray, switches>>

\* setSession: everything of the session before is dropped at once.  The mode asks for
\* the new snapshot; a client that was connecting already waits for the interval.
SetSession(s) ==
  /\ switches < MaxSwitches /\ switches' = switches + 1
  /\ sess' = s /\ pend' = {} /\ Commit(Blank(s), bridge)
  /\ IF st.mode # "connecting" THEN Refresh(bridge, s, None, flying)
     ELSE ref' = None /\ flying' = Outdated(flying)
  /\ UNCHANGED <<bridge, act, stray>>

\* Another bridge: the effects of the first render see the new receiver with the pane and
\* the session of the old one, ask for the snapshot, read the pane and report it seen;
\* the render that follows drops them.
SelectBridge(b) ==
  /\ b # bridge /\ switches < MaxSwitches /\ switches' = switches + 1
  /\ bridge' = b /\ sess' = Primary /\ pend' = {}
  /\ Refresh(b, Primary, None, flying)
  /\ st' = Blank(Primary) /\ nx' = Blank(Primary) /\ selRef' = None /\ load' = None
  /\ late' = IF PaneEffect(b, nx) # None THEN PaneEffect(b, nx) ELSE IF load # None THEN load ELSE late
  /\ Posts(SeenStray(b, nx))
  /\ UNCHANGED act

\* One action at a time.
StartAction(kind) ==
  /\ act = NoAction /\ (kind = "reply" => st.selected.pane # None)
  /\ act' = [kind |-> kind, bridge |-> bridge, session |-> st.session]
  /\ stray' = (stray \/ (kind = "reply" /\ st.selected.at # <<bridge, st.session>>))
  /\ UNCHANGED <<refs, pend, asking, screen, switches>>

\* The interval, or the button.
Poll ==
  /\ Refresh(bridge, sess, ref, flying)
  /\ UNCHANGED <<refs, pend, screen, act, stray, switches>>

(***************************************************************************)
(* Continuations.                                                          *)
(***************************************************************************)
\* Mutant: the request that ended is still there to be joined.
SettledKept(q) == flying' = flying \ {q} /\ ref' = ref

\* finally: a request that ended is not joined any more.
Settled(q) == flying' = flying \ {q} /\ ref' = IF ref = q THEN None ELSE ref

ShouldApply(q) == q.latest /\ q.session = sess

\* Panes that were created and are not listed yet, for a time.
Pending(panes, expired) == {c \in pend : c.pane \notin panes} \ expired

\* The snapshot, with the panes created since it was asked for; another pane is selected
\* if the selected one is not there.
SnapshotArrives(q) ==
  /\ ShouldApply(q) /\ Settled(q)
  /\ \E panes \in SUBSET Pane, mode \in {"live", "offline"}, expired \in SUBSET pend :
       LET target == <<q.bridge, q.session>>
           created == Pending(panes, expired)
           snap == [from |-> target, panes |-> panes, created |-> created]
           kept == selRef \in Listed(snap)
       IN  /\ pend' = created
           /\ \E p \in IF panes = {} THEN {None} ELSE panes :
                nx' = [nx EXCEPT !.snap = snap, !.mode = mode,
                                 !.selected = IF kept THEN @ ELSE IF p = None THEN NoChoice ELSE Choice(p, target)]
  /\ UNCHANGED <<refs, st, load, late, act, stray, switches>>

SnapshotIgnored(q) ==
  /\ ~ShouldApply(q) /\ Settled(q)
  /\ UNCHANGED <<refs, pend, screen, act, stray, switches>>

\* 404 for a named session: back to the primary one.
SessionGone(q) ==
  /\ q.latest /\ q.session # Primary /\ Settled(q)
  /\ sess' = Primary /\ pend' = {} /\ nx' = Blank(Primary)
  /\ UNCHANGED <<bridge, selRef, st, load, late, act, stray, switches>>

SnapshotFails(q) ==
  /\ q.latest /\ Settled(q)
  /\ nx' = [nx EXCEPT !.mode = "offline"]
  /\ UNCHANGED <<refs, pend, st, load, late, act, stray, switches>>

\* Mutant: the answer to a read that was cancelled is shown.
ShownAnyway(x) == TRUE

Shown(x) == x = load

\* (Assumed: the render that leaves a session comes before the next answer to a read,
\* both being due at once.)
PaneArrives(x) ==
  /\ nx.session = st.session
  /\ late' = IF x = load THEN late ELSE None
  /\ nx' = IF Shown(x) THEN [nx EXCEPT !.output = [pane |-> x.pane, from |-> <<x.bridge, x.session>>]] ELSE nx
  /\ UNCHANGED <<refs, pend, asking, st, load, act, stray, switches>>

\* Mutant: the ref of the selected pane waits for the render.
SelectCreatedLater(p) == UNCHANGED selRef

SelectCreated(p) == selRef' = p

\* The action failed, or the bridge it was for is not the one shown.
ActionFails ==
  /\ act # NoAction /\ act' = NoAction
  /\ UNCHANGED <<refs, pend, asking, screen, stray, switches>>

\* It went through, or a creation may have: the snapshot is asked for.
ActionRefreshes ==
  /\ act # NoAction /\ act' = NoAction
  /\ act.bridge = bridge /\ Refresh(bridge, sess, ref, flying)
  /\ UNCHANGED <<refs, pend, screen, stray, switches>>

\* The created pane is shown and selected before any snapshot lists it, if its session
\* is still the one shown.
CreateEnds ==
  /\ act.kind = "create" /\ act' = NoAction
  /\ act.bridge = bridge /\ act.session = sess
  /\ \E p \in Pane :
       LET new == Choice(p, <<act.bridge, act.session>>)
       IN  /\ pend' = {c \in pend : c.pane # p} \union {new}
           /\ nx' = [nx EXCEPT !.selected = new] /\ SelectCreated(p)
  /\ Refresh(bridge, sess, ref, flying)
  /\ UNCHANGED <<bridge, sess, st, load, late, stray, switches>>

Settles(q) == SnapshotArrives(q) \/ SnapshotIgnored(q) \/ SessionGone(q) \/ SnapshotFails(q)

Next ==
  \/ Render \/ Poll
  \/ \E p \in Pane : SelectPane(p)
  \/ \E s \in Sessions : SetSession(s)
  \/ \E b \in Bridge : SelectBridge(b)
  \/ \E kind \in {"create", "reply"} : StartAction(kind)
  \/ ActionFails \/ ActionRefreshes \/ CreateEnds
  \/ \E q \in flying : Settles(q)
  \/ \E x \in {late, load} \ {None} : PaneArrives(x)

\* Renders and intervals come, and every request is answered or timed out.
Fairness ==
  /\ WF_vars(Render) /\ WF_vars(Poll)
  /\ WF_vars(\E q \in flying : q.latest /\ Settles(q))

Spec == Init /\ [][Next]_vars /\ Fairness

(***************************************************************************)
(* Properties.                                                             *)
(***************************************************************************)
Here == <<bridge, st.session>>

TypeOK ==
  /\ bridge \in Bridge /\ sess \in Sessions /\ selRef \in Pane \union {None}
  /\ st.mode \in {"connecting", "live", "offline"} /\ st.snap.panes \subseteq Pane
  /\ Cardinality({q \in flying : q.latest}) <= 1
  /\ switches \in 0 .. MaxSwitches

\* What is on the screen is the bridge's and the session's that are shown: the snapshot,
\* the panes created meanwhile, and the output of the selected pane, whatever was still
\* on its way when another was selected.
OnScreenIsHere ==
  /\ st.snap.from \in {None, Here}
  /\ \A c \in st.snap.created : c.at = Here
  /\ (st.selected.pane # None /\ st.output.pane = st.selected.pane) => st.output.from = Here

\* A pane that was just created stays selected though snapshots asked for before it was
\* created arrive after it, until one lists it, its time has passed, or the user selects
\* or creates another.
CreatedStays ==
  [][\A c \in pend \intersect pend' :
       nx.selected = c /\ nx'.selected # c => \/ <<bridge, sess>>' # <<bridge, sess>>
                                              \/ CreateEnds
                                              \/ \E p \in Pane : SelectPane(p)]_vars

\* A client that is connecting comes to show a snapshot or an outage, also when its
\* session has gone, and it never stops asking for the session it shows.
KeepsUp ==
  /\ (st.mode = "connecting") ~> (st.mode # "connecting")
  /\ []<>(\E q \in flying : q.latest /\ q.bridge = bridge /\ q.session = sess)

\* "Pane IDs are commonly reused, so a stale selection could otherwise mutate the new
\* target" (web/src/hooks/useHerdr.ts:271): what is posted about a pane goes to the bridge
\* and session the pane was chosen in.
NeverStray == ~stray

=============================================================================
