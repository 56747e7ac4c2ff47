---------------------------- MODULE TerminalWatch ----------------------------
(***************************************************************************)
(* The terminal a live socket follows: the websocket handlers of           *)
(* bridge/server.ts and the Herdr process behind each watch                *)
(* (bridge/terminal-observer.ts).                                          *)
(*                                                                         *)
(* A socket has at most one watch.  Observer o is the child process of one *)
(* watch: it writes lines into a pipe, which the bridge reads on after the *)
(* process ended, and its exit is noticed before or after its last lines.  *)
(***************************************************************************)
EXTENDS Naturals, Sequences

CONSTANTS
  Pane,           \* panes the client watches
  Size,           \* terminal sizes within the limits
  NoPane,         \* paneId null
  MaxObservers,   \* bound: processes started
  MaxLines        \* bound: lines in a pipe

Observer == 1 .. MaxObservers
NoWatch == 0

VARIABLES
  open,        \* the websocket
  canControl,  \* socket.data.canControl
  session,     \* registry.get finds the session
  watch,       \* socket.data.paneWatch: [obs, pane, size], obs NoWatch if undefined
  obs,         \* obs[o]: the process and the closure of observer o
  sent         \* the last message to the client, with the observer it speaks for

vars == <<open, canControl, session, watch, obs, sent>>

NotStarted == [pane |-> NoPane, size |-> NoPane, alive |-> FALSE, pipe |-> <<>>, exited |-> TRUE,
               spawned |-> FALSE, closed |-> FALSE, intentional |-> FALSE, up |-> FALSE, down |-> FALSE]
Started(p, z, spawned) ==
  [NotStarted EXCEPT !.pane = p, !.size = z, !.spawned = spawned,
                     !.alive = spawned, !.exited = ~spawned, !.down = ~spawned]
Unwatched == [obs |-> NoWatch, pane |-> NoPane, size |-> NoPane]
Nothing == [type |-> "none", obs |-> NoWatch, pane |-> NoPane]

Init ==
  /\ open = TRUE /\ canControl \in BOOLEAN /\ session = TRUE
  /\ watch = Unwatched
  /\ obs = [o \in Observer |-> NotStarted]
  /\ sent = Nothing

Say(type, o) == sent' = IF open THEN [type |-> type, obs |-> o, pane |-> obs[o].pane] ELSE sent

\* fireDown: once, and not to the client of a watch that was closed on purpose.
FireDown(o, x) ==
  /\ obs' = [obs EXCEPT ![o] = [x EXCEPT !.down = TRUE]]
  /\ IF ~x.down /\ ~x.intentional THEN Say("down", o) ELSE UNCHANGED sent

(***************************************************************************)
(* Handlers of the socket.                                                 *)
(***************************************************************************)
\* close(): the closure is marked, and the process is killed.
Close(x) == [x EXCEPT !.intentional = TRUE, !.closed = TRUE, !.alive = x.closed /\ x.alive]

\* Mutant: a new watch leaves the process of the old one running.
LeaveWatch == obs

CloseWatch == [o \in Observer |-> IF o = watch.obs THEN Close(obs[o]) ELSE obs[o]]

\* resize() and scroll() write to a controller; the write throws once the process
\* has ended.  A stream whose process was never started has nothing to write to.
Resizable(o) == canControl /\ obs[o].spawned /\ ~obs[o].closed

Unwatch ==
  /\ open
  /\ obs' = CloseWatch /\ watch' = Unwatched
  /\ UNCHANGED <<open, canControl, session, sent>>

\* The same watch again, which is left alone even when its process has ended.
SameWatch(p, z) == watch.obs # NoWatch /\ watch.pane = p /\ watch.size = z

Resize(p, z) ==
  /\ open /\ watch.obs # NoWatch /\ watch.pane = p /\ watch.size # z /\ Resizable(watch.obs)
  /\ watch' = [watch EXCEPT !.size = z]
  /\ obs' = [obs EXCEPT ![watch.obs].size = IF obs[watch.obs].alive THEN z ELSE @]
  /\ UNCHANGED <<open, canControl, session, sent>>

\* A new process takes the place of the one before, unless the session is gone.
\* A resize that could not be written has reported its stream down; a process that
\* cannot be started is reported at once.
Watch(p, z) ==
  LET failed == watch.obs # NoWatch /\ watch.pane = p /\ Resizable(watch.obs)
      broken == IF failed /\ ~obs[watch.obs].down THEN [type |-> "down", obs |-> watch.obs, pane |-> p] ELSE sent
  IN  /\ open /\ ~SameWatch(p, z) /\ (failed => ~obs[watch.obs].alive)
      /\ \/ /\ session
            /\ \E o \in Observer, spawned \in BOOLEAN :
                 /\ obs[o] = NotStarted /\ \A k \in 1 .. o - 1 : obs[k] # NotStarted
                 /\ obs' = [CloseWatch EXCEPT ![o] = Started(p, z, spawned)]
                 /\ watch' = [obs |-> o, pane |-> p, size |-> z]
                 /\ sent' = IF spawned THEN broken ELSE [type |-> "down", obs |-> o, pane |-> p]
         \/ ~session /\ obs' = CloseWatch /\ watch' = Unwatched /\ sent' = broken
      /\ UNCHANGED <<open, canControl, session>>

\* A scroll of the watched pane: a line for a live process, else the end of the stream.
Scroll ==
  /\ open /\ watch.obs # NoWatch /\ Resizable(watch.obs) /\ ~obs[watch.obs].alive
  /\ FireDown(watch.obs, obs[watch.obs])
  /\ UNCHANGED <<open, canControl, session, watch>>

\* The socket closes; the session is disposed of, or found again.
SocketCloses ==
  /\ open /\ open' = FALSE /\ obs' = CloseWatch
  /\ UNCHANGED <<canControl, session, watch, sent>>

SessionChanges == session' = ~session /\ UNCHANGED <<open, canControl, watch, obs, sent>>

(***************************************************************************)
(* The process (external) and the closure that reads it.                   *)
(***************************************************************************)
Prints(o) ==
  /\ obs[o].alive /\ Len(obs[o].pipe) < MaxLines
  /\ \E line \in {"frame", "other"} : obs' = [obs EXCEPT ![o].pipe = Append(@, line)]
  /\ UNCHANGED <<open, canControl, session, watch, sent>>

Ends(o) ==
  /\ obs[o].alive /\ obs' = [obs EXCEPT ![o].alive = FALSE]
  /\ UNCHANGED <<open, canControl, session, watch, sent>>

\* Mutant: the end of the process is not listened for.
NoticeExitNever(o) == FALSE /\ UNCHANGED vars

\* Mutant: lines are forwarded whether or not the watch is closed.
ForwardsAlways(o) == TRUE

Forwards(o) == ~obs[o].closed

\* A frame is forwarded; any other line ends the stream, and the process is killed.
ReadLine(o) ==
  /\ obs[o].pipe # <<>>
  /\ LET x == [obs[o] EXCEPT !.pipe = Tail(@)]
     IN  IF ~Forwards(o) THEN obs' = [obs EXCEPT ![o] = x] /\ UNCHANGED sent
         ELSE IF Head(obs[o].pipe) = "frame"
         THEN obs' = [obs EXCEPT ![o] = [x EXCEPT !.up = TRUE]] /\ Say("frame", o)
         ELSE FireDown(o, [x EXCEPT !.alive = FALSE])
  /\ UNCHANGED <<open, canControl, session, watch>>

\* process.exited resolves, or the spawn that threw is reported.
NoticeExit(o) ==
  /\ ~obs[o].alive /\ ~obs[o].exited
  /\ LET x == [obs[o] EXCEPT !.exited = TRUE]
     IN  IF x.closed THEN obs' = [obs EXCEPT ![o] = x] /\ UNCHANGED sent ELSE FireDown(o, x)
  /\ UNCHANGED <<open, canControl, session, watch>>

Next ==
  \/ Unwatch \/ Scroll \/ SocketCloses \/ SessionChanges
  \/ \E p \in Pane, z \in Size : Watch(p, z) \/ Resize(p, z)
  \/ \E o \in Observer : Prints(o) \/ Ends(o) \/ ReadLine(o) \/ NoticeExit(o)

Fairness == \A o \in Observer : WF_vars(ReadLine(o)) /\ WF_vars(NoticeExit(o))

Spec == Init /\ [][Next]_vars /\ Fairness

(***************************************************************************)
(* Properties.                                                             *)
(***************************************************************************)
TypeOK ==
  /\ open \in BOOLEAN /\ canControl \in BOOLEAN /\ session \in BOOLEAN
  /\ watch.obs \in Observer \union {NoWatch} /\ watch.pane \in Pane \union {NoPane}
  /\ \A o \in Observer : /\ obs[o].alive \in BOOLEAN /\ Len(obs[o].pipe) <= MaxLines
                         /\ obs[o].pane \in Pane \union {NoPane}
  /\ sent.type \in {"none", "down", "frame"}

\* A process that controls a terminal runs only for the watch the socket has now:
\* switching panes, resizing, a vanished session and a closed socket leave none
\* behind to fight over the terminal's size.
NoProcessLeaks == \A o \in Observer : obs[o].alive => open /\ o = watch.obs

\* What the client reads is about the pane it watches: nothing that was still in
\* the pipe of an earlier watch, nor its end, is sent after the switch.
SpeaksForWatch == [][sent' # sent => sent'.obs \in {watch.obs, watch'.obs}]_vars

\* A stream that ended is reported, unless the client has moved on.
EndIsReported ==
  \A o \in Observer : (obs[o] # NotStarted /\ ~obs[o].alive) ~> (obs[o].down \/ obs[o].closed)

=============================================================================
