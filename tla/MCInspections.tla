----------------------------- MODULE MCInspections -----------------------------
(* The poll loop and the git inspections share nothing: a behaviour is one of    *)
(* either, and the other stays in one initial state, where no step of the        *)
(* inspections is due but one of the loop is: its fairness is the loop's alone.   *)
EXTENDS PollLoop
CONSTANTS Request, Op, MaxActive, MaxQueued, MaxRounds, File, Absent

\* The limits of the limiter and of the loops are counts; none is assumed to be positive.
ASSUME InspectionsAssumption == MaxActive \in Nat /\ MaxQueued \in Nat /\ MaxRounds \in Nat

VARIABLES part, git

\* One time unit is half a second; delays are cut to keep the order that matters:
\* debounce < fast cadence, reconnect delays, relaxed cadence.
MCPaneSets == {{}, {"p1"}}
\* 1 s, then 2 s: the head of the code's 1, 2, 5, 15 s.
MCBackoff == <<2, 4>>

Inspections == INSTANCE GitInspection

MCInit ==
  /\ part \in {"poll", "inspections"} /\ Init /\ Inspections!Init
  /\ part # "poll" => agentPanes = {}

MCNext ==
  \/ part = "poll" /\ Next /\ UNCHANGED <<git, part>>
  \/ part = "inspections" /\ Inspections!Next /\ UNCHANGED <<vars, part>>

\* Fairness of PollLoop, for the behaviours of the loop.
Polls == part = "poll"
LoopFairness ==
  /\ WF_vars(Polls /\ Elapse) /\ WF_vars(Polls /\ Tick) /\ WF_vars(Polls /\ Retry)
  /\ WF_vars(Polls /\ Poke)
  /\ WF_vars(Polls /\ ackTimer = 0 /\ StreamDown)
  /\ WF_vars(Polls /\ pollTimer = 0 /\ PollSettles)

MCSpec ==
  /\ MCInit /\ [][MCNext]_<<vars, git, part>>
  /\ LoopFairness /\ Inspections!Fairness

SlotsAreHeld == Inspections!SlotsAreHeld
InspectionAnswered == Inspections!InspectionAnswered
=============================================================================
