------------------------------ MODULE MCSessions ------------------------------
(* The session registry and a socket's terminal watch share nothing here: a      *)
(* behaviour is one of either, and the other stays in one initial state, where no step of *)
(* the watch is due but one of the registry is: its fairness is its own.          *)
EXTENDS SessionRegistry
CONSTANTS Pane, Size, NoPane, MaxObservers, MaxLines
VARIABLES part, open, canControl, session, watch, obs, sent

terminal == <<open, canControl, session, watch, obs, sent>>
Terminal == INSTANCE TerminalWatch

MCInit ==
  /\ part \in {"registry", "watch"} /\ Init /\ Terminal!Init
  /\ part # "registry" => sockets = {} /\ ~muted
  /\ part # "watch" => canControl

MCNext ==
  \/ part = "registry" /\ Next /\ UNCHANGED <<terminal, part>>
  \/ part = "watch" /\ Terminal!Next /\ UNCHANGED <<vars, part>>

\* Fairness of SessionRegistry, for the behaviours of the registry.
Registers == part = "registry"
RegistryFairness ==
  /\ WF_vars(Registers /\ RefreshTick) /\ WF_vars(Registers /\ BeginRefresh)
  /\ WF_vars(Registers /\ DisposeVanished) /\ WF_vars(Registers /\ Disposed)
  /\ WF_vars(Registers /\ EndRefresh) /\ WF_vars(Registers /\ BeginDisposeAll)
  /\ WF_vars(Registers /\ EndDisposeAll)

MCSpec ==
  /\ MCInit /\ [][MCNext]_<<vars, terminal, part>>
  /\ RegistryFairness /\ Terminal!Fairness

NoProcessLeaks == Terminal!NoProcessLeaks
SpeaksForWatch == Terminal!SpeaksForWatch
EndIsReported == Terminal!EndIsReported
=============================================================================
