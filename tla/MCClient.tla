------------------------------- MODULE MCClient -------------------------------
(* The notification sink and the web client share nothing: a behaviour is one of *)
(* either, and the other stays in one initial state.                              *)
EXTENDS NotifySink
CONSTANTS Bridge, Session, Primary, Pane, MaxSwitches, b1
VARIABLES part, bridge, sess, selRef, pend, ref, flying, st, nx, load, late, act, stray, switches

\* No pane is not a pane.
ASSUME ClientAssumption == None \notin Pane

client == <<bridge, sess, selRef, pend, ref, flying, st, nx, load, late, act, stray, switches>>
Client == INSTANCE WebClient

\* The bridges are interchangeable: one of them is shown first.
MCInit ==
  /\ part \in {"sink", "client"} /\ Init /\ bridge = b1 /\ Client!Init
  /\ part # "sink" => ~muted
  /\ part # "client" => sess = Primary /\ selRef = None

MCNext ==
  \/ part = "sink" /\ Next /\ UNCHANGED <<client, part>>
  \/ part = "client" /\ Client!Next /\ UNCHANGED <<vars, part>>

MCSpec == MCInit /\ [][MCNext]_<<vars, client, part>> /\ Client!Fairness

OnScreenIsHere == Client!OnScreenIsHere
CreatedStays == Client!CreatedStays
KeepsUp == Client!KeepsUp
NeverStray == Client!NeverStray
=============================================================================
