----------------------------- MODULE MCPollLoop -----------------------------
(* One time unit is half a second; delays are cut to keep the order that    *)
(* matters: debounce < fast cadence, reconnect delays, relaxed cadence.     *)
EXTENDS PollLoop

MCPaneSets == {{}, {"p1"}}
\* 1 s, then 2 s: the head of the code's 1, 2, 5, 15 s.
MCBackoff == <<2, 4>>
=============================================================================
