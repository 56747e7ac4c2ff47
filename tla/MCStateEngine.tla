--------------------------- MODULE MCStateEngine ---------------------------
(* Two panes, one ordinary and one attention status, two poll slots: the    *)
(* second slot is only ever used when the single-flight flag fails.         *)
EXTENDS StateEngine

MCStatuses  == {"working", "blocked"}
MCAttention == {"blocked"}
=============================================================================
