----------------------------- MODULE NodeSession -----------------------------
(***************************************************************************)
(* What a session of yomk::ROS2Node promises its parts, from init() to the *)
(* end of shutdown(): work begins only in a node that is not down, members *)
(* are registered only while it is up, and shutdown() takes them back, and *)
(* returns, when no work is left.                                          *)
(***************************************************************************)
VARIABLES
    stage,  \* "down", "up", or "closing": a shutdown() is under way
    busy,   \* the spin, or a callback, is running
    held    \* the node's members hold something that was registered

vars == <<stage, busy, held>>

\* Members may have been registered before the history begins.
Init == stage \in {"down", "up"} /\ ~busy /\ held \in BOOLEAN /\ (held => stage = "up")

Opens == stage = "down" /\ stage' = "up" /\ UNCHANGED <<busy, held>>

Registers == stage = "up" /\ held' /\ UNCHANGED <<stage, busy>>

WorkBegins == stage # "down" /\ busy' /\ UNCHANGED <<stage, held>>

WorkEnds == ~busy' /\ UNCHANGED <<stage, held>>

Closes == stage = "up" /\ stage' = "closing" /\ UNCHANGED <<busy, held>>

\* The maps are cleared, when the spin is over; a part may do this as shutdown() returns.
Clears == stage = "closing" /\ ~busy /\ ~held' /\ UNCHANGED <<stage, busy>>

Closed == stage = "closing" /\ stage' = "down" /\ ~busy /\ ~busy' /\ ~held'

Next == Opens \/ Registers \/ WorkBegins \/ WorkEnds \/ Closes \/ Clears \/ Closed

Spec == Init /\ [][Next]_vars
=============================================================================
