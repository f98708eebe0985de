------------------------------- MODULE MCVip -------------------------------
(* Constants of the model-checking run of Vip. *)
EXTENDS Vip

CONSTANTS u1, month, trial

\* One user, whose grants all compete for the same row: two deliveries of a
\* month, two claims of the trial and an invitation reward; the shortest
\* grant runs out before the clock stops.
MCGrants   == {"buy1", "buy2", "trial1", "trial2", "join"}
MCUser     == [g \in MCGrants |-> u1]
MCKind     == [g \in MCGrants |->
                 CASE g \in {"buy1", "buy2"} -> "paid"
                   [] g \in {"trial1", "trial2"} -> "once"
                   [] OTHER -> "daysRR"]
MCPlanOf   == [g \in MCGrants |-> IF g \in {"trial1", "trial2"} THEN trial ELSE month]
MCDuration == [g \in MCGrants |->
                 CASE g \in {"buy1", "buy2"} -> 4 [] g = "join" -> 1 [] OTHER -> 2]
=============================================================================
