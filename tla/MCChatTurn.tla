---------------------------- MODULE MCChatTurn -----------------------------
(* Constants of the model-checking run of ChatTurn. *)
EXTENDS ChatTurn

CONSTANTS t1, t2, q1, q2

\* The second request repeats the turn of the first, or is another turn.
MCResends == {f \in [Requests -> Turns] : f[q1] = t1}
=============================================================================
