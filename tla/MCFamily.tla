------------------------------ MODULE MCFamily ------------------------------
(* Constants of the model-checking runs of Family. *)
EXTENDS Family, TLC

CONSTANTS ua, ub, uc, fa, fb, fc

MCPersonal == [u \in Users |-> CASE u = ua -> fa [] u = ub -> fb [] OTHER -> fc]

\* Three accounts with locks that hold, or two with locks that may be lost.
LockedStarts == {[users |-> Users, lossy |-> FALSE]}
MCStarts == LockedStarts \cup
  {[users |-> Users \ {u}, lossy |-> TRUE] : u \in Users}

\* Requests and family ids are interchangeable, and so are the users when each
\* takes the personal family along.
WithFamilies(p) ==
  [x \in Users \cup PersonalFams |->
     IF x \in Users THEN p[x]
     ELSE MCPersonal[p[CHOOSE u \in Users : MCPersonal[u] = x]]]

Symmetry ==
  {p @@ q @@ WithFamilies(s) :
     p \in Permutations(Requests), q \in Permutations(NewFams), s \in Permutations(Users)}
=============================================================================
