----------------------------- MODULE MCPayment -----------------------------
(* Constants of the model-checking runs of Payment. *)
EXTENDS Payment

CONSTANTS p1, t1

\* Both orders are for the same plan, so that creating one may close the other.
SamePlan == [o \in Orders |-> p1]

\* Bounds.  Transaction ids are interchangeable, so t1 is the first to be used;
\* and a behaviour has two orders that were charged, or a crash, not both.
Narrow ==
  /\ (\A o \in Orders : charged'[o] # t1) => \A o \in Orders : charged'[o] = NoTxn
  /\ crashes' > 0 => \A o, p \in Orders : o # p => NoTxn \in {charged'[o], charged'[p]}

NarrowSpec == Init /\ [][Next /\ Narrow]_vars /\ Fairness
=============================================================================
