---------------------------- MODULE MCAutoRecord ----------------------------
(* Constants of the model-checking runs of AutoRecord. *)
EXTENDS AutoRecord, TLC

CONSTANTS home, park, kiosk, r1, r2, c1, street, house, gate, stand, garden

\* Home, a visit to the park, and home again if point 4 is there.
MCPlace == [p \in Points |-> IF p = 3 THEN park ELSE home]

\* A kiosk lies on the street of the home; of the park the geocoder knows a gate only,
\* but it may be a common address called the garden.
MCLandmark == (home :> house) @@ (park :> gate) @@ (kiosk :> stand)
MCAddress == [p \in Places |-> IF p = park THEN NoName ELSE street]
Garden == [p \in Places |-> IF p = park THEN garden ELSE NoName]
Nowhere == [p \in Places |-> NoName]

\* A round and a check-in with a geocoder and inserts that fail; the same with a common
\* address; two rounds with every fault there is; or a device that stores points again.
Calm ==
  [actors |-> {r1, c1}, points |-> Points, places |-> {home, park}, called |-> Nowhere, maxEntries |-> 4,
   failures |-> {"geocode", "create"}, fickle |-> FALSE, crashes |-> FALSE, repeats |-> FALSE, lossy |-> FALSE]
Called ==
  [actors |-> {r1, c1}, points |-> {1, 3}, places |-> Places, called |-> Garden, maxEntries |-> 4,
   failures |-> {"geocode"}, fickle |-> TRUE, crashes |-> FALSE, repeats |-> FALSE, lossy |-> FALSE]
Stormy ==
  [actors |-> {r1, r2}, points |-> {2, 3}, places |-> {}, called |-> Nowhere, maxEntries |-> 2,
   failures |-> {"geocode", "read", "create", "delete"}, fickle |-> FALSE, crashes |-> TRUE, repeats |-> FALSE, lossy |-> TRUE]
Repeating ==
  [actors |-> {r1}, points |-> {1, 3}, places |-> {}, called |-> Garden, maxEntries |-> 4,
   failures |-> {"geocode"}, fickle |-> FALSE, crashes |-> FALSE, repeats |-> TRUE, lossy |-> FALSE]
Dying ==
  [actors |-> {r1}, points |-> Points, places |-> {}, called |-> Nowhere, maxEntries |-> 4,
   failures |-> {}, fickle |-> FALSE, crashes |-> TRUE, repeats |-> FALSE, lossy |-> FALSE]

CalmOrStormy == {Calm, Called, Stormy, Repeating}
OnlyDying == {Dying}
=============================================================================
