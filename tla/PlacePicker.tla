----------------------------- MODULE PlacePicker -----------------------------
(***************************************************************************)
(* The place of a new entry: found by the phone when the editor opens, or  *)
(* chosen by the user on the map or from the places nearby.                *)
(* (components/NoteEdit: requestLocation to chooseLocation, selectPOI;     *)
(* getReverseAddress)                                                      *)
(*                                                                         *)
(* A place is known by where it comes from.  Finding and choosing wait for *)
(* the platform and the network and do not know of each other.             *)
(***************************************************************************)
EXTENDS Naturals

CONSTANT MaxTrips  \* bound: choices on the map, and times the page is hidden

ASSUME PlaceAssumption == MaxTrips \in Nat

VARIABLES
  form,    \* addr: diaryAddress, at: the coordinates, near: poiOptions
  late,    \* what is written to the form while the page is hidden
  find,    \* where requestLocation is
  map,     \* where chooseLocation is
  shown,
  overwrote,   \* history: the placeholder was written over a chosen place
  trips

placeVars == <<form, late, find, map, shown, overwrote, trips>>

Empty == [addr |-> "", at |-> "none", near |-> "none"]

PlaceInit ==
  /\ form = Empty /\ late = <<>> /\ find = "setting" /\ map = "idle"
  /\ shown = TRUE /\ overwrote = FALSE /\ trips = 0

Fill(f) == IF shown THEN form' = f /\ UNCHANGED late ELSE late' = <<f>> /\ UNCHANGED form
Latest == IF late = <<>> THEN form ELSE late[1]
Trip == trips < MaxTrips /\ trips' = trips + 1

-----------------------------------------------------------------------------
\* doGetLocation: the placeholder is shown at once.
GetLocation ==
  /\ find' = "locate" /\ Fill([Latest EXCEPT !.addr = "locating"])
  /\ overwrote' = (overwrote \/ Latest.at # "none")

\* wx.getSetting: allowed or not asked before, refused, failed
Setting ==
  /\ find = "setting"
  /\ \/ GetLocation
     \/ find' \in {"refused", "idle"} /\ UNCHANGED <<form, late, overwrote>>
  /\ UNCHANGED <<map, shown, trips>>

\* The dialog about the permission, and the settings of the platform
OpenSetting ==
  /\ find = "refused" /\ shown /\ map = "idle"
  /\ GetLocation \/ (find' = "idle" /\ UNCHANGED <<form, late, overwrote>>)
  /\ UNCHANGED <<map, shown, trips>>

\* Located, failed, or 15 seconds over: nothing more while the page is hidden.
Located ==
  /\ find = "locate" /\ find' \in (IF shown THEN {"reverse", "idle"} ELSE {"idle"})
  /\ UNCHANGED <<form, late, map, shown, overwrote, trips>>

\* Mutant: the found address is put beside the coordinates there were.
FillAddressOnly == form' = [form EXCEPT !.addr = "here", !.near = "here"]

\* _fillLocation
FillLocation == form' = [addr |-> "here", at |-> "here", near |-> "here"]

\* The address and the common addresses of the user are there, or failed.
ReverseFound ==
  /\ find = "reverse" /\ find' = "idle"
  /\ (shown /\ FillLocation) \/ UNCHANGED form
  /\ UNCHANGED <<late, map, shown, overwrote, trips>>

-----------------------------------------------------------------------------
ChooseLocation ==
  /\ shown /\ map = "idle" /\ find # "refused" /\ Trip /\ map' = "map"
  /\ UNCHANGED <<form, late, find, shown, overwrote>>

MapCloses ==
  /\ map = "map" /\ map' \in {"reverse", "idle"}
  /\ UNCHANGED <<form, late, find, shown, overwrote, trips>>

\* Also while the page is hidden; without an address of the place nothing.
ReverseChosen ==
  /\ map = "reverse" /\ map' = "idle"
  /\ \/ Fill([addr |-> "chosen", at |-> "chosen", near |-> "chosen"])
     \/ UNCHANGED <<form, late>>
  /\ UNCHANGED <<find, shown, overwrote, trips>>

SelectPOI ==
  /\ shown /\ map # "map" /\ form.near # "none"
  /\ form' = [form EXCEPT !.addr = "near", !.at = "near"]
  /\ UNCHANGED <<late, find, map, shown, overwrote, trips>>

HidePlace ==
  /\ shown /\ Trip /\ shown' = FALSE
  /\ UNCHANGED <<form, late, find, map, overwrote>>

ShowPlace ==
  /\ ~shown /\ shown' = TRUE /\ form' = Latest /\ late' = <<>>
  /\ UNCHANGED <<find, map, overwrote, trips>>

Finding == Setting \/ Located \/ ReverseFound
PlaceNext ==
  Finding \/ OpenSetting \/ ChooseLocation \/ MapCloses \/ ReverseChosen \/ SelectPOI \/ HidePlace \/ ShowPlace

-----------------------------------------------------------------------------
\* The types of the place picker's variables.
PlaceTypeOK ==
  /\ form \in [addr : {"", "locating", "here", "chosen", "near"}, at : {"none", "here", "chosen", "near"},
               near : {"none", "here", "chosen"}]
  /\ find \in {"idle", "setting", "refused", "locate", "reverse"} /\ map \in {"idle", "map", "reverse"}
  /\ trips \in 0..MaxTrips

\* An entry that can be saved has an address and coordinates of one place: no
\* late answer changes one without the other.  (Only a placeholder written
\* after a choice can stand beside its coordinates.)
PlaceAgrees == LET f == Latest IN f.at # "none" /\ ~overwrote => f.addr = f.at
=============================================================================
