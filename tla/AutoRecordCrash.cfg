SPECIFICATION Spec
CONSTANTS
  home = home
  park = park
  kiosk = kiosk
  street = street
  house = house
  gate = gate
  stand = stand
  garden = garden
  None = None
  Unread = Unread
  r1 = r1
  r2 = r2
  c1 = c1
  Points = {1, 2, 3}
  Places = {home, park, kiosk}
  Place <- MCPlace
  Window = 1
  DayLength = 4
  Batch = 2
  Names = {street, house, gate, stand, garden}
  NoName = NoName
  Landmark <- MCLandmark
  Address <- MCAddress
  Rounds = {r1, r2}
  CheckIns = {c1}
  MaxNow = 3
  MaxUploads = 2
  Settings <- OnlyDying
INVARIANT RecordedOnce
CHECK_DEADLOCK FALSE
