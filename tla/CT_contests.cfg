SPECIFICATION ContestSpec
CONSTANTS
  x1 = x1
  x2 = x2
  x3 = x3
  x4 = x4
  Entrant = {x1, x2, x3, p1, p2}
  Reservation <- ReservationHere
  Person = {p1, p2, p3}
  Guest = {p3}
  Trees <- TreesHere
  NoScope = NoScope
  MaxOwn = 1
  None = None
  Idle = Idle
  Bracket = {b1}
  MaxEntries = 5
  Room <- RoomHere
  Team = {x1, x2, x3}
  NoTeam = NoTeam
  Drawn = Drawn
  NotReading = NotReading
  Division = {d1}
SYMMETRY Perms
INVARIANTS MatchesFollowTree RecordsFollowResults OneByeEach NobodyPairedTwice
PROPERTIES ResultsAreKept PlacingIsAnInsertion
