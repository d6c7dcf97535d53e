CONSTANTS
  room1 = room1
  room2 = room2
  Rooms = {room1, room2}
  i1 = i1
  i2 = i2
  i3 = i3
  Ids = {i1, i2, i3}
  NoId = NoId
  d1 = d1
  Dids = {d1}
  NoDid = NoDid
  Passwords = {"", "secret"}
  v4 = v4
  v6 = v6
  Threads = {v4, v6}
  h1 = h1
  h2 = h2
  h3 = h3
  Tables = {h1, h2, h3}
  MaxRoomSize = 2
  MaxMessages = 3
SPECIFICATION Spec
SYMMETRY Interchangeable
INVARIANTS TypeOK PasswordRespected OneIdPerDevice RoomsHaveMembers OpenIsMapped
CHECK_DEADLOCK FALSE
