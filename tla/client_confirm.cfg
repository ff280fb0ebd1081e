SPECIFICATION Spec
CONSTANTS
  Users = {u1, u2}
  NoUser = NoUser
  Chans = {g1}
  NoChan = NoChan
  MaxRests = 1
INVARIANTS InvitesShown
CHECK_DEADLOCK FALSE
