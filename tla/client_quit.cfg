SPECIFICATION FairSpec
CONSTANTS
  Users = {u1}
  NoUser = NoUser
  Chans = {g1}
  NoChan = NoChan
  MaxRests = 0
PROPERTIES QuitEnds
CHECK_DEADLOCK FALSE
