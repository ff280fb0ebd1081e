SPECIFICATION FairSpec
CONSTANTS
  Users = {u1, u2}
  NoUser = NoUser
  Chans = {g1}
  NoChan = NoChan
  MaxRests = 1
INVARIANTS TypeOK ChannelInStep ConfirmedIsUser
PROPERTIES ComesBack ImplementsConnection
CHECK_DEADLOCK FALSE
