\* Two users, two chats, one of an administrator; two updates at a time.
CONSTANTS
  Users = {alice, bob}
  Chats = {phone, desk}
  Admins = {desk}
  NoUser = NoUser
  NoChat = NoChat
  Tasks = {first, second}
  MaxCodes = 3
  MaxUpdates = 3
  MaxStarts = 1
  MaxFaults = 1
SYMMETRY TaskUserSymmetry
SPECIFICATION Spec
INVARIANTS TypeOK OneUserPerChat OneTimeCode DisplacedTold NoLostSwitch
CHECK_DEADLOCK FALSE
