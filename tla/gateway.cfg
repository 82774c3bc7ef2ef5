CONSTANTS
  u1 = u1
  u2 = u2
  s1 = s1
  s2 = s2
  s3 = s3
  r1 = r1
  r2 = r2
  None = None
  Users = {u1}
  Sockets = {s1, s2}
  Rooms = {r1, r2}
  Timeframes = {"1m"}
  ActiveAtBoot = {r1}
  MaxActivations = 1
  MaxRestarts = 1
  MaxAsked = 1
CONSTANT Owner <- MCOwner
SPECIFICATION Spec
INVARIANT TypeOK
INVARIANT RoomsAgree
INVARIANT NewestSocket
INVARIANT HeardOnce
PROPERTY MembersGetBooks
