SPECIFICATION Spec
CONSTANTS
  w1 = w1  w2 = w2  usb = usb  X = X
  h0 = h0  h1 = h1  h2 = h2
  u1 = u1  t1 = t1  t2 = t2
  Ids = {w1, w2, usb}
  IdOrder <- DevicesOrder
  Services = {X}
  ServiceOf <- DevicesServiceOf
  AdbLists <- DevicesListed
  Registered <- DevicesRegistered
  NoService = NoService
  NoId = NoId
  Admin = Admin
  RemoteUsers = {u1}
  Tokens = {t1, t2}
  Hashes = {h0, h1, h2}
  DefaultHash = h0
  Asked = {"create", "delete", "reset", "assign", "unassign", "logout", "password",
           "list", "device"}
  AdminOverQuic = FALSE
  MaxFaults = 0
  NoUser = NoUser
  NoToken = NoToken
  Free = Free
  Missing = Missing
  Torn = Torn
SYMMETRY Sym
INVARIANTS
  CommandsAreAssigned
  CardsAreTheAssignedPhones
