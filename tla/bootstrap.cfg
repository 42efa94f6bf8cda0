\* Two servers of different versions start, with a user beside the default administrator.
CONSTANTS
  server1 = server1
  server2 = server2
  admin1 = admin1
  admin2 = admin2
  user1 = user1
  Servers = {server1, server2}
  Default <- Upgraded
  Env <- FromEnvironment
  Values = {"", "a", "b", "c", "x"}
  Users = {admin1, admin2, user1}
  AdminNames = {admin1, admin2}
  Displays = {"Default Admin", "Other"}
  Disturbances = {"crash", "lostCall", "changeRole", "deleteUser", "editSetting", "editNamespace"}
  MaxDisturbances = 2
SPECIFICATION FairSpec
INVARIANTS TypeOK OneDefaultAdmin DefaultStored
PROPERTIES AdminNotCreatedAgain SettingKept EventuallyBound
CHECK_DEADLOCK FALSE
