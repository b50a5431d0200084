CONSTANTS
  Users = {"u1", "u2", "u3", "u4"}
  Requests = {r1, r2}
  PlanNames = {"free", "starter", "pro"}
  FreePlan = "free"
  SeatLimit <- MCSeatLimit
  ResourceLimit <- MCResourceLimit
  MaxChanges = 6
  None = None
  Gone = Gone
  Members = {"m1", "m2"}
  CustomRoles = {c}
  ApiKeys = {k}
  Askers = {q1, q2}
  KeysInPlay <- MCKeysInPlay
  RoleStrings = {"owner", "guest"}
  FirstRole <- MCFirstRole
  MaxRoleChanges = 2
  Accounts = {"root", "audit", "glass"}
  ComposedRoles = {x}
  ConsoleKeysInPlay <- MCConsoleKeysInPlay
  BuiltIn = {"superadmin", "auditor"}
  AdminUserIds = {"glass"}
  FirstPlatformRoles <- MCFirstPlatformRoles
  MaxConsoleChanges = 2
  Callers <- MCCallers
SPECIFICATION MCSpec
INVARIANTS MembershipHolds OneBuiltInRole GiveOnlyWhatWasHeld RoutesAreGuarded
PROPERTY AnswersConverge
CHECK_DEADLOCK FALSE
