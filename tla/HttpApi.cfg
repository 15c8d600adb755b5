SPECIFICATION Spec
CONSTANTS
  r1 = r1
  r2 = r2
  r3 = r3
  alice = alice
  bob = bob
  ann = ann
  eve = eve
  None = None
  Requests = {r1, r2, r3}
  Users = {alice, bob}
  Registered = {alice}
  Names = {ann, eve}
  Calls <- AllCalls
  Limit <- OneOrTwo
  MaxSeconds = 1
SYMMETRY Symmetry
INVARIANTS TypeOK CreatedOnce AdmittedWithinLimit StaleOnlyForACause
  UpdatesLandOrAreOvertaken
PROPERTY ImplementsAccounts
CHECK_DEADLOCK FALSE
