SPECIFICATION Spec
CONSTANTS
  r1 = r1
  r2 = r2
  r3 = r3
  alice = alice
  bob = bob
  k1 = k1
  None = None
  EmptyKey = EmptyKey
  Requests = {r1, r2, r3}
  Users = {alice, bob}
  Keys = {k1, EmptyKey}
  Scale = 2
  RateScale = 2
  WalletId = {1, 2, 3, 4}
  Wallet = {1, 2, 3}
  Calls <- MixedCalls
  owner <- TheOwners
  currency <- TheCurrencies
  Opening <- FourEach
  Rates = {}
  MaxBalance = 8
  Suspendable = {1}
SYMMETRY Symmetry
INVARIANTS TypeOK LocksCoverWrites BalancesInRange EventsShowPostedBalances NoWaitCycle OnlyTransfersLoseUpdates
PROPERTIES ImplementsLedger SuspensionStopsLaterTransfers TransfersMoveMoney
