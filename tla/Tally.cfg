SPECIFICATION TallyLiveSpec
CONSTANTS
  p1 = p1
  p2 = p2
  r1 = r1
  s1 = s1
  k1 = k1
  c1 = c1
  c2 = c2
  Payers = {p1, p2}
  Authorizers = {p1, p2}
  NoAuthorizer = NoAuthorizer
  Signers = {k1}
  GraphTally = GraphTally
  Collectors = {GraphTally}
  CollectionIds = {c1, c2}
  RAVs <- TwoPayers
  Receivers = {r1}
  DataServices = {s1}
  EscrowContract = EscrowContract
  PaymentsContract = PaymentsContract
  StakingContract = StakingContract
  NoDestination = NoDestination
  Burned = Burned
  MaxPPM = 2
  ProtocolPaymentCut = 1
  MaxTime = 3
  ThawingPeriod = 1
  RevokeThawingPeriod = 1
  TokenAmounts = {2}
  ThawAmounts = {0, 2}
  Cuts = {0, 1}
  FeeCuts = {1}
  Destinations = {NoDestination, EscrowContract, PaymentsContract}
  PauseInputs = {TRUE, FALSE}
  PayerFunds = 2
INVARIANTS
  EscrowConsistent
  PaymentsPassThrough
  CollectedIsSigned
  CollectionsConsistent
PROPERTIES
  WithdrawnAfterNotice
  SignersAreForLife
  CollectableIsPaid
