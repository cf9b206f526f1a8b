\* Two EVM owners; two calls may wait at once.
CONSTANTS
  Zero = Zero
  sk1 = sk1  sk2 = sk2
  eve = eve  bob = bob  salt = salt
  gold = gold  user = user  wantNonce = wantNonce
  Words <- MCWords
  Owners = {Zero, eve, bob}
  Salts = {Zero, salt}
  Colours = {Zero}
  Secrets = {sk1}
  OwnerCommitment <- MCOwnerCommitment
  EvmAccountId <- MCEvmAccountId
  SelfAddress = manager
  DeploymentDomain = domain
  MaxUint64 = 4
  MaxUint128 = 3
  MaxIndex = 0
  LiveHorizon = 2
  ShieldedTokens = {}
  UnshieldedTokens = {Zero}
  Payloads <- EvmCalls
  Signed <- AllSigned
  MaxPending = 2
SPECIFICATION CallsSpec
INVARIANTS EveryCallProvable FundsStandBehindCell
PROPERTIES AppliedAsExecuted
CHECK_DEADLOCK FALSE
