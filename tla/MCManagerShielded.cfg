\* Two native users over two shielded colours, one of them the zero word.
CONSTANTS
  Zero = Zero
  sk1 = sk1  sk2 = sk2  sk3 = sk3
  eve = eve  bob = bob  salt = salt
  gold = gold  user = user  wantNonce = wantNonce
  Words <- MCWords
  Owners = {Zero}
  Salts = {Zero}
  Colours = {Zero, gold}
  Secrets = {sk1, sk2}
  OwnerCommitment <- MCOwnerCommitment
  EvmAccountId <- MCEvmAccountId
  SelfAddress = manager
  DeploymentDomain = domain
  MaxUint64 = 1
  MaxUint128 = 3
  MaxIndex = 6
  LiveHorizon = 2
  ShieldedTokens = {Zero, gold}
  UnshieldedTokens = {}
  Payloads <- ShieldedPayloads
  Signed <- NoneSigned
SPECIFICATION Spec
INVARIANTS PoolIsItsCoins ShieldedBacked OnlyRegisteredHold
PROPERTY PromiseKept
CHECK_DEADLOCK FALSE
