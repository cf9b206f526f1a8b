\* Two native users over both families; two calls may wait at once.
CONSTANTS
  Zero = Zero
  sk1 = sk1  sk2 = sk2
  eve = eve  bob = bob  salt = salt
  gold = gold  user = user  wantNonce = wantNonce
  Words <- MCWords
  Owners = {Zero}
  Salts = {Zero}
  Colours = {Zero, gold}
  Secrets = {sk1, sk2}
  OwnerCommitment <- MCOwnerCommitment
  EvmAccountId <- MCEvmAccountId
  SelfAddress = manager
  DeploymentDomain = domain
  MaxUint64 = 1
  MaxUint128 = 2
  MaxIndex = 2
  LiveHorizon = 1
  ShieldedTokens = {Zero}
  UnshieldedTokens = {Zero}
  Payloads <- NativeCalls
  Signed <- AllSigned
  MaxPending = 2
SPECIFICATION CallsSpec
INVARIANTS CallsTypeOK EveryCallProvable ShieldedBacked UnshieldedBacked
PROPERTIES AppliedAsExecuted
CHECK_DEADLOCK FALSE
