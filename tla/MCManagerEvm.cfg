\* Two EVM owners, one native user, the unshielded family in one colour.
CONSTANTS
  Zero = Zero
  sk1 = sk1  sk2 = sk2  sk3 = sk3
  eve = eve  bob = bob  salt = salt
  gold = gold  user = user  wantNonce = wantNonce
  Words <- MCWords
  Owners = {Zero, eve, bob}
  Salts = {Zero, salt}
  Colours = {Zero}
  Secrets = {sk1}
  OwnerCommitment <- MCOwnerCommitment
  EvmAccountId <- MCEvmAccountId
  SelfAddress = manager
  DeploymentDomain = domain
  MaxUint64 = 4
  MaxUint128 = 3
  MaxIndex = 0
  LiveHorizon = 2
  ShieldedTokens = {}
  UnshieldedTokens = {Zero}
  Payloads <- EvmPayloads
  Signed <- EvmSigned
SPECIFICATION Spec
INVARIANTS TypeOK RegistryCoherent IdentityBinds RecordAuthorises UnshieldedBacked
PROPERTIES RegistrationIsPermanent DebitConsumesNonce DebitsAreConsented
CHECK_DEADLOCK FALSE
