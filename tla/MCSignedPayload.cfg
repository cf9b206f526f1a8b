\* Every action an EVM owner can sign, with up to three fields edited.
CONSTANTS
  Zero = Zero
  alice = alice  id = id  other = other  salt = salt  gold = gold
  Words <- MCWords
  Owners = {Zero, alice}
  Salts = {Zero, salt}
  Colours = {Zero, gold}
  SelfAddress = manager
  DeploymentDomain = domain
  MaxUint64 = 1
  MaxUint128 = 1
  MaxEdits = 3
  SignedPayloads <- MCSignedPayloads
  FieldValues <- MCFieldValues
SPECIFICATION Spec
INVARIANT SignatureCoversPayload
