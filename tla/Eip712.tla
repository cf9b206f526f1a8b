------------------------------- MODULE Eip712 -------------------------------
(***************************************************************************)
(* The EIP-712 digest an EVM owner signs (manager-port/src/eip712.rs).     *)
(* keccak256 is a free constructor: a digest is the tuple of the words     *)
(* hashed, so two digests are equal exactly when their preimages are.      *)
(***************************************************************************)
EXTENDS ActionEnvelope

CONSTANTS
  SelfAddress,      \* kernel.self(): the contract's own address
  DeploymentDomain  \* the ledger cell `deploymentDomain`, set at deployment

(* The per-selector preimages of `evmStructHashFor`.                        *)
RegisterPreimage(p) ==
  <<"Register", SelfAddress, p.account, p.owner, p.accountSalt, p.validUntil>>

WithdrawPreimage(p) ==
  <<IF p.selector = 2 THEN "WithdrawShielded" ELSE "WithdrawUnshielded",
    SelfAddress, p.account, p.owner, p.nonce, p.validUntil,
    p.primaryColor, p.primaryAmount, p.recipientKind, p.recipient>>

TransferPreimage(p) ==
  <<IF p.selector = 4 THEN "TransferShielded" ELSE "TransferUnshielded",
    SelfAddress, p.account, p.owner, p.nonce, p.validUntil,
    p.toAccount, p.primaryColor, p.primaryAmount>>

SwapPreimage(p) ==
  <<"OpenSwap", SelfAddress, p.account, p.owner, p.nonce, p.validUntil,
    p.primaryColor, p.primaryAmount, p.recipientKind, p.recipient,
    p.wantNonce, p.wantColor, p.wantAmount, p.creditAccount>>

StructHash(p) ==
  IF IsEvmRegistration(p) THEN RegisterPreimage(p)
  ELSE IF IsWithdraw(p) THEN WithdrawPreimage(p)
  ELSE IF IsTransfer(p) THEN TransferPreimage(p)
  ELSE SwapPreimage(p)

EvmDomainSeparator == <<SelfAddress, DeploymentDomain>>

(* `evmDigestFor(manager, domain, p)`; only selectors 1..6 reach it.        *)
EvmDigest(p) == <<EvmDomainSeparator, StructHash(p)>>
=============================================================================
