-------------------------- MODULE AccountRegistry ---------------------------
(***************************************************************************)
(* The account registry: which ids are registered, under which authorising *)
(* mode (0 native, 1 EVM), and for EVM accounts the owner address and the  *)
(* next nonce (manager-port/src/account_registry.rs, ledger slots 0..3).   *)
(***************************************************************************)
EXTENDS ActionEnvelope

CONSTANTS
  Secrets,             \* the owner secrets native users hold
  OwnerCommitment(_),  \* hash of a secret: the native account id
  EvmAccountId(_, _)   \* hash of (manager, owner, salt): the EVM account id

VARIABLES
  accounts,      \* slot 0: the set of registered ids
  accountModes,  \* slot 1: id -> mode
  evmOwners,     \* slot 2: id -> owner address
  evmNonces      \* slot 3: id -> next nonce

registryVars == <<accounts, accountModes, evmOwners, evmNonces>>

NativeIds == {OwnerCommitment(sk) : sk \in Secrets}
EvmIds == {EvmAccountId(o, s) : o \in Owners \ {Zero}, s \in Salts \ {Zero}}

(* Every id an account can have.  A secret or a salt that nobody uses costs *)
(* nothing, so this is the image of the two hashes.                         *)
AccountIds == NativeIds \cup EvmIds

(* Neither hash yields the zero word, and the two never meet.               *)
ASSUME HashAssumption ==
  /\ AccountIds \subseteq Words \ {Zero}
  /\ NativeIds \cap EvmIds = {}
  /\ \A sk1, sk2 \in Secrets :
       OwnerCommitment(sk1) = OwnerCommitment(sk2) => sk1 = sk2
  /\ \A o1, o2 \in Owners \ {Zero}, s1, s2 \in Salts \ {Zero} :
       EvmAccountId(o1, s1) = EvmAccountId(o2, s2) => o1 = o2 /\ s1 = s2

(* `Map.insert`: the binding at k is created or overwritten.                *)
Insert(map, k, v) ==
  [x \in DOMAIN map \cup {k} |-> IF x = k THEN v ELSE map[x]]

RegistryInit ==
  /\ accounts = {}
  /\ accountModes = << >> /\ evmOwners = << >> /\ evmNonces = << >>

----------------------------------------------------------------------------
(* The two reader circuits.                                                 *)
IsRegistered(acct) == acct \in accounts

(* The asserts of `accountRecord`: it refuses a record whose EVM state does *)
(* not fit its mode.                                                        *)
RecordReadable(acct) ==
  acct \in accounts =>
    /\ acct \in DOMAIN accountModes
    /\ \/ accountModes[acct] = 0
          /\ acct \notin DOMAIN evmOwners /\ acct \notin DOMAIN evmNonces
       \/ accountModes[acct] = 1
          /\ acct \in DOMAIN evmOwners /\ acct \in DOMAIN evmNonces

AccountRecord(acct) ==
  IF acct \notin accounts
  THEN [registered |-> FALSE, mode |-> 0, owner |-> Zero, nextNonce |-> 0]
  ELSE IF accountModes[acct] = 0
  THEN [registered |-> TRUE, mode |-> 0, owner |-> Zero, nextNonce |-> 0]
  ELSE [registered |-> TRUE, mode |-> 1,
        owner |-> evmOwners[acct], nextNonce |-> evmNonces[acct]]

----------------------------------------------------------------------------
(* `authenticatedNativeAccount(acct)`.                                      *)
AuthenticatedNativeAccount(acct) ==
  /\ acct \in accounts
  /\ acct \in DOMAIN accountModes
  /\ accountModes[acct] = 0

(* `authenticatedActionAccount`, native arm: the witness' own account.      *)
NativeActionAuthenticated(p, nativeAccount) ==
  /\ AuthenticatedNativeAccount(nativeAccount)
  /\ nativeAccount = p.account
  /\ accountModes[nativeAccount] = p.authMode
  /\ nativeAccount \notin DOMAIN evmOwners
  /\ nativeAccount \notin DOMAIN evmNonces

(* Mutant of EvmActionAuthenticated: any owner may act.                     *)
AnyOwnerAuthenticated(p) ==
  /\ p.authMode = 1
  /\ p.account \in accounts
  /\ p.account \in DOMAIN accountModes
  /\ accountModes[p.account] = 1
  /\ p.account \in DOMAIN evmOwners /\ p.account \in DOMAIN evmNonces
  /\ p.nonce = evmNonces[p.account]

(* The EVM arm: the record names this owner and expects this nonce.         *)
EvmActionAuthenticated(p) ==
  /\ p.authMode = 1
  /\ p.account \in accounts
  /\ p.account \in DOMAIN accountModes
  /\ accountModes[p.account] = 1
  /\ p.account \in DOMAIN evmOwners /\ p.account \in DOMAIN evmNonces
  /\ p.owner = evmOwners[p.account]
  /\ p.nonce = evmNonces[p.account]

AuthenticatedActionAccount(p, nativeAccount) ==
  IF p.authMode = 0 THEN NativeActionAuthenticated(p, nativeAccount)
                    ELSE EvmActionAuthenticated(p)

(* `gatewayAccount`: the account a call acts for, and whether it may.       *)
GatewayAccount(p, nativeAccount, evmRegistrationAccount) ==
  IF IsNativeRegistration(p) THEN nativeAccount
  ELSE IF IsEvmRegistration(p) THEN evmRegistrationAccount
  ELSE IF p.authMode = 0 THEN nativeAccount ELSE p.account

GatewayAdmits(p, nativeAccount) ==
  IsAction(p) => AuthenticatedActionAccount(p, nativeAccount)

----------------------------------------------------------------------------
(* Mutant of RegisterAccount: a taken id is registered again.               *)
ReRegisterAccount(acct, mode) ==
  /\ acct # Zero
  /\ accounts' = accounts \cup {acct}
  /\ accountModes' = Insert(accountModes, acct, mode)

(* `registerAccount(acct, mode)`: refuses a taken id.                       *)
RegisterAccount(acct, mode) ==
  /\ acct # Zero
  /\ acct \notin accounts
  /\ acct \notin DOMAIN accountModes
  /\ accounts' = accounts \cup {acct}
  /\ accountModes' = Insert(accountModes, acct, mode)

----------------------------------------------------------------------------
RegistryTypeOK ==
  /\ accounts \subseteq AccountIds
  /\ DOMAIN accountModes \subseteq AccountIds
  /\ accountModes \in [DOMAIN accountModes -> {0, 1}]
  /\ DOMAIN evmOwners \subseteq AccountIds
  /\ evmOwners \in [DOMAIN evmOwners -> Owners \ {Zero}]
  /\ DOMAIN evmNonces \subseteq AccountIds
  /\ evmNonces \in [DOMAIN evmNonces -> Uint64]

(* The registry never reaches a state its own readers and authorisation     *)
(* choke points refuse: each registered account has a mode, a native record *)
(* carries no EVM state, an EVM record is complete, nothing else has any    *)
(* (account_registry.rs asserts each of these where it reads).              *)
RegistryCoherent ==
  /\ DOMAIN accountModes = accounts
  /\ DOMAIN evmOwners = {a \in accounts : accountModes[a] = 1}
  /\ DOMAIN evmNonces = DOMAIN evmOwners
  /\ \A acct \in accounts : RecordReadable(acct)

(* An EVM account's id is the hash of its stored owner and some salt, and a *)
(* native account's id is a commitment: whoever reads the registry can tell *)
(* from the id alone who may ever act for it, so no later registration can  *)
(* take it over.                                                            *)
IdentityBinds ==
  \A acct \in accounts :
    IF accountModes[acct] = 0
    THEN acct \in NativeIds
    ELSE \E s \in Salts \ {Zero} : acct = EvmAccountId(evmOwners[acct], s)
=============================================================================
