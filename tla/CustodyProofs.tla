--------------------------- MODULE CustodyProofs ----------------------------
(***************************************************************************)
(* What holds of the account registry, and then of pools and balances, in  *)
(* every reachable state of the manager, for every choice of users,        *)
(* payloads, signatures, colours and amounts.                              *)
(***************************************************************************)
EXTENDS Manager, TLAPS, FiniteSetTheorems

(* `Map.insert` binds one key and leaves the others.                        *)
LEMMA InsertDomain ==
  ASSUME NEW map, NEW k, NEW v
  PROVE  /\ DOMAIN Insert(map, k, v) = DOMAIN map \cup {k}
         /\ Insert(map, k, v)[k] = v
         /\ \A x \in DOMAIN map \ {k} : Insert(map, k, v)[x] = map[x]
  BY DEF Insert

(* It keeps a map within its key and value sets.                            *)
LEMMA InsertType ==
  ASSUME NEW map, NEW k, NEW v, NEW K, NEW V,
         DOMAIN map \subseteq K, map \in [DOMAIN map -> V], k \in K, v \in V
  PROVE  /\ DOMAIN Insert(map, k, v) \subseteq K
         /\ Insert(map, k, v) \in [DOMAIN Insert(map, k, v) -> V]
  BY DEF Insert

(* Whom a registration registers: a native id under mode 0, the hash of a   *)
(* named owner and a salt under EVM authority.                              *)
LEMMA RegistrationAccount ==
  ASSUME NEW p \in Payloads, NEW sk \in Secrets, NEW pk,
         Authorised(p, sk, pk), IsRegistration(p)
  PROVE  /\ IsEvmAuthorized(p) <=> IsEvmRegistration(p)
         /\ IsEvmRegistration(p) =>
              /\ p.owner \in Owners \ {Zero}
              /\ p.accountSalt \in Salts \ {Zero}
              /\ AccountFor(p, sk) = EvmAccountId(p.owner, p.accountSalt)
              /\ AccountFor(p, sk) \in EvmIds
         /\ ~ IsEvmRegistration(p) => AccountFor(p, sk) \in NativeIds
<1>1. AssertActionEnvelope(p) /\ p \in ExecutePayload
  BY PayloadAssumption DEF Authorised
<1>2. CASE p.selector = 0
  <2>1. p.authMode = 0
    BY <1>1, <1>2
    DEF AssertActionEnvelope, NativeRegistrationShape, IsNativeRegistration,
        IsEvmRegistration, IsAction, IsRegistration
  <2> QED
    BY <1>2, <2>1
    DEF IsEvmAuthorized, IsEvmRegistration, IsNativeRegistration, AccountFor,
        GatewayAccount, NativeAccount, NativeIds
<1>3. CASE p.selector = 1
  <2>1. p.authMode = 1 /\ p.owner # Zero /\ p.accountSalt # Zero
    BY <1>1, <1>3
    DEF AssertActionEnvelope, EvmRegistrationShape, IsNativeRegistration,
        IsEvmRegistration, IsAction, IsRegistration
  <2>2. p.owner \in Owners /\ p.accountSalt \in Salts
    BY <1>1 DEF ExecutePayload
  <2> QED
    BY <1>3, <2>1, <2>2
    DEF IsEvmAuthorized, IsEvmRegistration, IsNativeRegistration, AccountFor,
        GatewayAccount, EvmRegistrationAccount, EvmIds
<1> QED
  BY <1>2, <1>3 DEF IsRegistration

(* Whom an action acts for: the account it names, which is registered, and  *)
(* under EVM authority stored with the payload's owner and nonce.           *)
LEMMA ActionAccount ==
  ASSUME NEW p \in Payloads, NEW sk \in Secrets, NEW pk,
         Authorised(p, sk, pk), ~ IsRegistration(p)
  PROVE  /\ AccountFor(p, sk) = p.account
         /\ p.account \in accounts
         /\ p.account \in DOMAIN accountModes
         /\ IsEvmAuthorized(p) =>
              /\ accountModes[p.account] = 1
              /\ p.account \in DOMAIN evmOwners
              /\ p.owner = evmOwners[p.account]
              /\ p.account \in DOMAIN evmNonces
              /\ p.nonce = evmNonces[p.account]
         /\ ~ IsEvmAuthorized(p) =>
              /\ accountModes[p.account] = 0
              /\ p.account \notin DOMAIN evmOwners
              /\ p.account \notin DOMAIN evmNonces
<1>1. AuthenticatedActionAccount(p, NativeAccount(sk))
  BY DEF Authorised, GatewayAdmits, IsAction
<1>2. p.authMode \in {0, 1}
  <2>1. p.authMode <= 1 /\ p \in ExecutePayload
    BY PayloadAssumption DEF Authorised, AssertActionEnvelope
  <2> QED
    BY <2>1 DEF ExecutePayload, Uint8
<1>3. CASE p.authMode = 0
  BY <1>1, <1>3
  DEF AuthenticatedActionAccount, NativeActionAuthenticated,
      AuthenticatedNativeAccount, AccountFor, GatewayAccount, IsRegistration,
      IsNativeRegistration, IsEvmRegistration, IsEvmAuthorized
<1>4. CASE p.authMode = 1
  BY <1>1, <1>4
  DEF AuthenticatedActionAccount, EvmActionAuthenticated, AccountFor,
      GatewayAccount, IsRegistration, IsNativeRegistration, IsEvmRegistration,
      IsEvmAuthorized
<1> QED
  BY <1>2, <1>3, <1>4

(* The nonce a call stores fits its width.                                  *)
LEMMA StoredNonceType ==
  ASSUME NEW p \in Payloads, NEW sk \in Secrets, NEW pk,
         Authorised(p, sk, pk)
  PROVE  StoredNonce(p) \in Uint64
<1>1. p.nonce \in Uint64
  BY PayloadAssumption DEF ExecutePayload
<1>2. p.nonce + 1 <= MaxUint64
  BY DEF Authorised, NonceIncrements
<1> QED
  BY <1>1, <1>2, WidthAssumption DEF StoredNonce, Uint64

----------------------------------------------------------------------------
(* Coherence is not inductive alone: that a freshly registered id has no    *)
(* EVM state comes from coherence itself, that a mode is 0 or 1 from the    *)
(* types.                                                                   *)
RegistryInv ==
  /\ RegistryTypeOK
  /\ blockTime \in Uint64
  /\ RegistryCoherent
  /\ IdentityBinds

(* RegistryInv holds at deployment.                                         *)
LEMMA RegistryInitially == Init => RegistryInv
  BY WidthAssumption
  DEF Init, RegistryInit, RegistryInv, RegistryTypeOK, RegistryCoherent,
      IdentityBinds, Uint64

(* A registration preserves RegistryInv.                                    *)
LEMMA RegistrationStep ==
  ASSUME RegistryInv, NEW p \in Payloads, NEW sk \in Secrets, NEW pk,
         ExecuteRegistration(p, sk, pk)
  PROVE  RegistryInv'
<1> DEFINE acct == AccountFor(p, sk)
           evm == IsEvmRegistration(p)
<1>1. /\ Authorised(p, sk, pk) /\ IsRegistration(p)
      /\ acct \notin accounts
      /\ acct \notin DOMAIN accountModes
      /\ accounts' = accounts \cup {acct}
      /\ accountModes' = Insert(accountModes, acct, IF evm THEN 1 ELSE 0)
      /\ evmOwners' = IF evm THEN Insert(evmOwners, acct, p.owner)
                             ELSE evmOwners
      /\ evmNonces' = IF evm THEN Insert(evmNonces, acct, StoredNonce(p))
                             ELSE evmNonces
      /\ blockTime' = blockTime
  BY RegistrationAccount
  DEF ExecuteRegistration, RegisterAccount, WriteNonce
<1>2. /\ acct \in AccountIds
      /\ evm => /\ p.owner \in Owners \ {Zero}
                /\ \E s \in Salts \ {Zero} : acct = EvmAccountId(p.owner, s)
      /\ ~ evm => acct \in NativeIds
      /\ StoredNonce(p) \in Uint64
  BY <1>1, RegistrationAccount, StoredNonceType DEF AccountIds
<1> HIDE DEF acct, evm
<1>3. RegistryTypeOK'
  <2>1. accounts' \subseteq AccountIds
    BY <1>1, <1>2 DEF RegistryInv, RegistryTypeOK
  <2>2. /\ DOMAIN accountModes' \subseteq AccountIds
        /\ accountModes' \in [DOMAIN accountModes' -> {0, 1}]
    BY <1>1, <1>2 DEF RegistryInv, RegistryTypeOK, Insert
  <2>3. /\ DOMAIN evmOwners' \subseteq AccountIds
        /\ evmOwners' \in [DOMAIN evmOwners' -> Owners \ {Zero}]
    BY <1>1, <1>2, InsertType DEF RegistryInv, RegistryTypeOK
  <2>4. /\ DOMAIN evmNonces' \subseteq AccountIds
        /\ evmNonces' \in [DOMAIN evmNonces' -> Uint64]
    BY <1>1, <1>2, InsertType DEF RegistryInv, RegistryTypeOK
  <2> QED
    BY <2>1, <2>2, <2>3, <2>4 DEF RegistryTypeOK
<1>4. \A a \in accounts : /\ a # acct
                          /\ accountModes'[a] = accountModes[a]
                          /\ a \in DOMAIN evmOwners =>
                               evmOwners'[a] = evmOwners[a]
  BY <1>1 DEF RegistryInv, RegistryCoherent, Insert
<1>5. accountModes'[acct] = IF evm THEN 1 ELSE 0
  BY <1>1 DEF Insert
<1>6. RegistryCoherent'
  <2>1. DOMAIN accountModes' = accounts'
    BY <1>1, InsertDomain DEF RegistryInv, RegistryCoherent
  <2>2. ASSUME evm
        PROVE  /\ DOMAIN evmOwners' = {a \in accounts' : accountModes'[a] = 1}
               /\ DOMAIN evmNonces' = DOMAIN evmOwners'
    <3>1. /\ DOMAIN evmOwners' = DOMAIN evmOwners \cup {acct}
          /\ DOMAIN evmNonces' = DOMAIN evmNonces \cup {acct}
          /\ accountModes'[acct] = 1
      BY <1>1, <1>5, <2>2 DEF Insert
    <3> QED
      BY <1>1, <1>4, <3>1 DEF RegistryInv, RegistryCoherent
  <2>3. ASSUME ~ evm
        PROVE  /\ DOMAIN evmOwners' = {a \in accounts' : accountModes'[a] = 1}
               /\ DOMAIN evmNonces' = DOMAIN evmOwners'
    <3>1. /\ accountModes'[acct] = 0
          /\ evmOwners' = evmOwners /\ evmNonces' = evmNonces
      BY <1>1, <1>5, <2>3
    <3> QED
      BY <1>1, <1>4, <3>1 DEF RegistryInv, RegistryCoherent
  <2>4. \A a \in accounts' : accountModes'[a] \in {0, 1}
    BY <1>3, <2>1 DEF RegistryTypeOK
  <2> QED
    BY <2>1, <2>2, <2>3, <2>4 DEF RegistryInv, RegistryCoherent, RecordReadable
<1>7. IdentityBinds'
  <2>1. ASSUME NEW a \in accounts
        PROVE  IF accountModes'[a] = 0
               THEN a \in NativeIds
               ELSE \E s \in Salts \ {Zero} : a = EvmAccountId(evmOwners'[a], s)
    <3>1. accountModes[a] # 0 => a \in DOMAIN evmOwners
      BY DEF RegistryInv, RegistryCoherent, RegistryTypeOK
    <3> QED
      BY <1>4, <3>1 DEF RegistryInv, IdentityBinds
  <2>2. IF accountModes'[acct] = 0
        THEN acct \in NativeIds
        ELSE \E s \in Salts \ {Zero} : acct = EvmAccountId(evmOwners'[acct], s)
    <3>1. evm => evmOwners'[acct] = p.owner
      BY <1>1 DEF Insert
    <3> QED
      BY <1>2, <1>5, <3>1
  <2> QED
    BY <1>1, <2>1, <2>2 DEF IdentityBinds
<1> QED
  BY <1>1, <1>3, <1>6, <1>7 DEF RegistryInv

(* A custody action preserves it.                                           *)
LEMMA ActionStep ==
  ASSUME RegistryInv, NEW p \in Payloads, NEW sk \in Secrets, NEW pk,
         ExecuteAction(p, sk, pk)
  PROVE  RegistryInv'
<1>1. /\ Authorised(p, sk, pk) /\ ~ IsRegistration(p)
      /\ UNCHANGED <<accounts, accountModes, evmOwners, blockTime>>
      /\ evmNonces' = IF IsEvmAuthorized(p)
                      THEN Insert(evmNonces, p.account, StoredNonce(p))
                      ELSE evmNonces
  BY ActionAccount DEF ExecuteAction, WriteNonce
<1>2. DOMAIN evmNonces' = DOMAIN evmNonces
  <2>1. CASE IsEvmAuthorized(p)
    <3>1. p.account \in DOMAIN evmNonces
      BY <1>1, <2>1, ActionAccount
    <3> QED
      BY <1>1, <2>1, <3>1 DEF Insert
  <2>2. CASE ~ IsEvmAuthorized(p)
    BY <1>1, <2>2
  <2> QED
    BY <2>1, <2>2
<1>3. /\ DOMAIN evmNonces' \subseteq AccountIds
      /\ evmNonces' \in [DOMAIN evmNonces' -> Uint64]
  <2>1. p.account \in AccountIds /\ StoredNonce(p) \in Uint64
    BY <1>1, ActionAccount, StoredNonceType DEF RegistryInv, RegistryTypeOK
  <2> QED
    BY <1>1, <2>1, InsertType DEF RegistryInv, RegistryTypeOK
<1> QED
  BY <1>1, <1>2, <1>3
  DEF RegistryInv, RegistryTypeOK, RegistryCoherent, RecordReadable,
      IdentityBinds

(* Every step preserves it.                                                 *)
LEMMA RegistryInductive ==
  ASSUME RegistryInv, [Next]_vars
  PROVE  RegistryInv'
<1>1. ASSUME NEW p \in Payloads, NEW sk \in Secrets, NEW pk \in Owners,
             Execute(p, sk, pk)
      PROVE  RegistryInv'
  BY <1>1, RegistrationStep, ActionStep DEF Execute
<1>2. CASE Deposit
  BY <1>2
  DEF Deposit, registryVars, RegistryInv, RegistryTypeOK, RegistryCoherent,
      RecordReadable, IdentityBinds
<1>3. CASE Tick
  <2>1. blockTime' \in Uint64
    BY <1>3, WidthAssumption DEF Tick, RegistryInv, Uint64
  <2> QED
    BY <1>3, <2>1
    DEF Tick, registryVars, RegistryInv, RegistryTypeOK, RegistryCoherent,
        RecordReadable, IdentityBinds
<1>4. CASE UNCHANGED vars
  BY <1>4
  DEF vars, registryVars, RegistryInv, RegistryTypeOK, RegistryCoherent,
      RecordReadable, IdentityBinds
<1> QED
  BY <1>1, <1>2, <1>3, <1>4 DEF Next

(* RegistryInv holds in every reachable state.                              *)
LEMMA RegistryInvariant == Spec => []RegistryInv
  BY RegistryInitially, RegistryInductive, PTL DEF Spec

(* The registry never reaches a record its own readers or authorisation     *)
(* points refuse (account_registry.rs asserts its coherence where it reads).*)
THEOREM RegistryStaysCoherent == Spec => []RegistryCoherent
<1>1. RegistryInv => RegistryCoherent
  BY DEF RegistryInv
<1> QED
  BY <1>1, RegistryInvariant, PTL

(* An account's id always binds it to the party that registered it.         *)
THEOREM IdentitiesBind == Spec => []IdentityBinds
<1>1. RegistryInv => IdentityBinds
  BY DEF RegistryInv
<1> QED
  BY <1>1, RegistryInvariant, PTL

(* A wallet that signs for the owner and nonce it reads is never refused    *)
(* for its identity, and no other owner or nonce passes.                    *)
THEOREM RecordsAuthorise == Spec => []RecordAuthorises
<1>1. ASSUME RegistryInv, NEW p \in Payloads, IsAction(p), p.authMode = 1
      PROVE  EvmActionAuthenticated(p) <=>
               AccountRecord(p.account) =
                 [registered |-> TRUE, mode |-> 1,
                  owner |-> p.owner, nextNonce |-> p.nonce]
  <2>1. CASE p.account \notin accounts
    BY <2>1 DEF EvmActionAuthenticated, AccountRecord
  <2>2. CASE p.account \in accounts /\ accountModes[p.account] = 0
    BY <2>2 DEF EvmActionAuthenticated, AccountRecord
  <2>3. CASE p.account \in accounts /\ accountModes[p.account] = 1
    <3>1. /\ p.account \in DOMAIN accountModes
          /\ p.account \in DOMAIN evmOwners /\ p.account \in DOMAIN evmNonces
      BY <1>1, <2>3 DEF RegistryInv, RegistryCoherent
    <3>2. AccountRecord(p.account) =
            [registered |-> TRUE, mode |-> 1, owner |-> evmOwners[p.account],
             nextNonce |-> evmNonces[p.account]]
      BY <2>3 DEF AccountRecord
    <3>3. EvmActionAuthenticated(p) <=>
            /\ evmOwners[p.account] = p.owner
            /\ evmNonces[p.account] = p.nonce
      BY <1>1, <2>3, <3>1 DEF EvmActionAuthenticated
    <3>4. ASSUME NEW o, NEW n
          PROVE  (o = p.owner /\ n = p.nonce) <=>
                   [registered |-> TRUE, mode |-> 1, owner |-> o,
                    nextNonce |-> n] =
                   [registered |-> TRUE, mode |-> 1,
                    owner |-> p.owner, nextNonce |-> p.nonce]
      OBVIOUS
    <3> QED
      BY <3>2, <3>3, <3>4
  <2> QED
    BY <1>1, <2>1, <2>2, <2>3
    DEF RegistryInv, RegistryTypeOK, RegistryCoherent
<1>2. RegistryInv => RecordAuthorises
  BY <1>1 DEF RecordAuthorises
<1> QED
  BY <1>2, RegistryInvariant, PTL

----------------------------------------------------------------------------
(* A registration leaves every earlier record as it is.                     *)
LEMMA RegistrationKeeps ==
  ASSUME RegistryInv, NEW p \in Payloads, NEW sk \in Secrets, NEW pk,
         ExecuteRegistration(p, sk, pk)
  PROVE  RegistrationKept
<1>1. /\ AccountFor(p, sk) \notin accounts
      /\ accounts' = accounts \cup {AccountFor(p, sk)}
      /\ \E m : accountModes' = Insert(accountModes, AccountFor(p, sk), m)
      /\ \/ evmOwners' = evmOwners
         \/ evmOwners' = Insert(evmOwners, AccountFor(p, sk), p.owner)
      /\ \/ evmNonces' = evmNonces
         \/ evmNonces' = Insert(evmNonces, AccountFor(p, sk), StoredNonce(p))
  BY DEF ExecuteRegistration, RegisterAccount, WriteNonce
<1>2. \A a \in DOMAIN evmNonces : evmNonces[a] \in Nat
  BY WidthAssumption DEF RegistryInv, RegistryTypeOK, Uint64
<1> QED
  BY <1>1, <1>2
  DEF RegistrationKept, RegistryInv, RegistryCoherent, Insert

(* A custody action leaves every record, but for the actor's nonce.         *)
LEMMA ActionKeeps ==
  ASSUME RegistryInv, NEW p \in Payloads, NEW sk \in Secrets, NEW pk,
         ExecuteAction(p, sk, pk)
  PROVE  RegistrationKept
<1>1. \A a \in DOMAIN evmNonces : evmNonces[a] \in Nat
  BY WidthAssumption DEF RegistryInv, RegistryTypeOK, Uint64
<1>2. UNCHANGED <<accounts, accountModes, evmOwners>>
  BY DEF ExecuteAction
<1>3. ASSUME NEW a \in DOMAIN evmNonces
      PROVE  a \in DOMAIN evmNonces' /\ evmNonces'[a] >= evmNonces[a]
  <2>1. CASE ~ IsEvmAuthorized(p)
    BY <1>1, <2>1 DEF ExecuteAction, WriteNonce
  <2>2. CASE IsEvmAuthorized(p)
    <3>1. /\ evmNonces' = Insert(evmNonces, p.account, p.nonce + 1)
          /\ p.nonce = evmNonces[p.account]
      BY <2>2, ActionAccount
      DEF ExecuteAction, WriteNonce, StoredNonce, IsRegistration,
          IsEvmRegistration
    <3> QED
      BY <1>1, <3>1 DEF Insert
  <2> QED
    BY <2>1, <2>2
<1> QED
  BY <1>2, <1>3 DEF RegistrationKept, RegistryInv, RegistryCoherent

(* No step unregisters an account, changes its mode or owner, or moves its  *)
(* nonce back: an old registration or action can never be replayed.         *)
THEOREM RegistrationNeverUndone == Spec => RegistrationIsPermanent
<1>1. ASSUME RegistryInv, [Next]_vars
      PROVE  [RegistrationKept]_vars
  <2>1. ASSUME NEW p \in Payloads, NEW sk \in Secrets, NEW pk \in Owners,
               Execute(p, sk, pk)
        PROVE  RegistrationKept
    BY <1>1, <2>1, RegistrationKeeps, ActionKeeps DEF Execute
  <2>2. CASE UNCHANGED registryVars
    <3>1. \A a \in DOMAIN evmNonces : evmNonces[a] \in Nat
      BY <1>1, WidthAssumption DEF RegistryInv, RegistryTypeOK, Uint64
    <3> QED
      BY <1>1, <2>2, <3>1
      DEF registryVars, RegistrationKept, RegistryInv, RegistryCoherent
  <2> QED
    BY <1>1, <2>1, <2>2 DEF Next, Deposit, Tick
<1> QED
  BY <1>1, RegistryInvariant, PTL DEF Spec, RegistrationIsPermanent

----------------------------------------------------------------------------
(* The pool part of the state as a value: well-typed, and its entries are   *)
(* exactly its coins, each worth something.                                 *)
PoolOK(ps) ==
  /\ ps = [pools |-> ps.pools, coins |-> ps.coins, nextIndex |-> ps.nextIndex]
  /\ DOMAIN ps.pools \subseteq Colours
  /\ ps.pools \in [DOMAIN ps.pools -> PooledCoin]
  /\ ps.nextIndex \in Nat
  /\ ps.coins = {CoinOf(ps, col) : col \in DOMAIN ps.pools}
  /\ \A col \in DOMAIN ps.pools : ps.pools[col].value > 0

Worth(ps, col) == IF col \in DOMAIN ps.pools THEN ps.pools[col].value ELSE 0

(* Replacing a colour's coin by another keeps the pool sound and re-values  *)
(* that colour only.                                                        *)
LEMMA SpendThenInsert ==
  ASSUME NEW ps, PoolOK(ps), NEW col \in DOMAIN ps.pools,
         NEW v \in Uint128, v > 0
  PROVE  LET qs == InsertCoin(SpendPooled(ps, col), col, v)
         IN  /\ PoolOK(qs)
             /\ Worth(qs, col) = v
             /\ \A c \in Colours \ {col} : Worth(qs, c) = Worth(ps, c)
<1> DEFINE new == [color |-> col, value |-> v, mtIndex |-> ps.nextIndex]
           qs == InsertCoin(SpendPooled(ps, col), col, v)
<1>1. /\ qs.pools = Insert(ps.pools, col,
                           [value |-> v, mtIndex |-> ps.nextIndex])
      /\ qs.coins = (ps.coins \ {CoinOf(ps, col)}) \cup {new}
      /\ qs.nextIndex = ps.nextIndex + 1
      /\ qs = [pools |-> qs.pools, coins |-> qs.coins,
               nextIndex |-> qs.nextIndex]
  BY DEF PoolOK, InsertCoin, SpendPooled
<1> HIDE DEF qs
<1>2. /\ DOMAIN qs.pools = DOMAIN ps.pools
      /\ qs.pools[col] = [value |-> v, mtIndex |-> ps.nextIndex]
      /\ \A c \in DOMAIN ps.pools \ {col} : qs.pools[c] = ps.pools[c]
  BY <1>1 DEF Insert
<1>3. /\ qs.pools \in [DOMAIN qs.pools -> PooledCoin]
      /\ qs.nextIndex \in Nat
  BY <1>1, <1>2 DEF PoolOK, PooledCoin, Insert
<1>4. \A c \in DOMAIN qs.pools : qs.pools[c].value > 0
  BY <1>2 DEF PoolOK
<1>5. /\ CoinOf(qs, col) = new
      /\ \A c \in DOMAIN ps.pools \ {col} : CoinOf(qs, c) = CoinOf(ps, c)
  BY <1>2 DEF CoinOf
<1>6. \A c \in DOMAIN ps.pools \ {col} : CoinOf(ps, c) # CoinOf(ps, col)
  BY DEF CoinOf
<1>7. qs.coins = {CoinOf(qs, c) : c \in DOMAIN qs.pools}
  BY <1>1, <1>2, <1>5, <1>6 DEF PoolOK
<1>8. PoolOK(qs)
  BY <1>1, <1>2, <1>3, <1>4, <1>7 DEF PoolOK
<1> QED
  BY <1>2, <1>8 DEF Worth, qs

(* So does spending a colour's coin whole.                                  *)
LEMMA SpendThenRemove ==
  ASSUME NEW ps, PoolOK(ps), NEW col \in DOMAIN ps.pools
  PROVE  LET qs == RemovePool(SpendPooled(ps, col), col)
         IN  /\ PoolOK(qs)
             /\ Worth(qs, col) = 0
             /\ \A c \in Colours \ {col} : Worth(qs, c) = Worth(ps, c)
<1> DEFINE qs == RemovePool(SpendPooled(ps, col), col)
<1>1. /\ qs.pools = [c \in DOMAIN ps.pools \ {col} |-> ps.pools[c]]
      /\ qs.coins = ps.coins \ {CoinOf(ps, col)}
      /\ qs.nextIndex = ps.nextIndex
      /\ qs = [pools |-> qs.pools, coins |-> qs.coins,
               nextIndex |-> qs.nextIndex]
  <2>1. SpendPooled(ps, col) =
          [pools |-> ps.pools, coins |-> ps.coins \ {CoinOf(ps, col)},
           nextIndex |-> ps.nextIndex]
    <3>1. ASSUME NEW m, NEW s, NEW n, NEW r
          PROVE  [[pools |-> m, coins |-> s, nextIndex |-> n]
                    EXCEPT !.coins = @ \ {r}] =
                 [pools |-> m, coins |-> s \ {r}, nextIndex |-> n]
      OBVIOUS
    <3> QED
      BY <3>1 DEF PoolOK, SpendPooled
  <2>2. qs = [pools |-> Restrict(ps.pools, DOMAIN ps.pools \ {col}),
              coins |-> ps.coins \ {CoinOf(ps, col)},
              nextIndex |-> ps.nextIndex]
    BY <2>1 DEF RemovePool
  <2> QED
    BY <2>2 DEF Restrict
<1> HIDE DEF qs
<1>2. /\ DOMAIN qs.pools = DOMAIN ps.pools \ {col}
      /\ \A c \in DOMAIN ps.pools \ {col} : qs.pools[c] = ps.pools[c]
  BY <1>1
<1>3. \A c \in DOMAIN ps.pools \ {col} : /\ CoinOf(qs, c) = CoinOf(ps, c)
                                         /\ CoinOf(ps, c) # CoinOf(ps, col)
  BY <1>2 DEF CoinOf
<1>4. qs.coins = {CoinOf(qs, c) : c \in DOMAIN qs.pools}
  BY <1>1, <1>2, <1>3 DEF PoolOK
<1>5. PoolOK(qs)
  BY <1>1, <1>2, <1>4 DEF PoolOK
<1> QED
  BY <1>2, <1>5 DEF Worth, qs

(* And so does the first coin of a colour.                                  *)
LEMMA FirstInsert ==
  ASSUME NEW ps, PoolOK(ps), NEW col \in Colours, col \notin DOMAIN ps.pools,
         NEW v \in Uint128, v > 0
  PROVE  LET qs == InsertCoin(ps, col, v)
         IN  /\ PoolOK(qs)
             /\ Worth(qs, col) = v
             /\ \A c \in Colours \ {col} : Worth(qs, c) = Worth(ps, c)
<1> DEFINE new == [color |-> col, value |-> v, mtIndex |-> ps.nextIndex]
           qs == InsertCoin(ps, col, v)
<1>1. /\ qs.pools = Insert(ps.pools, col,
                           [value |-> v, mtIndex |-> ps.nextIndex])
      /\ qs.coins = ps.coins \cup {new}
      /\ qs.nextIndex = ps.nextIndex + 1
      /\ qs = [pools |-> qs.pools, coins |-> qs.coins,
               nextIndex |-> qs.nextIndex]
  BY DEF PoolOK, InsertCoin
<1> HIDE DEF qs
<1>2. /\ DOMAIN qs.pools = DOMAIN ps.pools \cup {col}
      /\ qs.pools[col] = [value |-> v, mtIndex |-> ps.nextIndex]
      /\ \A c \in DOMAIN ps.pools : qs.pools[c] = ps.pools[c]
  BY <1>1 DEF Insert
<1>3. /\ qs.pools \in [DOMAIN qs.pools -> PooledCoin]
      /\ qs.nextIndex \in Nat
  BY <1>1, <1>2 DEF PoolOK, PooledCoin, Insert
<1>4. /\ CoinOf(qs, col) = new
      /\ \A c \in DOMAIN ps.pools : CoinOf(qs, c) = CoinOf(ps, c)
  BY <1>2 DEF CoinOf
<1>5. qs.coins = {CoinOf(qs, c) : c \in DOMAIN qs.pools}
  BY <1>1, <1>2, <1>4 DEF PoolOK
<1>6. PoolOK(qs)
  BY <1>1, <1>2, <1>3, <1>5 DEF PoolOK
<1> QED
  BY <1>2, <1>6 DEF Worth, qs

----------------------------------------------------------------------------
(* Paying val out of a colour's pool, in either shape, lowers its worth by  *)
(* exactly val and disturbs no other colour.                                *)
LEMMA GiveFromPool ==
  ASSUME NEW ps, PoolOK(ps), NEW col \in DOMAIN ps.pools,
         NEW val \in Nat, val <= ps.pools[col].value,
         NEW qs, qs \in {SendShielded(ps, col, val), OpenGive(ps, col, val)}
  PROVE  /\ PoolOK(qs)
         /\ Worth(qs, col) = Worth(ps, col) - val
         /\ \A c \in Colours \ {col} : Worth(qs, c) = Worth(ps, c)
<1> DEFINE change == ps.pools[col].value - val
           spent == SpendPooled(ps, col)
<1>1. ps.pools[col].value \in Uint128
  BY DEF PoolOK, PooledCoin
<1>2. SafeGive(ps.pools[col].value, val) = val
  BY <1>1 DEF SafeGive, Uint128
<1>3. change \in Uint128
  BY <1>1, WidthAssumption DEF Uint128
<1>4. CASE change = 0
  <2>1. qs = RemovePool(spent, col)
    BY <1>2, <1>4 DEF SendShielded, OpenGive, RepoolOrRemove
  <2>2. Worth(ps, col) - val = 0
    BY <1>4 DEF Worth
  <2> QED
    BY <2>1, <2>2, SpendThenRemove
<1>5. CASE change # 0
  <2>1. change > 0
    BY <1>3, <1>5, WidthAssumption DEF Uint128
  <2>2. qs = InsertCoin(spent, col, change)
    BY <1>2, <1>5, <2>1 DEF SendShielded, OpenGive, RepoolOrRemove
  <2>3. Worth(ps, col) - val = change
    BY DEF Worth
  <2> QED
    BY <1>3, <2>1, <2>2, <2>3, SpendThenInsert
<1> QED
  BY <1>4, <1>5

(* A received coin raises its colour's worth by its value and no other's.   *)
LEMMA ReceiveIntoPool ==
  ASSUME NEW ps, PoolOK(ps), NEW col \in Colours, NEW v \in Uint128, v > 0,
         Receivable(ps, col, v)
  PROVE  LET qs == PoolAfterReceive(ps, col, v)
         IN  /\ PoolOK(qs)
             /\ Worth(qs, col) = Worth(ps, col) + v
             /\ \A c \in Colours \ {col} : Worth(qs, c) = Worth(ps, c)
<1>1. CASE col \in DOMAIN ps.pools
  <2> DEFINE sum == ps.pools[col].value + v
  <2>1. ps.pools[col].value \in Uint128
    BY <1>1 DEF PoolOK, PooledCoin
  <2>2. sum \in Uint128 /\ sum > 0
    BY <1>1, <2>1, WidthAssumption DEF Receivable, Uint128
  <2>3. PoolAfterReceive(ps, col, v) = InsertCoin(SpendPooled(ps, col), col, sum)
    BY <1>1 DEF PoolAfterReceive
  <2>4. Worth(ps, col) + v = sum
    BY <1>1 DEF Worth
  <2> QED
    BY <1>1, <2>2, <2>3, <2>4, SpendThenInsert
<1>2. CASE col \notin DOMAIN ps.pools
  <2>1. PoolAfterReceive(ps, col, v) = InsertCoin(ps, col, v)
    BY <1>2 DEF PoolAfterReceive
  <2>2. Worth(ps, col) + v = v
    BY <1>2 DEF Worth, Uint128
  <2> QED
    BY <1>2, <2>1, <2>2, FirstInsert
<1> QED
  BY <1>1, <1>2

----------------------------------------------------------------------------
(* Writing one balance cell changes that cell only.                         *)
LEMMA BalanceSetRead ==
  ASSUME NEW b \in Balances, NEW a \in AccountIds, NEW c \in Colours, NEW v
  PROVE  /\ BalanceSet(b, a, c, v)[a][c] = v
         /\ \A x \in AccountIds, y \in Colours :
              BalanceSet(b, a, c, v)[x][y] =
                IF x = a /\ y = c THEN v ELSE b[x][y]
         /\ v \in Uint128 => BalanceSet(b, a, c, v) \in Balances
  BY DEF BalanceSet, Balances

(* What the envelope leaves of an action's payload.                         *)
LEMMA ActionPayload ==
  ASSUME NEW p \in Payloads, AssertActionEnvelope(p), ~ IsRegistration(p)
  PROVE  /\ p.selector \in 2 .. 6
         /\ p.primaryColor \in Colours /\ p.wantColor \in Colours
         /\ p.primaryAmount \in Uint128 /\ p.primaryAmount > 0
         /\ p.wantAmount \in Uint128
         /\ p.selector = 6 => p.wantAmount > 0 /\ p.primaryColor # p.wantColor
<1>1. p \in ExecutePayload
  BY PayloadAssumption
<1>2. p.selector \in 2 .. 6
  BY <1>1 DEF AssertActionEnvelope, IsRegistration, ExecutePayload, Uint8
<1>3. \/ IsWithdraw(p) /\ WithdrawShape(p)
      \/ IsTransfer(p) /\ TransferShape(p)
      \/ SwapShape(p)
  BY DEF AssertActionEnvelope, IsRegistration, IsNativeRegistration,
         IsEvmRegistration, IsAction
<1>4. p.selector = 6 => SwapShape(p)
  BY <1>3 DEF IsWithdraw, IsTransfer
<1> QED
  BY <1>1, <1>2, <1>3, <1>4
  DEF ExecutePayload, WithdrawShape, TransferShape, SwapShape

CustodyInv ==
  /\ PoolOK(PoolState)
  /\ shieldedBalances \in Balances
  /\ unshieldedBalances \in Balances
  /\ unshieldedHeld \in [Colours -> Uint128]
  /\ OnlyRegisteredHold

(* What one dispatch takes from and adds to the cell (x, y) of one family,  *)
(* whose selects are the two arguments.                                     *)
Taken(p, account, select, x, y) ==
  IF select /\ x = account /\ y = p.primaryColor THEN p.primaryAmount ELSE 0

Added(p, select, x, y) ==
  IF HasCredit(p) /\ select /\ x = CreditAccount(p) /\ y = CreditColour(p)
  THEN CreditValue(p) ELSE 0

(* The pool half of a dispatch.                                             *)
LEMMA DispatchPools ==
  ASSUME CustodyInv, NEW p \in Payloads, AssertActionEnvelope(p),
         ~ IsRegistration(p), NEW account, NEW to, NEW credit,
         CustodyDispatch(p, account, to, credit)
  PROVE  /\ PoolOK(PoolState')
         /\ \A c \in Colours :
              Worth(PoolState', c) =
                Worth(PoolState, c)
                - (IF NeedsPool(p) /\ c = p.primaryColor
                   THEN p.primaryAmount ELSE 0)
                + (IF IsSwap(p) /\ c = p.wantColor THEN p.wantAmount ELSE 0)
<1> DEFINE given == PoolAfterGive(p)
<1>1. /\ p.selector \in 2 .. 6
      /\ p.primaryColor \in Colours /\ p.wantColor \in Colours
      /\ p.primaryAmount \in Uint128 /\ p.primaryAmount > 0
      /\ p.wantAmount \in Uint128
      /\ p.selector = 6 => p.wantAmount > 0 /\ p.primaryColor # p.wantColor
  BY ActionPayload
<1>2. PoolOK(PoolState)
  BY DEF CustodyInv
<1>3. \A c \in Colours : Worth(PoolState, c) \in Nat
  BY <1>2, WidthAssumption DEF PoolOK, PooledCoin, Uint128, Worth
<1>4. /\ PoolOK(given)
      /\ \A c \in Colours :
           Worth(given, c) =
             Worth(PoolState, c) - (IF NeedsPool(p) /\ c = p.primaryColor
                                    THEN p.primaryAmount ELSE 0)
  <2>1. CASE ~ NeedsPool(p)
    BY <1>2, <1>3, <2>1 DEF PoolAfterGive
  <2>2. CASE NeedsPool(p)
    <3>1. /\ p.primaryColor \in DOMAIN PoolState.pools
          /\ p.primaryAmount <= PoolState.pools[p.primaryColor].value
          /\ p.primaryAmount \in Nat
      <4>1. /\ p.primaryColor \in DOMAIN pools
            /\ pools[p.primaryColor].value >= p.primaryAmount
        BY <2>2 DEF CustodyDispatch, PoolCanPay
      <4>2. pools[p.primaryColor].value \in Uint128
        BY <1>2, <4>1 DEF PoolOK, PoolState, PooledCoin
      <4> QED
        BY <1>1, <4>1, <4>2, WidthAssumption DEF PoolState, Uint128
    <3>2. given \in {SendShielded(PoolState, p.primaryColor, p.primaryAmount),
                     OpenGive(PoolState, p.primaryColor, p.primaryAmount)}
      BY <2>2 DEF PoolAfterGive
    <3> HIDE DEF given
    <3>3. /\ PoolOK(given)
          /\ Worth(given, p.primaryColor) =
               Worth(PoolState, p.primaryColor) - p.primaryAmount
          /\ \A c \in Colours \ {p.primaryColor} :
               Worth(given, c) = Worth(PoolState, c)
      BY <1>2, <3>1, <3>2, GiveFromPool
    <3> QED
      BY <1>3, <2>2, <3>3
  <2> QED
    BY <2>1, <2>2
<1> HIDE DEF given
<1>5. \A c \in Colours : Worth(given, c) \in Nat
  BY <1>4, WidthAssumption DEF PoolOK, PooledCoin, Uint128, Worth
<1>6. CASE IsSwap(p)
  <2>1. /\ Receivable(given, p.wantColor, p.wantAmount)
        /\ PoolState' = PoolAfterReceive(given, p.wantColor, p.wantAmount)
    <3>1. /\ Receivable(given, p.wantColor, p.wantAmount)
          /\ BecomePool(PoolAfterReceive(given, p.wantColor, p.wantAmount))
      BY <1>6 DEF CustodyDispatch, ShieldedLegs, given
    <3>2. PoolOK(PoolAfterReceive(given, p.wantColor, p.wantAmount))
      BY <1>1, <1>4, <1>6, <3>1, ReceiveIntoPool DEF IsSwap
    <3> QED
      BY <3>1, <3>2 DEF BecomePool, PoolState, PoolOK
  <2>2. /\ PoolOK(PoolState')
        /\ Worth(PoolState', p.wantColor) =
             Worth(given, p.wantColor) + p.wantAmount
        /\ \A c \in Colours \ {p.wantColor} :
             Worth(PoolState', c) = Worth(given, c)
    BY <1>1, <1>4, <1>6, <2>1, ReceiveIntoPool DEF IsSwap
  <2> QED
    BY <1>4, <1>5, <1>6, <2>2
<1>7. CASE ~ IsSwap(p)
  <2>1. BecomePool(given)
    BY <1>7 DEF CustodyDispatch, ShieldedLegs, given
  <2>2. PoolState' = given
    BY <1>4, <2>1 DEF BecomePool, PoolState, PoolOK
  <2> QED
    BY <1>4, <1>5, <1>7, <2>2
<1> QED
  BY <1>6, <1>7

(* The balance half: both families move by exactly the debit and the credit *)
(* of the payload, and every cell keeps its width.                          *)
LEMMA DispatchBalances ==
  ASSUME CustodyInv, RegistryInv,
         NEW p \in Payloads, AssertActionEnvelope(p), ~ IsRegistration(p),
         NEW account \in accounts,
         CustodyDispatch(p, account, IsRegistered(p.toAccount),
                         IsRegistered(p.creditAccount))
  PROVE  /\ HasCredit(p) => CreditAccount(p) \in accounts
         /\ HasCredit(p) => ~ (CreditAccount(p) = account
                               /\ CreditColour(p) = p.primaryColor)
         /\ DebitBalance(p, account) >= p.primaryAmount
         /\ \A x \in AccountIds, y \in Colours :
              /\ shieldedBalances'[x][y] =
                   shieldedBalances[x][y]
                   - Taken(p, account, DebitShielded(p), x, y)
                   + Added(p, CreditShielded(p), x, y)
              /\ unshieldedBalances'[x][y] =
                   unshieldedBalances[x][y]
                   - Taken(p, account, ~ DebitShielded(p), x, y)
                   + Added(p, ~ CreditShielded(p), x, y)
         /\ shieldedBalances' \in Balances
         /\ unshieldedBalances' \in Balances
<1> DEFINE col == p.primaryColor
           amt == p.primaryAmount
           to == CreditAccount(p)
           cc == CreditColour(p)
           cv == CreditValue(p)
<1>1. /\ p.selector \in 2 .. 6
      /\ col \in Colours /\ cc \in Colours
      /\ amt \in Nat /\ cv \in Nat
  BY ActionPayload, WidthAssumption DEF Uint128, CreditColour, CreditValue
<1>2. /\ DebitBalance(p, account) >= amt
      /\ HasCredit(p) => to \in accounts
      /\ HasCredit(p) => ~ (to = account /\ cc = col)
  BY ActionPayload
  DEF CustodyDispatch, AccountCanPay, DestinationSane, CreditTargetSane,
      SwapSane, HasCredit, IsTransfer, IsSwap, IsRegistered, CreditAccount,
      CreditColour
<1>3. accounts \subseteq AccountIds
  BY DEF RegistryInv, RegistryTypeOK
<1>4. BalanceWrites(p, account)
  BY DEF CustodyDispatch
<1> HIDE DEF col, amt, to, cc, cv
<1>5. ASSUME NEW b \in Balances, NEW take \in BOOLEAN, NEW give \in BOOLEAN,
             take => DebitBalance(p, account) = b[account][col],
             HasCredit(p) /\ give =>
               Credited(Debited(b, take, p, account), give, p)[to][cc]
                 <= MaxUint128
      PROVE  /\ Credited(Debited(b, take, p, account), give, p) \in Balances
             /\ \A x \in AccountIds, y \in Colours :
                  Credited(Debited(b, take, p, account), give, p)[x][y] =
                    b[x][y] - Taken(p, account, take, x, y)
                            + Added(p, give, x, y)
  <2> DEFINE d == Debited(b, take, p, account)
             r == Credited(d, give, p)
  <2>1. \A x \in AccountIds, y \in Colours : b[x][y] \in Uint128
    BY DEF Balances
  <2>2. /\ d \in Balances
        /\ \A x \in AccountIds, y \in Colours :
             d[x][y] = b[x][y] - Taken(p, account, take, x, y)
    <3>1. CASE ~ take
      BY <1>5, <2>1, <3>1, WidthAssumption DEF Debited, Taken, Uint128
    <3>2. CASE take
      <4>1. b[account][col] - amt \in Uint128
        BY <1>1, <1>2, <1>3, <1>5, <2>1, <3>2, WidthAssumption DEF Uint128
      <4>2. d = BalanceSet(b, account, col, b[account][col] - amt)
        BY <1>5, <3>2 DEF Debited, col, amt
      <4> HIDE DEF d
      <4>3. /\ d \in Balances
            /\ \A x \in AccountIds, y \in Colours :
                 d[x][y] = IF x = account /\ y = col
                           THEN b[account][col] - amt ELSE b[x][y]
        BY <1>1, <1>3, <4>1, <4>2, BalanceSetRead
      <4>4. \A x \in AccountIds, y \in Colours :
              Taken(p, account, take, x, y) =
                IF x = account /\ y = col THEN amt ELSE 0
        BY <3>2 DEF Taken, col, amt
      <4> QED
        BY <1>1, <2>1, <4>3, <4>4, WidthAssumption DEF Uint128
    <3> QED
      BY <3>1, <3>2
  <2> HIDE DEF d
  <2>3. CASE ~ (HasCredit(p) /\ give)
    <3>1. r = d
      BY <2>3 DEF Credited
    <3>2. \A x \in AccountIds, y \in Colours : Added(p, give, x, y) = 0
      BY <2>3 DEF Added
    <3>3. \A x \in AccountIds, y \in Colours : d[x][y] \in Nat
      BY <2>2, WidthAssumption DEF Balances, Uint128
    <3> QED
      BY <2>2, <3>1, <3>2, <3>3 DEF d
  <2>4. CASE HasCredit(p) /\ give
    <3>1. /\ to \in AccountIds
          /\ d[to][cc] \in Uint128
      BY <1>1, <1>2, <1>3, <2>2, <2>4 DEF Balances
    <3>2. r = BalanceSet(d, to, cc, d[to][cc] + cv)
      BY <2>4 DEF Credited, to, cc, cv
    <3>3. d[to][cc] + cv \in Nat
      BY <1>1, <3>1, WidthAssumption DEF Uint128
    <3>4. r[to][cc] <= MaxUint128
      BY <1>5, <2>4 DEF d
    <3> HIDE DEF r
    <3>5. /\ r[to][cc] = d[to][cc] + cv
          /\ \A x \in AccountIds, y \in Colours :
               r[x][y] = IF x = to /\ y = cc THEN d[to][cc] + cv ELSE d[x][y]
      BY <1>1, <2>2, <3>1, <3>2, BalanceSetRead
    <3>6. d[to][cc] + cv \in Uint128
      BY <3>3, <3>4, <3>5, WidthAssumption DEF Uint128
    <3>7. r \in Balances
      BY <1>1, <2>2, <3>1, <3>2, <3>6, BalanceSetRead
    <3>8. \A x \in AccountIds, y \in Colours :
            Added(p, give, x, y) = IF x = to /\ y = cc THEN cv ELSE 0
      BY <2>4 DEF Added, to, cc, cv
    <3>9. \A x \in AccountIds, y \in Colours : d[x][y] \in Nat
      BY <2>2, WidthAssumption DEF Balances, Uint128
    <3>10. \A x \in AccountIds, y \in Colours :
             r[x][y] = b[x][y] - Taken(p, account, take, x, y)
                               + Added(p, give, x, y)
      BY <1>1, <2>2, <3>5, <3>8, <3>9
    <3> QED
      BY <3>7, <3>10 DEF r, d
  <2> QED
    BY <2>3, <2>4
<1>6. /\ DebitShielded(p) \in BOOLEAN /\ (~ DebitShielded(p)) \in BOOLEAN
      /\ CreditShielded(p) \in BOOLEAN /\ (~ CreditShielded(p)) \in BOOLEAN
      /\ DebitShielded(p) =>
           DebitBalance(p, account) = shieldedBalances[account][col]
      /\ ~ DebitShielded(p) =>
           DebitBalance(p, account) = unshieldedBalances[account][col]
  BY DEF DebitShielded, CreditShielded, DebitBalance, col
<1>7. /\ shieldedBalances' =
           Credited(Debited(shieldedBalances, DebitShielded(p), p, account),
                    CreditShielded(p), p)
      /\ unshieldedBalances' =
           Credited(Debited(unshieldedBalances, ~ DebitShielded(p), p, account),
                    ~ CreditShielded(p), p)
      /\ HasCredit(p) /\ CreditShielded(p) =>
           shieldedBalances'[to][cc] <= MaxUint128
      /\ HasCredit(p) /\ ~ CreditShielded(p) =>
           unshieldedBalances'[to][cc] <= MaxUint128
  BY <1>4 DEF BalanceWrites, Fits, to, cc
<1>8. shieldedBalances \in Balances /\ unshieldedBalances \in Balances
  BY DEF CustodyInv
<1>9. /\ shieldedBalances' \in Balances
      /\ \A x \in AccountIds, y \in Colours :
           shieldedBalances'[x][y] =
             shieldedBalances[x][y]
             - Taken(p, account, DebitShielded(p), x, y)
             + Added(p, CreditShielded(p), x, y)
  BY <1>5, <1>6, <1>7, <1>8
<1>10. /\ unshieldedBalances' \in Balances
       /\ \A x \in AccountIds, y \in Colours :
            unshieldedBalances'[x][y] =
              unshieldedBalances[x][y]
              - Taken(p, account, ~ DebitShielded(p), x, y)
              + Added(p, ~ CreditShielded(p), x, y)
  <2> DEFINE take == ~ DebitShielded(p)
             give == ~ CreditShielded(p)
  <2>1. /\ take \in BOOLEAN /\ give \in BOOLEAN
        /\ take => DebitBalance(p, account) = unshieldedBalances[account][col]
        /\ unshieldedBalances' =
             Credited(Debited(unshieldedBalances, take, p, account), give, p)
        /\ HasCredit(p) /\ give => unshieldedBalances'[to][cc] <= MaxUint128
    BY <1>6, <1>7
  <2> HIDE DEF take, give
  <2>2. /\ unshieldedBalances' \in Balances
        /\ \A x \in AccountIds, y \in Colours :
             unshieldedBalances'[x][y] =
               unshieldedBalances[x][y] - Taken(p, account, take, x, y)
                                        + Added(p, give, x, y)
    BY <1>5, <1>8, <2>1
  <2> QED
    BY <2>2 DEF take, give
<1> QED
  BY <1>2, <1>9, <1>10 DEF to, amt, cc, col

(* What an action does to the contract's unshielded balance.                *)
LEMMA HeldType ==
  ASSUME CustodyInv, NEW p \in Payloads, AssertActionEnvelope(p),
         ~ IsRegistration(p), NEW account, NEW to, NEW credit,
         CustodyDispatch(p, account, to, credit)
  PROVE  /\ unshieldedHeld' \in [Colours -> Uint128]
         /\ \A c \in Colours :
              unshieldedHeld'[c] =
                unshieldedHeld[c] - (IF p.selector = 3 /\ c = p.primaryColor
                                     THEN p.primaryAmount ELSE 0)
<1>1. p.primaryColor \in Colours /\ p.primaryAmount \in Uint128
  BY ActionPayload
<1>2. \A c \in Colours : unshieldedHeld[c] \in Uint128
  BY DEF CustodyInv
<1>3. p.selector = 3 => unshieldedHeld[p.primaryColor] >= p.primaryAmount
  BY DEF CustodyDispatch, KernelCanPay
<1>4. UnshieldedGive(p) /\ unshieldedHeld \in [Colours -> Uint128]
  BY DEF CustodyDispatch, CustodyInv
<1>5. CASE p.selector = 3
  <2>1. unshieldedHeld[p.primaryColor] - p.primaryAmount \in Uint128
    BY <1>1, <1>2, <1>3, <1>5, WidthAssumption DEF Uint128
  <2> QED
    BY <1>1, <1>2, <1>4, <1>5, <2>1, WidthAssumption DEF UnshieldedGive, Uint128
<1>6. CASE p.selector # 3
  BY <1>2, <1>4, <1>6, WidthAssumption DEF UnshieldedGive, Uint128
<1> QED
  BY <1>5, <1>6

----------------------------------------------------------------------------
(* CustodyInv holds at deployment.                                          *)
LEMMA CustodyInitially == Init => CustodyInv
<1> SUFFICES ASSUME Init PROVE CustodyInv
  OBVIOUS
<1>1. 0 \in Uint128
  BY WidthAssumption DEF Uint128
<1>2. PoolOK(PoolState)
  BY DEF Init, CustodyInit, PoolOK, PoolState
<1> QED
  BY <1>1, <1>2
  DEF Init, CustodyInit, CustodyInv, Balances, OnlyRegisteredHold

(* Every custody action preserves CustodyInv.                               *)
LEMMA CustodyActionStep ==
  ASSUME RegistryInv, CustodyInv,
         NEW p \in Payloads, NEW sk \in Secrets, NEW pk,
         ExecuteAction(p, sk, pk)
  PROVE  CustodyInv'
<1>1. /\ AssertActionEnvelope(p) /\ ~ IsRegistration(p)
      /\ p.account \in accounts
      /\ accounts' = accounts
      /\ CustodyDispatch(p, p.account, IsRegistered(p.toAccount),
                         IsRegistered(p.creditAccount))
  BY ActionAccount DEF ExecuteAction, Authorised
<1>2. PoolOK(PoolState')
  BY <1>1, DispatchPools
<1>3. unshieldedHeld' \in [Colours -> Uint128]
  BY <1>1, HeldType
<1>4. /\ shieldedBalances' \in Balances
      /\ unshieldedBalances' \in Balances
  BY <1>1, DispatchBalances
<1>5. ASSUME NEW x \in AccountIds \ accounts, NEW y \in Colours
      PROVE  shieldedBalances'[x][y] = 0 /\ unshieldedBalances'[x][y] = 0
  <2>1. shieldedBalances[x][y] = 0 /\ unshieldedBalances[x][y] = 0
    BY DEF CustodyInv, OnlyRegisteredHold
  <2>2. \A s : Taken(p, p.account, s, x, y) = 0
    BY <1>1 DEF Taken
  <2>3. HasCredit(p) => CreditAccount(p) \in accounts
    BY <1>1, DispatchBalances
  <2>4. \A s : Added(p, s, x, y) = 0
    BY <2>3 DEF Added
  <2>5. /\ shieldedBalances'[x][y] =
             shieldedBalances[x][y]
             - Taken(p, p.account, DebitShielded(p), x, y)
             + Added(p, CreditShielded(p), x, y)
        /\ unshieldedBalances'[x][y] =
             unshieldedBalances[x][y]
             - Taken(p, p.account, ~ DebitShielded(p), x, y)
             + Added(p, ~ CreditShielded(p), x, y)
    BY <1>1, DispatchBalances
  <2> QED
    BY <2>1, <2>2, <2>4, <2>5
<1> QED
  BY <1>1, <1>2, <1>3, <1>4, <1>5
  DEF CustodyInv, OnlyRegisteredHold, PoolState

(* So does a shielded deposit.                                              *)
LEMMA DepositShieldedStep ==
  ASSUME RegistryInv, CustodyInv,
         NEW col \in ShieldedTokens, NEW v \in Uint128, NEW acct \in AccountIds,
         DepositShielded(col, v, acct), UNCHANGED accounts
  PROVE  CustodyInv'
<1>1. /\ v > 0 /\ acct \in accounts /\ col \in Colours
      /\ Receivable(PoolState, col, v)
      /\ BecomePool(PoolAfterReceive(PoolState, col, v))
      /\ shieldedBalances' = BalanceSet(shieldedBalances, acct, col,
                                        shieldedBalances[acct][col] + v)
      /\ shieldedBalances[acct][col] + v \in Uint128
  <2>1. col \in Colours
    BY TokenAssumption
  <2>2. shieldedBalances[acct][col] \in Uint128
    BY <2>1 DEF CustodyInv, Balances
  <2> QED
    BY <2>1, <2>2, WidthAssumption DEF DepositShielded, Uint128
<1>2. PoolOK(PoolState')
  <2>1. PoolOK(PoolAfterReceive(PoolState, col, v))
    BY <1>1, ReceiveIntoPool DEF CustodyInv
  <2> QED
    BY <1>1, <2>1 DEF BecomePool, PoolState, PoolOK
<1>3. /\ shieldedBalances' \in Balances
      /\ \A x \in AccountIds \ {acct} : shieldedBalances'[x] = shieldedBalances[x]
  BY <1>1, BalanceSetRead DEF CustodyInv, BalanceSet, Balances
<1> QED
  BY <1>1, <1>2, <1>3
  DEF CustodyInv, OnlyRegisteredHold, DepositShielded, PoolState

(* And an unshielded one.                                                   *)
LEMMA DepositUnshieldedStep ==
  ASSUME RegistryInv, CustodyInv,
         NEW col \in UnshieldedTokens, NEW v \in Uint128,
         NEW acct \in AccountIds,
         DepositUnshielded(col, v, acct), UNCHANGED accounts
  PROVE  CustodyInv'
<1>1. /\ acct \in accounts /\ col \in Colours
      /\ unshieldedBalances' = BalanceSet(unshieldedBalances, acct, col,
                                          unshieldedBalances[acct][col] + v)
      /\ unshieldedBalances[acct][col] + v \in Uint128
      /\ unshieldedHeld' \in [Colours -> Uint128]
  <2>1. col \in Colours
    BY TokenAssumption
  <2>2. /\ unshieldedBalances[acct][col] \in Uint128
        /\ unshieldedHeld[col] \in Uint128
    BY <2>1 DEF CustodyInv, Balances
  <2>3. unshieldedHeld[col] + v \in Uint128
    BY <2>2, WidthAssumption DEF DepositUnshielded, Uint128
  <2> QED
    BY <2>1, <2>2, <2>3, WidthAssumption
    DEF DepositUnshielded, Uint128, CustodyInv
<1>2. /\ unshieldedBalances' \in Balances
      /\ \A x \in AccountIds \ {acct} :
           unshieldedBalances'[x] = unshieldedBalances[x]
  BY <1>1, BalanceSetRead DEF CustodyInv, BalanceSet, Balances
<1> QED
  BY <1>1, <1>2
  DEF CustodyInv, OnlyRegisteredHold, DepositUnshielded, PoolState

(* So does every step; registrations add an id that holds nothing.          *)
LEMMA CustodyInductive ==
  ASSUME RegistryInv, CustodyInv, [Next]_vars
  PROVE  CustodyInv'
<1>1. ASSUME NEW p \in Payloads, NEW sk \in Secrets, NEW pk \in Owners,
             Execute(p, sk, pk)
      PROVE  CustodyInv'
  <2>1. CASE ExecuteAction(p, sk, pk)
    BY <2>1, CustodyActionStep
  <2>2. CASE ExecuteRegistration(p, sk, pk)
    BY <2>2
    DEF ExecuteRegistration, RegisterAccount, custodyVars, CustodyInv,
        OnlyRegisteredHold, PoolState
  <2> QED
    BY <1>1, <2>1, <2>2 DEF Execute
<1>2. CASE Deposit
  BY <1>2, DepositShieldedStep, DepositUnshieldedStep
  DEF Deposit, registryVars
<1>3. CASE UNCHANGED <<registryVars, custodyVars>>
  BY <1>3
  DEF registryVars, custodyVars, CustodyInv, OnlyRegisteredHold, PoolState
<1> QED
  BY <1>1, <1>2, <1>3 DEF Next, Tick, vars

(* Both invariants hold in every reachable state.                           *)
LEMMA CustodyInvariant == Spec => [](RegistryInv /\ CustodyInv)
  BY RegistryInitially, RegistryInductive, CustodyInitially, CustodyInductive,
     PTL DEF Spec

(* They give the types.                                                     *)
LEMMA InvariantTypes ==
  ASSUME RegistryInv, CustodyInv PROVE TypeOK
<1>1. \A c \in DOMAIN pools : CoinOf(PoolState, c) \in Coin
  BY DEF CustodyInv, PoolOK, PoolState, CoinOf, Coin, PooledCoin
<1>2. CustodyTypeOK
  BY <1>1 DEF CustodyInv, PoolOK, PoolState, CustodyTypeOK
<1> QED
  BY <1>2 DEF RegistryInv, TypeOK

(* Every ledger cell keeps the width its declaration gives it.              *)
THEOREM TypesHold == Spec => []TypeOK
  BY InvariantTypes, CustodyInvariant, PTL

(* The pool never strands a coin outside its entries nor offers a spent or  *)
(* empty one.                                                               *)
THEOREM PoolsAreTheirCoins == Spec => []PoolIsItsCoins
<1>1. CustodyInv => PoolIsItsCoins
  BY DEF CustodyInv, PoolOK, PoolState, PoolIsItsCoins
<1> QED
  BY <1>1, CustodyInvariant, PTL

(* No balance is ever credited to an id that nobody has registered.         *)
THEOREM UnregisteredHoldNothing == Spec => []OnlyRegisteredHold
<1>1. CustodyInv => OnlyRegisteredHold
  BY DEF CustodyInv
<1> QED
  BY <1>1, CustodyInvariant, PTL

----------------------------------------------------------------------------
(* What accounts are owed, added up.  `Owed` takes them in the order CHOOSE *)
(* gives: t solves one equation for every set of accounts in D.             *)
Pick(s) == CHOOSE x \in s : TRUE

Sums(b, c, D, t) ==
  t = [s \in D |-> IF s = {} THEN 0 ELSE b[Pick(s)][c] + t[s \ {Pick(s)}]]

(* It is the library's fold over all accounts.                              *)
LEMMA OwedIsSum ==
  ASSUME NEW b, NEW c
  PROVE  Owed(b, c) =
           (CHOOSE t : Sums(b, c, SUBSET AccountIds, t))[AccountIds]
BY DEF Owed, MapThenSumSet, MapThenFoldSet, Sums, Pick

(* A set of numbers that is not empty has a least one.                      *)
LEMMA LeastOf ==
  ASSUME NEW T, T \subseteq Nat, T # {}
  PROVE  \E n \in T : \A m \in Nat : m < n => m \notin T
<1>1. \E n \in T : \A m \in T : ~ (<<m, n>> \in OpToRel(<, Nat))
  BY WFMin, NatLessThanWellFounded
<1>2. \A m, n \in Nat : m < n => <<m, n>> \in OpToRel(<, Nat)
  BY DEF OpToRel
<1> QED
  BY <1>1, <1>2

(* The sets of accounts by size.                                            *)
Upto(n) == {s \in SUBSET AccountIds : Cardinality(s) <= n}

LEMMA Sizes ==
  /\ IsFiniteSet(AccountIds)
  /\ Cardinality(AccountIds) \in Nat
  /\ Upto(Cardinality(AccountIds)) = SUBSET AccountIds
  /\ \A s \in SUBSET AccountIds :
       /\ Cardinality(s) \in Nat
       /\ s # {} => /\ Pick(s) \in s
                    /\ Cardinality(s) > 0
                    /\ Cardinality(s \ {Pick(s)}) = Cardinality(s) - 1
<1>1. IsFiniteSet(AccountIds)
  BY FS_Subset, FiniteAssumption, HashAssumption
<1>2. ASSUME NEW s \in SUBSET AccountIds
      PROVE  IsFiniteSet(s) /\ Cardinality(s) <= Cardinality(AccountIds)
  BY <1>1, FS_Subset
<1>3. ASSUME NEW s \in SUBSET AccountIds
      PROVE  /\ Cardinality(s) \in Nat
             /\ s # {} => /\ Pick(s) \in s
                          /\ Cardinality(s) > 0
                          /\ Cardinality(s \ {Pick(s)}) = Cardinality(s) - 1
  <2>1. Cardinality(s) \in Nat /\ (Cardinality(s) = 0 <=> s = {})
    BY <1>2, FS_CardinalityType, FS_EmptySet
  <2>2. s # {} => Pick(s) \in s
    BY DEF Pick
  <2> QED
    BY <1>2, <2>1, <2>2, FS_RemoveElement
<1> QED
  BY <1>1, <1>2, <1>3 DEF Upto

(* So the equations have a solution, and the sum satisfies them.            *)
LEMMA SumsExist ==
  ASSUME NEW b, NEW c
  PROVE  \E t : Sums(b, c, SUBSET AccountIds, t)
<1> DEFINE Solved(n) == \E t : Sums(b, c, Upto(n), t)
           Unsolved == {n \in Nat : ~ Solved(n)}
<1>1. Solved(0)
  <2> DEFINE t == [s \in Upto(0) |-> 0]
  <2>1. ASSUME NEW s \in Upto(0) PROVE s = {}
    <3>1. s \in SUBSET AccountIds /\ Cardinality(s) <= 0
      BY DEF Upto
    <3>2. Cardinality(s) \in Nat /\ (s # {} => Cardinality(s) > 0)
      BY <3>1, Sizes
    <3> QED
      BY <3>1, <3>2
  <2>2. \A s \in Upto(0) :
          0 = IF s = {} THEN 0 ELSE b[Pick(s)][c] + t[s \ {Pick(s)}]
    BY <2>1
  <2>3. Sums(b, c, Upto(0), t)
    BY <2>2 DEF Sums
  <2> QED
    BY <2>3
<1>2. ASSUME NEW n \in Nat, Solved(n) PROVE Solved(n + 1)
  <2>1. PICK t : Sums(b, c, Upto(n), t)
    BY <1>2
  <2> DEFINE body(f, s) ==
               IF s = {} THEN 0 ELSE b[Pick(s)][c] + f[s \ {Pick(s)}]
             u == [s \in Upto(n + 1) |-> body(t, s)]
  <2>2. ASSUME NEW s \in Upto(n) PROVE s \in Upto(n + 1)
    <3>1. s \in SUBSET AccountIds /\ Cardinality(s) <= n
      BY DEF Upto
    <3>2. Cardinality(s) \in Nat
      BY <3>1, Sizes
    <3> QED
      BY <3>1, <3>2 DEF Upto
  <2>3. \A s \in Upto(n + 1) : s # {} => s \ {Pick(s)} \in Upto(n)
    BY Sizes DEF Upto
  <2>4. \A s \in Upto(n) : u[s] = t[s]
    <3>1. t = [s \in Upto(n) |-> body(t, s)]
      BY <2>1 DEF Sums
    <3>2. \A s \in Upto(n) : t[s] = body(t, s)
      BY <3>1
    <3> QED
      BY <2>2, <3>2
  <2>5. \A s \in Upto(n + 1) : body(t, s) = body(u, s)
    BY <2>3, <2>4
  <2>6. u = [s \in Upto(n + 1) |-> body(u, s)]
    BY <2>5
  <2>7. Sums(b, c, Upto(n + 1), u)
    BY <2>6 DEF Sums
  <2> QED
    BY <2>7
<1>3. Unsolved = {}
  <2> SUFFICES ASSUME Unsolved # {} PROVE FALSE
    OBVIOUS
  <2> HIDE DEF Solved
  <2>1. PICK n \in Unsolved : \A m \in Nat : m < n => m \notin Unsolved
    BY LeastOf
  <2>2. n # 0
    BY <1>1, <2>1
  <2>3. n - 1 \in Nat /\ n - 1 < n /\ (n - 1) + 1 = n
    BY <2>1, <2>2
  <2>4. Solved(n - 1)
    BY <2>1, <2>3
  <2>5. Solved((n - 1) + 1)
    BY <1>2, <2>3, <2>4
  <2> QED
    BY <2>1, <2>3, <2>5
<1> HIDE DEF Solved
<1>4. Solved(Cardinality(AccountIds))
  BY <1>3, Sizes
<1> QED
  BY <1>4, Sizes DEF Solved

(* The sum over each set of accounts, and the equation it satisfies.        *)
Tally(b, c) == CHOOSE t : Sums(b, c, SUBSET AccountIds, t)

LEMMA TallyStep ==
  ASSUME NEW b, NEW c
  PROVE  /\ Owed(b, c) = Tally(b, c)[AccountIds]
         /\ Tally(b, c)[{}] = 0
         /\ \A s \in SUBSET AccountIds : s # {} =>
              Tally(b, c)[s] = b[Pick(s)][c] + Tally(b, c)[s \ {Pick(s)}]
<1>1. Sums(b, c, SUBSET AccountIds, Tally(b, c))
  BY SumsExist DEF Tally
<1>2. Owed(b, c) = Tally(b, c)[AccountIds]
  BY OwedIsSum DEF Tally
<1> QED
  BY <1>1, <1>2 DEF Sums

(* Induction on a set of accounts, by the account the sum takes next.       *)
LEMMA SetInduction ==
  ASSUME NEW G, {} \in G,
         \A s \in SUBSET AccountIds :
           s # {} /\ s \ {Pick(s)} \in G => s \in G
  PROVE  \A s \in SUBSET AccountIds : s \in G
<1> DEFINE Rest == (SUBSET AccountIds) \ G
           Bad == {Cardinality(s) : s \in Rest}
<1> SUFFICES ASSUME NEW r \in SUBSET AccountIds, r \notin G PROVE FALSE
  OBVIOUS
<1>1. Bad # {}
  <2>1. r \in Rest
    OBVIOUS
  <2> QED
    BY <2>1
<1>2. Bad \subseteq Nat
  <2>1. \A s \in Rest : Cardinality(s) \in Nat
    BY Sizes
  <2> QED
    BY <2>1
<1>3. PICK n \in Bad : \A m \in Nat : m < n => m \notin Bad
  BY <1>1, <1>2, LeastOf
<1>4. PICK s \in SUBSET AccountIds : s \notin G /\ Cardinality(s) = n
  BY <1>3
<1>5. /\ s # {} /\ s \ {Pick(s)} \in SUBSET AccountIds
      /\ Cardinality(s \ {Pick(s)}) \in Nat
      /\ Cardinality(s \ {Pick(s)}) < n
  <2>1. s # {}
    BY <1>4
  <2>2. s \ {Pick(s)} \in SUBSET AccountIds
    OBVIOUS
  <2> QED
    BY <1>4, <2>1, <2>2, Sizes
<1>6. s \ {Pick(s)} \in G
  BY <1>3, <1>5
<1> QED
  BY <1>4, <1>5, <1>6

(* No account is owed more than all of them together.                       *)
LEMMA TallyBounds ==
  ASSUME NEW b, NEW c, \A x \in AccountIds : b[x][c] \in Nat
  PROVE  \A s \in SUBSET AccountIds :
           /\ Tally(b, c)[s] \in Nat
           /\ \A x \in s : b[x][c] <= Tally(b, c)[s]
           /\ (\A x \in s : b[x][c] = 0) => Tally(b, c)[s] = 0
<1> DEFINE t == Tally(b, c)
           Bounded(s) == /\ t[s] \in Nat
                         /\ \A x \in s : b[x][c] <= t[s]
                         /\ (\A x \in s : b[x][c] = 0) => t[s] = 0
           G == {s \in SUBSET AccountIds : Bounded(s)}
<1>1. ASSUME NEW s \in SUBSET AccountIds, s # {}, Bounded(s \ {Pick(s)})
      PROVE  Bounded(s)
  <2> DEFINE y == Pick(s)
             rest == s \ {y}
  <2>1. y \in s /\ b[y][c] \in Nat /\ t[s] = b[y][c] + t[rest]
    BY <1>1, Sizes, TallyStep
  <2>2. /\ t[rest] \in Nat
        /\ \A x \in rest : b[x][c] <= t[rest]
        /\ (\A x \in rest : b[x][c] = 0) => t[rest] = 0
    BY <1>1
  <2> HIDE DEF t, y
  <2>3. t[s] \in Nat /\ b[y][c] <= t[s] /\ t[rest] <= t[s]
    BY <2>1, <2>2
  <2>4. ASSUME NEW x \in s, x # y PROVE b[x][c] <= t[s]
    <3>1. b[x][c] \in Nat /\ b[x][c] <= t[rest]
      BY <2>2, <2>4
    <3> QED
      BY <2>2, <2>3, <3>1
  <2>5. (\A x \in s : b[x][c] = 0) => t[s] = 0
    BY <2>1, <2>2
  <2> QED
    BY <2>3, <2>4, <2>5
<1>2. Bounded({})
  BY TallyStep
<1> HIDE DEF Bounded
<1>3. \A s \in SUBSET AccountIds : s \in G
  BY <1>1, <1>2, SetInduction
<1> QED
  BY <1>3 DEF Bounded

(* From b to d, colour c moves by k in account a's cell, by m in e's.       *)
Shifted(b, d, c, a, k, e, m) ==
  \A x \in AccountIds :
    d[x][c] = b[x][c] + (IF x = a THEN k ELSE 0) + (IF x = e THEN m ELSE 0)

(* The sum then moves by both.                                              *)
LEMMA TallyMoves ==
  ASSUME NEW b, NEW c, \A x \in AccountIds : b[x][c] \in Nat,
         NEW a, NEW e, NEW k \in Int, NEW m \in Int, NEW d,
         Shifted(b, d, c, a, k, e, m)
  PROVE  \A s \in SUBSET AccountIds :
           Tally(d, c)[s] = Tally(b, c)[s] + (IF a \in s THEN k ELSE 0)
                                           + (IF e \in s THEN m ELSE 0)
<1> DEFINE t == Tally(b, c)
           u == Tally(d, c)
           Moved(s) == u[s] = t[s] + (IF a \in s THEN k ELSE 0)
                                   + (IF e \in s THEN m ELSE 0)
           G == {s \in SUBSET AccountIds : Moved(s)}
<1>1. ASSUME NEW s \in SUBSET AccountIds, s # {}, Moved(s \ {Pick(s)})
      PROVE  Moved(s)
  <2> DEFINE y == Pick(s)
             rest == s \ {y}
  <2>1. /\ y \in s /\ t[s] = b[y][c] + t[rest]
        /\ u[s] = d[y][c] + u[rest]
    <3>1. y \in s
      BY <1>1, Sizes
    <3>2. t[s] = b[y][c] + t[rest]
      BY <1>1, TallyStep
    <3>3. \A r \in SUBSET AccountIds : r # {} =>
            u[r] = d[Pick(r)][c] + u[r \ {Pick(r)}]
      BY TallyStep
    <3> HIDE DEF t, u
    <3> QED
      BY <1>1, <3>1, <3>2, <3>3
  <2>2. b[y][c] \in Nat /\ t[rest] \in Nat
    <3>1. rest \in SUBSET AccountIds /\ y \in AccountIds
      BY <2>1
    <3> QED
      BY <3>1, TallyBounds
  <2>3. d[y][c] = b[y][c] + (IF y = a THEN k ELSE 0) + (IF y = e THEN m ELSE 0)
    BY <2>1 DEF Shifted
  <2>4. u[rest] = t[rest] + (IF a \in rest THEN k ELSE 0)
                          + (IF e \in rest THEN m ELSE 0)
    BY <1>1
  <2> HIDE DEF t, u, y
  <2>5. /\ a \in s <=> a = y \/ a \in rest
        /\ e \in s <=> e = y \/ e \in rest
        /\ y \notin rest
    BY <2>1
  <2> HIDE DEF rest
  <2> QED
    BY <2>1, <2>2, <2>3, <2>4, <2>5
<1>2. Moved({})
  BY TallyStep
<1> HIDE DEF Moved
<1>3. \A s \in SUBSET AccountIds : s \in G
  BY <1>1, <1>2, SetInduction
<1> QED
  BY <1>3 DEF Moved

(* The same two facts of the sum over all accounts.                         *)
LEMMA OwedBounds ==
  ASSUME NEW b \in Balances, NEW c \in Colours
  PROVE  /\ Owed(b, c) \in Nat
         /\ \A x \in AccountIds : b[x][c] <= Owed(b, c)
         /\ (\A x \in AccountIds : b[x][c] = 0) => Owed(b, c) = 0
<1>1. \A x \in AccountIds : b[x][c] \in Nat
  BY WidthAssumption DEF Balances, Uint128
<1> QED
  BY <1>1, TallyBounds, TallyStep

LEMMA OwedMoves ==
  ASSUME NEW b \in Balances, NEW c \in Colours, NEW d,
         NEW a, NEW e, NEW k \in Int, NEW m \in Int,
         a \notin AccountIds => k = 0, e \notin AccountIds => m = 0,
         Shifted(b, d, c, a, k, e, m)
  PROVE  Owed(d, c) = Owed(b, c) + k + m
<1>1. \A x \in AccountIds : b[x][c] \in Nat
  BY WidthAssumption DEF Balances, Uint128
<1>2. Tally(d, c)[AccountIds] =
        Tally(b, c)[AccountIds] + (IF a \in AccountIds THEN k ELSE 0)
                                + (IF e \in AccountIds THEN m ELSE 0)
  BY <1>1, TallyMoves
<1> QED
  BY <1>2, TallyStep

----------------------------------------------------------------------------
(* Both families are backed: nothing is owed and nothing is held at         *)
(* deployment,                                                              *)
Backed == ShieldedBacked /\ UnshieldedBacked

LEMMA BackedInitially == Init => Backed
<1> SUFFICES ASSUME Init, NEW c \in Colours
             PROVE  /\ Owed(shieldedBalances, c) = PoolValue(c)
                    /\ Owed(unshieldedBalances, c) = unshieldedHeld[c]
  BY DEF Backed, ShieldedBacked, UnshieldedBacked
<1>1. /\ \A x \in AccountIds : /\ shieldedBalances[x][c] = 0
                               /\ unshieldedBalances[x][c] = 0
      /\ PoolValue(c) = 0 /\ unshieldedHeld[c] = 0
  BY DEF Init, CustodyInit, PoolValue
<1> QED
  BY <1>1, OwedBounds, CustodyInitially DEF CustodyInv

(* a custody action moves what is owed and what is held alike,              *)
LEMMA ActionKeepsBacking ==
  ASSUME RegistryInv, CustodyInv, Backed,
         NEW p \in Payloads, NEW sk \in Secrets, NEW pk,
         ExecuteAction(p, sk, pk)
  PROVE  Backed'
<1> SUFFICES ASSUME NEW c \in Colours
             PROVE  /\ Owed(shieldedBalances', c) = PoolValue(c)'
                    /\ Owed(unshieldedBalances', c) = unshieldedHeld'[c]
  BY DEF Backed, ShieldedBacked, UnshieldedBacked
<1> DEFINE a == p.account
           e == CreditAccount(p)
           amt == p.primaryAmount
           cv == CreditValue(p)
           taken(s) == IF s /\ c = p.primaryColor THEN 0 - amt ELSE 0
           added(s) == IF HasCredit(p) /\ s /\ c = CreditColour(p)
                       THEN cv ELSE 0
<1>1. /\ AssertActionEnvelope(p) /\ ~ IsRegistration(p)
      /\ a \in accounts /\ a \in AccountIds
      /\ CustodyDispatch(p, a, IsRegistered(p.toAccount),
                         IsRegistered(p.creditAccount))
  BY ActionAccount DEF ExecuteAction, Authorised, RegistryInv, RegistryTypeOK
<1>2. /\ p.selector \in 2 .. 6 /\ amt \in Nat /\ cv \in Nat
      /\ p.wantAmount \in Nat
  BY <1>1, ActionPayload, WidthAssumption DEF Uint128, CreditValue
<1>3. HasCredit(p) => e \in AccountIds
  BY <1>1, DispatchBalances DEF RegistryInv, RegistryTypeOK
<1>4. ASSUME NEW b \in Balances, NEW d,
             NEW take \in BOOLEAN, NEW give \in BOOLEAN,
             \A x \in AccountIds, y \in Colours :
               d[x][y] = b[x][y] - Taken(p, a, take, x, y)
                                 + Added(p, give, x, y)
      PROVE  Owed(d, c) = Owed(b, c) + taken(take) + added(give)
  <2> DEFINE k == taken(take)
             m == added(give)
  <2>1. k \in Int /\ m \in Int
    BY <1>2
  <2>2. e \notin AccountIds => m = 0
    BY <1>3
  <2>3. ASSUME NEW x \in AccountIds
        PROVE  d[x][c] = b[x][c] + (IF x = a THEN k ELSE 0)
                                 + (IF x = e THEN m ELSE 0)
    <3>1. b[x][c] \in Nat
      BY WidthAssumption DEF Balances, Uint128
    <3>2. d[x][c] = b[x][c] - Taken(p, a, take, x, c) + Added(p, give, x, c)
      BY <1>4
    <3>3. 0 - Taken(p, a, take, x, c) = IF x = a THEN k ELSE 0
      BY <1>2 DEF Taken
    <3>4. Added(p, give, x, c) = IF x = e THEN m ELSE 0
      BY <1>2 DEF Added
    <3>5. Taken(p, a, take, x, c) \in Nat /\ Added(p, give, x, c) \in Nat
      BY <1>2 DEF Taken, Added
    <3> QED
      BY <3>1, <3>2, <3>3, <3>4, <3>5
  <2> HIDE DEF k, m, a, e
  <2>4. a \notin AccountIds => k = 0
    BY <1>1
  <2>5. Shifted(b, d, c, a, k, e, m)
    BY <2>3 DEF Shifted
  <2>6. Owed(d, c) = Owed(b, c) + k + m
    BY <2>1, <2>2, <2>4, <2>5, OwedMoves
  <2> QED
    BY <2>6 DEF k, m
<1> HIDE DEF a, e
<1>5. /\ shieldedBalances \in Balances /\ unshieldedBalances \in Balances
      /\ unshieldedHeld[c] \in Nat
      /\ PoolOK(PoolState)
  BY WidthAssumption DEF CustodyInv, Uint128
<1>6. /\ Owed(shieldedBalances', c) =
           Owed(shieldedBalances, c) + taken(DebitShielded(p))
                                     + added(CreditShielded(p))
      /\ Owed(unshieldedBalances', c) =
           Owed(unshieldedBalances, c) + taken(~ DebitShielded(p))
                                       + added(~ CreditShielded(p))
  <2>1. /\ DebitShielded(p) \in BOOLEAN /\ (~ DebitShielded(p)) \in BOOLEAN
        /\ CreditShielded(p) \in BOOLEAN /\ (~ CreditShielded(p)) \in BOOLEAN
    BY DEF DebitShielded, CreditShielded
  <2>2. \A x \in AccountIds, y \in Colours :
          /\ shieldedBalances'[x][y] =
               shieldedBalances[x][y]
               - Taken(p, a, DebitShielded(p), x, y)
               + Added(p, CreditShielded(p), x, y)
          /\ unshieldedBalances'[x][y] =
               unshieldedBalances[x][y]
               - Taken(p, a, ~ DebitShielded(p), x, y)
               + Added(p, ~ CreditShielded(p), x, y)
    BY <1>1, DispatchBalances
  <2> HIDE DEF taken, added
  <2>3. Owed(shieldedBalances', c) =
          Owed(shieldedBalances, c) + taken(DebitShielded(p))
                                    + added(CreditShielded(p))
    BY <1>4, <1>5, <2>1, <2>2
  <2>4. Owed(unshieldedBalances', c) =
          Owed(unshieldedBalances, c) + taken(~ DebitShielded(p))
                                      + added(~ CreditShielded(p))
    <3> DEFINE take == ~ DebitShielded(p)
               give == ~ CreditShielded(p)
    <3>1. /\ take \in BOOLEAN /\ give \in BOOLEAN
          /\ \A x \in AccountIds, y \in Colours :
               unshieldedBalances'[x][y] =
                 unshieldedBalances[x][y] - Taken(p, a, take, x, y)
                                          + Added(p, give, x, y)
      BY <2>1, <2>2
    <3> HIDE DEF take, give
    <3>2. Owed(unshieldedBalances', c) =
            Owed(unshieldedBalances, c) + taken(take) + added(give)
      BY <1>4, <1>5, <3>1
    <3> QED
      BY <3>2 DEF take, give
  <2> QED
    BY <2>3, <2>4
<1>7. /\ PoolValue(c)' =
           PoolValue(c)
           - (IF NeedsPool(p) /\ c = p.primaryColor THEN amt ELSE 0)
           + (IF IsSwap(p) /\ c = p.wantColor THEN p.wantAmount ELSE 0)
      /\ unshieldedHeld'[c] =
           unshieldedHeld[c]
           - (IF p.selector = 3 /\ c = p.primaryColor THEN amt ELSE 0)
  BY <1>1, DispatchPools, HeldType DEF PoolValue, Worth, PoolState
<1>8. PoolValue(c) \in Nat
  BY <1>5, WidthAssumption
  DEF PoolOK, PooledCoin, Uint128, PoolValue, PoolState
<1>9. /\ Owed(shieldedBalances, c) = PoolValue(c)
      /\ Owed(unshieldedBalances, c) = unshieldedHeld[c]
  BY DEF Backed, ShieldedBacked, UnshieldedBacked
<1> QED
  BY <1>2, <1>5, <1>6, <1>7, <1>8, <1>9
  DEF DebitShielded, CreditShielded, HasCredit, IsTransfer, IsSwap, NeedsPool,
      CreditColour, CreditValue

(* a deposit raises what is owed by what it brings,                         *)
LEMMA OwedCredited ==
  ASSUME NEW b \in Balances, NEW a \in AccountIds, NEW col \in Colours,
         NEW v \in Nat, NEW c \in Colours
  PROVE  Owed(BalanceSet(b, a, col, b[a][col] + v), c) =
           Owed(b, c) + (IF c = col THEN v ELSE 0)
<1> DEFINE d == BalanceSet(b, a, col, b[a][col] + v)
           k == IF c = col THEN v ELSE 0
<1>1. \A x \in AccountIds :
        /\ b[x][c] \in Nat
        /\ d[x][c] = IF x = a /\ c = col THEN b[a][col] + v ELSE b[x][c]
  <2>1. \A x \in AccountIds : b[x][c] \in Nat
    BY WidthAssumption DEF Balances, Uint128
  <2>2. \A w : \A x \in AccountIds :
          BalanceSet(b, a, col, w)[x][c] =
            IF x = a /\ c = col THEN w ELSE b[x][c]
    BY BalanceSetRead
  <2> QED
    BY <2>1, <2>2
<1>2. k \in Int /\ Owed(b, c) \in Nat
  BY OwedBounds
<1>3. Shifted(b, d, c, a, k, a, 0)
  BY <1>1 DEF Shifted
<1> HIDE DEF d, k
<1>4. Owed(d, c) = Owed(b, c) + k + 0
  BY <1>2, <1>3, OwedMoves
<1> QED
  BY <1>2, <1>4 DEF d, k

(* so it keeps them equal, in either family,                                *)
LEMMA DepositKeepsBacking ==
  ASSUME CustodyInv, Backed, Deposit
  PROVE  Backed'
<1> SUFFICES ASSUME NEW c \in Colours
             PROVE  /\ Owed(shieldedBalances', c) = PoolValue(c)'
                    /\ Owed(unshieldedBalances', c) = unshieldedHeld'[c]
  BY DEF Backed, ShieldedBacked, UnshieldedBacked
<1>1. /\ Owed(shieldedBalances, c) = PoolValue(c)
      /\ Owed(unshieldedBalances, c) = unshieldedHeld[c]
      /\ shieldedBalances \in Balances /\ unshieldedBalances \in Balances
      /\ PoolOK(PoolState)
      /\ unshieldedHeld \in [Colours -> Uint128]
  BY DEF Backed, ShieldedBacked, UnshieldedBacked, CustodyInv
<1>2. unshieldedHeld[c] \in Nat /\ PoolValue(c) \in Nat
  BY <1>1, WidthAssumption
  DEF PoolOK, PooledCoin, Uint128, PoolValue, PoolState
<1>3. ASSUME NEW col \in ShieldedTokens, NEW v \in Uint128,
             NEW acct \in AccountIds, DepositShielded(col, v, acct)
      PROVE  /\ Owed(shieldedBalances', c) = PoolValue(c)'
             /\ Owed(unshieldedBalances', c) = unshieldedHeld'[c]
  <2>1. /\ col \in Colours /\ v \in Nat /\ v > 0
        /\ Receivable(PoolState, col, v)
        /\ BecomePool(PoolAfterReceive(PoolState, col, v))
        /\ shieldedBalances' = BalanceSet(shieldedBalances, acct, col,
                                          shieldedBalances[acct][col] + v)
        /\ UNCHANGED <<unshieldedBalances, unshieldedHeld>>
    BY <1>3, TokenAssumption, WidthAssumption DEF DepositShielded, Uint128
  <2>2. Worth(PoolState', c) =
          Worth(PoolState, c) + (IF c = col THEN v ELSE 0)
    <3> DEFINE qs == PoolAfterReceive(PoolState, col, v)
    <3>1. /\ PoolOK(qs)
          /\ Worth(qs, col) = Worth(PoolState, col) + v
          /\ \A y \in Colours \ {col} : Worth(qs, y) = Worth(PoolState, y)
      BY <1>1, <2>1, ReceiveIntoPool
    <3> HIDE DEF qs
    <3>2. PoolState' = qs
      BY <2>1, <3>1 DEF BecomePool, PoolState, PoolOK, qs
    <3>3. Worth(PoolState, c) \in Nat
      BY <1>2 DEF Worth, PoolValue, PoolState
    <3> QED
      BY <3>1, <3>2, <3>3
  <2>3. Owed(shieldedBalances', c) =
          Owed(shieldedBalances, c) + (IF c = col THEN v ELSE 0)
    BY <1>1, <2>1, OwedCredited
  <2> QED
    BY <1>1, <2>1, <2>2, <2>3 DEF Worth, PoolValue, PoolState
<1>4. ASSUME NEW col \in UnshieldedTokens, NEW v \in Uint128,
             NEW acct \in AccountIds, DepositUnshielded(col, v, acct)
      PROVE  /\ Owed(shieldedBalances', c) = PoolValue(c)'
             /\ Owed(unshieldedBalances', c) = unshieldedHeld'[c]
  <2>1. /\ col \in Colours /\ v \in Nat
        /\ unshieldedHeld' = [unshieldedHeld EXCEPT ![col] = @ + v]
        /\ unshieldedBalances' = BalanceSet(unshieldedBalances, acct, col,
                                            unshieldedBalances[acct][col] + v)
        /\ UNCHANGED <<pools, shieldedBalances>>
    BY <1>4, TokenAssumption, WidthAssumption DEF DepositUnshielded, Uint128
  <2>2. Owed(unshieldedBalances', c) =
          Owed(unshieldedBalances, c) + (IF c = col THEN v ELSE 0)
    BY <1>1, <2>1, OwedCredited
  <2>3. unshieldedHeld'[c] = unshieldedHeld[c] + (IF c = col THEN v ELSE 0)
    BY <1>1, <1>2, <2>1
  <2> QED
    BY <1>1, <2>1, <2>2, <2>3 DEF PoolValue
<1> QED
  BY <1>3, <1>4 DEF Deposit

(* and nothing else moves either.                                           *)
LEMMA BackedInductive ==
  ASSUME RegistryInv, CustodyInv, Backed, [Next]_vars
  PROVE  Backed'
<1>1. CASE UNCHANGED custodyVars
  BY <1>1
  DEF custodyVars, Backed, ShieldedBacked, UnshieldedBacked, PoolValue
<1>2. ASSUME NEW p \in Payloads, NEW sk \in Secrets, NEW pk \in Owners,
             Execute(p, sk, pk)
      PROVE  Backed'
  BY <1>1, <1>2, ActionKeepsBacking DEF Execute, ExecuteRegistration
<1> QED
  BY <1>1, <1>2, DepositKeepsBacking DEF Next, Tick, vars

(* Hence in every reachable state.                                          *)
LEMMA BackedInvariant == Spec => []Backed
<1>1. RegistryInv /\ CustodyInv /\ Backed /\ [Next]_vars => Backed'
  BY BackedInductive
<1> QED
  BY <1>1, BackedInitially, CustodyInvariant, PTL DEF Spec

(* A colour's pooled coin is always worth what all accounts together are    *)
(* owed in it, for every set of accounts, colours, payloads and amounts.    *)
THEOREM ShieldedStaysBacked == Spec => []ShieldedBacked
  BY BackedInvariant, PTL DEF Backed

(* So is the contract's unshielded balance.                                 *)
THEOREM UnshieldedStaysBacked == Spec => []UnshieldedBacked
  BY BackedInvariant, PTL DEF Backed

(* What the contract holds always covers what an account can claim: once    *)
(* the account's own balance allows a payment, neither the pool guards nor  *)
(* the kernel's balance refuses it (the order of `custodyDispatch`'s        *)
(* asserts is then a matter of which message a caller sees).                *)
THEOREM PaymentsAreCovered ==
  Spec => [](\A p \in Payloads, a \in AccountIds :
               /\ AssertActionEnvelope(p) /\ ~ IsRegistration(p)
               /\ AccountCanPay(p, a)
               => PoolCanPay(p) /\ KernelCanPay(p))
<1> DEFINE Covered ==
      \A p \in Payloads, a \in AccountIds :
        /\ AssertActionEnvelope(p) /\ ~ IsRegistration(p)
        /\ AccountCanPay(p, a)
        => PoolCanPay(p) /\ KernelCanPay(p)
<1>1. CustodyInv /\ Backed => Covered
  <2> SUFFICES ASSUME CustodyInv, Backed,
                      NEW p \in Payloads, NEW a \in AccountIds,
                      AssertActionEnvelope(p), ~ IsRegistration(p),
                      AccountCanPay(p, a)
               PROVE  PoolCanPay(p) /\ KernelCanPay(p)
    OBVIOUS
  <2> DEFINE col == p.primaryColor
             amt == p.primaryAmount
  <2>1. col \in Colours /\ amt \in Nat /\ amt > 0
    BY ActionPayload, WidthAssumption DEF Uint128
  <2>2. /\ shieldedBalances \in Balances /\ unshieldedBalances \in Balances
        /\ Owed(shieldedBalances, col) = PoolValue(col)
        /\ Owed(unshieldedBalances, col) = unshieldedHeld[col]
    BY <2>1 DEF CustodyInv, Backed, ShieldedBacked, UnshieldedBacked
  <2>3. /\ shieldedBalances[a][col] \in Nat
        /\ unshieldedBalances[a][col] \in Nat
    BY <2>1, <2>2, WidthAssumption DEF Balances, Uint128
  <2>4. /\ shieldedBalances[a][col] <= PoolValue(col) /\ PoolValue(col) \in Nat
        /\ unshieldedBalances[a][col] <= unshieldedHeld[col]
        /\ unshieldedHeld[col] \in Nat
    BY <2>1, <2>2, OwedBounds
  <2>5. DebitBalance(p, a) >= amt
    BY DEF AccountCanPay
  <2> HIDE DEF col, amt
  <2>6. DebitShielded(p) => PoolValue(col) >= amt
    BY <2>1, <2>3, <2>4, <2>5 DEF DebitBalance, col
  <2>7. ~ DebitShielded(p) => unshieldedHeld[col] >= amt
    BY <2>1, <2>3, <2>4, <2>5 DEF DebitBalance, col
  <2>8. ASSUME NeedsPool(p)
        PROVE  col \in DOMAIN pools /\ pools[col].value >= amt
    BY <2>1, <2>6, <2>8 DEF NeedsPool, DebitShielded, PoolValue
  <2>9. p.selector = 3 => unshieldedHeld[col] >= amt
    BY <2>7 DEF DebitShielded
  <2> QED
    BY <2>8, <2>9 DEF PoolCanPay, KernelCanPay, col, amt
<1> HIDE DEF Covered
<1>2. Spec => []Covered
  BY <1>1, CustodyInvariant, BackedInvariant, PTL
<1> QED
  BY <1>2 DEF Covered
=============================================================================
