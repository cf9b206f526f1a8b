------------------------------ MODULE Manager -------------------------------
(***************************************************************************)
(* The manager contract as users drive it: `execute`, the one muxed entry  *)
(* point for registrations and custody actions, the two deposit circuits   *)
(* and the passing of block time (manager-port/src/execute.rs).  A call    *)
(* that fails any assert has no effect, so a refused call is not a step.   *)
(***************************************************************************)
EXTENDS Custody, Eip712

CONSTANTS
  Payloads,    \* the payloads clients submit
  Signed,      \* <<address, digest>>: the digests each owner has signed
  LiveHorizon, \* 3600 seconds
  ShieldedTokens, UnshieldedTokens  \* the colours depositors hold coins of

VARIABLE blockTime

ASSUME PayloadAssumption == Payloads \subseteq ExecutePayload
ASSUME TokenAssumption ==
  ShieldedTokens \subseteq Colours /\ UnshieldedTokens \subseteq Colours
ASSUME HorizonAssumption == LiveHorizon \in Nat \ {0}

vars == <<registryVars, custodyVars, blockTime>>

Init == RegistryInit /\ CustodyInit /\ blockTime = 0

----------------------------------------------------------------------------
IsEvmAuthorized(p) == p.authMode = 1

(* Mutant of AssertLiveDeadline: no horizon.                                *)
OnlyUnexpired(validUntil) == blockTime < validUntil

(* `assertLiveDeadline(validUntil)`: at most LiveHorizon ahead, not passed. *)
AssertLiveDeadline(validUntil) ==
  /\ validUntil > LiveHorizon
  /\ blockTime >= validUntil - LiveHorizon
  /\ blockTime < validUntil

(* The digest verifies under pk, and pk's address is the owner.             *)
SignatureAccepted(p, pk) == <<pk, EvmDigest(p)>> \in Signed /\ pk = p.owner

(* The ids the two hashes give for this call's witness and payload.         *)
NativeAccount(sk) == OwnerCommitment(sk)

(* Mutant of EvmRegistrationAccount: the id is taken as supplied.           *)
TrustedRegistrationAccount(p) == p.account

EvmRegistrationAccount(p) == EvmAccountId(p.owner, p.accountSalt)
AccountFor(p, sk) ==
  GatewayAccount(p, NativeAccount(sk), EvmRegistrationAccount(p))

(* Mutant of NonceIncrements: the sum is not range-checked.                 *)
UncheckedNonce(p) == p.nonce <= MaxUint64

(* The Uint<64> constraint on nonce + 1 binds under every selector.         *)
NonceIncrements(p) == p.nonce + 1 <= MaxUint64

(* Mutant of StoredNonce: the nonce stays as it was signed.                 *)
UnchangedNonce(p) == p.nonce

StoredNonce(p) == IF IsEvmRegistration(p) THEN 0 ELSE p.nonce + 1

(* What every call must satisfy before it touches the ledger.               *)
Authorised(p, sk, pk) ==
  /\ AssertActionEnvelope(p)
  /\ IsEvmRegistration(p) => EvmRegistrationAccount(p) = p.account
  /\ GatewayAdmits(p, NativeAccount(sk))
  /\ IsEvmAuthorized(p) => AssertLiveDeadline(p.validUntil)
  /\ IsEvmAuthorized(p) => SignatureAccepted(p, pk)
  /\ NonceIncrements(p)

(* Mutant of WriteNonce: run for every registration, native ones included.  *)
WriteNonceAlways(p, account) ==
  evmNonces' = IF IsEvmAuthorized(p) \/ IsRegistration(p)
               THEN Insert(evmNonces, account, StoredNonce(p))
               ELSE evmNonces

(* `evmNonces.insert`, the last write of the call.                          *)
WriteNonce(p, account) ==
  evmNonces' = IF IsEvmAuthorized(p)
               THEN Insert(evmNonces, account, StoredNonce(p))
               ELSE evmNonces

(* Selectors 0 and 1.                                                       *)
ExecuteRegistration(p, sk, pk) ==
  /\ Authorised(p, sk, pk)
  /\ IsRegistration(p)
  /\ RegisterAccount(AccountFor(p, sk), IF IsEvmRegistration(p) THEN 1 ELSE 0)
  /\ evmOwners' = IF IsEvmRegistration(p)
                  THEN Insert(evmOwners, AccountFor(p, sk), p.owner)
                  ELSE evmOwners
  /\ WriteNonce(p, AccountFor(p, sk))
  /\ UNCHANGED <<custodyVars, blockTime>>

(* Selectors 2 to 6.                                                        *)
ExecuteAction(p, sk, pk) ==
  /\ Authorised(p, sk, pk)
  /\ ~ IsRegistration(p)
  /\ CustodyDispatch(p, AccountFor(p, sk),
                     IsRegistered(p.toAccount), IsRegistered(p.creditAccount))
  /\ WriteNonce(p, AccountFor(p, sk))
  /\ UNCHANGED <<accounts, accountModes, evmOwners, blockTime>>

(* `execute(payload, sig, pk)` with the witness secret sk.                  *)
Execute(p, sk, pk) ==
  ExecuteRegistration(p, sk, pk) \/ ExecuteAction(p, sk, pk)

(* The deposit circuits, called by whoever holds the coin.                  *)
Deposit ==
  /\ \E v \in Uint128, acct \in AccountIds :
       \/ \E col \in ShieldedTokens : DepositShielded(col, v, acct)
       \/ \E col \in UnshieldedTokens : DepositUnshielded(col, v, acct)
  /\ UNCHANGED <<registryVars, blockTime>>

(* The chain's clock; MaxUint64 bounds it.                                  *)
Tick ==
  /\ blockTime < MaxUint64
  /\ blockTime' = blockTime + 1
  /\ UNCHANGED <<registryVars, custodyVars>>

Next ==
  \/ \E p \in Payloads, sk \in Secrets, pk \in Owners : Execute(p, sk, pk)
  \/ Deposit
  \/ Tick

Spec == Init /\ [][Next]_vars

----------------------------------------------------------------------------
TypeOK == RegistryTypeOK /\ CustodyTypeOK /\ blockTime \in Uint64

(* Registration is for ever: an account never leaves, changes mode or       *)
(* owner, and its nonce never goes back, whatever calls follow.  A          *)
(* registration signed once can be submitted again at any time; if it were  *)
(* taken twice it would reset the nonce and revive every old signature      *)
(* (register_account refuses a taken id).                                   *)
RegistrationKept ==
  /\ accounts \subseteq accounts'
  /\ \A a \in accounts :
       /\ accountModes'[a] = accountModes[a]
       /\ a \in DOMAIN evmOwners =>
            /\ a \in DOMAIN evmOwners' /\ evmOwners'[a] = evmOwners[a]
            /\ a \in DOMAIN evmNonces' /\ evmNonces'[a] >= evmNonces[a]

RegistrationIsPermanent == [][RegistrationKept]_vars

(* What `accountRecord` tells a wallet is what `execute` will check: an EVM *)
(* action passes the registry exactly when its owner and nonce are the      *)
(* record's, so a wallet that reads the record never signs a payload the    *)
(* gateway refuses for its identity.                                        *)
RecordAuthorises ==
  \A p \in Payloads :
    IsAction(p) /\ p.authMode = 1 =>
      (EvmActionAuthenticated(p) <=>
         AccountRecord(p.account) =
           [registered |-> TRUE, mode |-> 1,
            owner |-> p.owner, nextNonce |-> p.nonce])

(* The cells of an account that a step lowers.                              *)
Loses(a) ==
  \E col \in Colours :
    \/ shieldedBalances'[a][col] < shieldedBalances[a][col]
    \/ unshieldedBalances'[a][col] < unshieldedBalances[a][col]

(* An EVM account's nonce is the count of what its owner authorised: it     *)
(* starts at 0, a step moves it by one or not at all, and no step takes     *)
(* value out of the account without moving it, so no signature pays twice   *)
(* (execute.rs writes the nonce after the dispatch, gateway_account         *)
(* compares it before).                                                     *)
NonceCounts(a) ==
  /\ a \in DOMAIN evmNonces' \ DOMAIN evmNonces => evmNonces'[a] = 0
  /\ a \in DOMAIN evmNonces =>
       /\ evmNonces'[a] - evmNonces[a] \in {0, 1}
       /\ Loses(a) => evmNonces'[a] = evmNonces[a] + 1

DebitConsumesNonce == [][\A a \in AccountIds : NonceCounts(a)]_vars

(* What p takes out of account a is what a step takes out of it, and no     *)
(* other account gains anything but p's credit.                             *)
Carries(p, a) ==
  /\ DebitBalance(p, a)' = DebitBalance(p, a) - p.primaryAmount
  /\ \A b \in AccountIds \ {a}, col \in Colours :
       LET shieldedGain == shieldedBalances'[b][col] - shieldedBalances[b][col]
           unshieldedGain ==
             unshieldedBalances'[b][col] - unshieldedBalances[b][col]
           credited(select) ==
             IF HasCredit(p) /\ select /\ b = CreditAccount(p)
                  /\ col = CreditColour(p)
             THEN CreditValue(p) ELSE 0
       IN /\ shieldedGain = credited(CreditShielded(p))
          /\ unshieldedGain = credited(~ CreditShielded(p))

(* The owner of EVM account a has signed p for the account's next nonce,    *)
(* with a deadline ahead of the block time and within the horizon of it.    *)
Consents(p, a) ==
  /\ p.account = a /\ p.owner = evmOwners[a] /\ p.nonce = evmNonces[a]
  /\ <<evmOwners[a], EvmDigest(p)>> \in Signed
  /\ blockTime < p.validUntil /\ p.validUntil <= blockTime + LiveHorizon

(* An EVM account loses value, or its nonce moves, only by an action its    *)
(* registered owner signed for just that nonce and a live deadline, and     *)
(* the step then does what was signed: the amount, the colour, the family   *)
(* and the beneficiary.  No payload that names another owner, reuses a      *)
(* digest or shows up out of its time takes anything from it                *)
(* (`authenticatedActionAccount` and the signature asserts of `execute`).   *)
ConsentedDebit(a) ==
  Loses(a) \/ evmNonces'[a] # evmNonces[a]
    => \E p \in Payloads : Consents(p, a) /\ Carries(p, a)

DebitsAreConsented ==
  [][\A a \in DOMAIN evmOwners : ConsentedDebit(a)]_vars

----------------------------------------------------------------------------
(* The contract as CustodyPromise sees it: a token is a colour in a family. *)
Cells == {"shielded", "unshielded"} \X Colours

Claims ==
  [a \in AccountIds |-> [t \in Cells |->
     IF t[1] = "shielded" THEN shieldedBalances[a][t[2]]
                          ELSE unshieldedBalances[a][t[2]]]]

Vault ==
  [t \in Cells |-> IF t[1] = "shielded" THEN PoolValue(t[2])
                                        ELSE unshieldedHeld[t[2]]]

Promise == INSTANCE CustodyPromise
  WITH Members <- AccountIds, Tokens <- Cells, Amounts <- Uint128,
       members <- accounts, claims <- Claims, vault <- Vault

(* Whatever the selector mux, the pool's coins and the order of the writes, *)
(* every call is one step of CustodyPromise: a claim is paid in full, in    *)
(* its own colour and family, to one beneficiary, and what comes in is      *)
(* credited whole, once.                                                    *)
PromiseKept == Promise!Spec
=============================================================================
