--------------------------- MODULE CallTranscript ---------------------------
(***************************************************************************)
(* One call as the proof carries it: the answers the ledger gave to the    *)
(* circuit's reads, and the writes the circuit computed from those answers *)
(* and from nothing else.  The circuits are manager-port/src/execute.rs,   *)
(* account_registry.rs and custody.rs; which reads a call makes under each *)
(* selector is what prove-bench/src/model.rs lists, in order.              *)
(*                                                                         *)
(* The reads of `kernel.self()` and `deploymentDomain` have one answer for *)
(* ever and are left out.  No call reads a cell after writing it: a        *)
(* transfer's two accounts and a swap's two colours differ.                *)
(***************************************************************************)
EXTENDS Manager

VARIABLE cells  \* balance field -> the <<account, colour>> cells that exist

BalanceFields == {"shieldedBalances", "unshieldedBalances"}
BalanceKeys == AccountIds \X Colours

CellsInit == cells = [f \in BalanceFields |-> {}]

----------------------------------------------------------------------------
(* A read is a query; its answer is what the operation pops.                *)
Member(field, key) == <<"member", field, key>>
Lookup(field, key) == <<"lookup", field, key>>
FundsBelow(col, v) == <<"fundsBelow", col, v>>
BlockTimeBelow(t) == <<"timeBelow", t>>

(* The keys a field holds.                                                  *)
Keys(field) ==
  [accounts |-> accounts,
   accountModes |-> DOMAIN accountModes,
   evmOwners |-> DOMAIN evmOwners,
   evmNonces |-> DOMAIN evmNonces,
   pools |-> DOMAIN pools,
   shieldedBalances |-> cells["shieldedBalances"],
   unshieldedBalances |-> cells["unshieldedBalances"]][field]

Stored(field, key) ==
  IF field = "accountModes" THEN accountModes[key]
  ELSE IF field = "evmOwners" THEN evmOwners[key]
  ELSE IF field = "evmNonces" THEN evmNonces[key]
  ELSE IF field = "pools" THEN pools[key]
  ELSE IF field = "shieldedBalances" THEN shieldedBalances[key[1]][key[2]]
  ELSE unshieldedBalances[key[1]][key[2]]

(* A lookup of an absent key has no answer.                                 *)
Answerable(q) == q[1] = "lookup" => q[3] \in Keys(q[2])

Answer(q) ==
  IF q[1] = "member" THEN q[3] \in Keys(q[2])
  ELSE IF q[1] = "lookup" THEN Stored(q[2], q[3])
  ELSE IF q[1] = "fundsBelow" THEN unshieldedHeld[q[2]] < q[3]
  ELSE blockTime < q[2]

(* `run` in verify mode: every recorded answer is the ledger's own.         *)
Matches(reads) ==
  \A q \in DOMAIN reads : Answerable(q) /\ Answer(q) = reads[q]

----------------------------------------------------------------------------
(* `member(k) ? lookup(k) : default`: the lookup is guarded by the member.  *)
Entry(field, key) ==
  {Member(field, key)}
    \cup (IF key \in Keys(field) THEN {Lookup(field, key)} ELSE {})

NativeAuthReads(acct) ==
  {Member("accounts", acct)} \cup Entry("accountModes", acct)
    \cup {Member("evmOwners", acct), Member("evmNonces", acct)}

EvmAuthReads(acct) ==
  {Member("accounts", acct)} \cup Entry("accountModes", acct)
    \cup Entry("evmOwners", acct) \cup Entry("evmNonces", acct)

(* The registry-to-custody seam, read under every action.                   *)
SeamRegistryReads(p) ==
  {Member("accounts", p.toAccount), Member("accounts", p.creditAccount)}

LiveDeadlineReads(p) ==
  {BlockTimeBelow(p.validUntil - LiveHorizon), BlockTimeBelow(p.validUntil)}

DebitField(p) ==
  IF DebitShielded(p) THEN "shieldedBalances" ELSE "unshieldedBalances"
CreditField(p) ==
  IF CreditShielded(p) THEN "shieldedBalances" ELSE "unshieldedBalances"
DebitKey(p, account) == <<account, p.primaryColor>>
CreditKey(p) == <<CreditAccount(p), CreditColour(p)>>

(* Mutant of DispatchReads: the credit cell is taken to be missing.         *)
CreditUnread(p, account) ==
  Entry(DebitField(p), DebitKey(p, account))
    \cup (IF NeedsPool(p) THEN Entry("pools", p.primaryColor) ELSE {})
    \cup (IF p.selector = 3
          THEN {FundsBelow(p.primaryColor, p.primaryAmount)} ELSE {})
    \cup (IF IsSwap(p) THEN Entry("pools", p.wantColor) ELSE {})

(* `custodyDispatch`'s own reads: the debit cell, the give and want pools,  *)
(* the kernel's funds, the credit cell.                                     *)
DispatchReads(p, account) ==
  Entry(DebitField(p), DebitKey(p, account))
    \cup (IF NeedsPool(p) THEN Entry("pools", p.primaryColor) ELSE {})
    \cup (IF p.selector = 3
          THEN {FundsBelow(p.primaryColor, p.primaryAmount)} ELSE {})
    \cup (IF IsSwap(p) THEN Entry("pools", p.wantColor) ELSE {})
    \cup (IF HasCredit(p) THEN Entry(CreditField(p), CreditKey(p)) ELSE {})

RegistrationReads(account) ==
  {Member("accounts", account), Member("accountModes", account)}

ExecuteReads(p, sk) ==
  LET account == AccountFor(p, sk)
  IN (IF IsEvmAuthorized(p) THEN LiveDeadlineReads(p) ELSE {})
     \cup (IF IsRegistration(p) THEN RegistrationReads(account)
           ELSE (IF IsEvmAuthorized(p) THEN EvmAuthReads(account)
                                       ELSE NativeAuthReads(account))
                \cup SeamRegistryReads(p) \cup DispatchReads(p, account))

DepositReads(field, col, acct) ==
  {Member("accounts", acct)} \cup Entry(field, <<acct, col>>)
    \cup (IF field = "shieldedBalances" THEN Entry("pools", col) ELSE {})

(* The transcript a prover records against the ledger it sees.              *)
Recorded(queries) == [q \in queries |-> Answer(q)]

----------------------------------------------------------------------------
(* What the circuit gets: a gate whose guard is off yields the type default *)
(* and takes nothing from the transcript.                                   *)
NoCoin == [value |-> 0, mtIndex |-> 0]
BalanceIn(reads, field, key) ==
  IF Lookup(field, key) \in DOMAIN reads THEN reads[Lookup(field, key)] ELSE 0
PooledIn(reads, col) ==
  IF Lookup("pools", col) \in DOMAIN reads
  THEN reads[Lookup("pools", col)] ELSE NoCoin

DebitIn(p, account, reads) ==
  BalanceIn(reads, DebitField(p), DebitKey(p, account))
CreditIn(p, reads) ==
  IF HasCredit(p) THEN BalanceIn(reads, CreditField(p), CreditKey(p)) ELSE 0
GiveIn(p, reads) ==
  IF NeedsPool(p) THEN PooledIn(reads, p.primaryColor) ELSE NoCoin
WantIn(p, reads) ==
  IF IsSwap(p) THEN PooledIn(reads, p.wantColor) ELSE NoCoin

NativeAuthenticatedIn(p, nativeAccount, reads) ==
  /\ reads[Member("accounts", nativeAccount)]
  /\ reads[Member("accountModes", nativeAccount)]
  /\ reads[Lookup("accountModes", nativeAccount)] = 0
  /\ nativeAccount = p.account
  /\ ~ reads[Member("evmOwners", nativeAccount)]
  /\ ~ reads[Member("evmNonces", nativeAccount)]

EvmAuthenticatedIn(p, reads) ==
  /\ reads[Member("accounts", p.account)]
  /\ reads[Member("accountModes", p.account)]
  /\ reads[Lookup("accountModes", p.account)] = 1
  /\ reads[Member("evmOwners", p.account)]
  /\ reads[Member("evmNonces", p.account)]
  /\ p.owner = reads[Lookup("evmOwners", p.account)]
  /\ p.nonce = reads[Lookup("evmNonces", p.account)]

DeadlineIn(p, reads) ==
  /\ p.validUntil > LiveHorizon
  /\ ~ reads[BlockTimeBelow(p.validUntil - LiveHorizon)]
  /\ reads[BlockTimeBelow(p.validUntil)]

(* The asserts of `custodyDispatch`, over the recorded answers.             *)
DispatchIn(p, account, reads) ==
  /\ SwapSane(p)
  /\ DestinationSane(p, account, reads[Member("accounts", p.toAccount)])
  /\ DebitIn(p, account, reads) >= p.primaryAmount
  /\ NeedsPool(p) => /\ reads[Member("pools", p.primaryColor)]
                     /\ GiveIn(p, reads).value >= p.primaryAmount
  /\ CreditTargetSane(p, reads[Member("accounts", p.creditAccount)])
  /\ p.selector = 3 => ~ reads[FundsBelow(p.primaryColor, p.primaryAmount)]

(* Mutant of GivenIn: the give amount is not clamped.                       *)
UnclampedGiven(p, reads) == p.primaryAmount
GivenIn(p, reads) == SafeGive(GiveIn(p, reads).value, p.primaryAmount)

(* The range checks on computed values.  A circuit evaluates both arms of   *)
(* every branch, so these bind under every selector, whatever was read.     *)
ArithmeticFits(p, account, reads) ==
  /\ GivenIn(p, reads) <= GiveIn(p, reads).value
  /\ p.primaryAmount <= DebitIn(p, account, reads)
  /\ WantIn(p, reads).value + p.wantAmount <= MaxUint128
  /\ CreditIn(p, reads) + CreditValue(p) <= MaxUint128
  /\ NonceIncrements(p)

(* The circuit's statement about one call and its recorded answers.         *)
CircuitAccepts(p, sk, pk, reads) ==
  LET account == AccountFor(p, sk)
  IN /\ AssertActionEnvelope(p)
     /\ IsEvmRegistration(p) => account = p.account
     /\ IsAction(p) =>
          IF IsEvmAuthorized(p) THEN EvmAuthenticatedIn(p, reads)
          ELSE NativeAuthenticatedIn(p, NativeAccount(sk), reads)
     /\ IsEvmAuthorized(p) => DeadlineIn(p, reads) /\ SignatureAccepted(p, pk)
     /\ IsRegistration(p) => \A q \in RegistrationReads(account) : ~ reads[q]
     /\ IsAction(p) => DispatchIn(p, account, reads)
     /\ ArithmeticFits(p, account, reads)

(* Mutant of DepositAccepts: the sums are not range-checked.                *)
DepositUnchecked(field, col, v, acct, reads) ==
  v > 0 /\ reads[Member("accounts", acct)]

DepositAccepts(field, col, v, acct, reads) ==
  /\ v > 0
  /\ reads[Member("accounts", acct)]
  /\ BalanceIn(reads, field, <<acct, col>>) + v <= MaxUint128
  /\ PooledIn(reads, col).value + v <= MaxUint128

----------------------------------------------------------------------------
(* The writes.  Each stores a value the circuit computed from the recorded  *)
(* answers; only the pooled coin's leaf is assigned when the call applies.  *)
SpendRecorded(ps, col, coin) ==
  [ps EXCEPT !.coins =
     @ \ {[color |-> col, value |-> coin.value, mtIndex |-> coin.mtIndex]}]

PoolGiven(ps, p, reads) ==
  IF ~ NeedsPool(p) THEN ps
  ELSE RepoolOrRemove(SpendRecorded(ps, p.primaryColor, GiveIn(p, reads)),
                      p.primaryColor,
                      GiveIn(p, reads).value - GivenIn(p, reads))

PoolReceived(ps, col, v, reads) ==
  IF reads[Member("pools", col)]
  THEN InsertCoin(SpendRecorded(ps, col, PooledIn(reads, col)), col,
                  PooledIn(reads, col).value + v)
  ELSE InsertCoin(ps, col, v)

PoolWrites(p, reads) ==
  BecomePool(IF IsSwap(p)
             THEN PoolReceived(PoolGiven(PoolState, p, reads),
                               p.wantColor, p.wantAmount, reads)
             ELSE PoolGiven(PoolState, p, reads))

(* `Map.insert` of a balance cell.                                          *)
Put(balances, selected, key, v) ==
  IF selected THEN BalanceSet(balances, key[1], key[2], v) ELSE balances

(* Mutant of BalancesWritten: the debit is not written.                     *)
CreditOnlyWritten(balances, field, p, account, reads) ==
  Put(balances, HasCredit(p) /\ CreditField(p) = field, CreditKey(p),
      CreditIn(p, reads) + CreditValue(p))

BalancesWritten(balances, field, p, account, reads) ==
  Put(Put(balances, DebitField(p) = field, DebitKey(p, account),
          DebitIn(p, account, reads) - p.primaryAmount),
      HasCredit(p) /\ CreditField(p) = field, CreditKey(p),
      CreditIn(p, reads) + CreditValue(p))

CellsWritten(field, p, account) ==
  cells[field]
    \cup (IF DebitField(p) = field THEN {DebitKey(p, account)} ELSE {})
    \cup (IF HasCredit(p) /\ CreditField(p) = field THEN {CreditKey(p)} ELSE {})

RegistrationWrites(p, account) ==
  /\ accounts' = accounts \cup {account}
  /\ accountModes' =
       Insert(accountModes, account, IF IsEvmRegistration(p) THEN 1 ELSE 0)
  /\ evmOwners' = IF IsEvmRegistration(p)
                  THEN Insert(evmOwners, account, p.owner) ELSE evmOwners
  /\ UNCHANGED <<custodyVars, cells>>

ActionWrites(p, account, reads) ==
  /\ PoolWrites(p, reads)
  /\ UnshieldedGive(p)
  /\ shieldedBalances' =
       BalancesWritten(shieldedBalances, "shieldedBalances", p, account, reads)
  /\ unshieldedBalances' =
       BalancesWritten(unshieldedBalances, "unshieldedBalances",
                       p, account, reads)
  /\ cells' = [f \in BalanceFields |-> CellsWritten(f, p, account)]
  /\ UNCHANGED <<accounts, accountModes, evmOwners>>

ExecuteWrites(p, sk, reads) ==
  LET account == AccountFor(p, sk)
  IN /\ \/ IsRegistration(p) /\ RegistrationWrites(p, account)
        \/ IsAction(p) /\ ActionWrites(p, account, reads)
     /\ WriteNonce(p, account)
     /\ UNCHANGED blockTime

DepositWrites(field, col, v, acct, reads) ==
  LET credited == BalanceIn(reads, field, <<acct, col>>) + v
  IN /\ \/ /\ field = "shieldedBalances"
           /\ BecomePool(PoolReceived(PoolState, col, v, reads))
           /\ shieldedBalances' =
                BalanceSet(shieldedBalances, acct, col, credited)
           /\ UNCHANGED <<unshieldedBalances, unshieldedHeld>>
        \/ /\ field = "unshieldedBalances"
           /\ unshieldedHeld[col] + v <= MaxUint128
           /\ unshieldedHeld' = [unshieldedHeld EXCEPT ![col] = @ + v]
           /\ unshieldedBalances' =
                BalanceSet(unshieldedBalances, acct, col, credited)
           /\ UNCHANGED <<pools, coins, nextIndex, shieldedBalances>>
     /\ cells' = [cells EXCEPT ![field] = @ \cup {<<acct, col>>}]
     /\ UNCHANGED <<registryVars, blockTime>>
=============================================================================
