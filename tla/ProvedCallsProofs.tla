------------------------- MODULE ProvedCallsProofs --------------------------
(***************************************************************************)
(* A call proved early and applied late is a call executed then: every     *)
(* step of ProvedCalls is a step of Manager or leaves it alone, for every  *)
(* number of waiting calls and every choice of users and payloads.         *)
(***************************************************************************)
EXTENDS ProvedCalls, CustodyProofs

(* What one entry `member(k) ? lookup(k)` leaves in a recorded transcript.  *)
EntryIn(reads, field, key) ==
  /\ Member(field, key) \in DOMAIN reads
  /\ reads[Member(field, key)] => Lookup(field, key) \in DOMAIN reads
  /\ Lookup(field, key) \in DOMAIN reads => reads[Member(field, key)]

(* The four kinds of queries never coincide.                                *)
LEMMA QueriesApart ==
  ASSUME NEW f, NEW k, NEW g, NEW j
  PROVE  /\ Member(f, k) # Lookup(g, j)
         /\ FundsBelow(f, k) # Lookup(g, j)
         /\ BlockTimeBelow(k) # Lookup(g, j)
         /\ Lookup(f, k) = Lookup(g, j) => f = g /\ k = j
  BY DEF Member, Lookup, FundsBelow, BlockTimeBelow

(* What the ledger answers.                                                 *)
LEMMA Answers ==
  ASSUME NEW f, NEW k
  PROVE  /\ Answer(Member(f, k)) = (k \in Keys(f))
         /\ Answer(Lookup(f, k)) = Stored(f, k)
         /\ Answer(FundsBelow(f, k)) = (unshieldedHeld[f] < k)
         /\ Answer(BlockTimeBelow(k)) = (blockTime < k)
         /\ Answerable(Lookup(f, k)) <=> k \in Keys(f)
  BY DEF Answer, Answerable, Member, Lookup, FundsBelow, BlockTimeBelow

(* An answer that still holds is the ledger's own.                          *)
LEMMA Matched ==
  ASSUME NEW reads, Matches(reads), NEW f, NEW k
  PROVE  /\ Member(f, k) \in DOMAIN reads =>
              (reads[Member(f, k)] <=> k \in Keys(f))
         /\ Lookup(f, k) \in DOMAIN reads =>
              k \in Keys(f) /\ reads[Lookup(f, k)] = Stored(f, k)
         /\ FundsBelow(f, k) \in DOMAIN reads =>
              (reads[FundsBelow(f, k)] <=> unshieldedHeld[f] < k)
         /\ BlockTimeBelow(k) \in DOMAIN reads =>
              (reads[BlockTimeBelow(k)] <=> blockTime < k)
  BY Answers DEF Matches

(* A recorded entry has its lookup exactly if the key is there.             *)
LEMMA EntryRecorded ==
  ASSUME NEW Q, \A q \in Q : Answerable(q), NEW f, NEW k, Entry(f, k) \subseteq Q
  PROVE  EntryIn(Recorded(Q), f, k)
<1>1. Member(f, k) \in Q
  BY DEF Entry
<1>2. k \in Keys(f) => Lookup(f, k) \in Q
  BY DEF Entry
<1>3. Lookup(f, k) \in Q => k \in Keys(f)
  BY Answers
<1>4. Recorded(Q)[Member(f, k)] = (k \in Keys(f)) /\ DOMAIN Recorded(Q) = Q
  BY <1>1, Answers DEF Recorded
<1> QED
  BY <1>1, <1>2, <1>3, <1>4 DEF EntryIn

----------------------------------------------------------------------------
(* What the proof of an `execute` call has recorded.                        *)
ExecuteRecorded(p, sk, reads) ==
  LET account == AccountFor(p, sk)
  IN /\ IsEvmAuthorized(p) => LiveDeadlineReads(p) \subseteq DOMAIN reads
     /\ IsRegistration(p) => RegistrationReads(account) \subseteq DOMAIN reads
     /\ IsAction(p) =>
          /\ Member("accounts", account) \in DOMAIN reads
          /\ EntryIn(reads, "accountModes", account)
          /\ IsEvmAuthorized(p) => /\ EntryIn(reads, "evmOwners", account)
                                   /\ EntryIn(reads, "evmNonces", account)
          /\ Member("evmOwners", account) \in DOMAIN reads
          /\ Member("evmNonces", account) \in DOMAIN reads
          /\ SeamRegistryReads(p) \subseteq DOMAIN reads
          /\ EntryIn(reads, DebitField(p), DebitKey(p, account))
          /\ NeedsPool(p) => EntryIn(reads, "pools", p.primaryColor)
          /\ p.selector = 3 =>
               FundsBelow(p.primaryColor, p.primaryAmount) \in DOMAIN reads
          /\ IsSwap(p) => EntryIn(reads, "pools", p.wantColor)
          /\ HasCredit(p) => EntryIn(reads, CreditField(p), CreditKey(p))

(* And that of a deposit.                                                   *)
DepositRecorded(field, col, acct, reads) ==
  /\ Member("accounts", acct) \in DOMAIN reads
  /\ EntryIn(reads, field, <<acct, col>>)
  /\ field = "shieldedBalances" => EntryIn(reads, "pools", col)

(* Every read of a call has an answer.                                      *)
LEMMA EntryAnswerable ==
  ASSUME NEW f, NEW k, NEW q \in Entry(f, k)
  PROVE  Answerable(q)
  BY DEF Entry, Answerable, Member, Lookup

LEMMA ExecuteAnswerable ==
  ASSUME NEW p, NEW sk, NEW q \in ExecuteReads(p, sk)
  PROVE  Answerable(q)
<1> DEFINE account == AccountFor(p, sk)
<1>1. \A f, k : Answerable(Member(f, k))
  BY DEF Answerable, Member
<1>2. \A c, v : Answerable(FundsBelow(c, v))
  BY DEF Answerable, FundsBelow
<1>3. \A x \in LiveDeadlineReads(p) : Answerable(x)
  BY DEF LiveDeadlineReads, Answerable, BlockTimeBelow
<1>4. \A x \in RegistrationReads(account) : Answerable(x)
  BY <1>1 DEF RegistrationReads
<1>5. \A x \in NativeAuthReads(account) : Answerable(x)
  BY <1>1, EntryAnswerable DEF NativeAuthReads
<1>6. \A x \in EvmAuthReads(account) : Answerable(x)
  BY <1>1, EntryAnswerable DEF EvmAuthReads
<1>7. \A x \in SeamRegistryReads(p) : Answerable(x)
  BY <1>1 DEF SeamRegistryReads
<1>8. \A x \in DispatchReads(p, account) : Answerable(x)
  BY <1>2, EntryAnswerable DEF DispatchReads
<1> QED
  BY <1>3, <1>4, <1>5, <1>6, <1>7, <1>8 DEF ExecuteReads

LEMMA DepositAnswerable ==
  ASSUME NEW field, NEW col, NEW acct, NEW q \in DepositReads(field, col, acct)
  PROVE  Answerable(q)
<1>1. Answerable(Member("accounts", acct))
  BY DEF Answerable, Member
<1> QED
  BY <1>1, EntryAnswerable DEF DepositReads

LEMMA ExecuteRecords ==
  ASSUME NEW p, NEW sk
  PROVE  ExecuteRecorded(p, sk, Recorded(ExecuteReads(p, sk)))
<1> DEFINE account == AccountFor(p, sk)
           Q == ExecuteReads(p, sk)
<1>1. DOMAIN Recorded(Q) = Q
  BY DEF Recorded
<1>2. \A q \in Q : Answerable(q)
  BY ExecuteAnswerable
<1>3. IsEvmAuthorized(p) => LiveDeadlineReads(p) \subseteq Q
  BY DEF ExecuteReads
<1>4. IsRegistration(p) => RegistrationReads(account) \subseteq Q
  BY DEF ExecuteReads
<1>5. ASSUME IsAction(p)
      PROVE  /\ DispatchReads(p, account) \subseteq Q
             /\ SeamRegistryReads(p) \subseteq Q
             /\ IsEvmAuthorized(p) => EvmAuthReads(account) \subseteq Q
             /\ ~ IsEvmAuthorized(p) => NativeAuthReads(account) \subseteq Q
  BY <1>5 DEF ExecuteReads, IsAction
<1> HIDE DEF Q, account
<1>6. ASSUME IsAction(p)
      PROVE  /\ Member("accounts", account) \in Q
             /\ Entry("accountModes", account) \subseteq Q
             /\ IsEvmAuthorized(p) => /\ Entry("evmOwners", account) \subseteq Q
                                      /\ Entry("evmNonces", account) \subseteq Q
             /\ Member("evmOwners", account) \in Q
             /\ Member("evmNonces", account) \in Q
  <2>1. \A f : Member(f, account) \in Entry(f, account)
    BY DEF Entry
  <2> QED
    BY <1>5, <1>6, <2>1 DEF EvmAuthReads, NativeAuthReads
<1>7. ASSUME IsAction(p)
       PROVE  /\ Entry(DebitField(p), DebitKey(p, account)) \subseteq Q
              /\ NeedsPool(p) => Entry("pools", p.primaryColor) \subseteq Q
              /\ p.selector = 3 =>
                   FundsBelow(p.primaryColor, p.primaryAmount) \in Q
              /\ IsSwap(p) => Entry("pools", p.wantColor) \subseteq Q
              /\ HasCredit(p) => Entry(CreditField(p), CreditKey(p)) \subseteq Q
  BY <1>5, <1>7 DEF DispatchReads
<1>8. \A f, k : Entry(f, k) \subseteq Q => EntryIn(Recorded(Q), f, k)
  BY <1>2, EntryRecorded
<1> QED
  BY <1>1, <1>3, <1>4, <1>5, <1>6, <1>7, <1>8
  DEF ExecuteRecorded, account, Q

LEMMA DepositRecords ==
  ASSUME NEW field, NEW col, NEW acct
  PROVE  DepositRecorded(field, col, acct,
                         Recorded(DepositReads(field, col, acct)))
<1> DEFINE Q == DepositReads(field, col, acct)
<1>1. DOMAIN Recorded(Q) = Q
  BY DEF Recorded
<1>2. \A q \in Q : Answerable(q)
  BY DepositAnswerable
<1>3. /\ Member("accounts", acct) \in Q
      /\ Entry(field, <<acct, col>>) \subseteq Q
      /\ field = "shieldedBalances" => Entry("pools", col) \subseteq Q
  BY DEF DepositReads
<1> HIDE DEF Q
<1>4. \A f, k : Entry(f, k) \subseteq Q => EntryIn(Recorded(Q), f, k)
  BY <1>2, EntryRecorded
<1> QED
  BY <1>1, <1>3, <1>4 DEF DepositRecorded, Q

----------------------------------------------------------------------------
(* A balance cell that was never written holds nothing.                     *)
CellsOK ==
  /\ cells \in [BalanceFields -> SUBSET BalanceKeys]
  /\ \A a \in AccountIds, c \in Colours :
       /\ <<a, c>> \notin cells["shieldedBalances"] =>
            shieldedBalances[a][c] = 0
       /\ <<a, c>> \notin cells["unshieldedBalances"] =>
            unshieldedBalances[a][c] = 0

(* What the circuit takes for a cell's balance is its balance, ...          *)
LEMMA BalanceInIs ==
  ASSUME CellsOK, NEW reads, Matches(reads),
         NEW a \in AccountIds, NEW c \in Colours
  PROVE  /\ EntryIn(reads, "shieldedBalances", <<a, c>>) =>
              BalanceIn(reads, "shieldedBalances", <<a, c>>)
                = shieldedBalances[a][c]
         /\ EntryIn(reads, "unshieldedBalances", <<a, c>>) =>
              BalanceIn(reads, "unshieldedBalances", <<a, c>>)
                = unshieldedBalances[a][c]
<1> DEFINE k == <<a, c>>
<1>1. /\ Keys("shieldedBalances") = cells["shieldedBalances"]
      /\ Keys("unshieldedBalances") = cells["unshieldedBalances"]
      /\ Stored("shieldedBalances", k) = shieldedBalances[a][c]
      /\ Stored("unshieldedBalances", k) = unshieldedBalances[a][c]
  BY DEF Keys, Stored
<1>2. ASSUME NEW f, EntryIn(reads, f, k)
      PROVE  /\ k \in Keys(f) => BalanceIn(reads, f, k) = Stored(f, k)
             /\ k \notin Keys(f) => BalanceIn(reads, f, k) = 0
  BY <1>2, Matched DEF EntryIn, BalanceIn
<1> HIDE DEF k
<1> QED
  BY <1>1, <1>2 DEF CellsOK, k

(* ... and what it takes for a pooled coin is the coin, or none.            *)
LEMMA PooledInIs ==
  ASSUME NEW reads, Matches(reads), NEW c, EntryIn(reads, "pools", c)
  PROVE  /\ reads[Member("pools", c)] <=> c \in DOMAIN pools
         /\ c \in DOMAIN pools => PooledIn(reads, c) = pools[c]
         /\ c \notin DOMAIN pools => PooledIn(reads, c) = NoCoin
<1>1. Keys("pools") = DOMAIN pools
  BY DEF Keys
<1>2. c \in DOMAIN pools => Stored("pools", c) = pools[c]
  BY DEF Stored
<1> QED
  BY <1>1, <1>2, Matched DEF EntryIn, PooledIn

(* A proof whose recorded answers still hold meets every guard that comes   *)
(* before the ledger is touched.                                            *)
LEMMA StillAuthorised ==
  ASSUME RegistryInv, NEW p \in Payloads, NEW sk \in Secrets, NEW pk,
         NEW reads, ExecuteRecorded(p, sk, reads), Matches(reads),
         CircuitAccepts(p, sk, pk, reads)
  PROVE  Authorised(p, sk, pk)
<1> DEFINE account == AccountFor(p, sk)
<1>1. AssertActionEnvelope(p) /\ p \in ExecutePayload
  BY PayloadAssumption DEF CircuitAccepts
<1>2. p.authMode \in {0, 1}
  BY <1>1 DEF AssertActionEnvelope, ExecutePayload, Uint8
<1>3. IsEvmRegistration(p) => EvmRegistrationAccount(p) = p.account
  BY DEF CircuitAccepts, AccountFor, GatewayAccount, IsEvmRegistration,
         IsNativeRegistration
<1>4. ASSUME IsAction(p), IsEvmAuthorized(p)
      PROVE  EvmActionAuthenticated(p)
  <2>1. account = p.account
    BY <1>4 DEF AccountFor, GatewayAccount, IsAction, IsRegistration,
                IsNativeRegistration, IsEvmRegistration, IsEvmAuthorized
  <2>2. /\ Member("accounts", p.account) \in DOMAIN reads
        /\ EntryIn(reads, "accountModes", p.account)
        /\ EntryIn(reads, "evmOwners", p.account)
        /\ EntryIn(reads, "evmNonces", p.account)
    BY <1>4, <2>1 DEF ExecuteRecorded
  <2>3. EvmAuthenticatedIn(p, reads)
    BY <1>4 DEF CircuitAccepts
  <2>4. /\ Keys("accounts") = accounts
        /\ Keys("accountModes") = DOMAIN accountModes
        /\ Keys("evmOwners") = DOMAIN evmOwners
        /\ Keys("evmNonces") = DOMAIN evmNonces
        /\ Stored("accountModes", p.account) = accountModes[p.account]
        /\ Stored("evmOwners", p.account) = evmOwners[p.account]
        /\ Stored("evmNonces", p.account) = evmNonces[p.account]
    BY DEF Keys, Stored
  <2> QED
    BY <1>4, <2>2, <2>3, <2>4, Matched
    DEF EvmActionAuthenticated, EvmAuthenticatedIn, EntryIn, IsEvmAuthorized
<1>5. ASSUME IsAction(p), ~ IsEvmAuthorized(p)
      PROVE  NativeActionAuthenticated(p, NativeAccount(sk))
  <2>1. p.authMode = 0
    BY <1>2, <1>5 DEF IsEvmAuthorized
  <2>2. account = NativeAccount(sk)
    BY <1>5, <2>1
    DEF AccountFor, GatewayAccount, IsAction, IsRegistration,
        IsNativeRegistration, IsEvmRegistration
  <2>3. /\ Member("accounts", NativeAccount(sk)) \in DOMAIN reads
        /\ EntryIn(reads, "accountModes", NativeAccount(sk))
        /\ Member("evmOwners", NativeAccount(sk)) \in DOMAIN reads
        /\ Member("evmNonces", NativeAccount(sk)) \in DOMAIN reads
    BY <1>5, <2>2 DEF ExecuteRecorded
  <2>4. NativeAuthenticatedIn(p, NativeAccount(sk), reads)
    BY <1>5 DEF CircuitAccepts
  <2>5. /\ Keys("accounts") = accounts
        /\ Keys("accountModes") = DOMAIN accountModes
        /\ Keys("evmOwners") = DOMAIN evmOwners
        /\ Keys("evmNonces") = DOMAIN evmNonces
        /\ Stored("accountModes", NativeAccount(sk))
             = accountModes[NativeAccount(sk)]
    BY DEF Keys, Stored
  <2> QED
    BY <2>1, <2>3, <2>4, <2>5, Matched
    DEF NativeActionAuthenticated, AuthenticatedNativeAccount,
        NativeAuthenticatedIn, EntryIn
<1>6. GatewayAdmits(p, NativeAccount(sk))
  BY <1>2, <1>4, <1>5
  DEF GatewayAdmits, AuthenticatedActionAccount, IsEvmAuthorized
<1>7. ASSUME IsEvmAuthorized(p)
      PROVE  AssertLiveDeadline(p.validUntil) /\ SignatureAccepted(p, pk)
  <2>1. /\ BlockTimeBelow(p.validUntil - LiveHorizon) \in DOMAIN reads
        /\ BlockTimeBelow(p.validUntil) \in DOMAIN reads
    BY <1>7 DEF ExecuteRecorded, LiveDeadlineReads
  <2>2. DeadlineIn(p, reads) /\ SignatureAccepted(p, pk)
    BY <1>7 DEF CircuitAccepts
  <2>3. p.validUntil \in Nat /\ blockTime \in Nat /\ LiveHorizon \in Nat
    BY <1>1, WidthAssumption, HorizonAssumption
    DEF ExecutePayload, Uint64, RegistryInv
  <2> QED
    BY <2>1, <2>2, <2>3, Matched DEF DeadlineIn, AssertLiveDeadline
<1>8. NonceIncrements(p)
  BY DEF CircuitAccepts, ArithmeticFits
<1> QED
  BY <1>1, <1>3, <1>6, <1>7, <1>8 DEF Authorised

(* A registration that is applied is a registration executed.               *)
LEMMA ApplyRegistration ==
  ASSUME RegistryInv, NEW p \in Payloads, NEW sk \in Secrets, NEW pk,
         NEW reads, ExecuteRecorded(p, sk, reads), Matches(reads),
         CircuitAccepts(p, sk, pk, reads), IsRegistration(p),
         ExecuteWrites(p, sk, reads)
  PROVE  ExecuteRegistration(p, sk, pk)
<1> DEFINE account == AccountFor(p, sk)
<1>1. Authorised(p, sk, pk)
  BY StillAuthorised
<1>2. account # Zero
  <2>1. account \in AccountIds
    BY <1>1, RegistrationAccount DEF AccountIds
  <2> QED
    BY <2>1, HashAssumption
<1>3. account \notin accounts /\ account \notin DOMAIN accountModes
  <2>1. /\ Member("accounts", account) \in DOMAIN reads
        /\ Member("accountModes", account) \in DOMAIN reads
    BY DEF ExecuteRecorded, RegistrationReads
  <2>2. /\ ~ reads[Member("accounts", account)]
        /\ ~ reads[Member("accountModes", account)]
    BY DEF CircuitAccepts, RegistrationReads
  <2>3. /\ Keys("accounts") = accounts
        /\ Keys("accountModes") = DOMAIN accountModes
    BY DEF Keys
  <2> QED
    BY <2>1, <2>2, <2>3, Matched
<1>4. /\ RegistrationWrites(p, account)
      /\ WriteNonce(p, account)
      /\ UNCHANGED blockTime
  BY DEF ExecuteWrites, IsAction
<1> QED
  BY <1>1, <1>2, <1>3, <1>4
  DEF ExecuteRegistration, RegistrationWrites, RegisterAccount

----------------------------------------------------------------------------
LEMMA SpentPool ==
  ASSUME NEW ps, PoolOK(ps), NEW col
  PROVE  SpendPooled(ps, col) =
           [pools |-> ps.pools, coins |-> ps.coins \ {CoinOf(ps, col)},
            nextIndex |-> ps.nextIndex]
<1>1. ASSUME NEW m, NEW s, NEW n, NEW r
      PROVE  [[pools |-> m, coins |-> s, nextIndex |-> n] EXCEPT !.coins = @ \ {r}]
               = [pools |-> m, coins |-> s \ {r}, nextIndex |-> n]
  OBVIOUS
<1>2. ps = [pools |-> ps.pools, coins |-> ps.coins, nextIndex |-> ps.nextIndex]
  BY DEF PoolOK
<1> QED
  BY <1>1, <1>2 DEF SpendPooled

(* A give leaves the other colours' entries as they are, leaf and all.      *)
SameElsewhere(ps, qs, col) ==
  /\ \A c : c # col => (c \in DOMAIN qs.pools <=> c \in DOMAIN ps.pools)
  /\ \A c \in DOMAIN ps.pools \ {col} : qs.pools[c] = ps.pools[c]

LEMMA GiveElsewhere ==
  ASSUME NEW ps, PoolOK(ps), NEW col, NEW val,
         NEW qs, qs \in {SendShielded(ps, col, val), OpenGive(ps, col, val)}
  PROVE  SameElsewhere(ps, qs, col)
<1> DEFINE spent == SpendPooled(ps, col)
<1>1. /\ spent = [pools |-> spent.pools, coins |-> spent.coins,
                  nextIndex |-> spent.nextIndex]
      /\ spent.pools = ps.pools
  BY SpentPool
<1>2. RemovePool(spent, col).pools =
        [x \in DOMAIN ps.pools \ {col} |-> ps.pools[x]]
  <2>1. ASSUME NEW m, NEW s, NEW n, NEW r
        PROVE  [[pools |-> m, coins |-> s, nextIndex |-> n]
                  EXCEPT !.pools = Restrict(@, DOMAIN @ \ {r})].pools =
               Restrict(m, DOMAIN m \ {r})
    OBVIOUS
  <2> QED
    BY <1>1, <2>1 DEF RemovePool, Restrict
<1> HIDE DEF spent
<1>3. \A v : InsertCoin(spent, col, v).pools =
              Insert(ps.pools, col,
                     [value |-> v, mtIndex |-> spent.nextIndex])
  BY <1>1 DEF InsertCoin
<1>4. \/ qs = RemovePool(spent, col)
      \/ \E v : qs = InsertCoin(spent, col, v)
  BY DEF SendShielded, OpenGive, RepoolOrRemove, spent
<1>5. CASE qs = RemovePool(spent, col)
  BY <1>2, <1>5 DEF SameElsewhere
<1>6. ASSUME NEW v, qs = InsertCoin(spent, col, v)
      PROVE  /\ DOMAIN qs.pools = DOMAIN ps.pools \cup {col}
             /\ \A x \in DOMAIN ps.pools \ {col} : qs.pools[x] = ps.pools[x]
  <2>1. qs.pools = Insert(ps.pools, col,
                          [value |-> v, mtIndex |-> spent.nextIndex])
    BY <1>3, <1>6
  <2> QED
    BY <2>1 DEF Insert
<1> QED
  BY <1>4, <1>5, <1>6 DEF SameElsewhere

(* The pool half of an action that is applied.                              *)
LEMMA ApplyPools ==
  ASSUME CustodyInv, NEW p \in Payloads, AssertActionEnvelope(p),
         ~ IsRegistration(p), NEW account, NEW reads, Matches(reads),
         NeedsPool(p) => EntryIn(reads, "pools", p.primaryColor),
         IsSwap(p) => EntryIn(reads, "pools", p.wantColor),
         DispatchIn(p, account, reads), ArithmeticFits(p, account, reads),
         PoolWrites(p, reads)
  PROVE  PoolCanPay(p) /\ ShieldedLegs(p)
<1> DEFINE given == PoolAfterGive(p)
           col == p.primaryColor
<1>1. /\ p.primaryColor \in Colours /\ p.wantColor \in Colours
      /\ p.primaryAmount \in Uint128 /\ p.wantAmount \in Uint128
      /\ IsSwap(p) => p.primaryColor # p.wantColor
  BY ActionPayload DEF IsSwap
<1>2. PoolOK(PoolState)
  BY DEF CustodyInv
<1>3. ASSUME NeedsPool(p)
      PROVE  /\ col \in DOMAIN pools
             /\ GiveIn(p, reads) = pools[col]
             /\ pools[col].value >= p.primaryAmount
             /\ pools[col].value \in Nat
  <2>1. col \in DOMAIN pools /\ GiveIn(p, reads) = pools[col]
    BY <1>3, PooledInIs DEF DispatchIn, GiveIn
  <2>2. pools[col].value \in Nat
    BY <1>2, <2>1, WidthAssumption DEF PoolOK, PoolState, PooledCoin, Uint128
  <2> QED
    BY <1>3, <2>1, <2>2 DEF DispatchIn
<1>4. PoolCanPay(p)
  BY <1>3 DEF PoolCanPay
<1>5. NeedsPool(p) => Spendable(PoolState, col)
  BY <1>2, <1>3 DEF PoolOK, PoolState, Spendable
<1>6. PoolGiven(PoolState, p, reads) = given
  <2>1. CASE ~ NeedsPool(p)
    BY <2>1 DEF PoolGiven, PoolAfterGive
  <2>2. CASE NeedsPool(p)
    <3> DEFINE change == pools[col].value
                           - SafeGive(pools[col].value, p.primaryAmount)
               spent == SpendPooled(PoolState, col)
    <3>1. SpendRecorded(PoolState, col, pools[col]) = spent
      BY DEF SpendRecorded, SpendPooled, CoinOf, PoolState
    <3>2. PoolGiven(PoolState, p, reads) = RepoolOrRemove(spent, col, change)
      BY <1>3, <2>2, <3>1 DEF PoolGiven, GivenIn
    <3>3. change \in Nat
      BY <1>1, <1>3, <2>2, WidthAssumption DEF SafeGive, Uint128
    <3>4. PoolState.pools = pools
      BY DEF PoolState
    <3>5. /\ SendShielded(PoolState, col, p.primaryAmount)
               = RepoolOrRemove(spent, col, change)
          /\ OpenGive(PoolState, col, p.primaryAmount)
               = RepoolOrRemove(spent, col, change)
      <4> HIDE DEF spent
      <4>1. SendShielded(PoolState, col, p.primaryAmount)
              = RepoolOrRemove(spent, col, change)
        BY <3>4 DEF SendShielded, spent
      <4>2. OpenGive(PoolState, col, p.primaryAmount)
              = IF change = 0 THEN RemovePool(spent, col)
                              ELSE InsertCoin(spent, col, change)
        BY <3>4 DEF OpenGive, spent
      <4> HIDE DEF change
      <4>3. change > 0 <=> change # 0
        BY <3>3
      <4> QED
        BY <4>1, <4>2, <4>3 DEF RepoolOrRemove
    <3> QED
      BY <2>2, <3>2, <3>5 DEF PoolAfterGive
  <2> QED
    BY <2>1, <2>2
<1>7. ASSUME NeedsPool(p)
      PROVE  given \in {SendShielded(PoolState, col, p.primaryAmount),
                        OpenGive(PoolState, col, p.primaryAmount)}
  BY <1>7 DEF PoolAfterGive
<1>8. CASE ~ IsSwap(p)
  BY <1>4, <1>5, <1>6, <1>8 DEF PoolWrites, ShieldedLegs
<1>9. CASE IsSwap(p)
  <2> DEFINE want == p.wantColor
  <2>1. NeedsPool(p) /\ want # col
    BY <1>1, <1>9 DEF IsSwap, NeedsPool
  <2>2. /\ want \in DOMAIN given.pools <=> want \in DOMAIN pools
        /\ want \in DOMAIN pools => given.pools[want] = pools[want]
    <3>1. PoolState.pools = pools
      BY DEF PoolState
    <3> HIDE DEF given, want, col
    <3>2. SameElsewhere(PoolState, given, col)
      BY <1>2, <1>7, <2>1, GiveElsewhere
    <3> QED
      BY <2>1, <3>1, <3>2 DEF SameElsewhere
  <2>3. PoolOK(given)
    <3>1. /\ col \in DOMAIN PoolState.pools
          /\ p.primaryAmount \in Nat
          /\ p.primaryAmount <= PoolState.pools[col].value
      BY <1>1, <1>3, <2>1, WidthAssumption DEF PoolState, Uint128
    <3> HIDE DEF given
    <3> QED
      BY <1>2, <1>7, <2>1, <3>1, GiveFromPool
  <2>4. /\ reads[Member("pools", want)] <=> want \in DOMAIN pools
        /\ want \in DOMAIN pools => PooledIn(reads, want) = pools[want]
    BY <1>9, PooledInIs
  <2>5. want \in DOMAIN pools => pools[want].value + p.wantAmount <= MaxUint128
    BY <1>9, <2>4 DEF ArithmeticFits, WantIn
  <2> HIDE DEF given
  <2>6. Receivable(given, want, p.wantAmount)
    BY <2>2, <2>3, <2>5 DEF Receivable, Spendable, PoolOK
  <2>7. PoolReceived(given, want, p.wantAmount, reads)
          = PoolAfterReceive(given, want, p.wantAmount)
    <3>1. want \in DOMAIN pools =>
            SpendRecorded(given, want, pools[want]) = SpendPooled(given, want)
      BY <2>2 DEF SpendRecorded, SpendPooled, CoinOf
    <3> QED
      BY <2>2, <2>4, <3>1 DEF PoolReceived, PoolAfterReceive
  <2>8. BecomePool(PoolAfterReceive(given, want, p.wantAmount))
    BY <1>6, <1>9, <2>7 DEF PoolWrites
  <2> QED
    BY <1>4, <1>5, <1>9, <2>6, <2>8 DEF ShieldedLegs, given
<1> QED
  BY <1>8, <1>9

----------------------------------------------------------------------------
(* One family's balances, written from recorded answers that still hold,    *)
(* are the family debited and then credited.                                *)
LEMMA FamilyWritten ==
  ASSUME NEW p, NEW account \in AccountIds, NEW reads, NEW field,
         p.primaryColor \in Colours, NEW b \in Balances,
         NEW take \in BOOLEAN, NEW give \in BOOLEAN,
         take <=> DebitField(p) = field, give <=> CreditField(p) = field,
         take => /\ DebitIn(p, account, reads) = DebitBalance(p, account)
                 /\ DebitBalance(p, account) - p.primaryAmount \in Uint128,
         HasCredit(p) /\ give =>
           /\ CreditAccount(p) \in AccountIds /\ CreditColour(p) \in Colours
           /\ ~ (CreditAccount(p) = account
                 /\ CreditColour(p) = p.primaryColor)
           /\ CreditIn(p, reads) = b[CreditAccount(p)][CreditColour(p)]
  PROVE  /\ BalancesWritten(b, field, p, account, reads)
              = Credited(Debited(b, take, p, account), give, p)
         /\ HasCredit(p) /\ give =>
              BalancesWritten(b, field, p, account, reads)
                  [CreditAccount(p)][CreditColour(p)]
                = CreditIn(p, reads) + CreditValue(p)
<1> DEFINE d == Debited(b, take, p, account)
           to == CreditAccount(p)
           cc == CreditColour(p)
           v == CreditIn(p, reads) + CreditValue(p)
<1>1. d = Put(b, DebitField(p) = field, DebitKey(p, account),
              DebitIn(p, account, reads) - p.primaryAmount)
  BY DEF Debited, Put, DebitKey
<1>2. d \in Balances
  BY BalanceSetRead DEF Debited
<1>3. BalancesWritten(b, field, p, account, reads)
        = IF HasCredit(p) /\ give THEN BalanceSet(d, to, cc, v) ELSE d
  <2> HIDE DEF d
  <2> QED
    BY <1>1 DEF BalancesWritten, Put, CreditKey
<1>4. ASSUME HasCredit(p) /\ give
      PROVE  d[to][cc] = b[to][cc]
  BY <1>4, BalanceSetRead DEF Debited
<1> HIDE DEF d
<1>5. CASE HasCredit(p) /\ give
  <2>1. Credited(d, give, p) = BalanceSet(d, to, cc, v)
    BY <1>4, <1>5 DEF Credited
  <2>2. BalanceSet(d, to, cc, v)[to][cc] = v
    BY <1>2, <1>5, BalanceSetRead
  <2> HIDE DEF to, cc, v
  <2> QED
    BY <1>3, <1>5, <2>1, <2>2 DEF d, to, cc, v
<1>6. CASE ~ (HasCredit(p) /\ give)
  BY <1>3, <1>6 DEF Credited, d
<1> QED
  BY <1>5, <1>6

(* The balance half of an action that is applied.                           *)
LEMMA ApplyBalances ==
  ASSUME RegistryInv, CustodyInv, CellsOK,
         NEW p \in Payloads, AssertActionEnvelope(p), ~ IsRegistration(p),
         NEW account \in accounts, NEW reads, Matches(reads),
         SeamRegistryReads(p) \subseteq DOMAIN reads,
         EntryIn(reads, DebitField(p), DebitKey(p, account)),
         HasCredit(p) => EntryIn(reads, CreditField(p), CreditKey(p)),
         DispatchIn(p, account, reads), ArithmeticFits(p, account, reads),
         shieldedBalances' = BalancesWritten(shieldedBalances,
                               "shieldedBalances", p, account, reads),
         unshieldedBalances' = BalancesWritten(unshieldedBalances,
                                 "unshieldedBalances", p, account, reads)
  PROVE  /\ AccountCanPay(p, account)
         /\ DestinationSane(p, account, IsRegistered(p.toAccount))
         /\ CreditTargetSane(p, IsRegistered(p.creditAccount))
         /\ BalanceWrites(p, account)
<1> DEFINE to == CreditAccount(p)
           cc == CreditColour(p)
<1>1. /\ p.selector \in 2 .. 6
      /\ p.primaryColor \in Colours /\ cc \in Colours
      /\ p.primaryAmount \in Nat /\ CreditValue(p) \in Nat
      /\ p.selector = 6 => p.primaryColor # p.wantColor
  BY ActionPayload, WidthAssumption DEF Uint128, CreditColour, CreditValue
<1>2. accounts \subseteq AccountIds
  BY DEF RegistryInv, RegistryTypeOK
<1>3. /\ reads[Member("accounts", p.toAccount)] <=> p.toAccount \in accounts
      /\ reads[Member("accounts", p.creditAccount)]
           <=> p.creditAccount \in accounts
  <2>1. Keys("accounts") = accounts
    BY DEF Keys
  <2> QED
    BY <2>1, Matched DEF SeamRegistryReads
<1>4. DestinationSane(p, account, IsRegistered(p.toAccount))
  BY <1>3 DEF DispatchIn, DestinationSane, IsRegistered
<1>5. CreditTargetSane(p, IsRegistered(p.creditAccount))
  BY <1>3 DEF DispatchIn, CreditTargetSane, IsRegistered
<1>6. ASSUME HasCredit(p)
      PROVE  /\ to \in accounts
             /\ ~ (to = account /\ cc = p.primaryColor)
  BY <1>1, <1>4, <1>5, <1>6
  DEF DestinationSane, CreditTargetSane, HasCredit, IsTransfer, IsSwap,
      IsRegistered, CreditAccount, CreditColour
<1>7. DebitIn(p, account, reads) = DebitBalance(p, account)
  BY <1>1, <1>2, BalanceInIs
  DEF DebitIn, DebitField, DebitKey, DebitBalance
<1>8. ASSUME HasCredit(p)
      PROVE  CreditIn(p, reads) = IF CreditShielded(p)
                                  THEN shieldedBalances[to][cc]
                                  ELSE unshieldedBalances[to][cc]
  BY <1>1, <1>2, <1>6, <1>8, BalanceInIs DEF CreditIn, CreditField, CreditKey
<1>9. AccountCanPay(p, account)
  BY <1>7 DEF DispatchIn, AccountCanPay
<1>10. DebitBalance(p, account) - p.primaryAmount \in Uint128
  <2>1. DebitBalance(p, account) \in Uint128
    BY <1>1, <1>2 DEF CustodyInv, Balances, DebitBalance
  <2> QED
    BY <1>1, <1>9, <2>1, WidthAssumption DEF AccountCanPay, Uint128
<1>11. /\ DebitShielded(p) <=> DebitField(p) = "shieldedBalances"
       /\ ~ DebitShielded(p) <=> DebitField(p) = "unshieldedBalances"
       /\ CreditShielded(p) <=> CreditField(p) = "shieldedBalances"
       /\ ~ CreditShielded(p) <=> CreditField(p) = "unshieldedBalances"
  BY DEF DebitField, CreditField
<1>12. HasCredit(p) => CreditIn(p, reads) + CreditValue(p) <= MaxUint128
  BY DEF ArithmeticFits
<1> HIDE DEF to, cc
<1>13. ASSUME NEW field, NEW b \in Balances,
              NEW take \in BOOLEAN, NEW give \in BOOLEAN,
              take <=> DebitField(p) = field, give <=> CreditField(p) = field,
              HasCredit(p) /\ give => CreditIn(p, reads) = b[to][cc]
       PROVE  LET r == BalancesWritten(b, field, p, account, reads)
              IN  /\ r = Credited(Debited(b, take, p, account), give, p)
                  /\ HasCredit(p) /\ give => r[to][cc] <= MaxUint128
  <2>1. account \in AccountIds /\ p.primaryColor \in Colours
    BY <1>1, <1>2
  <2>2. HasCredit(p) /\ give =>
          /\ CreditAccount(p) \in AccountIds /\ CreditColour(p) \in Colours
          /\ ~ (CreditAccount(p) = account
                /\ CreditColour(p) = p.primaryColor)
          /\ CreditIn(p, reads) = b[CreditAccount(p)][CreditColour(p)]
    BY <1>1, <1>2, <1>6, <1>13 DEF to, cc
  <2>3. take => /\ DebitIn(p, account, reads) = DebitBalance(p, account)
                /\ DebitBalance(p, account) - p.primaryAmount \in Uint128
    BY <1>7, <1>10
  <2>4. /\ BalancesWritten(b, field, p, account, reads)
             = Credited(Debited(b, take, p, account), give, p)
        /\ HasCredit(p) /\ give =>
             BalancesWritten(b, field, p, account, reads)[to][cc]
               = CreditIn(p, reads) + CreditValue(p)
    BY <1>13, <2>1, <2>2, <2>3, FamilyWritten DEF to, cc
  <2> QED
    BY <1>12, <2>4
<1>14. /\ shieldedBalances' =
            Credited(Debited(shieldedBalances, DebitShielded(p), p, account),
                     CreditShielded(p), p)
       /\ HasCredit(p) /\ CreditShielded(p) =>
            shieldedBalances'[to][cc] <= MaxUint128
  <2>1. DebitShielded(p) \in BOOLEAN /\ CreditShielded(p) \in BOOLEAN
    BY DEF DebitShielded, CreditShielded
  <2>2. shieldedBalances \in Balances
    BY DEF CustodyInv
  <2> QED
    BY <1>8, <1>11, <1>13, <2>1, <2>2
<1>15. /\ unshieldedBalances' =
            Credited(Debited(unshieldedBalances, ~ DebitShielded(p), p, account),
                     ~ CreditShielded(p), p)
       /\ HasCredit(p) /\ ~ CreditShielded(p) =>
            unshieldedBalances'[to][cc] <= MaxUint128
  <2> DEFINE take == ~ DebitShielded(p)
             give == ~ CreditShielded(p)
  <2>1. take \in BOOLEAN /\ give \in BOOLEAN
    BY DEF DebitShielded, CreditShielded
  <2>2. unshieldedBalances \in Balances
    BY DEF CustodyInv
  <2>3. /\ take <=> DebitField(p) = "unshieldedBalances"
        /\ give <=> CreditField(p) = "unshieldedBalances"
        /\ HasCredit(p) /\ give =>
             CreditIn(p, reads) = unshieldedBalances[to][cc]
    BY <1>8, <1>11
  <2> HIDE DEF take, give
  <2>4. /\ unshieldedBalances' =
             Credited(Debited(unshieldedBalances, take, p, account), give, p)
        /\ HasCredit(p) /\ give => unshieldedBalances'[to][cc] <= MaxUint128
    BY <1>13, <2>1, <2>2, <2>3
  <2> QED
    BY <2>4 DEF take, give
<1> QED
  BY <1>4, <1>5, <1>9, <1>14, <1>15 DEF BalanceWrites, Fits, to, cc

(* A custody action that is applied is a custody action executed.           *)
LEMMA ApplyAction ==
  ASSUME RegistryInv, CustodyInv, CellsOK,
         NEW p \in Payloads, NEW sk \in Secrets, NEW pk,
         NEW reads, ExecuteRecorded(p, sk, reads), Matches(reads),
         CircuitAccepts(p, sk, pk, reads), IsAction(p),
         ExecuteWrites(p, sk, reads)
  PROVE  ExecuteAction(p, sk, pk)
<1> DEFINE account == AccountFor(p, sk)
<1>1. Authorised(p, sk, pk) /\ ~ IsRegistration(p)
  BY StillAuthorised DEF IsAction
<1>2. account \in accounts /\ AssertActionEnvelope(p)
  BY <1>1, ActionAccount DEF Authorised
<1>3. /\ SeamRegistryReads(p) \subseteq DOMAIN reads
      /\ EntryIn(reads, DebitField(p), DebitKey(p, account))
      /\ NeedsPool(p) => EntryIn(reads, "pools", p.primaryColor)
      /\ p.selector = 3 =>
           FundsBelow(p.primaryColor, p.primaryAmount) \in DOMAIN reads
      /\ IsSwap(p) => EntryIn(reads, "pools", p.wantColor)
      /\ HasCredit(p) => EntryIn(reads, CreditField(p), CreditKey(p))
  BY DEF ExecuteRecorded
<1>4. DispatchIn(p, account, reads) /\ ArithmeticFits(p, account, reads)
  BY DEF CircuitAccepts
<1>5. /\ ActionWrites(p, account, reads)
      /\ WriteNonce(p, account)
      /\ UNCHANGED blockTime
  BY <1>1 DEF ExecuteWrites
<1> HIDE DEF account
<1>6. PoolCanPay(p) /\ ShieldedLegs(p)
  BY <1>1, <1>2, <1>3, <1>4, <1>5, ApplyPools DEF ActionWrites
<1>7. /\ AccountCanPay(p, account)
      /\ DestinationSane(p, account, IsRegistered(p.toAccount))
      /\ CreditTargetSane(p, IsRegistered(p.creditAccount))
      /\ BalanceWrites(p, account)
  BY <1>1, <1>2, <1>3, <1>4, <1>5, ApplyBalances DEF ActionWrites
<1>8. KernelCanPay(p)
  <2>1. p.primaryColor \in Colours /\ p.primaryAmount \in Nat
    BY <1>1, <1>2, ActionPayload, WidthAssumption DEF Uint128
  <2>2. unshieldedHeld[p.primaryColor] \in Nat
    BY <2>1, WidthAssumption DEF CustodyInv, Uint128
  <2>3. p.selector = 3 => ~ (unshieldedHeld[p.primaryColor] < p.primaryAmount)
    BY <1>3, <1>4, Matched DEF DispatchIn
  <2> QED
    BY <2>1, <2>2, <2>3 DEF KernelCanPay
<1>9. SwapSane(p) /\ UnshieldedGive(p)
  BY <1>4, <1>5 DEF DispatchIn, ActionWrites
<1>10. CustodyDispatch(p, account, IsRegistered(p.toAccount),
                       IsRegistered(p.creditAccount))
  BY <1>6, <1>7, <1>8, <1>9 DEF CustodyDispatch
<1> QED
  BY <1>1, <1>5, <1>10 DEF ExecuteAction, ActionWrites, account

(* A deposit that is applied is a deposit made.                             *)
LEMMA ApplyDeposit ==
  ASSUME CustodyInv, CellsOK,
         NEW field, NEW col, NEW v \in Uint128, NEW acct \in AccountIds,
         \/ field = "shieldedBalances" /\ col \in ShieldedTokens
         \/ field = "unshieldedBalances" /\ col \in UnshieldedTokens,
         NEW reads, DepositRecorded(field, col, acct, reads), Matches(reads),
         DepositAccepts(field, col, v, acct, reads),
         DepositWrites(field, col, v, acct, reads)
  PROVE  \/ field = "shieldedBalances" /\ DepositShielded(col, v, acct)
         \/ field = "unshieldedBalances" /\ DepositUnshielded(col, v, acct)
<1>1. acct \in accounts
  <2>1. Keys("accounts") = accounts
    BY DEF Keys
  <2> QED
    BY <2>1, Matched DEF DepositRecorded, DepositAccepts
<1>2. col \in Colours
  BY TokenAssumption
<1>3. /\ field = "shieldedBalances" =>
           BalanceIn(reads, field, <<acct, col>>) = shieldedBalances[acct][col]
      /\ field = "unshieldedBalances" =>
           BalanceIn(reads, field, <<acct, col>>)
             = unshieldedBalances[acct][col]
  BY <1>2, BalanceInIs DEF DepositRecorded
<1>4. CASE field = "unshieldedBalances"
  BY <1>1, <1>3, <1>4
  DEF DepositUnshielded, DepositWrites, DepositAccepts
<1>5. CASE field = "shieldedBalances"
  <2>1. PoolOK(PoolState) /\ PoolState.pools = pools
    BY DEF CustodyInv, PoolState
  <2>2. /\ reads[Member("pools", col)] <=> col \in DOMAIN pools
        /\ col \in DOMAIN pools => PooledIn(reads, col) = pools[col]
    BY <1>5, PooledInIs DEF DepositRecorded
  <2>3. Receivable(PoolState, col, v)
    BY <2>1, <2>2 DEF Receivable, Spendable, PoolOK, DepositAccepts
  <2>4. PoolReceived(PoolState, col, v, reads)
          = PoolAfterReceive(PoolState, col, v)
    <3>1. col \in DOMAIN pools =>
            SpendRecorded(PoolState, col, pools[col])
              = SpendPooled(PoolState, col)
      BY <2>1 DEF SpendRecorded, SpendPooled, CoinOf
    <3> QED
      BY <2>1, <2>2, <3>1 DEF PoolReceived, PoolAfterReceive
  <2> QED
    BY <1>1, <1>3, <1>5, <2>3, <2>4
    DEF DepositShielded, DepositWrites, DepositAccepts
<1> QED
  BY <1>4, <1>5

----------------------------------------------------------------------------
(* The cells stay those that were written.                                  *)
LEMMA ActionCells ==
  ASSUME RegistryInv, CustodyInv, CellsOK,
         NEW p \in Payloads, NEW sk \in Secrets, NEW pk,
         ExecuteAction(p, sk, pk),
         cells' = [f \in BalanceFields |->
                     CellsWritten(f, p, AccountFor(p, sk))]
  PROVE  CellsOK'
<1> DEFINE account == AccountFor(p, sk)
<1>1. /\ AssertActionEnvelope(p) /\ ~ IsRegistration(p)
      /\ account \in accounts
      /\ CustodyDispatch(p, account, IsRegistered(p.toAccount),
                         IsRegistered(p.creditAccount))
  BY ActionAccount DEF ExecuteAction, Authorised
<1>2. accounts \subseteq AccountIds
  BY DEF RegistryInv, RegistryTypeOK
<1> HIDE DEF account
<1>3. /\ HasCredit(p) => CreditAccount(p) \in accounts
      /\ \A x \in AccountIds, y \in Colours :
           /\ shieldedBalances'[x][y] =
                shieldedBalances[x][y]
                - Taken(p, account, DebitShielded(p), x, y)
                + Added(p, CreditShielded(p), x, y)
           /\ unshieldedBalances'[x][y] =
                unshieldedBalances[x][y]
                - Taken(p, account, ~ DebitShielded(p), x, y)
                + Added(p, ~ CreditShielded(p), x, y)
  BY <1>1, DispatchBalances
<1>4. /\ cells'["shieldedBalances"]
           = CellsWritten("shieldedBalances", p, account)
      /\ cells'["unshieldedBalances"]
           = CellsWritten("unshieldedBalances", p, account)
      /\ cells' \in [BalanceFields -> SUBSET BalanceKeys]
  <2>1. DebitKey(p, account) \in BalanceKeys
    BY <1>1, <1>2, ActionPayload DEF DebitKey, BalanceKeys
  <2>2. HasCredit(p) => CreditKey(p) \in BalanceKeys
    BY <1>1, <1>2, <1>3, ActionPayload
    DEF CreditKey, CreditColour, BalanceKeys
  <2>3. \A f \in BalanceFields : CellsWritten(f, p, account) \subseteq BalanceKeys
    BY <2>1, <2>2 DEF CellsWritten, CellsOK
  <2> QED
    BY <2>3 DEF BalanceFields, account
<1>5. ASSUME NEW x \in AccountIds, NEW y \in Colours
      PROVE  /\ <<x, y>> \notin cells'["shieldedBalances"] =>
                  shieldedBalances'[x][y] = 0
             /\ <<x, y>> \notin cells'["unshieldedBalances"] =>
                  unshieldedBalances'[x][y] = 0
  <2>1. /\ <<x, y>> = DebitKey(p, account) <=> x = account /\ y = p.primaryColor
        /\ <<x, y>> = CreditKey(p) <=>
             x = CreditAccount(p) /\ y = CreditColour(p)
    BY DEF DebitKey, CreditKey
  <2>2. ASSUME <<x, y>> \notin cells'["shieldedBalances"]
        PROVE  /\ shieldedBalances[x][y] = 0
               /\ Taken(p, account, DebitShielded(p), x, y) = 0
               /\ Added(p, CreditShielded(p), x, y) = 0
    BY <1>4, <2>1, <2>2
    DEF CellsWritten, CellsOK, DebitField, CreditField, Taken, Added
  <2>3. ASSUME <<x, y>> \notin cells'["unshieldedBalances"]
        PROVE  /\ unshieldedBalances[x][y] = 0
               /\ Taken(p, account, ~ DebitShielded(p), x, y) = 0
               /\ Added(p, ~ CreditShielded(p), x, y) = 0
    BY <1>4, <2>1, <2>3
    DEF CellsWritten, CellsOK, DebitField, CreditField, Taken, Added
  <2> QED
    BY <1>3, <2>2, <2>3
<1> QED
  BY <1>4, <1>5 DEF CellsOK

LEMMA DepositCells ==
  ASSUME CustodyInv, CellsOK,
         NEW field, NEW col \in Colours, NEW v, NEW acct \in AccountIds,
         \/ /\ field = "shieldedBalances"
            /\ UNCHANGED unshieldedBalances
            /\ \E w : shieldedBalances'
                        = BalanceSet(shieldedBalances, acct, col, w)
         \/ /\ field = "unshieldedBalances"
            /\ UNCHANGED shieldedBalances
            /\ \E w : unshieldedBalances'
                        = BalanceSet(unshieldedBalances, acct, col, w),
         cells' = [cells EXCEPT ![field] = @ \cup {<<acct, col>>}]
  PROVE  CellsOK'
<1>1. /\ cells' \in [BalanceFields -> SUBSET BalanceKeys]
      /\ cells'[field] = cells[field] \cup {<<acct, col>>}
      /\ \A f \in BalanceFields \ {field} : cells'[f] = cells[f]
  BY DEF CellsOK, BalanceFields, BalanceKeys
<1>2. shieldedBalances \in Balances /\ unshieldedBalances \in Balances
  BY DEF CustodyInv
<1>3. \A x \in AccountIds, y \in Colours :
        <<x, y>> = <<acct, col>> <=> x = acct /\ y = col
  OBVIOUS
<1>4. ASSUME NEW b \in Balances, NEW w,
             NEW x \in AccountIds, NEW y \in Colours, ~ (x = acct /\ y = col)
      PROVE  BalanceSet(b, acct, col, w)[x][y] = b[x][y]
  BY <1>4, BalanceSetRead
<1>5. CASE field = "shieldedBalances"
  <2>1. /\ cells'["unshieldedBalances"] = cells["unshieldedBalances"]
        /\ unshieldedBalances' = unshieldedBalances
    BY <1>1, <1>5 DEF BalanceFields
  <2> QED
    BY <1>1, <1>2, <1>3, <1>4, <1>5, <2>1 DEF CellsOK
<1>6. CASE field = "unshieldedBalances"
  <2>1. /\ cells'["shieldedBalances"] = cells["shieldedBalances"]
        /\ shieldedBalances' = shieldedBalances
    BY <1>1, <1>6 DEF BalanceFields
  <2> QED
    BY <1>1, <1>2, <1>3, <1>4, <1>6, <2>1 DEF CellsOK
<1> QED
  BY <1>5, <1>6

----------------------------------------------------------------------------
(* A waiting call was accepted by the circuit, on the answers to every read *)
(* that the circuit's effects depend on.                                    *)
ExecuteProved(c) ==
  /\ c.circuit = "execute"
  /\ c.payload \in Payloads /\ c.secret \in Secrets /\ c.key \in Owners
  /\ ExecuteRecorded(c.payload, c.secret, c.reads)

DepositProved(c) ==
  /\ c.circuit = "deposit"
  /\ c.value \in Uint128 /\ c.account \in AccountIds
  /\ \/ c.field = "shieldedBalances" /\ c.color \in ShieldedTokens
     \/ c.field = "unshieldedBalances" /\ c.color \in UnshieldedTokens
  /\ DepositRecorded(c.field, c.color, c.account, c.reads)

CallProved(c) == Provable(c) /\ (ExecuteProved(c) \/ DepositProved(c))

CallsInv ==
  /\ RegistryInv /\ CustodyInv /\ CellsOK
  /\ \A c \in pending : CallProved(c)

LEMMA CallsInitially == CallsInit => Init /\ CallsInv
<1> SUFFICES ASSUME CallsInit PROVE Init /\ CallsInv
  OBVIOUS
<1>1. CellsOK
  BY DEF CallsInit, CellsInit, CellsOK, Init, CustodyInit, BalanceFields
<1> QED
  BY <1>1, RegistryInitially, CustodyInitially DEF CallsInit, CallsInv

(* A call that is proved records all it reads.                              *)
LEMMA NewCall ==
  ASSUME ProveExecute \/ ProveDeposit
  PROVE  /\ UNCHANGED <<vars, cells>>
         /\ \E c : CallProved(c) /\ pending' = pending \cup {c}
<1>1. CASE ProveExecute
  <2>1. PICK p \in Payloads, sk \in Secrets, pk \in Owners :
          Prove(ExecuteCall(p, sk, pk))
    BY <1>1 DEF ProveExecute
  <2>2. ExecuteProved(ExecuteCall(p, sk, pk))
    BY ExecuteRecords DEF ExecuteProved, ExecuteCall
  <2> QED
    BY <2>1, <2>2 DEF Prove, CallProved
<1>2. CASE ProveDeposit
  <2>1. PICK v \in Uint128, acct \in AccountIds :
          \/ \E col \in ShieldedTokens :
               Prove(DepositCall("shieldedBalances", col, v, acct))
          \/ \E col \in UnshieldedTokens :
               Prove(DepositCall("unshieldedBalances", col, v, acct))
    BY <1>2 DEF ProveDeposit
  <2>2. PICK field, col :
          /\ \/ field = "shieldedBalances" /\ col \in ShieldedTokens
             \/ field = "unshieldedBalances" /\ col \in UnshieldedTokens
          /\ Prove(DepositCall(field, col, v, acct))
    BY <2>1
  <2>3. DepositProved(DepositCall(field, col, v, acct))
    BY <2>2, DepositRecords DEF DepositProved, DepositCall
  <2> QED
    BY <2>2, <2>3 DEF Prove, CallProved
<1> QED
  BY <1>1, <1>2

(* A call that is applied is a step of the contract.                        *)
LEMMA AppliedCall ==
  ASSUME CallsInv, NEW c \in pending, Apply(c)
  PROVE  Next /\ CellsOK'
<1>1. Matches(c.reads) /\ CallProved(c)
  BY DEF Apply, CallsInv
<1>2. CASE ExecuteProved(c)
  <2> DEFINE p == c.payload
             sk == c.secret
             pk == c.key
             reads == c.reads
  <2>1. /\ p \in Payloads /\ sk \in Secrets /\ pk \in Owners
        /\ ExecuteRecorded(p, sk, reads) /\ Matches(reads)
        /\ CircuitAccepts(p, sk, pk, reads)
        /\ ExecuteWrites(p, sk, reads)
    BY <1>1, <1>2 DEF ExecuteProved, CallProved, Provable, IsExecute, Apply
  <2>2. RegistryInv /\ CustodyInv /\ CellsOK
    BY DEF CallsInv
  <2> HIDE DEF p, sk, pk, reads
  <2>3. CASE IsRegistration(p)
    <3>1. ExecuteRegistration(p, sk, pk)
      BY <2>1, <2>2, <2>3, ApplyRegistration
    <3>2. UNCHANGED <<custodyVars, cells>>
      BY <2>1, <2>3 DEF ExecuteWrites, RegistrationWrites, IsAction
    <3>3. CellsOK'
      BY <2>2, <3>2 DEF CellsOK, custodyVars
    <3> QED
      BY <2>1, <3>1, <3>3 DEF Next, Execute
  <2>4. CASE ~ IsRegistration(p)
    <3>1. ExecuteAction(p, sk, pk)
      BY <2>1, <2>2, <2>4, ApplyAction DEF IsAction
    <3>2. cells' = [f \in BalanceFields |->
                      CellsWritten(f, p, AccountFor(p, sk))]
      BY <2>1, <2>4 DEF ExecuteWrites, ActionWrites
    <3>3. CellsOK'
      BY <2>1, <2>2, <3>1, <3>2, ActionCells
    <3> QED
      BY <2>1, <3>1, <3>3 DEF Next, Execute
  <2> QED
    BY <2>3, <2>4
<1>3. CASE DepositProved(c)
  <2> DEFINE field == c.field
             col == c.color
             v == c.value
             acct == c.account
             reads == c.reads
  <2>1. /\ v \in Uint128 /\ acct \in AccountIds
        /\ \/ field = "shieldedBalances" /\ col \in ShieldedTokens
           \/ field = "unshieldedBalances" /\ col \in UnshieldedTokens
        /\ DepositRecorded(field, col, acct, reads) /\ Matches(reads)
        /\ DepositAccepts(field, col, v, acct, reads)
        /\ DepositWrites(field, col, v, acct, reads)
    BY <1>1, <1>3 DEF DepositProved, CallProved, Provable, IsExecute, Apply
  <2>2. CustodyInv /\ CellsOK
    BY DEF CallsInv
  <2> HIDE DEF field, col, v, acct, reads
  <2>3. \/ field = "shieldedBalances" /\ DepositShielded(col, v, acct)
        \/ field = "unshieldedBalances" /\ DepositUnshielded(col, v, acct)
    BY <2>1, <2>2, ApplyDeposit
  <2>4. UNCHANGED <<registryVars, blockTime>>
    BY <2>1 DEF DepositWrites
  <2>5. Deposit
    BY <2>1, <2>3, <2>4 DEF Deposit
  <2>6. CellsOK'
    <3>1. col \in Colours
      BY <2>1, TokenAssumption
    <3>2. cells' = [cells EXCEPT ![field] = @ \cup {<<acct, col>>}]
      BY <2>1 DEF DepositWrites
    <3>3. \/ /\ field = "shieldedBalances"
             /\ UNCHANGED unshieldedBalances
             /\ \E w : shieldedBalances'
                         = BalanceSet(shieldedBalances, acct, col, w)
          \/ /\ field = "unshieldedBalances"
             /\ UNCHANGED shieldedBalances
             /\ \E w : unshieldedBalances'
                         = BalanceSet(unshieldedBalances, acct, col, w)
      BY <2>3 DEF DepositShielded, DepositUnshielded
    <3> QED
      BY <2>1, <2>2, <3>1, <3>2, <3>3, DepositCells
  <2> QED
    BY <2>5, <2>6 DEF Next
<1> QED
  BY <1>1, <1>2, <1>3 DEF CallProved

(* Every step of the chain is one of the contract or none, and keeps the    *)
(* invariant.                                                               *)
LEMMA CallsStep ==
  ASSUME CallsInv, [CallsNext]_callVars
  PROVE  [Next]_vars /\ CallsInv'
<1>1. ASSUME [Next]_vars, CellsOK', \A c \in pending' : CallProved(c)
      PROVE  [Next]_vars /\ CallsInv'
  <2>1. RegistryInv' /\ CustodyInv'
    BY <1>1, RegistryInductive, CustodyInductive DEF CallsInv
  <2>2. \A c \in pending' : CallProved(c)'
    BY <1>1 DEF CallProved, Provable, ExecuteProved, DepositProved, IsExecute,
                ExecuteRecorded, DepositRecorded
  <2> QED
    BY <1>1, <2>1, <2>2 DEF CallsInv
<1>2. ASSUME UNCHANGED <<vars, cells>> PROVE CellsOK'
  BY <1>2 DEF vars, custodyVars, CellsOK, CallsInv
<1>3. CASE ProveExecute \/ ProveDeposit
  BY <1>1, <1>2, <1>3, NewCall DEF CallsInv
<1>4. ASSUME NEW c \in pending, Apply(c)
      PROVE  [Next]_vars /\ CallsInv'
  BY <1>1, <1>4, AppliedCall DEF CallsInv, Apply
<1>5. ASSUME NEW c \in pending, Drop(c)
      PROVE  [Next]_vars /\ CallsInv'
  BY <1>1, <1>2, <1>5 DEF CallsInv, Drop
<1>6. CASE Pass
  <2>1. Next /\ CellsOK' /\ pending' = pending
    BY <1>6 DEF Pass, Tick, Next, custodyVars, CellsOK, CallsInv
  <2> QED
    BY <1>1, <2>1 DEF CallsInv
<1>7. CASE UNCHANGED callVars
  BY <1>1, <1>2, <1>7 DEF callVars, CallsInv
<1> QED
  BY <1>3, <1>4, <1>5, <1>6, <1>7 DEF CallsNext

LEMMA CallsInvariant == CallsSpec => []CallsInv
  BY CallsInitially, CallsStep, PTL DEF CallsSpec

(* However late a proved call is applied and whatever was applied before    *)
(* it, the contract takes a step that `execute` or a deposit would take     *)
(* whole at that moment.                                                    *)
THEOREM CallsImplement == CallsSpec => AppliedAsExecuted
<1>1. CallsInv /\ [CallsNext]_callVars => [Next]_vars
  BY CallsStep
<1> QED
  BY <1>1, CallsInitially, CallsInvariant, PTL
  DEF CallsSpec, AppliedAsExecuted, Spec

(* The ledger of proved calls keeps its types, and whatever waits to be     *)
(* applied was accepted by the circuit.                                     *)
THEOREM CallTypesHold == CallsSpec => []CallsTypeOK
<1>1. CallsInv => CallsTypeOK
  BY InvariantTypes DEF CallsInv, CellsOK, CallProved, CallsTypeOK
<1> QED
  BY <1>1, CallsInvariant, PTL

----------------------------------------------------------------------------
(* A waiting action spends from an account that can exist: a native one's   *)
(* id is the hash of its secret, an EVM one's was registered when the call  *)
(* was proved.                                                              *)
ActsForAccount(c) ==
  IsExecute(c) /\ IsAction(c.payload) =>
    AccountFor(c.payload, c.secret) \in AccountIds

(* Proving a call shows it.                                                 *)
LEMMA ProvedForAccount ==
  ASSUME RegistryInv, NEW p \in Payloads, NEW sk \in Secrets, NEW pk,
         Provable(ExecuteCall(p, sk, pk))
  PROVE  ActsForAccount(ExecuteCall(p, sk, pk))
<1> DEFINE reads == Recorded(ExecuteReads(p, sk))
           account == AccountFor(p, sk)
<1> SUFFICES ASSUME IsAction(p) PROVE account \in AccountIds
  BY DEF ActsForAccount, ExecuteCall
<1>1. CircuitAccepts(p, sk, pk, reads)
  BY DEF Provable, ExecuteCall, IsExecute
<1>2. CASE IsEvmAuthorized(p)
  <2>1. account = p.account
    BY <1>2 DEF AccountFor, GatewayAccount, IsAction, IsRegistration,
       IsEvmAuthorized, IsNativeRegistration, IsEvmRegistration
  <2>2. reads[Member("accounts", p.account)]
    BY <1>1, <1>2 DEF CircuitAccepts, EvmAuthenticatedIn
  <2>3. Member("accounts", p.account) \in DOMAIN reads
    BY <1>2, <2>1, ExecuteRecords DEF ExecuteRecorded
  <2>4. reads[Member("accounts", p.account)]
          = (p.account \in Keys("accounts"))
    BY <2>3, Answers DEF Recorded
  <2>5. Keys("accounts") = accounts
    BY DEF Keys
  <2> QED
    BY <2>1, <2>2, <2>4, <2>5 DEF RegistryInv, RegistryTypeOK
<1>3. CASE ~ IsEvmAuthorized(p)
  <2>1. NativeAccount(sk) = p.account
    BY <1>1, <1>3 DEF CircuitAccepts, NativeAuthenticatedIn
  <2>2. account \in {p.account, NativeAccount(sk)}
    BY DEF AccountFor, GatewayAccount, IsAction, IsRegistration,
       IsNativeRegistration, IsEvmRegistration
  <2> QED
    BY <2>1, <2>2 DEF NativeAccount, AccountIds, NativeIds
<1> QED
  BY <1>2, <1>3

(* With the sums of CustodyProofs, an invariant of every step.              *)
FundsInv == Backed /\ \A c \in pending : ActsForAccount(c)

LEMMA FundsStep ==
  ASSUME CallsInv, FundsInv, [CallsNext]_callVars
  PROVE  FundsInv'
<1>1. Backed'
  BY CallsStep, BackedInductive DEF CallsInv, FundsInv
<1>2. CASE pending' \subseteq pending
  BY <1>1, <1>2 DEF FundsInv, ActsForAccount, IsExecute
<1>3. ASSUME NEW p \in Payloads, NEW sk \in Secrets, NEW pk \in Owners,
             Prove(ExecuteCall(p, sk, pk))
      PROVE  FundsInv'
  <2>1. ActsForAccount(ExecuteCall(p, sk, pk))
    BY <1>3, ProvedForAccount DEF Prove, CallsInv
  <2>2. pending' = pending \cup {ExecuteCall(p, sk, pk)}
    BY <1>3 DEF Prove
  <2> QED
    BY <1>1, <2>1, <2>2 DEF FundsInv
<1>4. ASSUME NEW field, NEW col, NEW v, NEW acct,
             Prove(DepositCall(field, col, v, acct))
      PROVE  FundsInv'
  <2>1. ActsForAccount(DepositCall(field, col, v, acct))
    BY DEF ActsForAccount, IsExecute, DepositCall
  <2>2. pending' = pending \cup {DepositCall(field, col, v, acct)}
    BY <1>4 DEF Prove
  <2> QED
    BY <1>1, <2>1, <2>2 DEF FundsInv
<1> QED
  BY <1>2, <1>3, <1>4
  DEF CallsNext, ProveExecute, ProveDeposit, Apply, Drop, Pass, callVars

(* The payer's cell is one term of the sum the contract's balance equals.   *)
LEMMA FundsStand ==
  ASSUME CallsInv, FundsInv
  PROVE  FundsStandBehindCell
<1> SUFFICES ASSUME NEW c \in pending, IsExecute(c), c.payload.selector = 3
             PROVE  LET p == c.payload
                        balance == Lookup("unshieldedBalances",
                                          DebitKey(p, AccountFor(p, c.secret)))
                    IN  Answer(balance) = c.reads[balance] =>
                          ~ Answer(FundsBelow(p.primaryColor, p.primaryAmount))
  BY DEF FundsStandBehindCell
<1> DEFINE p == c.payload
           a == AccountFor(p, c.secret)
           balance == Lookup("unshieldedBalances", DebitKey(p, a))
           col == p.primaryColor
           amt == p.primaryAmount
<1> SUFFICES ASSUME Answer(balance) = c.reads[balance]
             PROVE  ~ Answer(FundsBelow(col, amt))
  OBVIOUS
<1>1. ExecuteProved(c) /\ Provable(c)
  BY DEF CallsInv, CallProved, DepositProved, IsExecute
<1>2. IsAction(p) /\ ~ IsRegistration(p) /\ ~ DebitShielded(p)
  BY DEF IsAction, IsRegistration, DebitShielded
<1>3. a \in AccountIds
  BY <1>2 DEF FundsInv, ActsForAccount
<1>4. /\ AssertActionEnvelope(p) /\ p \in Payloads
      /\ DebitIn(p, a, c.reads) >= amt
  BY <1>1, <1>2 DEF Provable, CircuitAccepts, DispatchIn, ExecuteProved
<1>5. col \in Colours /\ amt \in Nat /\ amt > 0
  BY <1>2, <1>4, ActionPayload, WidthAssumption DEF Uint128
<1>6. DebitIn(p, a, c.reads) =
        IF balance \in DOMAIN c.reads THEN c.reads[balance] ELSE 0
  BY <1>2 DEF DebitIn, BalanceIn, DebitField
<1>7. Answer(balance) = unshieldedBalances[a][col]
  BY Answers DEF Stored, DebitKey
<1> HIDE DEF p, a, balance, col, amt
<1>8. /\ unshieldedBalances[a][col] \in Nat
      /\ unshieldedBalances[a][col] <= unshieldedHeld[col]
      /\ unshieldedHeld[col] \in Nat
  <2>1. /\ unshieldedBalances \in Balances
        /\ Owed(unshieldedBalances, col) = unshieldedHeld[col]
    BY <1>5 DEF CallsInv, CustodyInv, FundsInv, Backed, UnshieldedBacked
  <2> QED
    BY <1>3, <1>5, <2>1, OwedBounds, WidthAssumption DEF Balances, Uint128
<1>9. c.reads[balance] >= amt
  BY <1>4, <1>5, <1>6
<1>10. ~ (unshieldedHeld[col] < amt)
  BY <1>5, <1>7, <1>8, <1>9
<1> QED
  BY <1>10, Answers

(* A waiting unshielded withdrawal is backed for as long as its own cell is *)
(* unchanged, whatever else is applied before it.                           *)
THEOREM FundsStandBehindWaitingCalls == CallsSpec => []FundsStandBehindCell
<1>1. CallsInit => FundsInv
  BY CallsInitially, BackedInitially DEF CallsInit, FundsInv
<1>2. CallsInv /\ FundsInv /\ [CallsNext]_callVars => FundsInv'
  BY FundsStep
<1>3. CallsInv /\ FundsInv => FundsStandBehindCell
  BY FundsStand
<1> QED
  BY <1>1, <1>2, <1>3, CallsInvariant, PTL DEF CallsSpec

----------------------------------------------------------------------------
(* What a prover records on the ledger it sees is what that ledger answers. *)
LEMMA RecordedMatches ==
  ASSUME NEW Q, \A q \in Q : Answerable(q)
  PROVE  Matches(Recorded(Q))
  BY DEF Matches, Recorded

(* A call that passes the gateway, the deadline and the signature passes    *)
(* them over its recorded answers too.                                      *)
LEMMA RecordedAuthorises ==
  ASSUME RegistryInv, NEW p \in Payloads, NEW sk \in Secrets, NEW pk,
         NEW reads, ExecuteRecorded(p, sk, reads), Matches(reads),
         Authorised(p, sk, pk)
  PROVE  /\ IsAction(p) =>
              IF IsEvmAuthorized(p) THEN EvmAuthenticatedIn(p, reads)
              ELSE NativeAuthenticatedIn(p, NativeAccount(sk), reads)
         /\ IsEvmAuthorized(p) => DeadlineIn(p, reads)
<1> DEFINE account == AccountFor(p, sk)
<1>1. /\ Keys("accounts") = accounts
      /\ Keys("accountModes") = DOMAIN accountModes
      /\ Keys("evmOwners") = DOMAIN evmOwners
      /\ Keys("evmNonces") = DOMAIN evmNonces
      /\ \A a : /\ Stored("accountModes", a) = accountModes[a]
               /\ Stored("evmOwners", a) = evmOwners[a]
               /\ Stored("evmNonces", a) = evmNonces[a]
  BY DEF Keys, Stored
<1>2. ASSUME IsAction(p)
      PROVE  /\ account = p.account /\ account \in accounts
             /\ account \in DOMAIN accountModes
             /\ IsEvmAuthorized(p) =>
                  /\ accountModes[account] = 1
                  /\ account \in DOMAIN evmOwners
                  /\ account \in DOMAIN evmNonces
                  /\ p.owner = evmOwners[account]
                  /\ p.nonce = evmNonces[account]
             /\ ~ IsEvmAuthorized(p) =>
                  /\ accountModes[account] = 0
                  /\ account \notin DOMAIN evmOwners
                  /\ account \notin DOMAIN evmNonces
  BY <1>2, ActionAccount DEF IsAction
<1>3. ASSUME IsAction(p)
      PROVE  /\ Member("accounts", account) \in DOMAIN reads
             /\ EntryIn(reads, "accountModes", account)
             /\ IsEvmAuthorized(p) => /\ EntryIn(reads, "evmOwners", account)
                                      /\ EntryIn(reads, "evmNonces", account)
             /\ Member("evmOwners", account) \in DOMAIN reads
             /\ Member("evmNonces", account) \in DOMAIN reads
  BY <1>3 DEF ExecuteRecorded
<1> HIDE DEF account
<1>4. ASSUME IsAction(p), IsEvmAuthorized(p)
      PROVE  EvmAuthenticatedIn(p, reads)
  BY <1>1, <1>2, <1>3, <1>4, Matched DEF EvmAuthenticatedIn, EntryIn
<1>5. ASSUME IsAction(p), ~ IsEvmAuthorized(p)
      PROVE  NativeAuthenticatedIn(p, NativeAccount(sk), reads)
  <2>1. account = NativeAccount(sk)
    BY <1>5, <1>2, PayloadAssumption
    DEF account, Authorised, GatewayAdmits, AuthenticatedActionAccount,
        NativeActionAuthenticated, AccountFor, GatewayAccount, IsAction,
        IsRegistration, IsNativeRegistration, IsEvmRegistration,
        IsEvmAuthorized, EvmActionAuthenticated
  <2> QED
    BY <1>1, <1>2, <1>3, <1>5, <2>1, Matched
    DEF NativeAuthenticatedIn, EntryIn
<1>6. ASSUME IsEvmAuthorized(p) PROVE DeadlineIn(p, reads)
  <2>1. /\ BlockTimeBelow(p.validUntil - LiveHorizon) \in DOMAIN reads
        /\ BlockTimeBelow(p.validUntil) \in DOMAIN reads
    BY <1>6 DEF ExecuteRecorded, LiveDeadlineReads
  <2>2. AssertLiveDeadline(p.validUntil)
    BY <1>6 DEF Authorised
  <2>3. p.validUntil \in Nat /\ blockTime \in Nat /\ LiveHorizon \in Nat
    BY PayloadAssumption, WidthAssumption, HorizonAssumption
    DEF ExecutePayload, Uint64, RegistryInv
  <2> QED
    BY <2>1, <2>2, <2>3, Matched DEF DeadlineIn, AssertLiveDeadline
<1> QED
  BY <1>4, <1>5, <1>6

(* The circuit takes a missing coin, or one it does not read, for a coin    *)
(* worth nothing.                                                           *)
LEMMA PooledWorth ==
  ASSUME CustodyInv, NEW reads, Matches(reads), NEW c \in Colours,
         EntryIn(reads, "pools", c)
  PROVE  /\ PooledIn(reads, c).value = PoolValue(c)
         /\ PoolValue(c) \in Nat
<1>1. c \in DOMAIN pools => pools[c].value \in Nat
  BY WidthAssumption DEF CustodyInv, PoolOK, PoolState, PooledCoin, Uint128
<1> QED
  BY <1>1, PooledInIs DEF PoolValue, NoCoin

(* A registration whose id is free passes over its recorded answers.        *)
LEMMA RegistrationProvable ==
  ASSUME RegistryInv, NEW p \in Payloads, NEW sk \in Secrets, NEW pk,
         Authorised(p, sk, pk), IsRegistration(p),
         RegistrationAllowed(AccountFor(p, sk))
  PROVE  CircuitAccepts(p, sk, pk, Recorded(ExecuteReads(p, sk)))
<1> DEFINE account == AccountFor(p, sk)
           reads == Recorded(ExecuteReads(p, sk))
<1>1. ExecuteRecorded(p, sk, reads) /\ Matches(reads)
  BY ExecuteRecords, ExecuteAnswerable, RecordedMatches
<1>2. IsEvmAuthorized(p) => DeadlineIn(p, reads)
  BY <1>1, RecordedAuthorises
<1>3. DOMAIN reads \subseteq LiveDeadlineReads(p) \cup RegistrationReads(account)
  BY DEF Recorded, ExecuteReads
<1>4. \A f, k : Lookup(f, k) \notin DOMAIN reads
  BY <1>3, QueriesApart DEF LiveDeadlineReads, RegistrationReads
<1> HIDE DEF reads
<1>5. \A q \in RegistrationReads(account) : ~ reads[q]
  <2>1. RegistrationReads(account) \subseteq DOMAIN reads
    BY <1>1 DEF ExecuteRecorded
  <2>2. Keys("accounts") = accounts /\ Keys("accountModes") = DOMAIN accountModes
    BY DEF Keys
  <2> HIDE DEF account
  <2> QED
    BY <1>1, <2>1, <2>2, Matched DEF RegistrationReads, RegistrationAllowed, account
<1>6. /\ p.primaryAmount = 0 /\ p.wantAmount = 0
      /\ ~ NeedsPool(p) /\ ~ IsSwap(p) /\ ~ HasCredit(p)
      /\ CreditValue(p) = 0
  BY DEF Authorised, AssertActionEnvelope, IsRegistration, IsNativeRegistration,
         IsEvmRegistration, IsAction, NativeRegistrationShape,
         EvmRegistrationShape, CustodyIdle, SwapIdle, NeedsPool, IsSwap,
         HasCredit, IsTransfer, CreditValue
<1>7. ArithmeticFits(p, account, reads)
  <2>1. GiveIn(p, reads).value = 0 /\ WantIn(p, reads).value = 0
    BY <1>6 DEF GiveIn, WantIn, NoCoin
  <2>2. DebitIn(p, account, reads) = 0 /\ CreditIn(p, reads) = 0
    BY <1>4, <1>6 DEF DebitIn, CreditIn, BalanceIn
  <2>3. GivenIn(p, reads) = 0
    BY <1>6, <2>1 DEF GivenIn, SafeGive
  <2> QED
    BY <1>6, <2>1, <2>2, <2>3, WidthAssumption DEF ArithmeticFits, Authorised
<1>8. IsEvmRegistration(p) => account = p.account
  BY DEF Authorised, AccountFor, GatewayAccount, IsEvmRegistration,
         IsNativeRegistration
<1> QED
  BY <1>2, <1>5, <1>7, <1>8
  DEF CircuitAccepts, Authorised, IsAction, reads, account

(* A custody action that the ledger's balances, pools and registry allow    *)
(* passes, the range checks of the branches it does not take included.      *)
LEMMA ActionProvable ==
  ASSUME RegistryInv, CustodyInv, CellsOK,
         NEW p \in Payloads, NEW sk \in Secrets, NEW pk,
         Authorised(p, sk, pk), ~ IsRegistration(p),
         ActionAllowed(p, AccountFor(p, sk))
  PROVE  CircuitAccepts(p, sk, pk, Recorded(ExecuteReads(p, sk)))
<1> DEFINE account == AccountFor(p, sk)
           reads == Recorded(ExecuteReads(p, sk))
<1>1. ExecuteRecorded(p, sk, reads) /\ Matches(reads)
  BY ExecuteRecords, ExecuteAnswerable, RecordedMatches
<1> HIDE DEF reads
<1>2. /\ IF IsEvmAuthorized(p) THEN EvmAuthenticatedIn(p, reads)
         ELSE NativeAuthenticatedIn(p, NativeAccount(sk), reads)
      /\ IsEvmAuthorized(p) => DeadlineIn(p, reads)
  BY <1>1, RecordedAuthorises DEF IsAction
<1>3. /\ AssertActionEnvelope(p) /\ account = p.account
      /\ account \in AccountIds
  BY ActionAccount DEF Authorised, RegistryInv, RegistryTypeOK
<1>4. /\ p.selector \in 2 .. 6
      /\ p.primaryColor \in Colours /\ p.wantColor \in Colours
      /\ p.primaryAmount \in Uint128 /\ p.wantAmount \in Uint128
      /\ p.primaryAmount \in Nat /\ p.wantAmount \in Nat
  BY <1>3, ActionPayload, WidthAssumption DEF Uint128
<1>5. /\ SeamRegistryReads(p) \subseteq DOMAIN reads
      /\ EntryIn(reads, DebitField(p), DebitKey(p, account))
      /\ NeedsPool(p) => EntryIn(reads, "pools", p.primaryColor)
      /\ p.selector = 3 =>
           FundsBelow(p.primaryColor, p.primaryAmount) \in DOMAIN reads
      /\ IsSwap(p) => EntryIn(reads, "pools", p.wantColor)
      /\ HasCredit(p) => EntryIn(reads, CreditField(p), CreditKey(p))
  BY <1>1 DEF ExecuteRecorded, IsAction
<1>6. ActionAllowed(p, account)
  OBVIOUS
<1> HIDE DEF account
<1>7. /\ reads[Member("accounts", p.toAccount)] <=> IsRegistered(p.toAccount)
      /\ reads[Member("accounts", p.creditAccount)]
           <=> IsRegistered(p.creditAccount)
  <2>1. Keys("accounts") = accounts
    BY DEF Keys
  <2> QED
    BY <1>1, <1>5, <2>1, Matched DEF SeamRegistryReads, IsRegistered
<1>8. /\ DebitIn(p, account, reads) = DebitBalance(p, account)
      /\ p.primaryAmount <= DebitIn(p, account, reads)
      /\ DebitIn(p, account, reads) \in Nat
  <2>1. DebitIn(p, account, reads) = DebitBalance(p, account)
    BY <1>1, <1>3, <1>4, <1>5, BalanceInIs
    DEF DebitIn, DebitBalance, DebitField, DebitKey
  <2>2. DebitBalance(p, account) \in Nat
    BY <1>3, <1>4, WidthAssumption DEF DebitBalance, CustodyInv, Balances, Uint128
  <2> QED
    BY <1>4, <1>6, <2>1, <2>2 DEF ActionAllowed, AccountCanPay
<1>9. ASSUME NeedsPool(p)
      PROVE  /\ reads[Member("pools", p.primaryColor)]
             /\ GiveIn(p, reads).value \in Nat
             /\ GiveIn(p, reads).value >= p.primaryAmount
  <2>1. p.primaryColor \in DOMAIN pools
        /\ pools[p.primaryColor].value >= p.primaryAmount
    BY <1>6, <1>9 DEF ActionAllowed, PoolCanPay
  <2>2. /\ PooledIn(reads, p.primaryColor).value = PoolValue(p.primaryColor)
        /\ PoolValue(p.primaryColor) \in Nat
    BY <1>1, <1>4, <1>5, <1>9, PooledWorth
  <2>3. reads[Member("pools", p.primaryColor)]
    BY <1>1, <1>5, <1>9, <2>1, PooledInIs
  <2> QED
    BY <1>9, <2>1, <2>2, <2>3 DEF GiveIn, PoolValue
<1>10. /\ GiveIn(p, reads).value \in Nat
       /\ GivenIn(p, reads) <= GiveIn(p, reads).value
  <2>1. GiveIn(p, reads).value \in Nat
    BY <1>9 DEF GiveIn, NoCoin
  <2> QED
    BY <1>4, <2>1 DEF GivenIn, SafeGive
<1>11. WantIn(p, reads).value + p.wantAmount <= MaxUint128
  <2>1. CASE IsSwap(p)
    BY <1>1, <1>4, <1>5, <1>6, <2>1, PooledWorth DEF WantIn, ActionAllowed
  <2>2. CASE ~ IsSwap(p)
    BY <1>4, <2>2, WidthAssumption DEF WantIn, NoCoin, Uint128
  <2> QED BY <2>1, <2>2
<1>12. CreditIn(p, reads) + CreditValue(p) <= MaxUint128
  <2>1. CASE HasCredit(p)
    <3>1. /\ CreditAccount(p) \in AccountIds /\ CreditColour(p) \in Colours
      <4>1. accounts \subseteq AccountIds
        BY DEF RegistryInv, RegistryTypeOK
      <4>2. CreditAccount(p) \in accounts
        BY <1>6, <2>1 DEF ActionAllowed, CreditAccount, HasCredit,
           DestinationSane, CreditTargetSane, IsRegistered
      <4> QED
        BY <1>4, <4>1, <4>2 DEF CreditColour
    <3>2. CreditIn(p, reads) = BalanceOf(CreditField(p), CreditKey(p))
      BY <1>1, <1>5, <2>1, <3>1, BalanceInIs
      DEF CreditIn, BalanceOf, CreditField, CreditKey
    <3> QED
      BY <1>6, <2>1, <3>2 DEF ActionAllowed
  <2>2. CASE ~ HasCredit(p)
    BY <1>4, <2>2, WidthAssumption DEF CreditIn, CreditValue, HasCredit, Uint128
  <2> QED BY <2>1, <2>2
<1>13. p.selector = 3 => ~ reads[FundsBelow(p.primaryColor, p.primaryAmount)]
  <2>1. unshieldedHeld[p.primaryColor] \in Nat
    BY <1>4, WidthAssumption DEF CustodyInv, Uint128
  <2> QED
    BY <1>1, <1>4, <1>5, <1>6, <2>1, Matched DEF ActionAllowed, KernelCanPay
<1>14. DispatchIn(p, account, reads)
  BY <1>4, <1>6, <1>7, <1>8, <1>9, <1>13
  DEF DispatchIn, ActionAllowed, DestinationSane, CreditTargetSane
<1>15. ArithmeticFits(p, account, reads)
  BY <1>8, <1>10, <1>11, <1>12 DEF ArithmeticFits, Authorised
<1>16. ~ IsEvmRegistration(p)
  BY DEF IsRegistration, IsEvmRegistration
<1> QED
  BY <1>2, <1>3, <1>14, <1>15, <1>16
  DEF CircuitAccepts, Authorised, IsAction, reads, account

(* A deposit the ledger allows has a proof.                                 *)
LEMMA DepositProvable ==
  ASSUME CustodyInv, CellsOK,
         NEW field, NEW col, NEW v \in Uint128, NEW acct \in AccountIds,
         \/ field = "shieldedBalances" /\ col \in ShieldedTokens
         \/ field = "unshieldedBalances" /\ col \in UnshieldedTokens,
         DepositAllowed(field, col, v, acct)
  PROVE  DepositAccepts(field, col, v, acct,
                        Recorded(DepositReads(field, col, acct)))
<1> DEFINE Q == DepositReads(field, col, acct)
           reads == Recorded(Q)
<1>1. DepositRecorded(field, col, acct, reads) /\ Matches(reads)
  BY DepositRecords, DepositAnswerable, RecordedMatches
<1>2. col \in Colours /\ v \in Nat /\ v <= MaxUint128
  BY TokenAssumption, WidthAssumption DEF Uint128
<1>3. field = "unshieldedBalances" => \A c : Lookup("pools", c) \notin DOMAIN reads
  BY QueriesApart DEF Recorded, DepositReads, Entry, Member, Lookup
<1> HIDE DEF reads, Q
<1>4. reads[Member("accounts", acct)]
  <2>1. Keys("accounts") = accounts
    BY DEF Keys
  <2> QED
    BY <1>1, <2>1, Matched DEF DepositRecorded, DepositAllowed
<1>5. BalanceIn(reads, field, <<acct, col>>) = BalanceOf(field, <<acct, col>>)
  BY <1>1, <1>2, BalanceInIs DEF DepositRecorded, BalanceOf
<1>6. PooledIn(reads, col).value + v <= MaxUint128
  <2>1. CASE field = "shieldedBalances"
    BY <1>1, <1>2, <2>1, PooledWorth DEF DepositRecorded, DepositAllowed
  <2>2. CASE field = "unshieldedBalances"
    BY <1>2, <1>3, <2>2 DEF PooledIn, NoCoin
  <2> QED BY <2>1, <2>2
<1> QED
  BY <1>4, <1>5, <1>6 DEF DepositAccepts, DepositAllowed, reads, Q

(* The circuit is complete: a call that the contract's asserts allow on the *)
(* ledger a wallet sees has a proof, so no range check on a branch that is  *)
(* not taken and no default of a read that is not made refuses it.          *)
THEOREM AllowedCallsAreProvable == CallsSpec => []EveryCallProvable
<1>1. ASSUME CallsInv PROVE EveryCallProvable
  <2>1. ASSUME NEW p \in Payloads, NEW sk \in Secrets, NEW pk \in Owners,
               Allowed(p, sk, pk)
        PROVE  Provable(ExecuteCall(p, sk, pk))
    <3>1. CircuitAccepts(p, sk, pk, Recorded(ExecuteReads(p, sk)))
      BY <1>1, <2>1, RegistrationProvable, ActionProvable DEF Allowed, CallsInv
    <3> QED
      BY <3>1 DEF Provable, IsExecute, ExecuteCall
  <2>2. ASSUME NEW v \in Uint128, NEW acct \in AccountIds, NEW field, NEW col,
               \/ field = "shieldedBalances" /\ col \in ShieldedTokens
               \/ field = "unshieldedBalances" /\ col \in UnshieldedTokens,
               DepositAllowed(field, col, v, acct)
        PROVE  Provable(DepositCall(field, col, v, acct))
    <3>1. DepositAccepts(field, col, v, acct,
                         Recorded(DepositReads(field, col, acct)))
      BY <1>1, <2>2, DepositProvable DEF CallsInv
    <3> QED
      BY <3>1 DEF Provable, IsExecute, DepositCall
  <2> QED
    BY <2>1, <2>2 DEF EveryCallProvable
<1> QED
  BY <1>1, CallsInvariant, PTL
=============================================================================
