------------------------------ MODULE Custody -------------------------------
(***************************************************************************)
(* The custody half of the contract: per-(account, colour) balances in two *)
(* families, one pooled coin per shielded colour, and the dispatch that    *)
(* `execute` runs for the five custody actions                             *)
(* (manager-port/src/custody.rs, shielded_custody.rs,                      *)
(* unshielded_custody.rs, ledger slots 4..6).                              *)
(*                                                                         *)
(* A balance cell is stored under hash(account, colour, family tag); the   *)
(* two maps are functions of (account, colour) here, and a missing cell    *)
(* reads 0, as `shieldedBalanceAt` and `unshieldedBalanceAt` read it.      *)
(*                                                                         *)
(* External state the kernel keeps for the contract: `coins`, the unspent  *)
(* shielded coins it owns on chain, `nextIndex`, the first free leaf of    *)
(* the commitment tree, and `unshieldedHeld`, its unshielded balance.      *)
(***************************************************************************)
EXTENDS AccountRegistry, FiniteSetsExt, Functions

CONSTANT MaxIndex  \* the commitment tree's capacity, a bound of the model

ASSUME IndexAssumption == MaxIndex \in Nat

VARIABLES
  pools,               \* slot 4: colour -> the pooled coin's value and leaf
  shieldedBalances,    \* slot 5
  unshieldedBalances,  \* slot 6
  coins,
  nextIndex,
  unshieldedHeld

custodyVars == <<pools, shieldedBalances, unshieldedBalances,
                 coins, nextIndex, unshieldedHeld>>

PooledCoin == [value : Uint128, mtIndex : Nat]
Coin == [color : Colours, value : Uint128, mtIndex : Nat]

CustodyInit ==
  /\ pools = << >>
  /\ shieldedBalances = [a \in AccountIds |-> [c \in Colours |-> 0]]
  /\ unshieldedBalances = [a \in AccountIds |-> [c \in Colours |-> 0]]
  /\ coins = {}
  /\ nextIndex = 0
  /\ unshieldedHeld = [c \in Colours |-> 0]

----------------------------------------------------------------------------
(* The pool, as a value threaded through the steps of one call.             *)
PoolState == [pools |-> pools, coins |-> coins, nextIndex |-> nextIndex]

CoinOf(ps, col) ==
  [color |-> col, value |-> ps.pools[col].value,
   mtIndex |-> ps.pools[col].mtIndex]

(* `pools.insertCoin`: the new coin's commitment takes the next leaf, which *)
(* the pool entry records.                                                  *)
InsertCoin(ps, col, v) ==
  [pools |-> Insert(ps.pools, col, [value |-> v, mtIndex |-> ps.nextIndex]),
   coins |-> ps.coins \cup
               {[color |-> col, value |-> v, mtIndex |-> ps.nextIndex]},
   nextIndex |-> ps.nextIndex + 1]

RemovePool(ps, col) ==
  [ps EXCEPT !.pools = Restrict(@, DOMAIN @ \ {col})]

(* Claiming the pooled coin's nullifier: the chain no longer counts it.     *)
SpendPooled(ps, col) == [ps EXCEPT !.coins = @ \ {CoinOf(ps, col)}]

(* `repoolOrRemove(col, change)`; no change is a change of 0.               *)
RepoolOrRemove(ps, col, change) ==
  IF change > 0 THEN InsertCoin(ps, col, change) ELSE RemovePool(ps, col)

(* The give amount, clamped where the read may be guarded off.              *)
SafeGive(pooledValue, val) == IF pooledValue >= val THEN val ELSE 0

(* `sendShielded` to a named recipient, its change re-pooled.               *)
SendShielded(ps, col, val) ==
  LET pooledValue == ps.pools[col].value
  IN RepoolOrRemove(SpendPooled(ps, col), col,
                    pooledValue - SafeGive(pooledValue, val))

(* Mutant of OpenGive: a coin spent whole keeps its pool entry.             *)
OpenGiveKeepsEntry(ps, col, val) ==
  LET pooledValue == ps.pools[col].value
      changeValue == pooledValue - SafeGive(pooledValue, val)
      spent == SpendPooled(ps, col)
  IN IF changeValue = 0 THEN spent ELSE InsertCoin(spent, col, changeValue)

(* The open-offer shape: the nullifier is claimed, the only output is the   *)
(* change back to the contract.                                             *)
OpenGive(ps, col, val) ==
  LET pooledValue == ps.pools[col].value
      changeValue == pooledValue - SafeGive(pooledValue, val)
      spent == SpendPooled(ps, col)
  IN IF changeValue = 0 THEN RemovePool(spent, col)
                        ELSE InsertCoin(spent, col, changeValue)

(* Mutant of PoolAfterReceive: the incoming coin overwrites the pooled one. *)
OverwritePool(ps, col, v) == InsertCoin(ps, col, v)

(* `receiveShielded` and then merge-or-first-credit.  `mergeCoinImmediate`  *)
(* spends the pooled coin and the incoming one and creates their sum.       *)
PoolAfterReceive(ps, col, v) ==
  IF col \in DOMAIN ps.pools
  THEN InsertCoin(SpendPooled(ps, col), col, ps.pools[col].value + v)
  ELSE InsertCoin(ps, col, v)

(* What the chain requires of a call's shielded effects: a coin that is     *)
(* spent is unspent and its sum fits the width, leaves remain.              *)
Spendable(ps, col) == CoinOf(ps, col) \in ps.coins
Receivable(ps, col, v) ==
  col \in DOMAIN ps.pools =>
    Spendable(ps, col) /\ ps.pools[col].value + v <= MaxUint128

BecomePool(ps) ==
  /\ ps.nextIndex <= MaxIndex
  /\ pools' = ps.pools /\ coins' = ps.coins /\ nextIndex' = ps.nextIndex
----------------------------------------------------------------------------
(* Balances.                                                                *)
BalanceSet(balances, acct, col, v) ==
  [balances EXCEPT ![acct][col] = v]

(* The selector algebra `Mux`.                                              *)

(* Mutant of DebitShielded: an internal transfer is debited unshielded.     *)
WithdrawalDebitShielded(p) == p.selector \in {2, 6}

DebitShielded(p) == p.selector \in {2, 4, 6}
CreditShielded(p) == p.selector \in {4, 6}
HasCredit(p) == IsTransfer(p) \/ IsSwap(p)
NeedsPool(p) == p.selector \in {2, 6}

(* A swap that names its taker, or a shielded withdrawal.                   *)
GiveIsNamed(p) == p.selector = 2 \/ p.recipientKind # 0

CreditAccount(p) == IF IsSwap(p) THEN p.creditAccount ELSE p.toAccount
CreditColour(p) == IF IsSwap(p) THEN p.wantColor ELSE p.primaryColor
CreditValue(p) == IF IsSwap(p) THEN p.wantAmount ELSE p.primaryAmount

DebitBalance(p, account) ==
  IF DebitShielded(p) THEN shieldedBalances[account][p.primaryColor]
                      ELSE unshieldedBalances[account][p.primaryColor]

----------------------------------------------------------------------------
(* The guards of `custodyDispatch`, in source order.                        *)
SwapSane(p) ==
  IsSwap(p) => /\ p.primaryAmount > 0 /\ p.wantAmount > 0
               /\ p.primaryColor # p.wantColor

DestinationSane(p, account, toRegistered) ==
  IsTransfer(p) => toRegistered /\ account # p.toAccount /\ p.primaryAmount > 0

AccountCanPay(p, account) == DebitBalance(p, account) >= p.primaryAmount

PoolCanPay(p) ==
  NeedsPool(p) => /\ p.primaryColor \in DOMAIN pools
                  /\ pools[p.primaryColor].value >= p.primaryAmount

(* Mutant of CreditTargetSane: the credit account is never looked up.       *)
CreditTargetUnchecked(p, creditRegistered) == TRUE

CreditTargetSane(p, creditRegistered) == IsSwap(p) => creditRegistered

KernelCanPay(p) ==
  p.selector = 3 => unshieldedHeld[p.primaryColor] >= p.primaryAmount

----------------------------------------------------------------------------
(* The shielded legs: the give from the colour's pool, then the want into   *)
(* the wanted colour's.                                                     *)
PoolAfterGive(p) ==
  IF ~ NeedsPool(p) THEN PoolState
  ELSE IF GiveIsNamed(p)
       THEN SendShielded(PoolState, p.primaryColor, p.primaryAmount)
       ELSE OpenGive(PoolState, p.primaryColor, p.primaryAmount)

ShieldedLegs(p) ==
  /\ NeedsPool(p) => Spendable(PoolState, p.primaryColor)
  /\ IF IsSwap(p)
     THEN /\ Receivable(PoolAfterGive(p), p.wantColor, p.wantAmount)
          /\ BecomePool(PoolAfterReceive(PoolAfterGive(p),
                                         p.wantColor, p.wantAmount))
     ELSE BecomePool(PoolAfterGive(p))

UnshieldedGive(p) ==
  unshieldedHeld' =
    IF p.selector = 3
    THEN [unshieldedHeld EXCEPT ![p.primaryColor] = @ - p.primaryAmount]
    ELSE unshieldedHeld

(* Mutant of Debited: nothing is subtracted.                                *)
Undebited(balances, select, p, account) == balances

(* One debit write into the muxed family, then one credit write, whose read *)
(* sees the debit.  Each `select` says which family the write goes to.      *)
Debited(balances, select, p, account) ==
  IF select
  THEN BalanceSet(balances, account, p.primaryColor,
                  DebitBalance(p, account) - p.primaryAmount)
  ELSE balances

(* Mutant of Credited: a swap credits what it gives, not what it wants.     *)
CreditedWithGive(balances, select, p) ==
  IF HasCredit(p) /\ select
  THEN BalanceSet(balances, CreditAccount(p), CreditColour(p),
         balances[CreditAccount(p)][CreditColour(p)] + p.primaryAmount)
  ELSE balances

Credited(balances, select, p) ==
  IF HasCredit(p) /\ select
  THEN BalanceSet(balances, CreditAccount(p), CreditColour(p),
         balances[CreditAccount(p)][CreditColour(p)] + CreditValue(p))
  ELSE balances

(* The `as Uint<128>` of the credited sum.                                  *)
Fits(balances, p) ==
  HasCredit(p) => balances[CreditAccount(p)][CreditColour(p)] <= MaxUint128

BalanceWrites(p, account) ==
  /\ shieldedBalances' =
       Credited(Debited(shieldedBalances, DebitShielded(p), p, account),
                CreditShielded(p), p)
  /\ unshieldedBalances' =
       Credited(Debited(unshieldedBalances, ~ DebitShielded(p), p, account),
                ~ CreditShielded(p), p)
  /\ IF CreditShielded(p) THEN Fits(shieldedBalances', p)
                          ELSE Fits(unshieldedBalances', p)

(* `custodyDispatch(p, account, toRegistered, creditRegistered)`.           *)
CustodyDispatch(p, account, toRegistered, creditRegistered) ==
  /\ SwapSane(p)
  /\ DestinationSane(p, account, toRegistered)
  /\ AccountCanPay(p, account)
  /\ PoolCanPay(p)
  /\ CreditTargetSane(p, creditRegistered)
  /\ KernelCanPay(p)
  /\ ShieldedLegs(p)
  /\ UnshieldedGive(p)
  /\ BalanceWrites(p, account)

----------------------------------------------------------------------------
(* The two deposit circuits; anyone may deposit for any registered account. *)
DepositShielded(col, v, acct) ==
  /\ v > 0
  /\ acct \in accounts
  /\ Receivable(PoolState, col, v)
  /\ BecomePool(PoolAfterReceive(PoolState, col, v))
  /\ shieldedBalances[acct][col] + v <= MaxUint128
  /\ shieldedBalances' =
       BalanceSet(shieldedBalances, acct, col, shieldedBalances[acct][col] + v)
  /\ UNCHANGED <<unshieldedBalances, unshieldedHeld>>

DepositUnshielded(col, v, acct) ==
  /\ v > 0
  /\ acct \in accounts
  /\ unshieldedHeld[col] + v <= MaxUint128
  /\ unshieldedHeld' = [unshieldedHeld EXCEPT ![col] = @ + v]
  /\ unshieldedBalances[acct][col] + v <= MaxUint128
  /\ unshieldedBalances' =
       BalanceSet(unshieldedBalances, acct, col,
                  unshieldedBalances[acct][col] + v)
  /\ UNCHANGED <<pools, coins, nextIndex, shieldedBalances>>

----------------------------------------------------------------------------
(* The reader circuits.                                                     *)
PoolValue(col) == IF col \in DOMAIN pools THEN pools[col].value ELSE 0
PoolHasColour(col) == col \in DOMAIN pools

----------------------------------------------------------------------------
Balances == [AccountIds -> [Colours -> Uint128]]

CustodyTypeOK ==
  /\ DOMAIN pools \subseteq Colours
  /\ pools \in [DOMAIN pools -> PooledCoin]
  /\ shieldedBalances \in Balances
  /\ unshieldedBalances \in Balances
  /\ coins \subseteq Coin
  /\ nextIndex \in Nat
  /\ unshieldedHeld \in [Colours -> Uint128]

(* What all accounts together are owed in one colour of one family.         *)
Owed(balances, col) ==
  MapThenSumSet(LAMBDA a : balances[a][col], AccountIds)

(* The pool's entries are exactly the contract's unspent coins, at most one *)
(* per colour and never of value 0: no coin is stranded outside the pool by *)
(* a merge or a change output, and none is offered that is already spent.   *)
PoolIsItsCoins ==
  /\ coins = {CoinOf(PoolState, col) : col \in DOMAIN pools}
  /\ \A col \in DOMAIN pools : pools[col].value > 0

(* A colour's pooled coin is worth exactly what the accounts are owed in    *)
(* it, so the account guard of `custodyDispatch` implies the pool guard:    *)
(* neither "no pooled coin for this colour" nor "pooled colour balance too  *)
(* low" can refuse a payment an account can cover.                          *)
ShieldedBacked == \A col \in Colours : Owed(shieldedBalances, col) = PoolValue(col)

(* The same for the unshielded family and the kernel's balance.             *)
UnshieldedBacked ==
  \A col \in Colours : Owed(unshieldedBalances, col) = unshieldedHeld[col]

(* Only registered accounts hold anything: no credit ever goes to an id     *)
(* that a later registration could claim.                                   *)
OnlyRegisteredHold ==
  \A a \in AccountIds \ accounts, col \in Colours :
    shieldedBalances[a][col] = 0 /\ unshieldedBalances[a][col] = 0
=============================================================================
