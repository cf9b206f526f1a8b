---------------------------- MODULE ProvedCalls -----------------------------
(***************************************************************************)
(* The contract as the chain runs it.  A wallet proves a call off chain    *)
(* against the ledger it sees; the call waits, with other wallets' calls   *)
(* and in any order; when its turn comes its recorded answers are compared *)
(* with the ledger of that moment, and the call is applied as it was       *)
(* proved or not at all (tests/support/replay.rs, `run`).                  *)
(***************************************************************************)
EXTENDS CallTranscript

CONSTANT MaxPending  \* how many proved calls may wait, a bound of the model

ASSUME PendingAssumption == MaxPending \in Nat

VARIABLE pending  \* the proved calls that are not applied yet

callVars == <<vars, cells, pending>>

CallsInit == Init /\ CellsInit /\ pending = {}

ExecuteCall(p, sk, pk) ==
  [circuit |-> "execute", payload |-> p, secret |-> sk, key |-> pk,
   reads |-> Recorded(ExecuteReads(p, sk))]

DepositCall(field, col, v, acct) ==
  [circuit |-> "deposit", field |-> field, color |-> col, value |-> v,
   account |-> acct, reads |-> Recorded(DepositReads(field, col, acct))]

IsExecute(c) == c.circuit = "execute"

(* The circuit proves a call only if its asserts hold on what was read.     *)
Provable(c) ==
  IF IsExecute(c)
  THEN CircuitAccepts(c.payload, c.secret, c.key, c.reads)
  ELSE DepositAccepts(c.field, c.color, c.value, c.account, c.reads)

Prove(c) ==
  /\ Cardinality(pending) < MaxPending
  /\ Provable(c)
  /\ pending' = pending \cup {c}
  /\ UNCHANGED <<vars, cells>>

ProveExecute ==
  \E p \in Payloads, sk \in Secrets, pk \in Owners :
    Prove(ExecuteCall(p, sk, pk))

ProveDeposit ==
  \E v \in Uint128, acct \in AccountIds :
    \/ \E col \in ShieldedTokens :
         Prove(DepositCall("shieldedBalances", col, v, acct))
    \/ \E col \in UnshieldedTokens :
         Prove(DepositCall("unshieldedBalances", col, v, acct))

(* Every recorded answer holds: the call's writes are the ledger's.  One    *)
(* that does not holds nothing back: the call is refused whole.             *)
Apply(c) ==
  /\ Matches(c.reads)
  /\ pending' = pending \ {c}
  /\ IF IsExecute(c)
     THEN ExecuteWrites(c.payload, c.secret, c.reads)
     ELSE DepositWrites(c.field, c.color, c.value, c.account, c.reads)

(* A call is given up, or refused because the ledger has moved.             *)
Drop(c) ==
  /\ pending' = pending \ {c}
  /\ UNCHANGED <<vars, cells>>

Pass == Tick /\ UNCHANGED <<cells, pending>>

CallsNext ==
  \/ ProveExecute
  \/ ProveDeposit
  \/ \E c \in pending : Apply(c) \/ Drop(c)
  \/ Pass

CallsSpec == CallsInit /\ [][CallsNext]_callVars
----------------------------------------------------------------------------
(* A call applied late, after any other calls, does what `execute` or a     *)
(* deposit would do if it ran whole at that moment: the answers a proof     *)
(* records cover everything its guards and its stored values depend on, so  *)
(* nobody's balance, nonce or pooled coin is overwritten with a value       *)
(* computed from an older one.                                              *)
AppliedAsExecuted == Spec

(* What the contract's own asserts and sums ask of a call, on the ledger as *)
(* it stands and without its effects: no execution is refused for less.     *)
RegistrationAllowed(account) ==
  account \notin accounts /\ account \notin DOMAIN accountModes

BalanceOf(field, key) ==
  IF field = "shieldedBalances" THEN shieldedBalances[key[1]][key[2]]
                                ELSE unshieldedBalances[key[1]][key[2]]

ActionAllowed(p, account) ==
  /\ SwapSane(p)
  /\ DestinationSane(p, account, IsRegistered(p.toAccount))
  /\ AccountCanPay(p, account) /\ PoolCanPay(p) /\ KernelCanPay(p)
  /\ CreditTargetSane(p, IsRegistered(p.creditAccount))
  /\ IsSwap(p) => PoolValue(p.wantColor) + p.wantAmount <= MaxUint128
  /\ HasCredit(p) =>
       BalanceOf(CreditField(p), CreditKey(p)) + CreditValue(p) <= MaxUint128

Allowed(p, sk, pk) ==
  /\ Authorised(p, sk, pk)
  /\ IF IsRegistration(p) THEN RegistrationAllowed(AccountFor(p, sk))
                          ELSE ActionAllowed(p, AccountFor(p, sk))

DepositAllowed(field, col, v, acct) ==
  /\ v > 0 /\ acct \in accounts
  /\ BalanceOf(field, <<acct, col>>) + v <= MaxUint128
  /\ field = "shieldedBalances" => PoolValue(col) + v <= MaxUint128

(* Every call the contract's asserts allow has a proof: no range check on   *)
(* the arithmetic of a branch not taken - the give from a pool that is not  *)
(* read, the merge with a coin that is not there, the nonce of a native     *)
(* account - refuses it (custody.rs clamps the give for that).              *)
EveryCallProvable ==
  /\ \A p \in Payloads, sk \in Secrets, pk \in Owners :
       Allowed(p, sk, pk) => Provable(ExecuteCall(p, sk, pk))
  /\ \A v \in Uint128, acct \in AccountIds :
       /\ \A col \in ShieldedTokens :
            DepositAllowed("shieldedBalances", col, v, acct) =>
              Provable(DepositCall("shieldedBalances", col, v, acct))
       /\ \A col \in UnshieldedTokens :
            DepositAllowed("unshieldedBalances", col, v, acct) =>
              Provable(DepositCall("unshieldedBalances", col, v, acct))

(* A waiting unshielded withdrawal whose own balance cell has not changed   *)
(* is never refused for the contract's funds: other accounts' payments and  *)
(* withdrawals, applied in between, cannot take what it proved it could be  *)
(* paid from.                                                               *)
FundsStandBehindCell ==
  \A c \in pending :
    IsExecute(c) /\ c.payload.selector = 3 =>
      LET p == c.payload
          balance == Lookup("unshieldedBalances",
                            DebitKey(p, AccountFor(p, c.secret)))
      IN Answer(balance) = c.reads[balance] =>
           ~ Answer(FundsBelow(p.primaryColor, p.primaryAmount))

(* The waiting calls are calls the circuit accepted.                        *)
CallsTypeOK ==
  /\ TypeOK
  /\ cells \in [BalanceFields -> SUBSET BalanceKeys]
  /\ \A c \in pending : Provable(c)
=============================================================================
