--------------------------- MODULE PromiseProofs ----------------------------
(***************************************************************************)
(* The manager implements CustodyPromise: every call, for every choice of  *)
(* payloads, colours and amounts, is one step of it or changes nothing it  *)
(* sees.  And what an EVM owner's signatures are worth: an account moves   *)
(* once per nonce and only as its owner signed.                            *)
(***************************************************************************)
EXTENDS CustodyProofs

(* A cell is a family and a colour.                                         *)
LEMMA CellParts ==
  ASSUME NEW t \in Cells
  PROVE  /\ t[1] \in {"shielded", "unshielded"} /\ t[2] \in Colours
         /\ \A f, c : t = <<f, c>> <=> t[1] = f /\ t[2] = c
  BY DEF Cells

(* What the refinement mapping reads, cell by cell.                         *)
LEMMA ClaimsRead ==
  ASSUME NEW a \in AccountIds, NEW t \in Cells
  PROVE  /\ Claims[a][t] = IF t[1] = "shielded" THEN shieldedBalances[a][t[2]]
                           ELSE unshieldedBalances[a][t[2]]
         /\ Claims'[a][t] = IF t[1] = "shielded"
                            THEN shieldedBalances'[a][t[2]]
                            ELSE unshieldedBalances'[a][t[2]]
  BY DEF Claims

(* The vault's cells are the pool's worth and the unshielded balance.       *)
LEMMA VaultRead ==
  ASSUME NEW t \in Cells
  PROVE  /\ Vault[t] = IF t[1] = "shielded" THEN Worth(PoolState, t[2])
                                           ELSE unshieldedHeld[t[2]]
         /\ Vault'[t] = IF t[1] = "shielded" THEN Worth(PoolState', t[2])
                                            ELSE unshieldedHeld'[t[2]]
  BY DEF Vault, Worth, PoolState, PoolValue

ViewTyped ==
  /\ Claims \in [AccountIds -> [Cells -> Nat]]
  /\ Vault \in [Cells -> Nat]

(* Claims and vault are functions into the naturals.                        *)
LEMMA ClaimsType == CustodyInv => ViewTyped
<1> SUFFICES ASSUME CustodyInv PROVE ViewTyped
  OBVIOUS
<1>1. \A a \in AccountIds, c \in Colours :
        shieldedBalances[a][c] \in Nat /\ unshieldedBalances[a][c] \in Nat
  BY WidthAssumption DEF CustodyInv, Balances, Uint128
<1>2. \A c \in Colours : PoolValue(c) \in Nat /\ unshieldedHeld[c] \in Nat
  BY WidthAssumption
  DEF CustodyInv, PoolOK, PooledCoin, PoolState, PoolValue, Uint128
<1> QED
  BY <1>1, <1>2, CellParts DEF ViewTyped, Claims, Vault

(* The same of the next state.                                              *)
LEMMA ClaimsTypePrimed == CustodyInv' => ViewTyped'
  BY ClaimsType, PTL

(* A function that differs from f in one cell is f updated in that cell.    *)
LEMMA OneClaim ==
  ASSUME NEW A, NEW C,
         NEW f \in [A -> [C -> Nat]], NEW g \in [A -> [C -> Nat]],
         NEW m \in A, NEW t \in C, NEW w,
         \A a \in A, x \in C :
           g[a][x] = IF a = m /\ x = t THEN w ELSE f[a][x]
  PROVE  g = [f EXCEPT ![m][t] = w]
<1>1. \A x \in C : g[m][x] = [f[m] EXCEPT ![t] = w][x]
  OBVIOUS
<1>2. g[m] = [f[m] EXCEPT ![t] = w]
  BY <1>1
<1>3. \A a \in A \ {m} : g[a] = f[a]
  <2>1. ASSUME NEW a \in A \ {m} PROVE \A x \in C : g[a][x] = f[a][x]
    BY <2>1
  <2> QED
    BY <2>1
<1> QED
  BY <1>2, <1>3

(* One cell lowered and another raised.                                     *)
Moved(f, m, t, v, n, u, w) == [f EXCEPT ![m][t] = @ - v, ![n][u] = @ + w]

(* The same for a debit in one cell and a credit in another.                *)
LEMMA TwoClaims ==
  ASSUME NEW A, NEW C,
         NEW f \in [A -> [C -> Nat]], NEW g \in [A -> [C -> Nat]],
         NEW m \in A, NEW t \in C, NEW v \in Nat, f[m][t] >= v,
         NEW n \in A, NEW u \in C, NEW w \in Nat, m # n \/ t # u,
         \A a \in A, x \in C :
           g[a][x] = f[a][x] - (IF a = m /\ x = t THEN v ELSE 0)
                             + (IF a = n /\ x = u THEN w ELSE 0)
  PROVE  g = Moved(f, m, t, v, n, u, w)
<1> DEFINE h == [f EXCEPT ![m][t] = f[m][t] - v]
<1>1. f[m][t] - v \in Nat
  OBVIOUS
<1>2. h \in [A -> [C -> Nat]]
  BY <1>1
<1>3. \A a \in A, x \in C :
        h[a][x] = IF a = m /\ x = t THEN f[m][t] - v ELSE f[a][x]
  OBVIOUS
<1>4. Moved(f, m, t, v, n, u, w) = [h EXCEPT ![n][u] = h[n][u] + w]
  BY DEF Moved
<1> HIDE DEF h
<1>5. \A a \in A, x \in C :
        g[a][x] = IF a = n /\ x = u THEN h[n][u] + w ELSE h[a][x]
  BY <1>1, <1>3
<1>6. g = [h EXCEPT ![n][u] = h[n][u] + w]
  BY <1>2, <1>5, OneClaim
<1> QED
  BY <1>4, <1>6

----------------------------------------------------------------------------
(* The two cells an action touches.                                         *)
GiveCell(p) ==
  <<IF DebitShielded(p) THEN "shielded" ELSE "unshielded", p.primaryColor>>
CreditCell(p) ==
  <<IF CreditShielded(p) THEN "shielded" ELSE "unshielded", CreditColour(p)>>

(* What an action does to claims and vault: one cell debited, at most one   *)
(* credited.                                                                *)
LEMMA ActionMoves ==
  ASSUME RegistryInv, CustodyInv,
         NEW p \in Payloads, NEW sk \in Secrets, NEW pk,
         ExecuteAction(p, sk, pk)
  PROVE  /\ p.account \in accounts /\ accounts' = accounts
         /\ GiveCell(p) \in Cells /\ CreditCell(p) \in Cells
         /\ p.primaryAmount \in Uint128 /\ p.primaryAmount > 0
         /\ Claims[p.account][GiveCell(p)] >= p.primaryAmount
         /\ \A a \in AccountIds, t \in Cells :
              Claims'[a][t] =
                Claims[a][t]
                - (IF a = p.account /\ t = GiveCell(p)
                   THEN p.primaryAmount ELSE 0)
                + (IF HasCredit(p) /\ a = CreditAccount(p) /\ t = CreditCell(p)
                   THEN CreditValue(p) ELSE 0)
         /\ \A t \in Cells :
              Vault'[t] =
                Vault[t]
                - (IF ~ IsTransfer(p) /\ t = GiveCell(p)
                   THEN p.primaryAmount ELSE 0)
                + (IF IsSwap(p) /\ t = CreditCell(p) THEN p.wantAmount ELSE 0)
<1>1. /\ AssertActionEnvelope(p) /\ ~ IsRegistration(p)
      /\ p.account \in accounts /\ accounts' = accounts
      /\ p.account \in AccountIds
      /\ CustodyDispatch(p, p.account, IsRegistered(p.toAccount),
                         IsRegistered(p.creditAccount))
  BY ActionAccount
  DEF ExecuteAction, Authorised, RegistryInv, RegistryTypeOK
<1>2. /\ p.selector \in 2 .. 6
      /\ p.primaryColor \in Colours /\ p.wantColor \in Colours
      /\ p.primaryAmount \in Uint128 /\ p.primaryAmount > 0
      /\ p.wantAmount \in Uint128
  BY <1>1, ActionPayload
<1>3. GiveCell(p) \in Cells /\ CreditCell(p) \in Cells
  BY <1>2 DEF GiveCell, CreditCell, CreditColour, Cells
<1>4. /\ DebitShielded(p) <=> GiveCell(p)[1] = "shielded"
      /\ GiveCell(p)[2] = p.primaryColor
      /\ CreditShielded(p) <=> CreditCell(p)[1] = "shielded"
      /\ CreditCell(p)[2] = CreditColour(p)
  BY DEF GiveCell, CreditCell
<1>5. Claims[p.account][GiveCell(p)] = DebitBalance(p, p.account)
  BY <1>1, <1>3, <1>4, ClaimsRead DEF DebitBalance
<1>6. DebitBalance(p, p.account) >= p.primaryAmount
  BY <1>1, DispatchBalances
<1>7. ASSUME NEW a \in AccountIds, NEW t \in Cells
      PROVE  Claims'[a][t] =
               Claims[a][t]
               - (IF a = p.account /\ t = GiveCell(p)
                  THEN p.primaryAmount ELSE 0)
               + (IF HasCredit(p) /\ a = CreditAccount(p) /\ t = CreditCell(p)
                  THEN CreditValue(p) ELSE 0)
  <2>1. /\ t[1] \in {"shielded", "unshielded"} /\ t[2] \in Colours
        /\ t = GiveCell(p) <=>
             /\ t[1] = IF DebitShielded(p) THEN "shielded" ELSE "unshielded"
             /\ t[2] = p.primaryColor
        /\ t = CreditCell(p) <=>
             /\ t[1] = IF CreditShielded(p) THEN "shielded" ELSE "unshielded"
             /\ t[2] = CreditColour(p)
    BY CellParts DEF GiveCell, CreditCell
  <2>2. /\ shieldedBalances'[a][t[2]] =
             shieldedBalances[a][t[2]]
             - Taken(p, p.account, DebitShielded(p), a, t[2])
             + Added(p, CreditShielded(p), a, t[2])
        /\ unshieldedBalances'[a][t[2]] =
             unshieldedBalances[a][t[2]]
             - Taken(p, p.account, ~ DebitShielded(p), a, t[2])
             + Added(p, ~ CreditShielded(p), a, t[2])
    BY <1>1, <2>1, DispatchBalances
  <2>3. CASE t[1] = "shielded"
    BY <2>1, <2>2, <2>3, ClaimsRead DEF Taken, Added
  <2>4. CASE t[1] = "unshielded"
    BY <2>1, <2>2, <2>4, ClaimsRead DEF Taken, Added
  <2> QED
    BY <2>1, <2>3, <2>4
<1>8. ASSUME NEW t \in Cells
      PROVE  Vault'[t] =
               Vault[t]
               - (IF ~ IsTransfer(p) /\ t = GiveCell(p)
                  THEN p.primaryAmount ELSE 0)
               + (IF IsSwap(p) /\ t = CreditCell(p) THEN p.wantAmount ELSE 0)
  <2>1. /\ t[1] \in {"shielded", "unshielded"} /\ t[2] \in Colours
        /\ t = GiveCell(p) <=>
             /\ t[1] = IF DebitShielded(p) THEN "shielded" ELSE "unshielded"
             /\ t[2] = p.primaryColor
        /\ t = CreditCell(p) <=>
             /\ t[1] = IF CreditShielded(p) THEN "shielded" ELSE "unshielded"
             /\ t[2] = CreditColour(p)
    BY CellParts DEF GiveCell, CreditCell
  <2>2. Worth(PoolState', t[2]) =
          Worth(PoolState, t[2])
          - (IF NeedsPool(p) /\ t[2] = p.primaryColor
             THEN p.primaryAmount ELSE 0)
          + (IF IsSwap(p) /\ t[2] = p.wantColor THEN p.wantAmount ELSE 0)
    BY <1>1, <2>1, DispatchPools
  <2>3. unshieldedHeld'[t[2]] =
          unshieldedHeld[t[2]] - (IF p.selector = 3 /\ t[2] = p.primaryColor
                                  THEN p.primaryAmount ELSE 0)
    BY <1>1, <2>1, HeldType
  <2>4. unshieldedHeld[t[2]] \in Nat /\ Worth(PoolState, t[2]) \in Nat
    BY <2>1, WidthAssumption
    DEF CustodyInv, PoolOK, PooledCoin, Worth, Uint128
  <2>5. CASE t[1] = "shielded"
    <3>1. NeedsPool(p) <=> ~ IsTransfer(p) /\ DebitShielded(p)
      BY <1>2 DEF NeedsPool, IsTransfer, DebitShielded
    <3>2. IsSwap(p) => CreditShielded(p) /\ CreditColour(p) = p.wantColor
      BY DEF IsSwap, CreditShielded, CreditColour
    <3> QED
      BY <2>1, <2>2, <2>5, <3>1, <3>2, VaultRead
  <2>6. CASE t[1] = "unshielded"
    <3>1. p.selector = 3 <=> ~ IsTransfer(p) /\ ~ DebitShielded(p)
      BY <1>2 DEF IsTransfer, DebitShielded
    <3>2. IsSwap(p) => CreditShielded(p)
      BY DEF IsSwap, CreditShielded
    <3> QED
      BY <1>2, <2>1, <2>3, <2>4, <2>6, <3>1, <3>2, VaultRead, WidthAssumption
      DEF Uint128
  <2> QED
    BY <2>1, <2>5, <2>6
<1> QED
  BY <1>1, <1>2, <1>3, <1>5, <1>6, <1>7, <1>8

(* Which cells and parties the three kinds of action relate.                *)
LEMMA PayloadParties ==
  ASSUME RegistryInv, CustodyInv,
         NEW p \in Payloads, NEW sk \in Secrets, NEW pk,
         ExecuteAction(p, sk, pk)
  PROVE  /\ \/ IsWithdraw(p) /\ ~ HasCredit(p)
            \/ /\ IsTransfer(p) /\ HasCredit(p)
               /\ CreditAccount(p) # p.account
               /\ CreditCell(p) = GiveCell(p)
               /\ CreditValue(p) = p.primaryAmount
            \/ /\ IsSwap(p) /\ HasCredit(p)
               /\ CreditCell(p) # GiveCell(p)
               /\ CreditValue(p) = p.wantAmount
               /\ p.wantAmount \in Uint128 /\ p.wantAmount > 0
         /\ HasCredit(p) => CreditAccount(p) \in accounts
<1>1. /\ AssertActionEnvelope(p) /\ ~ IsRegistration(p)
      /\ p.account \in accounts
      /\ CustodyDispatch(p, p.account, IsRegistered(p.toAccount),
                         IsRegistered(p.creditAccount))
  BY ActionAccount DEF ExecuteAction, Authorised
<1>2. /\ p.selector \in 2 .. 6 /\ p.wantAmount \in Uint128
      /\ p.selector = 6 => p.wantAmount > 0 /\ p.primaryColor # p.wantColor
  BY <1>1, ActionPayload
<1>3. HasCredit(p) => CreditAccount(p) \in accounts
  BY <1>1, DispatchBalances
<1>4. IsTransfer(p) => p.account # p.toAccount
  BY <1>1 DEF CustodyDispatch, DestinationSane
<1>5. CASE p.selector \in {2, 3}
  BY <1>3, <1>5 DEF IsWithdraw, HasCredit, IsTransfer, IsSwap
<1>6. CASE p.selector \in {4, 5}
  BY <1>3, <1>4, <1>6
  DEF HasCredit, IsTransfer, IsSwap, CreditAccount, CreditCell, GiveCell,
      CreditValue, CreditColour, CreditShielded, DebitShielded
<1>7. CASE p.selector = 6
  BY <1>2, <1>3, <1>7
  DEF HasCredit, IsTransfer, IsSwap, CreditAccount, CreditCell, GiveCell,
      CreditValue, CreditColour
<1> QED
  BY <1>2, <1>5, <1>6, <1>7

(* A vault that pays one token and takes in another.                        *)
LEMMA TwoVaultCells ==
  ASSUME NEW C, NEW f \in [C -> Nat], NEW g \in [C -> Nat],
         NEW t \in C, NEW v \in Nat, NEW u \in C, NEW w \in Nat, t # u,
         \A x \in C : g[x] = f[x] - (IF x = t THEN v ELSE 0)
                                  + (IF x = u THEN w ELSE 0)
  PROVE  g = [f EXCEPT ![t] = @ - v, ![u] = @ + w]
<1> DEFINE h == [f EXCEPT ![t] = f[t] - v]
<1>1. [f EXCEPT ![t] = @ - v, ![u] = @ + w] = [h EXCEPT ![u] = f[u] + w]
  OBVIOUS
<1>2. \A x \in C : g[x] = IF x = u THEN f[u] + w ELSE h[x]
  OBVIOUS
<1>3. g = [h EXCEPT ![u] = f[u] + w]
  BY <1>2
<1> QED
  BY <1>1, <1>3

(* A withdrawal, transfer or swap is a step of the abstract specification.  *)
LEMMA ActionKeepsPromise ==
  ASSUME RegistryInv, CustodyInv,
         NEW p \in Payloads, NEW sk \in Secrets, NEW pk,
         ExecuteAction(p, sk, pk)
  PROVE  Promise!Next
<1> DEFINE m == p.account
           n == CreditAccount(p)
           t == GiveCell(p)
           u == CreditCell(p)
           v == p.primaryAmount
           w == CreditValue(p)
<1>1. /\ m \in accounts /\ accounts' = accounts
      /\ t \in Cells /\ u \in Cells
      /\ v \in Uint128 /\ v > 0
      /\ Claims[m][t] >= v
      /\ \A a \in AccountIds, x \in Cells :
           Claims'[a][x] =
             Claims[a][x] - (IF a = m /\ x = t THEN v ELSE 0)
             + (IF HasCredit(p) /\ a = n /\ x = u THEN w ELSE 0)
      /\ \A x \in Cells :
           Vault'[x] =
             Vault[x] - (IF ~ IsTransfer(p) /\ x = t THEN v ELSE 0)
             + (IF IsSwap(p) /\ x = u THEN p.wantAmount ELSE 0)
  BY ActionMoves
<1>2. /\ \/ IsWithdraw(p) /\ ~ HasCredit(p)
         \/ IsTransfer(p) /\ HasCredit(p) /\ n # m /\ u = t /\ w = v
         \/ /\ IsSwap(p) /\ HasCredit(p) /\ u # t
            /\ w = p.wantAmount /\ w \in Uint128 /\ w > 0
      /\ HasCredit(p) => n \in accounts
  BY PayloadParties
<1>3. accounts \subseteq AccountIds
  BY DEF RegistryInv, RegistryTypeOK
<1>4. v \in Nat /\ (w \in Uint128 => w \in Nat)
  BY <1>1, WidthAssumption DEF Uint128
<1>5. /\ Claims \in [AccountIds -> [Cells -> Nat]]
      /\ Claims' \in [AccountIds -> [Cells -> Nat]]
      /\ Vault \in [Cells -> Nat] /\ Vault' \in [Cells -> Nat]
  <2>1. CustodyInv'
    BY CustodyActionStep
  <2> QED
    BY <2>1, ClaimsType, ClaimsTypePrimed DEF ViewTyped
<1>6. /\ IsWithdraw(p) => ~ IsTransfer(p) /\ ~ IsSwap(p)
      /\ IsTransfer(p) => ~ IsSwap(p)
  BY DEF IsWithdraw, IsTransfer, IsSwap
<1> HIDE DEF m, n, t, u, v, w
<1>7. CASE IsWithdraw(p)
  <2>1. Claims' = [Claims EXCEPT ![m][t] = Claims[m][t] - v]
    <3>1. \A a \in AccountIds, x \in Cells :
            Claims'[a][x] = IF a = m /\ x = t THEN Claims[m][t] - v
                                             ELSE Claims[a][x]
      BY <1>1, <1>2, <1>4, <1>5, <1>6, <1>7
    <3> QED
      BY <1>1, <1>3, <1>5, <3>1, OneClaim
  <2>2. Vault' = [Vault EXCEPT ![t] = @ - v]
    <3>1. \A x \in Cells :
            Vault'[x] = IF x = t THEN Vault[t] - v ELSE Vault[x]
      BY <1>1, <1>4, <1>5, <1>6, <1>7
    <3> QED
      BY <1>1, <1>5, <3>1
  <2>3. Promise!Withdraw(m, t, v)
    BY <1>1, <2>1, <2>2 DEF Promise!Withdraw
  <2> QED
    BY <1>1, <1>3, <2>3 DEF Promise!Next
<1>8. CASE IsTransfer(p)
  <2>1. HasCredit(p) /\ n # m /\ u = t /\ w = v /\ n \in accounts /\ ~ IsSwap(p)
    BY <1>2, <1>6, <1>8
  <2>2. Claims' = Moved(Claims, m, t, v, n, t, v)
    BY <1>1, <1>3, <1>4, <1>5, <2>1, TwoClaims
  <2>3. Vault' = Vault
    <3>1. \A x \in Cells : Vault'[x] = Vault[x]
      BY <1>1, <1>5, <1>8, <2>1
    <3> QED
      BY <1>5, <3>1
  <2>4. Promise!Transfer(m, n, t, v)
    BY <1>1, <2>1, <2>2, <2>3 DEF Promise!Transfer, Moved
  <2> QED
    BY <1>1, <1>3, <2>1, <2>4 DEF Promise!Next
<1>9. CASE IsSwap(p)
  <2>1. /\ HasCredit(p) /\ u # t /\ n \in accounts /\ ~ IsTransfer(p)
        /\ w = p.wantAmount /\ w \in Uint128 /\ w > 0 /\ w \in Nat
    BY <1>2, <1>4, <1>6, <1>9
  <2>2. Claims' = Moved(Claims, m, t, v, n, u, w)
    <3>1. /\ t # u /\ m \in AccountIds /\ n \in AccountIds
          /\ t \in Cells /\ u \in Cells /\ v \in Nat /\ w \in Nat
          /\ Claims[m][t] >= v
      BY <1>1, <1>3, <1>4, <2>1
    <3>2. \A a \in AccountIds, x \in Cells :
            Claims'[a][x] = Claims[a][x] - (IF a = m /\ x = t THEN v ELSE 0)
                                         + (IF a = n /\ x = u THEN w ELSE 0)
      BY <1>1, <2>1
    <3> QED
      BY <1>5, <3>1, <3>2, TwoClaims
  <2>3. Vault' = [Vault EXCEPT ![t] = @ - v, ![u] = @ + w]
    BY <1>1, <1>4, <1>5, <1>9, <2>1, TwoVaultCells
  <2>4. Promise!Exchange(m, t, v, n, u, w)
    BY <1>1, <2>1, <2>2, <2>3 DEF Promise!Exchange, Moved
  <2> QED
    BY <1>1, <1>3, <2>1, <2>4 DEF Promise!Next
<1> QED
  BY <1>2, <1>7, <1>8, <1>9

(* A registration is a Join.                                                *)
LEMMA RegistrationKeepsPromise ==
  ASSUME NEW p \in Payloads, NEW sk \in Secrets, NEW pk,
         ExecuteRegistration(p, sk, pk)
  PROVE  Promise!Next
<1>1. AccountFor(p, sk) \in AccountIds
  BY RegistrationAccount DEF ExecuteRegistration, AccountIds
<1>2. Promise!Join(AccountFor(p, sk))
  BY DEF ExecuteRegistration, RegisterAccount, custodyVars, Promise!Join,
         Claims, Vault, PoolValue
<1> QED
  BY <1>1, <1>2 DEF Promise!Next

(* A deposit raises one claim and its vault cell by the same amount.        *)
LEMMA DepositMoves ==
  ASSUME CustodyInv, CustodyInv', NEW acct \in accounts, acct \in AccountIds,
         NEW t \in Cells, NEW v \in Uint128, v > 0, UNCHANGED accounts,
         \A a \in AccountIds, x \in Cells :
           Claims'[a][x] = Claims[a][x] + (IF a = acct /\ x = t THEN v ELSE 0),
         \A x \in Cells : Vault'[x] = Vault[x] + (IF x = t THEN v ELSE 0)
  PROVE  Promise!Next
<1>1. ViewTyped /\ ViewTyped'
  BY ClaimsType, ClaimsTypePrimed
<1>2. /\ Claims \in [AccountIds -> [Cells -> Nat]]
      /\ Claims' \in [AccountIds -> [Cells -> Nat]]
      /\ Vault \in [Cells -> Nat] /\ Vault' \in [Cells -> Nat]
  BY <1>1 DEF ViewTyped
<1>3. Claims' = [Claims EXCEPT ![acct][t] = Claims[acct][t] + v]
  <2>1. \A a \in AccountIds, x \in Cells :
          Claims'[a][x] = IF a = acct /\ x = t THEN Claims[acct][t] + v
                                              ELSE Claims[a][x]
    BY <1>2
  <2> QED
    BY <1>2, <2>1, OneClaim
<1>4. Vault' = [Vault EXCEPT ![t] = @ + v]
  <2>1. \A x \in Cells : Vault'[x] = IF x = t THEN Vault[t] + v ELSE Vault[x]
    BY <1>2
  <2> QED
    BY <1>2, <2>1
<1>5. Promise!Deposit(acct, t, v)
  BY <1>3, <1>4 DEF Promise!Deposit
<1> QED
  BY <1>5 DEF Promise!Next

(* A shielded deposit is a Deposit in the colour's shielded cell.           *)
LEMMA DepositShieldedMoves ==
  ASSUME RegistryInv, CustodyInv,
         NEW col \in ShieldedTokens, NEW v \in Uint128, NEW acct \in AccountIds,
         DepositShielded(col, v, acct), UNCHANGED accounts
  PROVE  Promise!Next
<1> DEFINE t == <<"shielded", col>>
<1>1. /\ v > 0 /\ acct \in accounts /\ col \in Colours /\ t \in Cells
      /\ shieldedBalances' = BalanceSet(shieldedBalances, acct, col,
                                        shieldedBalances[acct][col] + v)
      /\ unshieldedBalances' = unshieldedBalances
      /\ unshieldedHeld' = unshieldedHeld
      /\ Receivable(PoolState, col, v)
      /\ BecomePool(PoolAfterReceive(PoolState, col, v))
  BY TokenAssumption DEF DepositShielded, Cells
<1>2. CustodyInv'
  BY DepositShieldedStep
<1>3. /\ shieldedBalances \in Balances /\ ViewTyped
  BY ClaimsType DEF CustodyInv
<1>4. ASSUME NEW a \in AccountIds, NEW x \in Cells
      PROVE  Claims'[a][x] =
               Claims[a][x] + (IF a = acct /\ x = t THEN v ELSE 0)
  <2>1. /\ x[1] \in {"shielded", "unshielded"} /\ x[2] \in Colours
        /\ x = t <=> x[1] = "shielded" /\ x[2] = col
    BY CellParts
  <2>2. Claims[a][x] \in Nat
    BY <1>3 DEF ViewTyped
  <2>3. shieldedBalances'[a][x[2]] =
          IF a = acct /\ x[2] = col THEN shieldedBalances[acct][col] + v
                                   ELSE shieldedBalances[a][x[2]]
    BY <1>1, <1>3, <2>1, BalanceSetRead
  <2> QED
    BY <1>1, <2>1, <2>2, <2>3, ClaimsRead
<1>5. /\ PoolOK(PoolAfterReceive(PoolState, col, v))
      /\ Worth(PoolAfterReceive(PoolState, col, v), col) =
           Worth(PoolState, col) + v
      /\ \A c \in Colours \ {col} :
           Worth(PoolAfterReceive(PoolState, col, v), c) = Worth(PoolState, c)
  BY <1>1, ReceiveIntoPool DEF CustodyInv
<1>6. PoolState' = PoolAfterReceive(PoolState, col, v)
  BY <1>1, <1>5 DEF BecomePool, PoolState, PoolOK
<1>7. ASSUME NEW x \in Cells
      PROVE  Vault'[x] = Vault[x] + (IF x = t THEN v ELSE 0)
  <2>1. /\ x[1] \in {"shielded", "unshielded"} /\ x[2] \in Colours
        /\ x = t <=> x[1] = "shielded" /\ x[2] = col
    BY CellParts
  <2>2. Vault[x] \in Nat
    BY <1>3 DEF ViewTyped
  <2> QED
    BY <1>1, <1>5, <1>6, <2>1, <2>2, VaultRead
<1> QED
  BY <1>1, <1>2, <1>4, <1>7, DepositMoves

(* An unshielded one is a Deposit in its unshielded cell.                   *)
LEMMA DepositUnshieldedMoves ==
  ASSUME RegistryInv, CustodyInv,
         NEW col \in UnshieldedTokens, NEW v \in Uint128,
         NEW acct \in AccountIds,
         DepositUnshielded(col, v, acct), UNCHANGED accounts
  PROVE  Promise!Next
<1> DEFINE t == <<"unshielded", col>>
<1>1. /\ v > 0 /\ acct \in accounts /\ col \in Colours /\ t \in Cells
      /\ unshieldedBalances' = BalanceSet(unshieldedBalances, acct, col,
                                          unshieldedBalances[acct][col] + v)
      /\ unshieldedHeld' = [unshieldedHeld EXCEPT ![col] = @ + v]
      /\ UNCHANGED <<pools, coins, nextIndex, shieldedBalances>>
  BY TokenAssumption DEF DepositUnshielded, Cells
<1>2. CustodyInv'
  BY DepositUnshieldedStep
<1>3. /\ unshieldedBalances \in Balances /\ ViewTyped
      /\ unshieldedHeld \in [Colours -> Uint128]
  BY ClaimsType DEF CustodyInv
<1>4. ASSUME NEW a \in AccountIds, NEW x \in Cells
      PROVE  Claims'[a][x] =
               Claims[a][x] + (IF a = acct /\ x = t THEN v ELSE 0)
  <2>1. /\ x[1] \in {"shielded", "unshielded"} /\ x[2] \in Colours
        /\ x = t <=> x[1] = "unshielded" /\ x[2] = col
    BY CellParts
  <2>2. Claims[a][x] \in Nat
    BY <1>3 DEF ViewTyped
  <2>3. unshieldedBalances'[a][x[2]] =
          IF a = acct /\ x[2] = col THEN unshieldedBalances[acct][col] + v
                                   ELSE unshieldedBalances[a][x[2]]
    BY <1>1, <1>3, <2>1, BalanceSetRead
  <2> QED
    BY <1>1, <2>1, <2>2, <2>3, ClaimsRead
<1>5. ASSUME NEW x \in Cells
      PROVE  Vault'[x] = Vault[x] + (IF x = t THEN v ELSE 0)
  <2>1. /\ x[1] \in {"shielded", "unshielded"} /\ x[2] \in Colours
        /\ x = t <=> x[1] = "unshielded" /\ x[2] = col
    BY CellParts
  <2>2. Vault[x] \in Nat /\ PoolState' = PoolState
    BY <1>1, <1>3 DEF ViewTyped, PoolState
  <2>3. unshieldedHeld'[x[2]] = IF x[2] = col THEN unshieldedHeld[col] + v
                                             ELSE unshieldedHeld[x[2]]
    BY <1>1, <1>3, <2>1
  <2> QED
    BY <2>1, <2>2, <2>3, VaultRead
<1> QED
  BY <1>1, <1>2, <1>4, <1>5, DepositMoves

----------------------------------------------------------------------------
(* The deployed contract maps to the empty vault.                           *)
LEMMA PromiseInitially == Init => Promise!Init
  BY DEF Init, RegistryInit, CustodyInit, Promise!Init, Claims, Vault, Cells,
         PoolValue

(* Every step maps to a step of CustodyPromise or to a stutter.             *)
LEMMA PromiseStep ==
  ASSUME RegistryInv, CustodyInv, [Next]_vars
  PROVE  [Promise!Next]_(Promise!vars)
<1>1. ASSUME NEW p \in Payloads, NEW sk \in Secrets, NEW pk \in Owners,
             Execute(p, sk, pk)
      PROVE  Promise!Next
  BY <1>1, ActionKeepsPromise, RegistrationKeepsPromise DEF Execute
<1>2. CASE Deposit
  BY <1>2, DepositShieldedMoves, DepositUnshieldedMoves
  DEF Deposit, registryVars
<1>3. CASE UNCHANGED <<registryVars, custodyVars>>
  BY <1>3
  DEF registryVars, custodyVars, Promise!vars, Claims, Vault, PoolValue
<1> QED
  BY <1>1, <1>2, <1>3 DEF Next, Tick, vars

(* Every behaviour of the manager is a behaviour of CustodyPromise.         *)
THEOREM ManagerKeepsPromise == Spec => PromiseKept
<1>1. Init => Promise!Init
  BY PromiseInitially
<1>2. RegistryInv /\ CustodyInv /\ [Next]_vars => [Promise!Next]_(Promise!vars)
  BY PromiseStep
<1> QED
  BY <1>1, <1>2, CustodyInvariant, PTL DEF Spec, PromiseKept, Promise!Spec

----------------------------------------------------------------------------
(* An action moves the nonce of the EVM account it acts for by one, and no  *)
(* other nonce.                                                             *)
LEMMA NonceStep ==
  ASSUME RegistryInv,
         NEW p \in Payloads, NEW sk \in Secrets, NEW pk,
         ExecuteAction(p, sk, pk), NEW a \in DOMAIN evmNonces
  PROVE  /\ DOMAIN evmNonces' = DOMAIN evmNonces
         /\ evmNonces[a] \in Nat
         /\ a = p.account =>
              IsEvmAuthorized(p) /\ evmNonces'[a] = evmNonces[a] + 1
         /\ a # p.account => evmNonces'[a] = evmNonces[a]
<1>1. Authorised(p, sk, pk) /\ ~ IsRegistration(p)
  BY DEF ExecuteAction
<1>2. evmNonces' = IF IsEvmAuthorized(p)
                   THEN Insert(evmNonces, p.account, p.nonce + 1)
                   ELSE evmNonces
  BY <1>1, ActionAccount
  DEF ExecuteAction, WriteNonce, StoredNonce, IsRegistration, IsEvmRegistration
<1>3. evmNonces[a] \in Nat
  BY WidthAssumption DEF RegistryInv, RegistryTypeOK, Uint64
<1>4. CASE IsEvmAuthorized(p)
  <2>1. p.account \in DOMAIN evmNonces /\ p.nonce = evmNonces[p.account]
    BY <1>1, <1>4, ActionAccount
  <2> QED
    BY <1>2, <1>3, <1>4, <2>1 DEF Insert
<1>5. CASE ~ IsEvmAuthorized(p)
  BY <1>1, <1>2, <1>3, <1>5, ActionAccount
<1> QED
  BY <1>4, <1>5

(* An action takes value only from the account that acts.                   *)
LEMMA OnlyActorLoses ==
  ASSUME RegistryInv, CustodyInv,
         NEW p \in Payloads, NEW sk \in Secrets, NEW pk,
         ExecuteAction(p, sk, pk),
         NEW a \in AccountIds, a # p.account
  PROVE  ~ Loses(a)
<1>1. /\ AssertActionEnvelope(p) /\ ~ IsRegistration(p)
      /\ p.account \in accounts
      /\ CustodyDispatch(p, p.account, IsRegistered(p.toAccount),
                         IsRegistered(p.creditAccount))
  BY ActionAccount DEF ExecuteAction, Authorised
<1>2. CreditValue(p) \in Nat
  BY <1>1, ActionPayload, WidthAssumption DEF CreditValue, Uint128
<1>3. ASSUME NEW c \in Colours
      PROVE  /\ ~ (shieldedBalances'[a][c] < shieldedBalances[a][c])
             /\ ~ (unshieldedBalances'[a][c] < unshieldedBalances[a][c])
  <2>1. /\ shieldedBalances'[a][c] =
             shieldedBalances[a][c]
             - Taken(p, p.account, DebitShielded(p), a, c)
             + Added(p, CreditShielded(p), a, c)
        /\ unshieldedBalances'[a][c] =
             unshieldedBalances[a][c]
             - Taken(p, p.account, ~ DebitShielded(p), a, c)
             + Added(p, ~ CreditShielded(p), a, c)
    BY <1>1, DispatchBalances
  <2>2. \A s : Taken(p, p.account, s, a, c) = 0
    BY DEF Taken
  <2>3. \A s : Added(p, s, a, c) \in Nat
    BY <1>2 DEF Added
  <2>4. shieldedBalances[a][c] \in Nat /\ unshieldedBalances[a][c] \in Nat
    BY WidthAssumption DEF CustodyInv, Balances, Uint128
  <2> QED
    BY <2>1, <2>2, <2>3, <2>4
<1> QED
  BY <1>3 DEF Loses

(* A deposit takes nothing out of any account.                              *)
LEMMA DepositNeverTakes ==
  ASSUME CustodyInv, Deposit, NEW a \in AccountIds
  PROVE  ~ Loses(a)
<1>1. ASSUME NEW b \in Balances, NEW acct \in AccountIds, NEW c \in Colours,
             NEW v \in Uint128, NEW x \in Colours
      PROVE  ~ (BalanceSet(b, acct, c, b[acct][c] + v)[a][x] < b[a][x])
  <2>1. b[a][x] \in Nat /\ b[acct][c] \in Nat /\ v \in Nat
    BY WidthAssumption DEF Balances, Uint128
  <2>2. BalanceSet(b, acct, c, b[acct][c] + v)[a][x] =
          IF a = acct /\ x = c THEN b[acct][c] + v ELSE b[a][x]
    BY BalanceSetRead
  <2> QED
    BY <2>1, <2>2
<1>2. \A x \in Colours :
        shieldedBalances[a][x] \in Nat /\ unshieldedBalances[a][x] \in Nat
  BY WidthAssumption DEF CustodyInv, Balances, Uint128
<1>3. ASSUME NEW v \in Uint128, NEW acct \in AccountIds,
             NEW col \in ShieldedTokens, DepositShielded(col, v, acct)
      PROVE  ~ Loses(a)
  BY <1>1, <1>2, <1>3, TokenAssumption DEF DepositShielded, Loses, CustodyInv
<1>4. ASSUME NEW v \in Uint128, NEW acct \in AccountIds,
             NEW col \in UnshieldedTokens, DepositUnshielded(col, v, acct)
      PROVE  ~ Loses(a)
  BY <1>1, <1>2, <1>4, TokenAssumption DEF DepositUnshielded, Loses, CustodyInv
<1> QED
  BY <1>3, <1>4 DEF Deposit

(* Nor does a step that leaves the custody half alone.                      *)
LEMMA UntouchedNeverLoses ==
  ASSUME CustodyInv, UNCHANGED custodyVars, NEW a \in AccountIds
  PROVE  ~ Loses(a)
<1>1. \A x \in Colours :
        shieldedBalances[a][x] \in Nat /\ unshieldedBalances[a][x] \in Nat
  BY WidthAssumption DEF CustodyInv, Balances, Uint128
<1> QED
  BY <1>1 DEF custodyVars, Loses

----------------------------------------------------------------------------
(* A registration starts an EVM account's nonce at 0 and moves no other.    *)
LEMMA RegistrationCounts ==
  ASSUME RegistryInv, CustodyInv,
         NEW p \in Payloads, NEW sk \in Secrets, NEW pk,
         ExecuteRegistration(p, sk, pk), NEW a \in AccountIds
  PROVE  NonceCounts(a)
<1> DEFINE acct == AccountFor(p, sk)
<1>1. /\ acct \notin accounts /\ UNCHANGED custodyVars
      /\ evmNonces' = IF IsEvmRegistration(p)
                      THEN Insert(evmNonces, acct, StoredNonce(p))
                      ELSE evmNonces
  BY RegistrationAccount
  DEF ExecuteRegistration, RegisterAccount, WriteNonce
<1>2. ~ Loses(a)
  BY <1>1, UntouchedNeverLoses
<1>3. DOMAIN evmNonces \subseteq accounts
  BY DEF RegistryInv, RegistryCoherent
<1>4. \A x \in DOMAIN evmNonces : evmNonces[x] \in Nat
  BY WidthAssumption DEF RegistryInv, RegistryTypeOK, Uint64
<1> HIDE DEF acct
<1>5. CASE IsEvmRegistration(p)
  <2>1. evmNonces' = Insert(evmNonces, acct, 0)
    BY <1>1, <1>5 DEF StoredNonce
  <2> QED
    BY <1>1, <1>2, <1>3, <1>4, <2>1 DEF NonceCounts, Insert
<1>6. CASE ~ IsEvmRegistration(p)
  BY <1>1, <1>2, <1>4, <1>6 DEF NonceCounts
<1> QED
  BY <1>5, <1>6

(* An action lowers only the account it acts for, whose nonce it moves.     *)
LEMMA ActionCounts ==
  ASSUME RegistryInv, CustodyInv,
         NEW p \in Payloads, NEW sk \in Secrets, NEW pk,
         ExecuteAction(p, sk, pk), NEW a \in AccountIds
  PROVE  NonceCounts(a)
<1>1. CASE a \in DOMAIN evmNonces
  <2>1. a # p.account => ~ Loses(a)
    BY OnlyActorLoses
  <2> QED
    BY <1>1, <2>1, NonceStep DEF NonceCounts
<1>2. CASE a \notin DOMAIN evmNonces
  <2>1. DOMAIN evmNonces' = DOMAIN evmNonces
    <3>1. CASE IsEvmAuthorized(p)
      <4>1. p.account \in DOMAIN evmNonces
        BY <3>1, ActionAccount DEF ExecuteAction
      <4> QED
        BY <4>1, NonceStep
    <3>2. CASE ~ IsEvmAuthorized(p)
      BY <3>2 DEF ExecuteAction, WriteNonce
    <3> QED
      BY <3>1, <3>2
  <2> QED
    BY <1>2, <2>1 DEF NonceCounts
<1> QED
  BY <1>1, <1>2

(* An EVM account's nonce starts at 0, moves by one or not at all, and      *)
(* moves whenever value leaves the account: no signature pays twice.        *)
THEOREM NoncesCountDebits == Spec => DebitConsumesNonce
<1>1. ASSUME RegistryInv, CustodyInv, [Next]_vars, NEW a \in AccountIds
      PROVE  NonceCounts(a) \/ UNCHANGED vars
  <2>1. ASSUME NEW p \in Payloads, NEW sk \in Secrets, NEW pk \in Owners,
               Execute(p, sk, pk)
        PROVE  NonceCounts(a)
    BY <1>1, <2>1, RegistrationCounts, ActionCounts DEF Execute
  <2>2. \A x \in DOMAIN evmNonces : evmNonces[x] \in Nat
    BY <1>1, WidthAssumption DEF RegistryInv, RegistryTypeOK, Uint64
  <2>3. CASE Deposit
    <3>1. ~ Loses(a) /\ evmNonces' = evmNonces
      BY <1>1, <2>3, DepositNeverTakes DEF Deposit, registryVars
    <3> QED
      BY <2>2, <3>1 DEF NonceCounts
  <2>4. CASE Tick
    <3>1. ~ Loses(a) /\ evmNonces' = evmNonces
      BY <1>1, <2>4, UntouchedNeverLoses DEF Tick, registryVars
    <3> QED
      BY <2>2, <3>1 DEF NonceCounts
  <2> QED
    BY <1>1, <2>1, <2>3, <2>4 DEF Next
<1>2. RegistryInv /\ CustodyInv /\ [Next]_vars
        => [\A a \in AccountIds : NonceCounts(a)]_vars
  BY <1>1
<1> QED
  BY <1>2, CustodyInvariant, PTL DEF Spec, DebitConsumesNonce

----------------------------------------------------------------------------
(* The action that moves an EVM account is one its owner signed, in time.   *)
LEMMA ActorConsents ==
  ASSUME RegistryInv, CustodyInv,
         NEW p \in Payloads, NEW sk \in Secrets, NEW pk,
         ExecuteAction(p, sk, pk), p.account \in DOMAIN evmOwners
  PROVE  Consents(p, p.account)
<1>1. Authorised(p, sk, pk) /\ ~ IsRegistration(p)
  BY DEF ExecuteAction
<1>2. /\ IsEvmAuthorized(p)
      /\ p.owner = evmOwners[p.account] /\ p.nonce = evmNonces[p.account]
  BY <1>1, ActionAccount
<1>3. <<evmOwners[p.account], EvmDigest(p)>> \in Signed
  BY <1>1, <1>2 DEF Authorised, SignatureAccepted
<1>4. AssertLiveDeadline(p.validUntil)
  BY <1>1, <1>2 DEF Authorised
<1>5. p.validUntil \in Nat /\ blockTime \in Nat
  BY PayloadAssumption, WidthAssumption
  DEF ExecutePayload, RegistryInv, Uint64
<1>6. blockTime < p.validUntil /\ p.validUntil <= blockTime + LiveHorizon
  BY <1>4, <1>5, HorizonAssumption DEF AssertLiveDeadline
<1> QED
  BY <1>2, <1>3, <1>6 DEF Consents

(* The step does what its payload says, to its beneficiary and nobody else. *)
LEMMA ActorCarries ==
  ASSUME RegistryInv, CustodyInv,
         NEW p \in Payloads, NEW sk \in Secrets, NEW pk,
         ExecuteAction(p, sk, pk)
  PROVE  Carries(p, p.account)
<1>1. /\ AssertActionEnvelope(p) /\ ~ IsRegistration(p)
      /\ p.account \in accounts /\ p.account \in AccountIds
      /\ CustodyDispatch(p, p.account, IsRegistered(p.toAccount),
                         IsRegistered(p.creditAccount))
  BY ActionAccount
  DEF ExecuteAction, Authorised, RegistryInv, RegistryTypeOK
<1>2. /\ p.primaryColor \in Colours /\ p.primaryAmount \in Nat
      /\ CreditValue(p) \in Nat
  BY <1>1, ActionPayload, WidthAssumption DEF CreditValue, Uint128
<1>3. HasCredit(p) => ~ (CreditAccount(p) = p.account
                         /\ CreditColour(p) = p.primaryColor)
  BY <1>1, DispatchBalances
<1>4. \A x \in AccountIds, y \in Colours :
        /\ shieldedBalances[x][y] \in Nat /\ unshieldedBalances[x][y] \in Nat
        /\ shieldedBalances'[x][y] =
             shieldedBalances[x][y]
             - Taken(p, p.account, DebitShielded(p), x, y)
             + Added(p, CreditShielded(p), x, y)
        /\ unshieldedBalances'[x][y] =
             unshieldedBalances[x][y]
             - Taken(p, p.account, ~ DebitShielded(p), x, y)
             + Added(p, ~ CreditShielded(p), x, y)
  BY <1>1, DispatchBalances, WidthAssumption DEF CustodyInv, Balances, Uint128
<1>5. DebitBalance(p, p.account)' = DebitBalance(p, p.account) - p.primaryAmount
  <2>1. \A s : Added(p, s, p.account, p.primaryColor) = 0
    BY <1>3 DEF Added
  <2>2. CASE DebitShielded(p)
    <3>1. Taken(p, p.account, DebitShielded(p), p.account, p.primaryColor)
            = p.primaryAmount
      BY <2>2 DEF Taken
    <3>2. shieldedBalances'[p.account][p.primaryColor] =
            shieldedBalances[p.account][p.primaryColor]
            - Taken(p, p.account, DebitShielded(p), p.account, p.primaryColor)
            + Added(p, CreditShielded(p), p.account, p.primaryColor)
      BY <1>1, <1>2, <1>4
    <3>3. /\ Added(p, CreditShielded(p), p.account, p.primaryColor) = 0
          /\ shieldedBalances[p.account][p.primaryColor] \in Nat
      BY <1>1, <1>2, <1>4, <2>1
    <3>4. /\ DebitBalance(p, p.account)
               = shieldedBalances[p.account][p.primaryColor]
          /\ DebitBalance(p, p.account)'
               = shieldedBalances'[p.account][p.primaryColor]
      BY <2>2 DEF DebitBalance
    <3> QED
      BY <1>2, <3>1, <3>2, <3>3, <3>4
  <2>3. CASE ~ DebitShielded(p)
    <3>1. Taken(p, p.account, ~ DebitShielded(p), p.account, p.primaryColor)
            = p.primaryAmount
      BY <2>3 DEF Taken
    <3>2. unshieldedBalances'[p.account][p.primaryColor] =
            unshieldedBalances[p.account][p.primaryColor]
            - Taken(p, p.account, ~ DebitShielded(p), p.account, p.primaryColor)
            + Added(p, ~ CreditShielded(p), p.account, p.primaryColor)
      BY <1>1, <1>2, <1>4
    <3>3. /\ Added(p, ~ CreditShielded(p), p.account, p.primaryColor) = 0
          /\ unshieldedBalances[p.account][p.primaryColor] \in Nat
      BY <1>1, <1>2, <1>4, <2>1
    <3>4. /\ DebitBalance(p, p.account)
               = unshieldedBalances[p.account][p.primaryColor]
          /\ DebitBalance(p, p.account)'
               = unshieldedBalances'[p.account][p.primaryColor]
      BY <2>3 DEF DebitBalance
    <3> QED
      BY <1>2, <3>1, <3>2, <3>3, <3>4
  <2> QED
    BY <2>2, <2>3
<1>6. ASSUME NEW b \in AccountIds \ {p.account}, NEW y \in Colours
      PROVE  /\ shieldedBalances'[b][y] - shieldedBalances[b][y]
                  = Added(p, CreditShielded(p), b, y)
             /\ unshieldedBalances'[b][y] - unshieldedBalances[b][y]
                  = Added(p, ~ CreditShielded(p), b, y)
  <2>1. \A s : Taken(p, p.account, s, b, y) = 0
    BY DEF Taken
  <2>2. \A s : Added(p, s, b, y) \in Nat
    BY <1>2 DEF Added
  <2> QED
    BY <1>4, <2>1, <2>2
<1> QED
  BY <1>5, <1>6 DEF Carries, Added

(* An EVM account moves only as its registered owner signed, for just that  *)
(* nonce and within the deadline, and the step then does what was signed.   *)
THEOREM OnlyOwnersMove == Spec => DebitsAreConsented
<1>1. ASSUME RegistryInv, CustodyInv, [Next]_vars, NEW a \in DOMAIN evmOwners
      PROVE  ConsentedDebit(a)
  <2>1. a \in AccountIds /\ a \in DOMAIN evmNonces /\ a \in accounts
    BY <1>1 DEF RegistryInv, RegistryCoherent, RegistryTypeOK
  <2>2. ASSUME NEW p \in Payloads, NEW sk \in Secrets, NEW pk \in Owners,
               ExecuteAction(p, sk, pk)
        PROVE  ConsentedDebit(a)
    <3>1. CASE a = p.account
      BY <1>1, <2>2, <3>1, ActorConsents, ActorCarries DEF ConsentedDebit
    <3>2. CASE a # p.account
      BY <1>1, <2>1, <2>2, <3>2, OnlyActorLoses, NonceStep DEF ConsentedDebit
    <3> QED
      BY <3>1, <3>2
  <2>3. ASSUME NEW p \in Payloads, NEW sk \in Secrets, NEW pk \in Owners,
               ExecuteRegistration(p, sk, pk)
        PROVE  ConsentedDebit(a)
    <3>1. UNCHANGED custodyVars /\ AccountFor(p, sk) \notin accounts
      BY <2>3 DEF ExecuteRegistration, RegisterAccount
    <3>2. evmNonces'[a] = evmNonces[a]
      BY <2>1, <2>3, <3>1 DEF ExecuteRegistration, WriteNonce, Insert
    <3> QED
      BY <1>1, <2>1, <3>1, <3>2, UntouchedNeverLoses DEF ConsentedDebit
  <2>4. CASE Deposit
    BY <1>1, <2>1, <2>4, DepositNeverTakes
    DEF Deposit, registryVars, ConsentedDebit
  <2>5. CASE UNCHANGED <<registryVars, custodyVars>>
    BY <1>1, <2>1, <2>5, UntouchedNeverLoses DEF registryVars, ConsentedDebit
  <2> QED
    BY <1>1, <2>2, <2>3, <2>4, <2>5 DEF Next, Execute, Tick, vars
<1>2. RegistryInv /\ CustodyInv /\ [Next]_vars
        => [\A a \in DOMAIN evmOwners : ConsentedDebit(a)]_vars
  BY <1>1
<1> QED
  BY <1>2, CustodyInvariant, PTL DEF Spec, DebitsAreConsented
=============================================================================
