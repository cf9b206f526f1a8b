--------------------------- MODULE MCProvedCalls ----------------------------
(***************************************************************************)
(* Small instances of ProvedCalls: two EVM owners over the unshielded      *)
(* family, and native users over a shielded pool.                          *)
(***************************************************************************)
EXTENDS ProvedCalls

CONSTANTS sk1, sk2, eve, bob, salt, gold, user, wantNonce

MCOwnerCommitment(sk) == <<"native", sk>>
MCEvmAccountId(o, s) == <<"evm", o, s>>

N1 == MCOwnerCommitment(sk1)
N2 == MCOwnerCommitment(sk2)
EveId == MCEvmAccountId(eve, salt)
BobId == MCEvmAccountId(bob, salt)

MCWords == {Zero, gold, user, wantNonce} \cup AccountIds

Blank ==
  [selector |-> 0, authMode |-> 0, account |-> Zero, owner |-> Zero,
   accountSalt |-> Zero, nonce |-> 0, validUntil |-> 0,
   primaryColor |-> Zero, primaryAmount |-> 0,
   recipientKind |-> 0, recipient |-> Zero, toAccount |-> Zero,
   wantNonce |-> Zero, wantColor |-> Zero, wantAmount |-> 0,
   creditAccount |-> Zero]

Register(o, id) ==
  [Blank EXCEPT !.selector = 1, !.authMode = 1, !.account = id, !.owner = o,
     !.accountSalt = salt, !.validUntil = MaxUint64]

Pay(sel, id, col, n, to) ==
  [Blank EXCEPT !.selector = sel, !.account = id, !.primaryColor = col,
     !.primaryAmount = n, !.toAccount = to]
Draw(sel, id, col, n) ==
  [Blank EXCEPT !.selector = sel, !.account = id, !.primaryColor = col,
     !.primaryAmount = n, !.recipient = user]
Trade(id, give, n, taker, want, m, credit) ==
  [Blank EXCEPT !.selector = 6, !.account = id, !.primaryColor = give,
     !.primaryAmount = n, !.recipientKind = IF taker = Zero THEN 0 ELSE 1,
     !.recipient = taker, !.wantNonce = wantNonce, !.wantColor = want,
     !.wantAmount = m, !.creditAccount = credit]

ByEvm(p, o, n, v) ==
  [p EXCEPT !.authMode = 1, !.owner = o, !.nonce = n, !.validUntil = v]

(* Bob pays Eve and withdraws; Eve pays Bob.  Every nonce and two deadlines *)
(* of it are signed.                                                        *)
EvmCalls ==
  {Register(bob, BobId), Register(eve, EveId)}
  \cup {ByEvm(p, bob, n, v) :
          p \in {Pay(5, BobId, Zero, 1, EveId), Draw(3, BobId, Zero, 1)},
          n \in 0 .. 1, v \in {LiveHorizon + 1, MaxUint64}}
  \cup {ByEvm(Pay(5, EveId, Zero, 1, BobId), eve, 0, MaxUint64)}

(* Two native users: payments and withdrawals in both families, one swap.   *)
NativeCalls ==
  {Blank}
  \cup {Draw(sel, N1, Zero, 1) : sel \in {2, 3}}
  \cup {Pay(sel, N1, Zero, 1, N2) : sel \in {4, 5}}
  \cup {Draw(2, N2, Zero, 2)}
  \cup {Trade(N1, Zero, 1, taker, gold, 1, N2) : taker \in {Zero, user}}

AllSigned == {<<p.owner, EvmDigest(p)>> : p \in {q \in Payloads : q.authMode = 1}}
=============================================================================
