----------------------------- MODULE MCManager ------------------------------
(***************************************************************************)
(* Small instances of Manager: the payloads clients submit and the digests *)
(* owners have signed.                                                     *)
(***************************************************************************)
EXTENDS Manager

CONSTANTS sk1, sk2, sk3, eve, bob, salt, gold, user, wantNonce

MCOwnerCommitment(sk) == <<"native", sk>>
MCEvmAccountId(o, s) == <<"evm", o, s>>

N1 == MCOwnerCommitment(sk1)
N2 == MCOwnerCommitment(sk2)
EveId == MCEvmAccountId(eve, salt)
BobId == MCEvmAccountId(bob, salt)

MCWords == {Zero, gold, user, wantNonce} \cup AccountIds

(* A native registration; also the blank every other payload starts from.   *)
NativeRegistration ==
  [selector |-> 0, authMode |-> 0, account |-> Zero, owner |-> Zero,
   accountSalt |-> Zero, nonce |-> 0, validUntil |-> 0,
   primaryColor |-> Zero, primaryAmount |-> 0,
   recipientKind |-> 0, recipient |-> Zero, toAccount |-> Zero,
   wantNonce |-> Zero, wantColor |-> Zero, wantAmount |-> 0,
   creditAccount |-> Zero]

EvmRegistration(o, id, v) ==
  [NativeRegistration EXCEPT !.selector = 1, !.authMode = 1, !.account = id,
     !.owner = o, !.accountSalt = salt, !.validUntil = v]

Withdraw(sel, col, n) ==
  [NativeRegistration EXCEPT !.selector = sel, !.primaryColor = col,
     !.primaryAmount = n, !.recipient = user]

Transfer(sel, to, col, n) ==
  [NativeRegistration EXCEPT !.selector = sel, !.primaryColor = col,
     !.primaryAmount = n, !.toAccount = to]

Swap(give, n, taker, want, m, credit) ==
  [NativeRegistration EXCEPT !.selector = 6, !.primaryColor = give,
     !.primaryAmount = n, !.recipientKind = IF taker = Zero THEN 0 ELSE 1,
     !.recipient = taker, !.wantNonce = wantNonce, !.wantColor = want,
     !.wantAmount = m, !.creditAccount = credit]

ByNative(p, id) == [p EXCEPT !.account = id]
ByEvm(p, id, o, n, v) ==
  [p EXCEPT !.authMode = 1, !.account = id, !.owner = o, !.nonce = n,
     !.validUntil = v]

----------------------------------------------------------------------------
(* Two EVM owners and one native user over the unshielded family.  Eve also *)
(* tries Bob's id: to register it and to act for it under her own           *)
(* signature.                                                               *)
Deadlines == {LiveHorizon + 1, MaxUint64}

EvmMoves(id, to) ==
  {Withdraw(3, Zero, 1), Transfer(5, to, Zero, 1), Transfer(5, N1, Zero, 2)}

EvmPayloads ==
  {NativeRegistration, ByNative(Transfer(5, BobId, Zero, 1), N1),
   EvmRegistration(eve, BobId, MaxUint64)}
  \cup {EvmRegistration(o, EvmAccountId(o, salt), v) :
          o \in {eve, bob}, v \in Deadlines}
  \cup {ByEvm(m, BobId, bob, n, v) :
          m \in EvmMoves(BobId, EveId), n \in Uint64, v \in Deadlines}
  \cup {ByEvm(m, EveId, eve, n, MaxUint64) :
          m \in EvmMoves(EveId, BobId), n \in Uint64}
  \cup {ByEvm(Transfer(5, EveId, Zero, 2), BobId, eve, n, MaxUint64) :
          n \in Uint64}

(* Each owner has signed what names it, except that Bob has signed no       *)
(* payment of 2, and his payments of 1 only for the far deadline.           *)
EvmSigned ==
  {<<p.owner, EvmDigest(p)>> :
     p \in {q \in EvmPayloads :
              /\ q.authMode = 1
              /\ q.owner = bob => \/ q.primaryAmount = 0
                                  \/ q.primaryAmount = 1
                                     /\ q.validUntil = MaxUint64}}

----------------------------------------------------------------------------
(* Two native users over two shielded colours: withdrawals, transfers and   *)
(* swaps of both shapes, credited to the payer, to the other user, or to an *)
(* id that may not be registered.                                           *)
ShieldedPayloads ==
  {NativeRegistration}
  \cup {ByNative(Withdraw(2, c, n), id) : c \in Colours, n \in 1 .. 2,
                                          id \in {N1, N2}}
  \cup {ByNative(Transfer(4, to, c, 1), id) : c \in Colours,
                                          to \in {N1, N2}, id \in {N1, N2}}
  \cup {ByNative(Swap(Zero, n, taker, gold, m, to), N1) :
          n \in 1 .. 2, m \in 1 .. 2, taker \in {Zero, user}, to \in {N1, N2}}
  \cup {ByNative(Swap(gold, 1, taker, Zero, 2, N2), N2) :
          taker \in {Zero, user}}

NoneSigned == {}

=============================================================================
