-------------------------- MODULE MCSignedPayload ---------------------------
(***************************************************************************)
(* Every kind of payload an EVM owner signs, edited in up to MaxEdits      *)
(* fields.                                                                 *)
(***************************************************************************)
EXTENDS SignedPayload

CONSTANTS alice, id, other, salt, gold

MCWords == {Zero, id, other, gold}

Blank ==
  [selector |-> 1, authMode |-> 1, account |-> id, owner |-> alice,
   accountSalt |-> Zero, nonce |-> 0, validUntil |-> 1,
   primaryColor |-> Zero, primaryAmount |-> 0,
   recipientKind |-> 0, recipient |-> Zero, toAccount |-> Zero,
   wantNonce |-> Zero, wantColor |-> Zero, wantAmount |-> 0,
   creditAccount |-> Zero]

MCSignedPayloads ==
  {[Blank EXCEPT !.accountSalt = salt]}
  \cup {[Blank EXCEPT !.selector = s, !.primaryAmount = 1,
           !.recipient = other] : s \in {2, 3}}
  \cup {[Blank EXCEPT !.selector = s, !.primaryAmount = 1,
           !.toAccount = other] : s \in {4, 5}}
  \cup {[Blank EXCEPT !.selector = 6, !.primaryAmount = 1, !.recipient = r,
           !.recipientKind = IF r = Zero THEN 0 ELSE 1, !.wantNonce = n,
           !.wantColor = gold, !.wantAmount = 1, !.creditAccount = id] :
           r \in {Zero, other}, n \in {Zero, other}}

MCFieldValues(f) ==
  CASE f = "selector" -> 0 .. 7
    [] f \in {"authMode", "recipientKind"} -> 0 .. 2
    [] f = "owner" -> {Zero, alice}
    [] f = "accountSalt" -> {Zero, salt}
    [] f \in {"nonce", "validUntil"} -> 0 .. MaxUint64
    [] f \in {"primaryColor", "wantColor"} -> {Zero, gold}
    [] f \in {"primaryAmount", "wantAmount"} -> 0 .. MaxUint128
    [] OTHER -> {Zero, id, other}
=============================================================================
