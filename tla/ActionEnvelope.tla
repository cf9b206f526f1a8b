--------------------------- MODULE ActionEnvelope ---------------------------
(***************************************************************************)
(* The payload every `execute` call carries and the envelope it must fit:  *)
(* which fields are live under which selector, and that every other field  *)
(* is zero (manager-port/src/action_envelope.rs).                          *)
(*                                                                         *)
(* Bytes<32> and Bytes<20> words are opaque.  Zero is the all-zero word of *)
(* either width; it is also a legal colour.                                *)
(***************************************************************************)
EXTENDS Naturals, FiniteSets

CONSTANTS
  Words,      \* Bytes<32>: account ids, recipients, coin nonces, colours
  Owners,     \* Bytes<20>: EVM addresses
  Salts,      \* Bytes<32> account salts
  Colours,    \* Bytes<32> token colours
  Zero,       \* the all-zero word
  MaxUint64,  \* 2^64 - 1
  MaxUint128  \* 2^128 - 1

ASSUME WordAssumption ==
  /\ Zero \in Words /\ Zero \in Owners /\ Zero \in Salts /\ Zero \in Colours
  /\ Colours \subseteq Words

(* Thirty-two bytes have finitely many values.                              *)
ASSUME FiniteAssumption == IsFiniteSet(Words)

ASSUME WidthAssumption == MaxUint64 \in Nat \ {0} /\ MaxUint128 \in Nat \ {0}

Uint8 == 0 .. 255
Uint64 == 0 .. MaxUint64
Uint128 == 0 .. MaxUint128

(* `struct ExecutePayload`; the declared widths are the circuit's input     *)
(* constraints.                                                             *)
ExecutePayload ==
  [selector : Uint8, authMode : Uint8,
   account : Words, owner : Owners, accountSalt : Salts,
   nonce : Uint64, validUntil : Uint64,
   primaryColor : Colours, primaryAmount : Uint128,
   recipientKind : Uint8, recipient : Words, toAccount : Words,
   wantNonce : Words, wantColor : Colours, wantAmount : Uint128,
   creditAccount : Words]

----------------------------------------------------------------------------
(* `struct Selectors`: the one-hot view of the selector byte.               *)
IsNativeRegistration(p) == p.selector = 0
IsEvmRegistration(p) == p.selector = 1
IsRegistration(p) == p.selector \in {0, 1}
IsAction(p) == ~ IsRegistration(p)
IsWithdraw(p) == p.selector \in {2, 3}
IsTransfer(p) == p.selector \in {4, 5}
IsSwap(p) == p.selector = 6

----------------------------------------------------------------------------
RecipientIdle(p) == p.recipientKind = 0 /\ p.recipient = Zero
SwapIdle(p) ==
  /\ p.wantNonce = Zero /\ p.wantColor = Zero
  /\ p.wantAmount = 0 /\ p.creditAccount = Zero

(* A registration moves nothing: every custody field is inactive.           *)
CustodyIdle(p) ==
  /\ p.primaryColor = Zero /\ p.primaryAmount = 0
  /\ RecipientIdle(p)
  /\ p.toAccount = Zero
  /\ SwapIdle(p)

NativeRegistrationShape(p) ==
  /\ p.authMode = 0
  /\ p.account = Zero /\ p.owner = Zero /\ p.accountSalt = Zero
  /\ p.nonce = 0 /\ p.validUntil = 0
  /\ CustodyIdle(p)

EvmRegistrationShape(p) ==
  /\ p.authMode = 1
  /\ p.account # Zero /\ p.owner # Zero /\ p.accountSalt # Zero
  /\ p.nonce = 0 /\ p.validUntil > 0
  /\ CustodyIdle(p)

(* What the five custody actions share: who acts, under which mode.         *)
ActionShape(p) ==
  /\ p.account # Zero /\ p.accountSalt = Zero
  /\ \/ p.authMode = 0 /\ p.owner = Zero /\ p.nonce = 0 /\ p.validUntil = 0
     \/ p.authMode # 0 /\ p.owner # Zero /\ p.validUntil > 0

(* Mutant of WithdrawShape: wantAmount and creditAccount left free.         *)
LooseWithdrawShape(p) ==
  /\ p.primaryAmount > 0
  /\ p.recipientKind = 0 /\ p.recipient # Zero
  /\ p.toAccount = Zero
  /\ p.wantNonce = Zero /\ p.wantColor = Zero

(* A withdrawal pays a user; contract recipients (kind 1) are refused.      *)
WithdrawShape(p) ==
  /\ p.primaryAmount > 0
  /\ p.recipientKind = 0 /\ p.recipient # Zero
  /\ p.toAccount = Zero
  /\ SwapIdle(p)

TransferShape(p) ==
  /\ p.primaryAmount > 0
  /\ RecipientIdle(p)
  /\ p.toAccount # Zero
  /\ SwapIdle(p)

(* Open (kind 0, nobody named) or named user (kind 1); never a contract.    *)
SwapShape(p) ==
  /\ p.selector = 6
  /\ p.primaryAmount > 0 /\ p.wantAmount > 0
  /\ p.recipientKind <= 1
  /\ p.recipientKind = 0 <=> p.recipient = Zero
  /\ p.toAccount = Zero
  /\ p.primaryColor # p.wantColor
  /\ p.creditAccount # Zero

(* `assertActionEnvelope(p)`.                                               *)
AssertActionEnvelope(p) ==
  /\ p.selector <= 6 /\ p.authMode <= 1
  /\ \/ IsNativeRegistration(p) /\ NativeRegistrationShape(p)
     \/ IsEvmRegistration(p) /\ EvmRegistrationShape(p)
     \/ IsAction(p) /\ ActionShape(p)
        /\ \/ IsWithdraw(p) /\ WithdrawShape(p)
           \/ IsTransfer(p) /\ TransferShape(p)
           \/ ~ IsWithdraw(p) /\ ~ IsTransfer(p) /\ SwapShape(p)
=============================================================================
