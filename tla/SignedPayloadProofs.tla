------------------------ MODULE SignedPayloadProofs -------------------------
(***************************************************************************)
(* For every payload space: a digest and the envelope together determine   *)
(* the payload.  One lemma per signable action shows that its preimage and *)
(* its shape fix all sixteen fields; the type hash, the first word of each *)
(* preimage, tells the actions apart.                                      *)
(***************************************************************************)
EXTENDS SignedPayload, TLAPS

EvmPayload(p) ==
  p \in ExecutePayload /\ AssertActionEnvelope(p) /\ p.authMode = 1

(* Payloads that agree in every field are equal.                            *)
LEMMA EqualFields ==
  ASSUME NEW p \in ExecutePayload, NEW q \in ExecutePayload,
         \A f \in DOMAIN p : p[f] = q[f]
  PROVE  p = q
  BY DEF ExecutePayload

(* What the envelope says of an EVM payload of each kind.                   *)
LEMMA EnvelopeCases ==
  ASSUME NEW p, EvmPayload(p)
  PROVE  \/ p.selector = 1 /\ EvmRegistrationShape(p)
         \/ p.selector \in {2, 3} /\ p.accountSalt = Zero /\ WithdrawShape(p)
         \/ p.selector \in {4, 5} /\ p.accountSalt = Zero /\ TransferShape(p)
         \/ p.selector = 6 /\ p.accountSalt = Zero /\ SwapShape(p)
  BY DEF EvmPayload, AssertActionEnvelope, IsEvmRegistration, IsWithdraw,
         IsNativeRegistration, NativeRegistrationShape, IsAction,
         IsRegistration, IsTransfer, ActionShape, SwapShape

(* Selector 1: the envelope zeroes the nonce and every custody field.       *)
LEMMA RegisterDigest ==
  ASSUME NEW p, NEW q, EvmPayload(p), EvmPayload(q),
         p.selector = 1, q.selector = 1,
         RegisterPreimage(p) = RegisterPreimage(q)
  PROVE  p = q
<1>1. /\ p.account = q.account /\ p.owner = q.owner
      /\ p.accountSalt = q.accountSalt /\ p.validUntil = q.validUntil
  BY DEF RegisterPreimage
<1>2. EvmRegistrationShape(p) /\ EvmRegistrationShape(q)
  BY EnvelopeCases
<1> QED
  BY <1>1, <1>2, EqualFields
  DEF EvmPayload, EvmRegistrationShape, CustodyIdle, RecipientIdle, SwapIdle,
      ExecutePayload

(* Selectors 2 and 3: the type hash is the selector's.                      *)
LEMMA WithdrawDigest ==
  ASSUME NEW p, NEW q, EvmPayload(p), EvmPayload(q),
         p.selector \in {2, 3}, q.selector \in {2, 3},
         WithdrawPreimage(p) = WithdrawPreimage(q)
  PROVE  p = q
<1>1. /\ p.selector = q.selector
      /\ p.account = q.account /\ p.owner = q.owner
      /\ p.nonce = q.nonce /\ p.validUntil = q.validUntil
      /\ p.primaryColor = q.primaryColor
      /\ p.primaryAmount = q.primaryAmount
      /\ p.recipientKind = q.recipientKind /\ p.recipient = q.recipient
  BY DEF WithdrawPreimage
<1>2. /\ p.accountSalt = Zero /\ q.accountSalt = Zero
      /\ WithdrawShape(p) /\ WithdrawShape(q)
  BY EnvelopeCases
<1> QED
  BY <1>1, <1>2, EqualFields
  DEF EvmPayload, WithdrawShape, SwapIdle, ExecutePayload

(* Selectors 4 and 5.                                                       *)
LEMMA TransferDigest ==
  ASSUME NEW p, NEW q, EvmPayload(p), EvmPayload(q),
         p.selector \in {4, 5}, q.selector \in {4, 5},
         TransferPreimage(p) = TransferPreimage(q)
  PROVE  p = q
<1>1. /\ p.selector = q.selector
      /\ p.account = q.account /\ p.owner = q.owner
      /\ p.nonce = q.nonce /\ p.validUntil = q.validUntil
      /\ p.toAccount = q.toAccount
      /\ p.primaryColor = q.primaryColor
      /\ p.primaryAmount = q.primaryAmount
  BY DEF TransferPreimage
<1>2. /\ p.accountSalt = Zero /\ q.accountSalt = Zero
      /\ TransferShape(p) /\ TransferShape(q)
  BY EnvelopeCases
<1> QED
  BY <1>1, <1>2, EqualFields
  DEF EvmPayload, TransferShape, RecipientIdle, SwapIdle, ExecutePayload

(* Selector 6.                                                              *)
LEMMA SwapDigest ==
  ASSUME NEW p, NEW q, EvmPayload(p), EvmPayload(q),
         p.selector = 6, q.selector = 6, SwapPreimage(p) = SwapPreimage(q)
  PROVE  p = q
<1>1. /\ p.account = q.account /\ p.owner = q.owner
      /\ p.nonce = q.nonce /\ p.validUntil = q.validUntil
      /\ p.primaryColor = q.primaryColor
      /\ p.primaryAmount = q.primaryAmount
      /\ p.recipientKind = q.recipientKind /\ p.recipient = q.recipient
      /\ p.wantNonce = q.wantNonce /\ p.wantColor = q.wantColor
      /\ p.wantAmount = q.wantAmount /\ p.creditAccount = q.creditAccount
  BY DEF SwapPreimage
<1>2. /\ p.accountSalt = Zero /\ q.accountSalt = Zero
      /\ p.toAccount = Zero /\ q.toAccount = Zero
  BY EnvelopeCases DEF SwapShape
<1> QED
  BY <1>1, <1>2, EqualFields DEF EvmPayload, ExecutePayload

(* The preimages of two different actions differ in their type hash.        *)
LEMMA ActionsApart ==
  ASSUME NEW p, NEW q, EvmPayload(p), EvmPayload(q),
         StructHash(p) = StructHash(q)
  PROVE  \/ p.selector = 1 /\ q.selector = 1
         \/ p.selector \in {2, 3} /\ q.selector \in {2, 3}
         \/ p.selector \in {4, 5} /\ q.selector \in {4, 5}
         \/ p.selector = 6 /\ q.selector = 6
<1>1. StructHash(p)[1] = StructHash(q)[1]
  OBVIOUS
<1>2. ASSUME NEW r, EvmPayload(r)
      PROVE  \/ r.selector = 1 /\ StructHash(r)[1] = "Register"
             \/ r.selector \in {2, 3}
                /\ StructHash(r)[1] \in {"WithdrawShielded",
                                         "WithdrawUnshielded"}
             \/ r.selector \in {4, 5}
                /\ StructHash(r)[1] \in {"TransferShielded",
                                         "TransferUnshielded"}
             \/ r.selector = 6 /\ StructHash(r)[1] = "OpenSwap"
  BY <1>2, EnvelopeCases
  DEF StructHash, IsEvmRegistration, IsWithdraw, IsTransfer, RegisterPreimage,
      WithdrawPreimage, TransferPreimage, SwapPreimage
<1> QED
  BY <1>1, <1>2

(* Two payloads the envelope accepts under EVM authority are equal as soon  *)
(* as their digests are: a signature authorises one payload.                *)
THEOREM DigestDeterminesPayload ==
  ASSUME NEW p, NEW q, EvmPayload(p), EvmPayload(q),
         EvmDigest(p) = EvmDigest(q)
  PROVE  p = q
<1>1. StructHash(p) = StructHash(q)
  BY DEF EvmDigest
<1>2. CASE p.selector = 1 /\ q.selector = 1
  BY <1>1, <1>2, RegisterDigest DEF StructHash, IsEvmRegistration
<1>3. CASE p.selector \in {2, 3} /\ q.selector \in {2, 3}
  BY <1>1, <1>3, WithdrawDigest DEF StructHash, IsEvmRegistration, IsWithdraw
<1>4. CASE p.selector \in {4, 5} /\ q.selector \in {4, 5}
  BY <1>1, <1>4, TransferDigest
  DEF StructHash, IsEvmRegistration, IsWithdraw, IsTransfer
<1>5. CASE p.selector = 6 /\ q.selector = 6
  BY <1>1, <1>5, SwapDigest
  DEF StructHash, IsEvmRegistration, IsWithdraw, IsTransfer
<1> QED
  BY <1>1, <1>2, <1>3, <1>4, <1>5, ActionsApart

(* The signed payload never changes and was an accepted one; the submitted  *)
(* one keeps the declared widths.                                           *)
Inv == EvmPayload(signed) /\ submitted \in ExecutePayload

(* What `execute` accepts under a signature is the payload that was signed, *)
(* whatever the payloads, the widths and the number of edited fields.       *)
THEOREM SignatureBinds == Spec => []SignatureCoversPayload
<1>1. Init => Inv
  BY SignedAssumption DEF Init, Inv, EvmPayload
<1>2. Inv /\ [Edit]_vars => Inv'
  BY DEF Inv, EvmPayload, Edit, vars
<1>3. Inv => SignatureCoversPayload
  BY DigestDeterminesPayload DEF Inv, SignatureCoversPayload, Accepted, EvmPayload
<1> QED
  BY <1>1, <1>2, <1>3, PTL DEF Spec
=============================================================================
