--------------------------- MODULE SignedPayload ----------------------------
(***************************************************************************)
(* What an EVM signature commits its signer to.  The owner signs a digest  *)
(* that hashes only the words of the payload's own action; whoever submits *)
(* the call supplies the whole payload.  `signed` is the payload the owner *)
(* signed, `submitted` the one that travels to `execute`, which may differ *)
(* from it in any field when it gets there.                                *)
(***************************************************************************)
EXTENDS Eip712, FiniteSets

CONSTANTS
  SignedPayloads,  \* the payloads the owner signs
  FieldValues(_),  \* field name -> the values a submitted payload may carry
  MaxEdits         \* how many fields may differ, a bound of the model

ASSUME SignedAssumption ==
  \A p \in SignedPayloads :
    p \in ExecutePayload /\ AssertActionEnvelope(p) /\ p.authMode = 1

ASSUME EditAssumption == MaxEdits \in Nat

VARIABLES signed, submitted

vars == <<signed, submitted>>

Init == signed \in SignedPayloads /\ submitted = signed

Edited == {f \in DOMAIN submitted : submitted[f] # signed[f]}

(* A field is replaced by another value of its declared width.              *)
Edit ==
  /\ UNCHANGED signed
  /\ \E f \in DOMAIN submitted : \E v \in FieldValues(f) :
       submitted' = [submitted EXCEPT ![f] = v]
  /\ submitted' \in ExecutePayload
  /\ Cardinality(Edited') <= MaxEdits

Spec == Init /\ [][Edit]_vars
----------------------------------------------------------------------------
(* The submitted payload passes the envelope, claims EVM authority and has  *)
(* the digest that was signed.                                              *)
Accepted ==
  /\ AssertActionEnvelope(submitted)
  /\ submitted.authMode = 1
  /\ EvmDigest(submitted) = EvmDigest(signed)

(* A digest covers at most 14 of the payload's words, yet pins them all:    *)
(* the envelope fixes every field its action's digest leaves out.  So what  *)
(* `execute` accepts under a signature is the signed payload, field by      *)
(* field (action_envelope.rs and eip712.rs keep their field lists apart; a  *)
(* field missing from both is free).                                        *)
SignatureCoversPayload == Accepted => submitted = signed
=============================================================================
