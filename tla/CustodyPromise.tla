--------------------------- MODULE CustodyPromise ---------------------------
(***************************************************************************)
(* What the manager promises its users, with the payloads, signatures,     *)
(* coins and balance maps left out: members hold claims on a vault, in     *)
(* cells of one token each, and five kinds of step change them.            *)
(***************************************************************************)
EXTENDS Naturals

CONSTANTS Members, Tokens, Amounts

VARIABLES
  members,  \* who has joined
  claims,   \* member -> token -> what it can take out
  vault     \* token -> what there is

vars == <<members, claims, vault>>

Init ==
  /\ members = {}
  /\ claims = [m \in Members |-> [t \in Tokens |-> 0]]
  /\ vault = [t \in Tokens |-> 0]

Join(m) ==
  /\ m \notin members
  /\ members' = members \cup {m}
  /\ UNCHANGED <<claims, vault>>

Deposit(m, t, v) ==
  /\ v > 0 /\ m \in members
  /\ claims' = [claims EXCEPT ![m][t] = @ + v]
  /\ vault' = [vault EXCEPT ![t] = @ + v]
  /\ UNCHANGED members

Withdraw(m, t, v) ==
  /\ v > 0 /\ m \in members
  /\ claims[m][t] >= v
  /\ claims' = [claims EXCEPT ![m][t] = @ - v]
  /\ vault' = [vault EXCEPT ![t] = @ - v]
  /\ UNCHANGED members

Transfer(m, n, t, v) ==
  /\ v > 0 /\ m \in members /\ n \in members /\ m # n
  /\ claims[m][t] >= v
  /\ claims' = [claims EXCEPT ![m][t] = @ - v, ![n][t] = @ + v]
  /\ UNCHANGED <<members, vault>>

(* m gives v of one token to a taker outside, who pays w of another in for  *)
(* n, who may be m itself.                                                  *)
Exchange(m, give, v, n, want, w) ==
  /\ v > 0 /\ w > 0 /\ m \in members /\ n \in members /\ give # want
  /\ claims[m][give] >= v
  /\ claims' = [claims EXCEPT ![m][give] = @ - v, ![n][want] = @ + w]
  /\ vault' = [vault EXCEPT ![give] = @ - v, ![want] = @ + w]
  /\ UNCHANGED members

Next ==
  \E m \in Members :
    \/ Join(m)
    \/ \E t \in Tokens, v \in Amounts :
         \/ Deposit(m, t, v)
         \/ Withdraw(m, t, v)
         \/ \E n \in Members :
              \/ Transfer(m, n, t, v)
              \/ \E u \in Tokens, w \in Amounts : Exchange(m, t, v, n, u, w)

Spec == Init /\ [][Next]_vars
=============================================================================
