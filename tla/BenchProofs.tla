------------------------------ MODULE BenchProofs ------------------------------
(***************************************************************************)
(* Proofs about ProvingBench: for any list of scenarios, any number of     *)
(* runs and any earlier raw file, what the harness counts is sound, its    *)
(* raw file is complete, its arms stay abreast and its exit code means     *)
(* what it says.                                                           *)
(***************************************************************************)
EXTENDS ProvingBench, TLAPS, FiniteSetTheorems

Commands == {<<"check">>, <<"bench">>} \cup {<<"solo", a>> : a \in Artifacts}
Attempted == [run : Nat, scenario : Scenarios, arm : Artifacts]
Rows ==
  [phase : {"warmup", "warmup-failed", "timed", "prove-failed"},
   of : Attempted, verified : BOOLEAN]

----------------------------------------------------------------------------
(* The order of the attempts.                                              *)

LEMMA ArmsOfCommand ==
  ASSUME command \in Commands
  PROVE  /\ Arms \in Seq(Artifacts)
         /\ Solo => /\ ~ Checking /\ command[1] # "bench"
                    /\ Len(Arms) = 1
         /\ ~ Solo => /\ Len(Arms) = 2
                      /\ Arms[1] = Reference /\ Arms[2] = Port
<1>1. CASE Solo
  <2>1. PICK a \in Artifacts : command = <<"solo", a>>
    BY <1>1 DEF Solo, Commands
  <2> QED
    BY <1>1, <2>1 DEF Arms, Solo, Checking
<1>2. CASE ~ Solo
  BY <1>2 DEF Arms, Artifacts
<1> QED
  BY <1>1, <1>2

LEMMA RequestedScenarios ==
  /\ Requested \in Seq(Scenarios)
  /\ Len(Requested) \in Nat /\ Len(Requested) > 0
  /\ Scenarios = {Requested[i] : i \in 1 .. Len(Requested)}
  BY BenchAssumption DEF Scenarios, Range

LEMMA Remainder ==
  ASSUME NEW x \in Nat, NEW m \in Nat, m > 0
  PROVE  /\ x % m \in 0 .. m - 1
         /\ x \div m \in Nat
  OBVIOUS

LEMMA AttemptsInOrder ==
  ASSUME command \in Commands
  PROVE  /\ Attempts \in Seq(Attempted)
         /\ Len(Attempts) = Runs * Len(Requested) * Len(Arms)
         /\ DOMAIN Attempts = 1 .. Len(Attempts)
         /\ Len(Attempts) \in Nat
<1> DEFINE L == Len(Requested)
           K == Len(Arms)
           N == Runs * L * K
<1>1. L \in Nat /\ L > 0 /\ K \in Nat /\ K > 0 /\ Runs \in Nat /\ N \in Nat
  <2>1. K \in {1, 2}
    BY ArmsOfCommand
  <2>2. L \in Nat /\ L > 0 /\ Runs \in Nat
    BY RequestedScenarios, BenchAssumption
  <2> HIDE DEF L, K
  <2>3. Runs * L \in Nat
    BY <2>2
  <2>4. \A m \in Nat : m * 1 \in Nat /\ m * 2 \in Nat
    OBVIOUS
  <2> QED
    BY <2>1, <2>2, <2>3, <2>4
<1>2. ASSUME NEW n \in 1 .. N
      PROVE  LET turn == (n - 1) \div K
             IN [run |-> 1 + (turn \div L),
                 scenario |-> Requested[1 + (turn % L)],
                 arm |-> Arms[1 + ((n - 1) % K)]] \in Attempted
  <2> DEFINE turn == (n - 1) \div K
  <2>1. n - 1 \in Nat
    BY <1>1
  <2>2. turn \in Nat /\ (n - 1) % K \in 0 .. K - 1
    BY <1>1, <2>1, Remainder
  <2>3. turn \div L \in Nat /\ turn % L \in 0 .. L - 1
    BY <1>1, <2>2, Remainder
  <2>4. 1 + (turn % L) \in 1 .. L /\ 1 + ((n - 1) % K) \in 1 .. K
    BY <1>1, <2>2, <2>3
  <2>5. Requested[1 + (turn % L)] \in Scenarios
    BY <2>4, BenchAssumption
  <2>6. Arms[1 + ((n - 1) % K)] \in Artifacts
    BY <2>4, ArmsOfCommand
  <2> QED
    BY <2>3, <2>5, <2>6 DEF Attempted
<1>3. Attempts = [n \in 1 .. N |->
                    LET turn == (n - 1) \div K
                    IN [run |-> 1 + (turn \div L),
                        scenario |-> Requested[1 + (turn % L)],
                        arm |-> Arms[1 + ((n - 1) % K)]]]
  BY DEF Attempts
<1> HIDE DEF L, K, N
<1>4. Attempts \in [1 .. N -> Attempted]
  BY <1>2, <1>3
<1>5. Attempts \in Seq(Attempted) /\ Len(Attempts) = N
  BY <1>1, <1>4
<1> QED
  BY <1>1, <1>5 DEF N, L, K

(* The arms of `bench` take turns, and a turn is of one scenario.           *)
LEMMA TurnsAreShared ==
  ASSUME command \in Commands, ~ Solo, NEW n \in DOMAIN Attempts
  PROVE  /\ n % 2 = 1 => Attempts[n].arm = Reference
         /\ n % 2 = 0 => /\ Attempts[n].arm = Port
                         /\ n - 1 \in DOMAIN Attempts
                         /\ Attempts[n].scenario = Attempts[n - 1].scenario
<1>1. Len(Arms) = 2 /\ Arms[1] = Reference /\ Arms[2] = Port
  BY ArmsOfCommand
<1>2. n \in Nat /\ n > 0 /\ DOMAIN Attempts = 1 .. Len(Attempts)
      /\ Len(Attempts) \in Nat
  BY AttemptsInOrder
<1>3. ASSUME NEW m \in DOMAIN Attempts
      PROVE  /\ Attempts[m].arm = Arms[1 + ((m - 1) % 2)]
             /\ Attempts[m].scenario
                  = Requested[1 + (((m - 1) \div 2) % Len(Requested))]
  BY <1>1 DEF Attempts
<1>4. CASE n % 2 = 1
  <2>1. (n - 1) % 2 = 0
    BY <1>2, <1>4
  <2> QED
    BY <1>1, <1>3, <1>4, <2>1
<1>5. CASE n % 2 = 0
  <2>1. (n - 1) % 2 = 1 /\ n - 1 \in 1 .. Len(Attempts)
    BY <1>2, <1>5
  <2>2. (n - 1) \div 2 = (n - 1 - 1) \div 2
    BY <1>2, <1>5
  <2>3. Attempts[n].arm = Port
    BY <1>1, <1>3, <2>1
  <2>4. Attempts[n].scenario = Attempts[n - 1].scenario
    BY <1>2, <1>3, <2>1, <2>2
  <2> QED
    BY <1>2, <1>5, <2>1, <2>3, <2>4
<1> QED
  BY <1>2, <1>4, <1>5

----------------------------------------------------------------------------
(* Rows of a raw file.                                                     *)

PlacesIn(q, S) == {i \in DOMAIN q : q[i] \in S}
CountIn(q, S) == Cardinality(PlacesIn(q, S))

LEMMA CountIsNat ==
  ASSUME NEW T, NEW q \in Seq(T), NEW S
  PROVE  CountIn(q, S) \in Nat /\ IsFiniteSet(PlacesIn(q, S))
<1>1. IsFiniteSet(1 .. Len(q)) /\ PlacesIn(q, S) \subseteq 1 .. Len(q)
  BY FS_Interval DEF PlacesIn
<1> QED
  BY <1>1, FS_Subset, FS_CardinalityType DEF CountIn

(* A row more.                                                              *)
LEMMA CountOfAppend ==
  ASSUME NEW T, NEW q \in Seq(T), NEW e \in T, NEW S
  PROVE  CountIn(Append(q, e), S) = CountIn(q, S) + (IF e \in S THEN 1 ELSE 0)
<1>1. CASE e \in S
  <2>1. PlacesIn(Append(q, e), S) = PlacesIn(q, S) \cup {Len(q) + 1}
    BY <1>1 DEF PlacesIn
  <2>2. Len(q) + 1 \notin PlacesIn(q, S)
    BY DEF PlacesIn
  <2> QED
    BY <1>1, <2>1, <2>2, CountIsNat, FS_AddElement DEF CountIn
<1>2. CASE e \notin S
  <2>1. PlacesIn(Append(q, e), S) = PlacesIn(q, S)
    BY <1>2 DEF PlacesIn
  <2> QED
    BY <1>2, <2>1, CountIsNat DEF CountIn
<1> QED
  BY <1>1, <1>2

LEMMA CountOfNone ==
  ASSUME NEW q, NEW S, \A i \in DOMAIN q : q[i] \notin S
  PROVE  CountIn(q, S) = 0
  BY FS_EmptySet DEF CountIn, PlacesIn

----------------------------------------------------------------------------
(* The invariant.                                                          *)

CommandTypeOK ==
  /\ command \in Commands
  /\ accepts \in [Artifacts -> SUBSET Scenarios]
  /\ layout \in {"alike", "skipsDiffer", "schemasDiffer"}
  /\ stage \in {"preimages", "csv", "warmup", "matrix"}
  /\ at \in Nat /\ at > 0
  /\ accepted \in Nat
  /\ attempt \in {"none", "good", "bad", "failed"}
  /\ exit \in {"running", "ok", "undelivered", "panic", "killed"}

TallyTypeOK ==
  /\ cells \in [{ArmName[a] : a \in Artifacts} \X Scenarios -> Seq(Attempted)]
  /\ all \in Seq(Attempted)
  /\ unverified \in Nat

(* Where a command can be, and the rows the raw file has there.             *)
Placed ==
  /\ Checking => stage = "preimages"
  /\ stage = "preimages" => attempt = "none"
  /\ stage = "warmup" => at <= Len(Arms)
  /\ stage = "matrix" =>
       at <= Len(Attempts) + (IF attempt = "none" THEN 1 ELSE 0)
  /\ stage \in {"preimages", "csv"} => csv = Earlier
  /\ stage \in {"warmup", "matrix"} => csv \in Seq(Rows)
  /\ stage = "warmup" =>
       /\ \A i \in DOMAIN csv : csv[i].phase \in {"warmup", "warmup-failed"}
       /\ exit = "running" => Len(csv) = at - 1
  /\ stage = "matrix" =>
       /\ Len(csv) = Len(Arms) + at - 1
       /\ \A i \in 1 .. Len(Arms) :
            csv[i].phase \in {"warmup", "warmup-failed"}
       /\ \A n \in 1 .. at - 1 : csv[Len(Arms) + n] \in Finished({Attempts[n]})

(* Every preimage that was passed is shared.                                *)
PreimagesShared ==
  ~ Checking =>
    /\ stage = "preimages" =>
         /\ at <= Len(Requested)
         /\ \A i \in 1 .. at - 1 : Shared(Requested[i])
    /\ stage # "preimages" => \A s \in Scenarios : Shared(s)

(* The gate counts two for each scenario, or it cannot pass.                *)
GateCounts ==
  Checking =>
    /\ at <= Len(Requested) + 1
    /\ accepted <= 2 * (at - 1)
    /\ accepted = 2 * (at - 1) =>
         \A i \in 1 .. at - 1 : AcceptedOn(Requested[i]) = 2 /\ layout = "alike"
    /\ exit = "ok" => at > Len(Requested) /\ accepted = 2 * Len(Requested)

(* What was counted is what stands in the raw file.                         *)
Tallied ==
  /\ stage # "matrix" =>
       all = <<>> /\ unverified = 0 /\ \A k \in DOMAIN cells : cells[k] = <<>>
  /\ stage = "matrix" =>
       /\ Solo => Len(all) = CountIn(csv, GoodProofs(Made))
       /\ ~ Solo =>
            /\ unverified = CountIn(csv, BadProofs(Made))
            /\ \A x \in Artifacts, s \in Scenarios :
                 Len(cells[<<ArmName[x], s>>])
                   = CountIn(csv, GoodProofs(Of(x, s)))

(* The lead is one turn long, and only while the turn is half taken.        *)
Abreast ==
  ~ Solo /\ stage = "matrix" =>
    \A s \in Scenarios :
      CountIn(csv, Finished(Of(Reference, s))) =
        CountIn(csv, Finished(Of(Port, s)))
          + (IF at % 2 = 0 /\ s = Attempts[at - 1].scenario THEN 1 ELSE 0)

(* How a delivery check ends.                                               *)
Judged ==
  Solo /\ exit \in {"ok", "undelivered"} =>
    /\ stage = "matrix" /\ at = Len(Attempts) + 1
    /\ exit = "ok" <=> Len(all) = Runs * Len(Requested)

BenchInv ==
  /\ CommandTypeOK /\ TallyTypeOK
  /\ Placed /\ PreimagesShared /\ GateCounts
  /\ Tallied /\ CountedIsSound /\ Abreast /\ Judged

----------------------------------------------------------------------------
(* Every action keeps the invariant.                                       *)

(* Nothing changes what a command was started with.                         *)
LEMMA CommandFixed ==
  ASSUME UNCHANGED artifactVars
  PROVE  /\ command' = command /\ accepts' = accepts /\ layout' = layout
         /\ Arms' = Arms /\ Solo' = Solo /\ Checking' = Checking
         /\ Attempts' = Attempts /\ Made' = Made
         /\ \A s : Shared(s)' = Shared(s) /\ AcceptedOn(s)' = AcceptedOn(s)
         /\ \A x, s : Of(x, s)' = Of(x, s)
<1>1. command' = command /\ accepts' = accepts /\ layout' = layout
  BY DEF artifactVars
<1>2. Arms' = Arms /\ Solo' = Solo /\ Checking' = Checking
  BY <1>1 DEF Arms, Solo, Checking
<1>3. Attempts' = Attempts /\ Made' = Made
  BY <1>2 DEF Attempts, Made
<1>4. \A s : Shared(s)' = Shared(s) /\ AcceptedOn(s)' = AcceptedOn(s)
  BY <1>1, <1>2 DEF Shared, AcceptedOn
<1>5. \A x, s : Of(x, s)' = Of(x, s)
  BY <1>3 DEF Of
<1> QED
  BY <1>1, <1>2, <1>3, <1>4, <1>5

LEMMA InitBench ==
  ASSUME Init
  PROVE  BenchInv
<1>1. CommandTypeOK
  BY DEF Init, CommandTypeOK, Commands
<1>2. TallyTypeOK
  BY DEF Init, TallyTypeOK
<1>3. Placed
  BY DEF Init, Placed, Checking
<1>4. PreimagesShared /\ GateCounts
  <2>1. stage = "preimages" /\ at = 1 /\ accepted = 0 /\ exit = "running"
    BY DEF Init
  <2>2. 1 .. at - 1 = {}
    BY <2>1
  <2> QED
    BY <2>1, <2>2, RequestedScenarios DEF PreimagesShared, GateCounts
<1>5. Judged /\ Abreast /\ Tallied
  <2>1. /\ stage = "preimages" /\ exit = "running" /\ all = <<>>
        /\ unverified = 0 /\ \A k \in DOMAIN cells : cells[k] = <<>>
    BY DEF Init
  <2> QED
    BY <2>1 DEF Judged, Abreast, Tallied
<1>6. CountedIsSound
  <2>1. all = <<>> /\ \A k \in DOMAIN cells : cells[k] = <<>>
    BY DEF Init
  <2> QED
    BY <2>1 DEF CountedIsSound, Range
<1> QED
  BY <1>1, <1>2, <1>3, <1>4, <1>5, <1>6 DEF BenchInv

(* What was tallied depends on what is counted and on the rows only.        *)
LEMMA SameTally ==
  ASSUME BenchInv, UNCHANGED artifactVars, stage' = stage,
         csv' = csv, cells' = cells, unverified' = unverified, all' = all
  PROVE  Tallied'
<1>1. /\ Solo' = Solo /\ Made' = Made
      /\ \A x, s : Of(x, s)' = Of(x, s)
  BY CommandFixed
<1>2. CASE stage # "matrix"
  BY <1>2 DEF BenchInv, Tallied
<1>3. CASE stage = "matrix" /\ Solo
  BY <1>1, <1>3 DEF BenchInv, Tallied
<1>4. CASE stage = "matrix" /\ ~ Solo
  <2>1. unverified' = CountIn(csv', BadProofs(Made'))
    BY <1>1, <1>4 DEF BenchInv, Tallied
  <2>2. \A x \in Artifacts, s \in Scenarios :
          Len(cells'[<<ArmName[x], s>>]) = CountIn(csv', GoodProofs(Of(x, s)'))
    BY <1>1, <1>4 DEF BenchInv, Tallied
  <2> QED
    BY <1>1, <1>4, <2>1, <2>2 DEF Tallied
<1> QED
  BY <1>2, <1>3, <1>4

(* The process ends in the middle of something, or does nothing.            *)
LEMMA EndingKeeps ==
  ASSUME BenchInv, exit' \in {exit, "panic", "killed"},
         UNCHANGED <<artifactVars, stage, at, accepted, attempt, csv, tallyVars>>
  PROVE  BenchInv'
<1> USE DEF BenchInv
<1>1. /\ UNCHANGED artifactVars
      /\ stage' = stage /\ at' = at /\ accepted' = accepted /\ attempt' = attempt
      /\ csv' = csv /\ cells' = cells /\ unverified' = unverified /\ all' = all
  BY DEF tallyVars
<1>2. CommandTypeOK' /\ TallyTypeOK'
  BY <1>1 DEF CommandTypeOK, TallyTypeOK, artifactVars
<1>3. Placed'
  BY <1>1, CommandFixed DEF Placed
<1>4. PreimagesShared'
  BY <1>1, CommandFixed DEF PreimagesShared
<1>5. GateCounts'
  BY <1>1, CommandFixed DEF GateCounts
<1>6. Tallied'
  BY <1>1, SameTally
<1>7. Abreast' /\ Judged'
  BY <1>1, CommandFixed DEF Abreast, Judged
<1>8. CountedIsSound'
  BY <1>1, CommandFixed DEF CountedIsSound, Sound
<1> QED
  BY <1>2, <1>3, <1>4, <1>5, <1>6, <1>7, <1>8

(* Stages before the matrix have counted nothing.                           *)
LEMMA NothingCounted ==
  ASSUME BenchInv, stage # "matrix", stage' # "matrix",
         UNCHANGED <<artifactVars, tallyVars>>, exit' # "undelivered",
         Solo => exit' # "ok"
  PROVE  Tallied' /\ CountedIsSound' /\ Abreast' /\ Judged' /\ TallyTypeOK'
<1>1. /\ UNCHANGED artifactVars /\ Solo' = Solo
      /\ cells' = cells /\ unverified' = unverified /\ all' = all
  BY CommandFixed DEF tallyVars
<1>2. all = <<>> /\ unverified = 0 /\ \A k \in DOMAIN cells : cells[k] = <<>>
  BY DEF BenchInv, Tallied
<1>3. Tallied' /\ TallyTypeOK'
  BY <1>1, <1>2 DEF BenchInv, Tallied, TallyTypeOK
<1>4. Abreast' /\ Judged'
  BY <1>1 DEF Abreast, Judged
<1>5. CountedIsSound'
  BY <1>1, <1>2 DEF CountedIsSound, Range
<1> QED
  BY <1>3, <1>4, <1>5

LEMMA AcceptedOnCounts ==
  ASSUME NEW s
  PROVE  AcceptedOn(s) \in {0, 1, 2}
<1>1. {a \in Artifacts : s \in accepts[a]}
        \in {{}, {Reference}, {Port}, {Reference, Port}}
  BY DEF Artifacts
<1>2. /\ Cardinality({}) = 0 /\ Cardinality({Reference}) = 1
      /\ Cardinality({Port}) = 1
  BY FS_EmptySet, FS_Singleton
<1>3. Cardinality({Reference, Port}) = 2
  <2>1. {Reference, Port} = {Reference} \cup {Port} /\ Port \notin {Reference}
    BY BenchAssumption
  <2> QED
    <3>1. IsFiniteSet({Reference})
      BY FS_Singleton
    <3>2. Cardinality({Reference} \cup {Port}) = Cardinality({Reference}) + 1
      BY <2>1, <3>1, FS_AddElement
    <3> QED
      BY <1>2, <2>1, <3>2
<1> QED
  BY <1>1, <1>2, <1>3 DEF AcceptedOn

LEMMA AcceptedByBoth ==
  ASSUME NEW s, AcceptedOn(s) = 2, NEW a \in Artifacts
  PROVE  s \in accepts[a]
<1> DEFINE A == {x \in Artifacts : s \in accepts[x]}
<1>1. A # {} /\ A # {Reference} /\ A # {Port}
  <2>1. /\ Cardinality({}) = 0 /\ Cardinality({Reference}) = 1
        /\ Cardinality({Port}) = 1
    BY FS_EmptySet, FS_Singleton
  <2>2. Cardinality(A) = 2
    BY DEF AcceptedOn
  <2> HIDE DEF A
  <2> QED
    BY <2>1, <2>2
<1> QED
  BY <1>1 DEF Artifacts

LEMMA CheckScenarioKeeps ==
  ASSUME BenchInv, CheckScenario
  PROVE  BenchInv'
<1> USE DEF BenchInv
<1> DEFINE both == AcceptedOn(Requested[at])
<1>1. /\ Checking /\ at <= Len(Requested) /\ exit = "running"
      /\ stage = "preimages" /\ stage' = stage
      /\ UNCHANGED <<artifactVars, attempt, csv, tallyVars>>
  BY DEF CheckScenario, Running, Panic, Finish, Advance, Placed
<1>2. ~ Solo /\ UNCHANGED artifactVars /\ attempt' = attempt /\ csv' = csv
  BY <1>1 DEF Checking, Solo
<1>3. /\ both \in {0, 1, 2}
      /\ at \in Nat /\ accepted \in Nat /\ Len(Requested) \in Nat
  BY AcceptedOnCounts, RequestedScenarios DEF CommandTypeOK
<1>4. CASE exit' = "panic" /\ UNCHANGED <<at, accepted>>
  BY <1>1, <1>4, EndingKeeps
<1>5. CASE /\ at' = at + 1 /\ exit' = exit
           /\ accepted' = accepted + both
           /\ layout # "schemasDiffer"
           /\ ~ (both = 2 /\ layout = "skipsDiffer")
  <2> HIDE DEF both
  <2>1. CommandTypeOK'
    BY <1>1, <1>2, <1>3, <1>5 DEF CommandTypeOK, artifactVars
  <2>2. Placed'
    BY <1>1, <1>2, <1>5, CommandFixed DEF Placed
  <2>3. PreimagesShared'
    BY <1>1, <1>2, CommandFixed DEF PreimagesShared
  <2>4. GateCounts'
    <3>1. at' <= Len(Requested) + 1
      BY <1>1, <1>3, <1>5
    <3>2. accepted <= 2 * (at - 1)
      BY <1>1 DEF GateCounts
    <3>3. accepted' <= 2 * (at' - 1)
      BY <1>3, <1>5, <3>2
    <3>4. ASSUME accepted' = 2 * (at' - 1)
          PROVE  \A i \in 1 .. at' - 1 :
                   AcceptedOn(Requested[i]) = 2 /\ layout = "alike"
      <4>1. accepted = 2 * (at - 1) /\ both = 2
        BY <1>3, <1>5, <3>2, <3>4
      <4>2. layout = "alike"
        BY <1>5, <4>1 DEF CommandTypeOK
      <4>3. \A i \in 1 .. at' - 1 : i \in 1 .. at - 1 \/ i = at
        BY <1>3, <1>5
      <4>4. \A i \in 1 .. at - 1 : AcceptedOn(Requested[i]) = 2
        BY <1>1, <4>1 DEF GateCounts
      <4> QED
        BY <4>1, <4>2, <4>3, <4>4 DEF both
    <3> QED
      BY <1>1, <1>2, <1>5, <3>1, <3>3, <3>4, CommandFixed DEF GateCounts
  <2> QED
    BY <1>1, <1>2, <1>5, <2>1, <2>2, <2>3, <2>4, NothingCounted
<1> QED
  BY <1>1, <1>4, <1>5 DEF CheckScenario, Panic, Finish, Advance, CommandTypeOK

LEMMA AcceptGateKeeps ==
  ASSUME BenchInv, AcceptGate
  PROVE  BenchInv'
<1> USE DEF BenchInv
<1>1. /\ Checking /\ at > Len(Requested) /\ stage = "preimages"
      /\ UNCHANGED <<artifactVars, stage, at, accepted, attempt, csv, tallyVars>>
      /\ exit' = IF accepted = 2 * Len(Requested) THEN "ok" ELSE "panic"
  BY DEF AcceptGate, Finish, Placed
<1>2. ~ Solo /\ UNCHANGED artifactVars
  BY <1>1 DEF Checking, Solo
<1>3. CommandTypeOK'
  BY <1>1 DEF CommandTypeOK, artifactVars
<1>4. Placed'
  BY <1>1, <1>2, CommandFixed DEF Placed
<1>5. PreimagesShared'
  BY <1>1, <1>2, CommandFixed DEF PreimagesShared
<1>6. GateCounts'
  BY <1>1, <1>2, CommandFixed DEF GateCounts
<1> QED
  BY <1>1, <1>2, <1>3, <1>4, <1>5, <1>6, NothingCounted

LEMMA PreimageKeeps ==
  ASSUME BenchInv, Preimage
  PROVE  BenchInv'
<1> USE DEF BenchInv
<1>1. /\ ~ Checking /\ stage = "preimages" /\ exit = "running"
      /\ UNCHANGED <<artifactVars, accepted, attempt, csv, tallyVars>>
      /\ at \in Nat /\ at > 0 /\ at <= Len(Requested)
      /\ Len(Requested) \in Nat
  BY RequestedScenarios
  DEF Preimage, Running, PreimagesShared, CommandTypeOK
<1>2. UNCHANGED artifactVars /\ csv' = csv /\ accepted' = accepted
      /\ attempt' = attempt
  BY <1>1
<1>3. GateCounts'
  BY <1>1, <1>2, CommandFixed DEF GateCounts
<1>4. \A i \in 1 .. at - 1 : Shared(Requested[i])
  BY <1>1 DEF PreimagesShared
<1>5. CASE Panic
  BY <1>1, <1>5, EndingKeeps DEF Panic, Finish
<1>6. CASE Shared(Requested[at]) /\ at < Len(Requested) /\ Advance
  <2>1. at' = at + 1 /\ stage' = stage /\ exit' = exit
    BY <1>6 DEF Advance
  <2>2. CommandTypeOK' /\ Placed'
    BY <1>1, <1>2, <2>1, CommandFixed DEF CommandTypeOK, Placed
  <2>3. \A i \in 1 .. at' - 1 : i \in 1 .. at - 1 \/ i = at
    BY <1>1, <2>1
  <2>4. at' <= Len(Requested)
    BY <1>1, <1>6, <2>1
  <2>5. PreimagesShared'
    BY <1>1, <1>2, <1>4, <1>6, <2>1, <2>3, <2>4, CommandFixed
    DEF PreimagesShared
  <2> QED
    BY <1>1, <1>3, <2>1, <2>2, <2>5, NothingCounted
<1>7. CASE Shared(Requested[at]) /\ ~ at < Len(Requested) /\ Goto("csv")
  <2>1. at' = 1 /\ stage' = "csv" /\ exit' = exit
    BY <1>7 DEF Goto
  <2>2. CommandTypeOK' /\ Placed'
    BY <1>1, <1>2, <2>1, CommandFixed DEF CommandTypeOK, Placed
  <2>3. \A i \in 1 .. Len(Requested) : i \in 1 .. at - 1 \/ i = at
    BY <1>1, <1>7
  <2>4. \A s \in Scenarios : Shared(s)
    BY <1>4, <1>7, <2>3, RequestedScenarios
  <2>5. PreimagesShared'
    BY <1>2, <2>1, <2>4, CommandFixed DEF PreimagesShared
  <2> QED
    BY <1>1, <1>3, <2>1, <2>2, <2>5, NothingCounted
<1> QED
  BY <1>5, <1>6, <1>7 DEF Preimage

LEMMA CreateCsvKeeps ==
  ASSUME BenchInv, CreateCsv
  PROVE  BenchInv'
<1> USE DEF BenchInv
<1>1. /\ stage = "csv" /\ stage' = "warmup" /\ at' = 1 /\ csv' = <<>>
      /\ exit = "running" /\ exit' = exit /\ ~ Checking
      /\ UNCHANGED <<artifactVars, accepted, attempt, tallyVars>>
  BY DEF CreateCsv, Running, Goto, Placed
<1>2. UNCHANGED artifactVars /\ accepted' = accepted /\ attempt' = attempt
  BY <1>1
<1>3. CommandTypeOK'
  BY <1>1, <1>2 DEF CommandTypeOK, artifactVars
<1>4. Placed'
  <2>1. 1 <= Len(Arms) /\ Arms' = Arms
    <3>1. Len(Arms) \in {1, 2}
      BY ArmsOfCommand DEF CommandTypeOK
    <3> QED
      BY <1>2, <3>1, CommandFixed
  <2>2. Checking' = Checking
    BY <1>2, CommandFixed
  <2> QED
    BY <1>1, <2>1, <2>2 DEF Placed
<1>5. PreimagesShared' /\ GateCounts'
  BY <1>1, <1>2, CommandFixed DEF PreimagesShared, GateCounts
<1> QED
  BY <1>1, <1>3, <1>4, <1>5, NothingCounted

LEMMA ProveKeeps ==
  ASSUME BenchInv, Prove
  PROVE  BenchInv'
<1> USE DEF BenchInv
<1>1. /\ UNCHANGED artifactVars
      /\ stage' = stage /\ at' = at /\ accepted' = accepted /\ exit' = exit
      /\ csv' = csv /\ cells' = cells /\ unverified' = unverified /\ all' = all
      /\ stage \in {"warmup", "matrix"}
      /\ attempt' \in {"good", "bad", "failed"}
  BY DEF Prove, tallyVars
<1>2. CommandTypeOK' /\ TallyTypeOK'
  BY <1>1 DEF CommandTypeOK, TallyTypeOK, artifactVars
<1>3. Placed'
  <2>1. stage = "matrix" => at <= Len(Attempts)
    <3>1. stage = "matrix" => stage # "warmup"
      OBVIOUS
    <3> QED
      BY <3>1 DEF Prove
  <2> QED
    BY <1>1, <2>1, CommandFixed, AttemptsInOrder DEF Placed, CommandTypeOK
<1>4. PreimagesShared' /\ GateCounts'
  BY <1>1, CommandFixed DEF PreimagesShared, GateCounts
<1>5. Tallied'
  BY <1>1, SameTally
<1>6. Abreast' /\ Judged'
  BY <1>1, CommandFixed DEF Abreast, Judged
<1>7. CountedIsSound'
  BY <1>1, CommandFixed DEF CountedIsSound, Sound
<1> QED
  BY <1>2, <1>3, <1>4, <1>5, <1>6, <1>7

----------------------------------------------------------------------------
(* The warmup and the matrix.                                              *)

LEMMA RangeOfAppend ==
  ASSUME NEW T, NEW q \in Seq(T), NEW e \in T
  PROVE  /\ Append(q, e) \in Seq(T)
         /\ Len(Append(q, e)) = Len(q) + 1
         /\ \A i \in 1 .. Len(q) : Append(q, e)[i] = q[i]
         /\ Append(q, e)[Len(q) + 1] = e
         /\ Range(Append(q, e)) = Range(q) \cup {e}
  BY DEF Range

(* A warmup's row is none of the matrix.                                    *)
LEMMA WarmupIsNoAttempt ==
  ASSUME NEW r, r.phase \in {"warmup", "warmup-failed"}, NEW A
  PROVE  /\ r \notin GoodProofs(A) /\ r \notin BadProofs(A)
         /\ r \notin Finished(A)
  BY DEF GoodProofs, BadProofs, Refusals, Finished, Row

LEMMA WarmupsAreAttempts ==
  ASSUME command \in Commands, NEW n \in 1 .. Len(Arms)
  PROVE  Warmups[n] \in Attempted
<1>1. Requested[1] \in Scenarios /\ Arms[n] \in Artifacts
  BY ArmsOfCommand, RequestedScenarios
<1>2. n \in DOMAIN Arms
  BY ArmsOfCommand
<1> QED
  BY <1>1, <1>2 DEF Warmups, Attempted

LEMMA VerifiedIsBoolean ==
  ASSUME NEW a
  PROVE  Verified(a) \in BOOLEAN
  BY DEF Verified

LEMMA RecordWarmupKeeps ==
  ASSUME BenchInv, RecordWarmup
  PROVE  BenchInv'
<1> USE DEF BenchInv
<1> DEFINE a == Warmups[at]
<1>1. /\ exit = "running" /\ stage = "warmup" /\ ~ Checking
      /\ UNCHANGED artifactVars /\ UNCHANGED tallyVars
      /\ accepted' = accepted /\ attempt' = "none"
      /\ at \in 1 .. Len(Arms) /\ Len(Arms) \in {1, 2}
      /\ csv \in Seq(Rows) /\ Len(csv) = at - 1
      /\ \A i \in DOMAIN csv : csv[i].phase \in {"warmup", "warmup-failed"}
  BY ArmsOfCommand DEF RecordWarmup, Running, Placed, CommandTypeOK
<1>2. a \in Attempted
  BY <1>1, WarmupsAreAttempts DEF CommandTypeOK
<1> HIDE DEF a
<1>3. /\ Row("warmup", a, Verified(a)) \in Rows
      /\ Row("warmup-failed", a, FALSE) \in Rows
      /\ Row("warmup", a, Verified(a)).phase = "warmup"
      /\ Row("warmup-failed", a, FALSE).phase = "warmup-failed"
  BY <1>2, VerifiedIsBoolean DEF Row, Rows
<1>4. CASE /\ attempt = "failed"
           /\ csv' = IF Solo THEN csv
                     ELSE Append(csv, Row("warmup-failed", a, FALSE))
           /\ exit' = "panic" /\ stage' = stage /\ at' = at
  <2>1. CommandTypeOK' /\ PreimagesShared' /\ GateCounts'
    BY <1>1, <1>4, CommandFixed
    DEF CommandTypeOK, artifactVars, PreimagesShared, GateCounts
  <2> DEFINE failed == Row("warmup-failed", a, FALSE)
  <2> HIDE DEF failed
  <2>2. CASE Solo
    BY <1>1, <1>4, <2>1, <2>2, CommandFixed, NothingCounted DEF Placed
  <2>3. CASE ~ Solo
    <3>1. csv' = Append(csv, failed)
      BY <1>4, <2>3 DEF failed
    <3>2. failed \in Rows /\ failed.phase = "warmup-failed"
      BY <1>3 DEF failed
    <3>3. /\ csv' \in Seq(Rows)
          /\ \A i \in DOMAIN csv' : csv'[i].phase \in {"warmup", "warmup-failed"}
      BY <1>1, <3>1, <3>2
    <3>4. Placed'
      <4>1. Arms' = Arms /\ Checking' = Checking /\ stage' = "warmup"
        BY <1>1, <1>4, CommandFixed
      <4> QED
        BY <1>1, <1>4, <3>3, <4>1 DEF Placed
    <3> QED
      BY <1>1, <1>4, <2>1, <3>4, NothingCounted
  <2> QED
    BY <2>2, <2>3
<1>5. CASE /\ csv' = Append(csv, Row("warmup", a, Verified(a)))
           /\ IF at < Len(Arms) THEN Advance ELSE Goto("matrix")
  <2>1. /\ csv' \in Seq(Rows) /\ Len(csv') = at
        /\ \A i \in 1 .. at : csv'[i].phase \in {"warmup", "warmup-failed"}
    BY <1>1, <1>3, <1>5, RangeOfAppend
  <2>2. CASE at < Len(Arms)
    <3>1. /\ at' = at + 1 /\ stage' = "warmup" /\ exit' = exit
          /\ at' \in 1 .. Len(Arms)
          /\ Arms' = Arms /\ Checking' = Checking
      BY <1>1, <1>5, <2>2, CommandFixed DEF Advance
    <3>2. CommandTypeOK' /\ PreimagesShared' /\ GateCounts'
      BY <1>1, <3>1, CommandFixed
      DEF CommandTypeOK, artifactVars, PreimagesShared, GateCounts
    <3>3. Placed'
      BY <1>1, <2>1, <3>1 DEF Placed
    <3> QED
      BY <1>1, <3>1, <3>2, <3>3, NothingCounted
  <2>3. CASE ~ at < Len(Arms)
    <3>1. at = Len(Arms) /\ at' = 1 /\ stage' = "matrix" /\ exit' = exit
      BY <1>1, <1>5, <2>3 DEF Goto
    <3>2. /\ Attempts' = Attempts /\ Arms' = Arms /\ Len(Attempts) \in Nat
          /\ Solo' = Solo /\ Made' = Made /\ \A x, s : Of(x, s)' = Of(x, s)
      BY <1>1, CommandFixed, AttemptsInOrder DEF CommandTypeOK
    <3>3. CommandTypeOK' /\ PreimagesShared' /\ GateCounts'
      BY <1>1, <3>1, CommandFixed
      DEF CommandTypeOK, artifactVars, PreimagesShared, GateCounts
    <3>4. Placed'
      BY <1>1, <2>1, <3>1, <3>2, CommandFixed DEF Placed
    <3>5. /\ all' = <<>> /\ unverified' = 0 /\ cells' = cells
          /\ \A k \in DOMAIN cells : cells[k] = <<>>
          /\ TallyTypeOK'
      BY <1>1 DEF Tallied, tallyVars, TallyTypeOK
    <3>6. ASSUME NEW A
          PROVE  /\ CountIn(csv', GoodProofs(A)) = 0
                 /\ CountIn(csv', BadProofs(A)) = 0
                 /\ CountIn(csv', Finished(A)) = 0
      <4>1. \A i \in DOMAIN csv' : /\ csv'[i] \notin GoodProofs(A)
                                   /\ csv'[i] \notin BadProofs(A)
                                   /\ csv'[i] \notin Finished(A)
        BY <1>1, <2>1, WarmupIsNoAttempt
      <4> QED
        BY <4>1, CountOfNone
    <3>7. Tallied'
      <4>1. CASE Solo
        BY <3>1, <3>2, <3>5, <3>6, <4>1 DEF Tallied
      <4>2. CASE ~ Solo
        <5>1. ASSUME NEW x \in Artifacts, NEW s \in Scenarios
              PROVE  Len(cells'[<<ArmName[x], s>>])
                       = CountIn(csv', GoodProofs(Of(x, s)'))
          <6>1. <<ArmName[x], s>> \in DOMAIN cells
            BY DEF TallyTypeOK
          <6>2. cells'[<<ArmName[x], s>>] = <<>>
            BY <3>5, <6>1
          <6> QED
            BY <3>6, <6>2
        <5> QED
          BY <3>1, <3>2, <3>5, <3>6, <4>2, <5>1 DEF Tallied
      <4> QED
        BY <4>1, <4>2
    <3>8. Abreast'
      <4>1. at' % 2 = 1
        BY <3>1
      <4>2. ASSUME NEW s \in Scenarios
            PROVE  /\ CountIn(csv', Finished(Of(Reference, s)')) = 0
                   /\ CountIn(csv', Finished(Of(Port, s)')) = 0
        BY <3>6
      <4> QED
        BY <4>1, <4>2 DEF Abreast
    <3>9. CountedIsSound' /\ Judged'
      BY <1>1, <3>1, <3>5 DEF CountedIsSound, Range, Judged
    <3> QED
      BY <3>3, <3>4, <3>5, <3>7, <3>8, <3>9
  <2> QED
    BY <2>2, <2>3
<1> QED
  BY <1>1, <1>4, <1>5 DEF RecordWarmup, Panic, Finish, a

(* What stands in the raw file after an attempt, and who counts it.         *)
LEMMA RowOfAttempt ==
  ASSUME NEW a \in Attempted, NEW r \in Finished({a}), NEW A
  PROVE  /\ r \in Rows
         /\ r \in Finished(A) <=> a \in A
         /\ r \in GoodProofs(A) <=> a \in A /\ r = Row("timed", a, TRUE)
         /\ r \in BadProofs(A) <=> a \in A /\ r = Row("timed", a, FALSE)
<1> DEFINE good == Row("timed", a, TRUE)
           bad == Row("timed", a, FALSE)
           none == Row("prove-failed", a, FALSE)
<1>1. r \in {good, bad, none}
  BY DEF Finished, GoodProofs, BadProofs, Refusals
<1>2. good \in Rows /\ bad \in Rows /\ none \in Rows
  BY DEF Row, Rows
<1>3. good.of = a /\ bad.of = a /\ none.of = a
  BY DEF Row
<1>4. /\ \A q \in GoodProofs(A) : q.of \in A /\ q = Row("timed", q.of, TRUE)
      /\ \A q \in BadProofs(A) : q.of \in A /\ q = Row("timed", q.of, FALSE)
      /\ \A q \in Refusals(A) : q.of \in A
  BY DEF GoodProofs, BadProofs, Refusals, Row
<1>5. a \in A => /\ good \in GoodProofs(A) /\ bad \in BadProofs(A)
                 /\ none \in Refusals(A)
  BY DEF GoodProofs, BadProofs, Refusals
<1> HIDE DEF good, bad, none
<1>6. r \in Rows /\ r.of = a
  BY <1>1, <1>2, <1>3
<1>7. r \in Finished(A) <=> a \in A
  BY <1>1, <1>4, <1>5, <1>6 DEF Finished
<1>8. r \in GoodProofs(A) <=> a \in A /\ r = good
  BY <1>4, <1>5, <1>6 DEF good
<1>9. r \in BadProofs(A) <=> a \in A /\ r = bad
  BY <1>4, <1>5, <1>6 DEF bad
<1> QED
  BY <1>6, <1>7, <1>8, <1>9 DEF good, bad

LEMMA RecordKeeps ==
  ASSUME BenchInv, Record
  PROVE  BenchInv'
<1> USE DEF BenchInv
<1> DEFINE a == Attempts[at]
           ok == Verified(a)
           r == IF attempt = "failed" THEN Row("prove-failed", a, FALSE)
                ELSE Row("timed", a, ok)
<1>1. /\ exit = "running" /\ exit' = exit /\ stage = "matrix" /\ stage' = stage
      /\ ~ Checking /\ at' = at + 1 /\ at \in Nat /\ at > 0
      /\ accepted' = accepted /\ attempt # "none" /\ attempt' = "none"
      /\ UNCHANGED artifactVars /\ command \in Commands
  BY DEF Record, Running, Advance, Placed, CommandTypeOK
<1>2. /\ Arms' = Arms /\ Solo' = Solo /\ Checking' = Checking
      /\ Attempts' = Attempts /\ Made' = Made
      /\ \A x, s : Of(x, s)' = Of(x, s)
  BY <1>1, CommandFixed
<1>3. /\ Attempts \in Seq(Attempted) /\ at \in DOMAIN Attempts
      /\ DOMAIN Attempts = 1 .. Len(Attempts) /\ Len(Attempts) \in Nat
      /\ a \in Attempted /\ a \in Made
  <2>1. /\ Attempts \in Seq(Attempted)
        /\ DOMAIN Attempts = 1 .. Len(Attempts) /\ Len(Attempts) \in Nat
    BY <1>1, AttemptsInOrder
  <2>2. attempt # "none"
    BY DEF Record
  <2>3. at \in DOMAIN Attempts
    BY <1>1, <2>1, <2>2 DEF Placed
  <2> QED
    BY <2>1, <2>3 DEF Made, Range
<1>4. /\ ok \in BOOLEAN
      /\ ok => attempt = "good"
      /\ r \in Finished({a})
      /\ ok <=> r = Row("timed", a, TRUE)
      /\ (attempt # "failed" /\ ~ ok) <=> r = Row("timed", a, FALSE)
  BY DEF Verified, Finished, GoodProofs, BadProofs, Refusals, Row
<1>5. csv' = Append(csv, r) /\ csv \in Seq(Rows)
  BY <1>1 DEF Record, Written, Placed
<1>6. Solo => /\ all' = IF ok THEN Append(all, a) ELSE all
              /\ cells' = cells /\ unverified' = unverified
  BY DEF Record, Tally, Counted
<1>7. ~ Solo =>
        /\ cells' = [cells EXCEPT ![<<ArmName[a.arm], a.scenario>>] =
                       IF ok THEN Append(@, a) ELSE @]
        /\ unverified' =
             unverified + (IF attempt # "failed" /\ ~ ok THEN 1 ELSE 0)
        /\ all' = all
  BY DEF Record, Tally, Counted
<1> HIDE DEF a, ok, r
<1>8. /\ r \in Rows /\ csv' \in Seq(Rows) /\ Len(csv') = Len(csv) + 1
      /\ \A i \in 1 .. Len(csv) : csv'[i] = csv[i]
      /\ csv'[Len(csv) + 1] = r /\ Range(csv') = Range(csv) \cup {r}
  <2>1. r \in Rows
    BY <1>3, <1>4, RowOfAttempt
  <2> QED
    BY <1>5, <2>1, RangeOfAppend
<1>9. CommandTypeOK'
  BY <1>1, <1>3 DEF CommandTypeOK, artifactVars
<1>10. <<ArmName[a.arm], a.scenario>> \in DOMAIN cells
  BY <1>3 DEF TallyTypeOK, Attempted
<1>11. TallyTypeOK'
  <2>1. CASE Solo
    <3>1. Append(all, a) \in Seq(Attempted) /\ all \in Seq(Attempted)
      BY <1>3 DEF TallyTypeOK
    <3>2. all' \in Seq(Attempted) /\ cells' = cells /\ unverified' = unverified
      BY <1>6, <2>1, <3>1
    <3> QED
      BY <3>2 DEF TallyTypeOK
  <2>2. CASE ~ Solo
    <3>1. \A k \in DOMAIN cells :
            (IF ok THEN Append(cells[k], a) ELSE cells[k]) \in Seq(Attempted)
      BY <1>3 DEF TallyTypeOK
    <3> DEFINE K == {ArmName[x] : x \in Artifacts} \X Scenarios
    <3>2. cells \in [K -> Seq(Attempted)] /\ unverified \in Nat
          /\ all \in Seq(Attempted)
      BY DEF TallyTypeOK
    <3> HIDE DEF K
    <3>3. cells' \in [K -> Seq(Attempted)]
      BY <1>7, <1>10, <2>2, <3>1, <3>2
    <3>4. unverified' \in Nat /\ all' \in Seq(Attempted)
      BY <1>7, <2>2, <3>2
    <3> QED
      BY <3>3, <3>4 DEF TallyTypeOK, K
  <2> QED
    BY <2>1, <2>2
<1>12. PreimagesShared' /\ GateCounts'
  BY <1>1, <1>2, CommandFixed DEF PreimagesShared, GateCounts
<1>13. Placed'
  <2>1. /\ Len(Arms) \in {1, 2} /\ Len(csv) = Len(Arms) + at - 1
        /\ \A n \in 1 .. at - 1 : csv[Len(Arms) + n] \in Finished({Attempts[n]})
        /\ \A i \in 1 .. Len(Arms) :
             csv[i].phase \in {"warmup", "warmup-failed"}
    BY <1>1, ArmsOfCommand DEF Placed
  <2>2. \A i \in 1 .. Len(Arms) : csv'[i].phase \in {"warmup", "warmup-failed"}
    BY <1>1, <1>8, <2>1
  <2>3. ASSUME NEW n \in 1 .. at
        PROVE  csv'[Len(Arms) + n] \in Finished({Attempts[n]})
    <3>1. CASE n = at
      <4>1. Len(Arms) + n = Len(csv) + 1 /\ {Attempts[n]} = {a}
        BY <1>1, <2>1, <3>1 DEF a
      <4> QED
        <5>1. csv'[Len(Arms) + n] = r
          BY <1>8, <4>1
        <5> QED
          BY <1>4, <4>1, <5>1
    <3>2. CASE n # at
      <4>1. n \in 1 .. at - 1 /\ Len(Arms) + n \in 1 .. Len(csv)
        BY <1>1, <2>1, <3>2
      <4>2. csv'[Len(Arms) + n] = csv[Len(Arms) + n]
        BY <1>8, <4>1
      <4> QED
        BY <2>1, <4>1, <4>2
    <3> QED
      BY <3>1, <3>2
  <2>4. /\ at' - 1 = at /\ Len(csv') = Len(Arms) + at' - 1
        /\ at' <= Len(Attempts) + 1
    BY <1>1, <1>3, <1>8, <2>1
  <2> QED
    BY <1>1, <1>2, <1>8, <2>2, <2>3, <2>4 DEF Placed
<1>14. Judged'
  BY <1>1, <1>2 DEF Judged
<1>15. Tallied'
  <2>1. ASSUME NEW S
        PROVE  /\ CountIn(csv', S) = CountIn(csv, S) + (IF r \in S THEN 1 ELSE 0)
               /\ CountIn(csv, S) \in Nat
    BY <1>5, <1>8, CountOfAppend, CountIsNat
  <2>2. \A A : /\ r \in GoodProofs(A) <=> a \in A /\ ok
               /\ r \in BadProofs(A) <=> a \in A /\ attempt # "failed" /\ ~ ok
    BY <1>3, <1>4, RowOfAttempt
  <2>3. CASE Solo
    <3>1. Len(all') = Len(all) + (IF ok THEN 1 ELSE 0)
      BY <1>3, <1>6, <2>3 DEF TallyTypeOK
    <3>2. Len(all') = CountIn(csv', GoodProofs(Made))
      <4>1. Len(all) = CountIn(csv, GoodProofs(Made))
        BY <1>1, <2>3 DEF Tallied
      <4>2. r \in GoodProofs(Made) <=> ok
        BY <1>3, <2>2
      <4> QED
        BY <2>1, <3>1, <4>1, <4>2
    <3> QED
      BY <1>1, <1>2, <2>3, <3>2 DEF Tallied
  <2>4. CASE ~ Solo
    <3>1. unverified' = CountIn(csv', BadProofs(Made))
      BY <1>1, <1>3, <1>7, <2>1, <2>2, <2>4 DEF Tallied
    <3>2. ASSUME NEW x \in Artifacts, NEW s \in Scenarios
          PROVE  Len(cells'[<<ArmName[x], s>>])
                   = CountIn(csv', GoodProofs(Of(x, s)))
      <4> DEFINE k == <<ArmName[x], s>>
      <4>1. k \in DOMAIN cells /\ cells[k] \in Seq(Attempted)
            /\ Len(cells[k]) = CountIn(csv, GoodProofs(Of(x, s)))
        BY <1>1, <2>4 DEF Tallied, TallyTypeOK
      <4>2. a \in Of(x, s) <=> k = <<ArmName[a.arm], a.scenario>>
        BY <1>3, BenchAssumption DEF Of, Attempted, Artifacts
      <4>3. cells'[k] = IF a \in Of(x, s) /\ ok THEN Append(cells[k], a)
                        ELSE cells[k]
        BY <1>7, <1>10, <2>4, <4>1, <4>2
      <4> HIDE DEF k
      <4>4. CASE a \in Of(x, s) /\ ok
        <5>1. cells'[k] = Append(cells[k], a)
          BY <4>3, <4>4
        <5>2. Len(cells'[k]) = Len(cells[k]) + 1
          <6>1. cells[k] \in Seq(Attempted)
            BY <4>1
          <6>2. Len(Append(cells[k], a)) = Len(cells[k]) + 1
            BY <1>3, <6>1
          <6> QED
            BY <5>1, <6>2
        <5>3. r \in GoodProofs(Of(x, s))
          BY <2>2, <4>4
        <5> QED
          BY <2>1, <4>1, <5>2, <5>3 DEF k
      <4>5. CASE ~ (a \in Of(x, s) /\ ok)
        <5>1. cells'[k] = cells[k]
          BY <4>3, <4>5
        <5>2. r \notin GoodProofs(Of(x, s))
          BY <2>2, <4>5
        <5> QED
          BY <2>1, <4>1, <5>1, <5>2 DEF k
      <4> QED
        BY <4>4, <4>5
    <3> QED
      BY <1>1, <1>2, <2>4, <3>1, <3>2 DEF Tallied
  <2> QED
    BY <2>3, <2>4
<1>16. CountedIsSound'
  <2>1. accepts' = accepts /\ Arms' = Arms /\ Range(csv) \subseteq Range(csv')
    <3>1. accepts' = accepts /\ Arms' = Arms
      BY <1>1, CommandFixed
    <3>2. Range(csv) \subseteq Range(csv')
      <4>1. Range(csv') = Range(csv) \cup {r}
        BY <1>8
      <4> QED
        BY <4>1
    <3> QED
      BY <3>1, <3>2
  <2>2. ASSUME NEW b, Sound(b) PROVE Sound(b)'
    BY <2>1, <2>2 DEF Sound
  <2>3. ASSUME NEW b, ok, b = a PROVE Sound(b)'
    <3>1. Row("timed", b, TRUE) \in Range(csv')
      <4>1. r = Row("timed", b, TRUE)
        BY <1>4, <2>3
      <4>2. r \in Range(csv')
        BY <1>8
      <4> QED
        BY <4>1, <4>2
    <3>2. Shared(b.scenario)
      BY <1>1, <1>3, <2>3 DEF PreimagesShared, Attempted
    <3>3. \A x \in Range(Arms) \cup {Reference} : b.scenario \in accepts[x]
      BY <3>2 DEF Shared, Range
    <3> QED
      BY <2>1, <3>1, <3>3 DEF Sound
  <2>4. \A q \in Seq(Attempted) : Range(Append(q, a)) = Range(q) \cup {a}
    BY <1>3, RangeOfAppend
  <2>5. ASSUME NEW b \in Range(all') PROVE Sound(b)'
    <3>1. all \in Seq(Attempted) /\ (all' = all \/ (ok /\ all' = Append(all, a)))
      <4>1. all' = all \/ (ok /\ all' = Append(all, a))
        <5>1. CASE Solo /\ ok
          BY <1>6, <5>1
        <5>2. CASE Solo /\ ~ ok
          BY <1>6, <5>2
        <5>3. CASE ~ Solo
          BY <1>7, <5>3
        <5> QED
          BY <5>1, <5>2, <5>3
      <4> QED
        BY <4>1 DEF TallyTypeOK
    <3>2. b \in Range(all) \/ (ok /\ b = a)
      BY <2>4, <3>1
    <3>3. b \in Range(all) => Sound(b)
      BY DEF CountedIsSound
    <3> QED
      BY <2>2, <2>3, <3>2, <3>3
  <2>6. ASSUME NEW k \in DOMAIN cells', NEW b \in Range(cells'[k])
        PROVE  Sound(b)' /\ k = <<ArmName[b.arm], b.scenario>>
    <3>1. k \in DOMAIN cells /\ cells[k] \in Seq(Attempted)
      BY <1>6, <1>7 DEF TallyTypeOK
    <3>2. \/ cells'[k] = cells[k]
          \/ /\ ok /\ k = <<ArmName[a.arm], a.scenario>>
             /\ cells'[k] = Append(cells[k], a)
      BY <1>6, <1>7, <3>1
    <3>3. \/ b \in Range(cells[k])
          \/ ok /\ b = a /\ k = <<ArmName[a.arm], a.scenario>>
      BY <2>4, <3>1, <3>2
    <3>4. b \in Range(cells[k]) =>
            Sound(b) /\ k = <<ArmName[b.arm], b.scenario>>
      BY <3>1 DEF CountedIsSound
    <3> QED
      BY <2>2, <2>3, <3>3, <3>4
  <2> QED
    BY <2>5, <2>6 DEF CountedIsSound
<1>17. Abreast'
  <2> SUFFICES ASSUME ~ Solo, NEW s \in Scenarios
               PROVE  CountIn(csv', Finished(Of(Reference, s))) =
                        CountIn(csv', Finished(Of(Port, s)))
                          + (IF at' % 2 = 0 /\ s = Attempts[at' - 1].scenario
                             THEN 1 ELSE 0)
    BY <1>1, <1>2 DEF Abreast
  <2> DEFINE lead == CountIn(csv, Finished(Of(Reference, s)))
             trail == CountIn(csv, Finished(Of(Port, s)))
             half == IF at % 2 = 0 /\ s = Attempts[at - 1].scenario THEN 1 ELSE 0
  <2>1. lead \in Nat /\ trail \in Nat /\ lead = trail + half
    BY <1>1, <1>5, CountIsNat DEF Abreast
  <2>2. \A A : CountIn(csv', Finished(A)) =
                 CountIn(csv, Finished(A)) + (IF a \in A THEN 1 ELSE 0)
    <3>1. \A A : r \in Finished(A) <=> a \in A
      BY <1>3, <1>4, RowOfAttempt
    <3>2. \A S : CountIn(csv', S) = CountIn(csv, S) + (IF r \in S THEN 1 ELSE 0)
      BY <1>5, <1>8, CountOfAppend
    <3> QED
      BY <3>1, <3>2
  <2>3. /\ a \in Of(Reference, s) <=> a.arm = Reference /\ a.scenario = s
        /\ a \in Of(Port, s) <=> a.arm = Port /\ a.scenario = s
    BY <1>3 DEF Of
  <2>4. at' - 1 = at
    BY <1>1
  <2>5. CASE at % 2 = 1
    <3>1. a.arm = Reference /\ half = 0 /\ at' % 2 = 0
      <4>1. a.arm = Reference
        BY <1>1, <1>3, <2>5, TurnsAreShared DEF a
      <4> QED
        BY <1>1, <2>5, <4>1
    <3> HIDE DEF lead, trail, half
    <3>2. CountIn(csv', Finished(Of(Reference, s)))
            = lead + (IF a.scenario = s THEN 1 ELSE 0)
      BY <2>2, <2>3, <3>1 DEF lead
    <3>3. CountIn(csv', Finished(Of(Port, s))) = trail
      BY <2>1, <2>2, <2>3, <3>1, BenchAssumption DEF trail
    <3> QED
      BY <2>1, <2>4, <3>1, <3>2, <3>3 DEF a
  <2>6. CASE at % 2 = 0
    <3>1. /\ a.arm = Port /\ at' % 2 = 1
          /\ half = IF s = a.scenario THEN 1 ELSE 0
      <4>1. a.arm = Port /\ a.scenario = Attempts[at - 1].scenario
        BY <1>1, <1>3, <2>6, TurnsAreShared DEF a
      <4> QED
        BY <1>1, <2>6, <4>1
    <3> HIDE DEF lead, trail, half
    <3>2. CountIn(csv', Finished(Of(Reference, s))) = lead
      BY <2>1, <2>2, <2>3, <3>1, BenchAssumption DEF lead
    <3>3. CountIn(csv', Finished(Of(Port, s)))
            = trail + (IF a.scenario = s THEN 1 ELSE 0)
      BY <2>2, <2>3, <3>1 DEF trail
    <3> QED
      BY <2>1, <3>1, <3>2, <3>3
  <2> QED
    BY <1>1, <2>5, <2>6
<1> QED
  BY <1>9, <1>11, <1>12, <1>13, <1>14, <1>15, <1>16, <1>17

----------------------------------------------------------------------------
(* The end of a delivery check.                                            *)

LEMMA PlacesOfMatrix ==
  ASSUME NEW N \in Nat
  PROVE  IsFiniteSet(2 .. N + 1) /\ Cardinality(2 .. N + 1) = N
<1> DEFINE b == N + 1
<1>1. b \in Int /\ 2 \in Int /\ b > 0 /\ b - 1 = N
  OBVIOUS
<1> HIDE DEF b
<1>2. \A x, y \in Int : /\ IsFiniteSet(x .. y)
                       /\ Cardinality(x .. y) = IF x > y THEN 0 ELSE y - x + 1
  BY FS_Interval, Zenon
<1>3. IsFiniteSet(2 .. b)
  BY <1>1, <1>2, Zenon
<1>4. Cardinality(2 .. b) = IF 2 > b THEN 0 ELSE b - 2 + 1
  BY <1>1, <1>2, Zenon
<1>5. Cardinality(2 .. b) = N
  BY <1>1, <1>4
<1> QED
  BY <1>3, <1>5 DEF b

(* Once every attempt has its row, the verified ones are as many as the     *)
(* attempts if and only if each of them is.                                 *)
LEMMA AllOrNotAll ==
  ASSUME BenchInv, Solo, stage = "matrix", at = Len(Attempts) + 1
  PROVE  Len(all) = Len(Attempts) <=>
           \A n \in DOMAIN Attempts :
             /\ Len(Arms) + n \in DOMAIN csv
             /\ csv[Len(Arms) + n] = Row("timed", Attempts[n], TRUE)
<1> DEFINE N == Len(Attempts)
           P == PlacesIn(csv, GoodProofs(Made))
<1>1. /\ Attempts \in Seq(Attempted) /\ DOMAIN Attempts = 1 .. N /\ N \in Nat
      /\ Len(Arms) = 1
  BY AttemptsInOrder, ArmsOfCommand DEF BenchInv, CommandTypeOK
<1>2. /\ csv \in Seq(Rows) /\ Len(csv) = Len(Arms) + at - 1
      /\ \A i \in 1 .. Len(Arms) : csv[i].phase \in {"warmup", "warmup-failed"}
      /\ \A n \in 1 .. at - 1 : csv[Len(Arms) + n] \in Finished({Attempts[n]})
  BY DEF BenchInv, Placed
<1> HIDE DEF N
<1>3. /\ Len(csv) = N + 1 /\ DOMAIN csv = 1 .. N + 1
      /\ csv[1].phase \in {"warmup", "warmup-failed"}
      /\ \A n \in 1 .. N : csv[Len(Arms) + n] \in Finished({Attempts[n]})
      /\ \A n \in 1 .. N : Len(Arms) + n = n + 1 /\ n + 1 \in DOMAIN csv
  <2>1. at = N + 1
    BY DEF N
  <2> QED
    BY <1>1, <1>2, <2>1
<1>4. ASSUME NEW n \in 1 .. N
      PROVE  csv[n + 1] \in GoodProofs(Made)
               <=> csv[n + 1] = Row("timed", Attempts[n], TRUE)
  <2>1. Attempts[n] \in Attempted /\ Attempts[n] \in Made
    BY <1>1 DEF Made, Range
  <2>2. csv[n + 1] \in Finished({Attempts[n]})
    BY <1>3
  <2> QED
    BY <2>1, <2>2, RowOfAttempt
<1>5. P \subseteq 2 .. N + 1
  <2>1. csv[1] \notin GoodProofs(Made)
    BY <1>3, WarmupIsNoAttempt
  <2> QED
    <3>1. ASSUME NEW i \in P PROVE i \in 1 .. N + 1 /\ i # 1
      BY <1>3, <2>1 DEF PlacesIn
    <3> QED
      BY <1>1, <3>1
<1>6. /\ IsFiniteSet(2 .. N + 1)
      /\ Cardinality(P) = N <=> P = 2 .. N + 1
  <2>1. IsFiniteSet(2 .. N + 1) /\ Cardinality(2 .. N + 1) = N
    BY <1>1, PlacesOfMatrix
  <2> QED
    BY <1>5, <2>1, FS_Subset
<1>7. P = 2 .. N + 1 <=> \A n \in 1 .. N : csv[n + 1] \in GoodProofs(Made)
  <2>1. ASSUME P = 2 .. N + 1, NEW n \in 1 .. N
        PROVE  csv[n + 1] \in GoodProofs(Made)
    <3>1. n + 1 \in 2 .. N + 1
      BY <1>1
    <3> QED
      BY <2>1, <3>1 DEF PlacesIn
  <2>2. ASSUME \A n \in 1 .. N : csv[n + 1] \in GoodProofs(Made),
               NEW i \in 2 .. N + 1
        PROVE  i \in P
    <3>1. i - 1 \in 1 .. N /\ (i - 1) + 1 = i /\ i \in DOMAIN csv
      BY <1>1, <1>3
    <3>2. csv[i] \in GoodProofs(Made)
      BY <2>2, <3>1
    <3> QED
      BY <3>1, <3>2 DEF PlacesIn
  <2> QED
    BY <1>5, <2>1, <2>2
<1>8. Len(all) = Cardinality(P)
  BY DEF BenchInv, Tallied, CountIn
<1> HIDE DEF P
<1> QED
  BY <1>1, <1>3, <1>4, <1>6, <1>7, <1>8 DEF N

LEMMA SoloAttempts ==
  ASSUME command \in Commands, Solo
  PROVE  Len(Attempts) = Runs * Len(Requested)
<1>1. Len(Attempts) = Runs * Len(Requested) * Len(Arms) /\ Len(Arms) = 1
  BY AttemptsInOrder, ArmsOfCommand
<1>2. Runs * Len(Requested) \in Nat
  BY BenchAssumption, RequestedScenarios
<1>3. \A m \in Nat : m * 1 = m
  OBVIOUS
<1> QED
  BY <1>1, <1>2, <1>3

LEMMA SummaryKeeps ==
  ASSUME BenchInv, Summary
  PROVE  BenchInv'
<1> USE DEF BenchInv
<1>1. /\ stage = "matrix" /\ stage' = stage /\ at' = at /\ accepted' = accepted
      /\ UNCHANGED artifactVars /\ UNCHANGED tallyVars
      /\ attempt' = attempt /\ attempt = "none" /\ csv' = csv /\ exit = "running"
      /\ exit' = IF Solo THEN SoloCode ELSE "ok"
      /\ at > Len(Attempts) /\ at \in Nat
      /\ cells' = cells /\ unverified' = unverified /\ all' = all
  BY DEF Summary, Running, Finish, CommandTypeOK, tallyVars
<1>2. at = Len(Attempts) + 1
  BY <1>1, AttemptsInOrder DEF Placed, CommandTypeOK
<1>3. CommandTypeOK' /\ TallyTypeOK'
  BY <1>1 DEF CommandTypeOK, TallyTypeOK, artifactVars, SoloCode
<1>4. Placed'
  BY <1>1, CommandFixed DEF Placed
<1>5. PreimagesShared'
  BY <1>1, CommandFixed DEF PreimagesShared
<1>6. GateCounts'
  BY <1>1, CommandFixed DEF GateCounts, Placed
<1>7. Tallied'
  BY <1>1, SameTally
<1>8. Abreast'
  BY <1>1, CommandFixed DEF Abreast
<1>9. Judged'
  BY <1>1, <1>2, CommandFixed DEF Judged, SoloCode
<1>10. CountedIsSound'
  BY <1>1, CommandFixed DEF CountedIsSound, Sound
<1> QED
  BY <1>3, <1>4, <1>5, <1>6, <1>7, <1>8, <1>9, <1>10

LEMMA BenchStep ==
  ASSUME BenchInv, [Next]_vars
  PROVE  BenchInv'
<1>1. CASE CannotCreate \/ WriteFails \/ Killed
  BY <1>1, EndingKeeps DEF CannotCreate, WriteFails, Killed, Panic, Finish
<1>2. CASE UNCHANGED vars
  BY <1>2, EndingKeeps DEF vars
<1> QED
  BY <1>1, <1>2, CheckScenarioKeeps, AcceptGateKeeps, PreimageKeeps,
     CreateCsvKeeps, ProveKeeps, RecordWarmupKeeps, RecordKeeps, SummaryKeeps
  DEF Next

LEMMA BenchInvariant ==
  Spec => []BenchInv
<1>1. Init => BenchInv
  BY InitBench
<1>2. BenchInv /\ [Next]_vars => BenchInv'
  BY BenchStep
<1> QED
  BY <1>1, <1>2, PTL DEF Spec

----------------------------------------------------------------------------
(* What the run checks, for every matrix.                                  *)

(* What is counted was proved, verified and written down, under its own arm *)
(* and scenario, on a preimage that is shared.                              *)
THEOREM CountsAreSound ==
  Spec => []CountedIsSound
<1>1. BenchInv => CountedIsSound
  BY DEF BenchInv
<1> QED
  BY <1>1, BenchInvariant, PTL

(* A session killed at any proof has left one row per finished attempt, in  *)
(* order, and its tallies are those of the rows.                            *)
THEOREM NoAttemptIsLost ==
  Spec => []RawFileComplete
<1>1. \A S : CountIn(csv, S) = HowMany(S)
  BY DEF CountIn, PlacesIn, HowMany, Places
<1>2. BenchInv => RawFileComplete
  BY <1>1 DEF BenchInv, Placed, Tallied, RawFileComplete
<1> QED
  BY <1>2, BenchInvariant, PTL

(* The file of an earlier session is only emptied when every preimage has   *)
(* been accepted by every arm.                                              *)
THEOREM EarlierFileKept ==
  Spec => []EarlierKept
<1>1. ASSUME BenchInv, NEW s \in Scenarios, NEW x \in Range(Arms),
             s \notin accepts[x]
      PROVE  csv = Earlier
  <2>1. ~ Shared(s)
    BY <1>1 DEF Shared, Range
  <2>2. stage \in {"preimages", "csv"}
    BY <1>1, <2>1 DEF BenchInv, CommandTypeOK, Placed, PreimagesShared
  <2> QED
    BY <1>1, <2>2 DEF BenchInv, Placed
<1>2. BenchInv => EarlierKept
  BY <1>1 DEF EarlierKept
<1> QED
  BY <1>2, BenchInvariant, PTL

(* The two arms stay abreast whatever becomes of their attempts.            *)
THEOREM ArmsStayAbreast ==
  Spec => []ArmsAbreast
<1>1. ASSUME BenchInv, command[1] = "bench", stage = "matrix",
             NEW s \in Scenarios
      PROVE  LET lead == HowMany(Finished(Of(Reference, s)))
                 trail == HowMany(Finished(Of(Port, s)))
             IN trail <= lead /\ lead <= trail + 1
  <2> DEFINE lead == CountIn(csv, Finished(Of(Reference, s)))
             trail == CountIn(csv, Finished(Of(Port, s)))
  <2>1. ~ Solo
    BY <1>1 DEF Solo
  <2>2. lead = trail + 0 \/ lead = trail + 1
    BY <1>1, <2>1 DEF BenchInv, Abreast
  <2>3. lead \in Nat /\ trail \in Nat
    BY <1>1, CountIsNat DEF BenchInv, Placed
  <2> HIDE DEF lead, trail
  <2>4. trail <= lead /\ lead <= trail + 1
    BY <2>2, <2>3
  <2> QED
    BY <2>4 DEF lead, trail, CountIn, PlacesIn, HowMany, Places
<1>2. BenchInv => ArmsAbreast
  BY <1>1 DEF ArmsAbreast
<1> QED
  BY <1>2, BenchInvariant, PTL

(* Exit 0 of `solo` means a verified proof of each attempt on file, and 70  *)
(* that one is missing: the count over all scenarios hides nothing.         *)
THEOREM DeliveryIsComplete ==
  Spec => []Delivered
<1>1. ASSUME BenchInv, Solo, exit \in {"ok", "undelivered"}
      PROVE  exit = "ok" <=>
               \A n \in DOMAIN Attempts :
                 /\ Len(Arms) + n \in DOMAIN csv
                 /\ csv[Len(Arms) + n] = Row("timed", Attempts[n], TRUE)
  <2>1. /\ stage = "matrix" /\ at = Len(Attempts) + 1
        /\ exit = "ok" <=> Len(all) = Runs * Len(Requested)
    BY <1>1 DEF BenchInv, Judged
  <2>2. Len(Attempts) = Runs * Len(Requested)
    BY <1>1, SoloAttempts DEF BenchInv, CommandTypeOK
  <2> QED
    BY <1>1, <2>1, <2>2, AllOrNotAll
<1>2. BenchInv => Delivered
  BY <1>1 DEF Delivered
<1> QED
  BY <1>2, BenchInvariant, PTL

(* The gate's one total stands for every acceptance and every layout.       *)
THEOREM GateIsStrict ==
  Spec => []GatePassed
<1>1. ASSUME BenchInv, Checking, exit = "ok"
      PROVE  /\ \A a \in Artifacts : Scenarios \subseteq accepts[a]
             /\ layout = "alike"
  <2>1. /\ at = Len(Requested) + 1 /\ accepted = 2 * Len(Requested)
        /\ at \in Nat /\ Len(Requested) \in Nat /\ Len(Requested) > 0
    BY <1>1, RequestedScenarios DEF BenchInv, GateCounts, CommandTypeOK
  <2>2. at - 1 = Len(Requested)
    BY <2>1
  <2>3. \A i \in 1 .. Len(Requested) :
          AcceptedOn(Requested[i]) = 2 /\ layout = "alike"
    BY <1>1, <2>1, <2>2 DEF BenchInv, GateCounts
  <2>4. layout = "alike"
    BY <2>1, <2>3
  <2>5. ASSUME NEW a \in Artifacts, NEW s \in Scenarios
        PROVE  s \in accepts[a]
    BY <2>3, RequestedScenarios, AcceptedByBoth
  <2> QED
    BY <2>4, <2>5
<1>2. BenchInv => GatePassed
  BY <1>1 DEF GatePassed
<1> QED
  BY <1>2, BenchInvariant, PTL
=============================================================================
