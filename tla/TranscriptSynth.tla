--------------------------- MODULE TranscriptSynth ---------------------------
(***************************************************************************)
(* The fixpoint that derives a call's public transcript from the compactc  *)
(* artifact: run the reference on the transcript so far, write the element *)
(* it computed where it disagreed, run it again.  Both copies of the loop  *)
(* are modelled: prove-bench/src/synth.rs, which drives upstream's `check` *)
(* and manager-port/tests/support/synth.rs, which drives the simulator and *)
(* also reads its report on the lengths of the transcripts.                *)
(***************************************************************************)
EXTENDS Naturals, Sequences, Functions

CONSTANTS
  FieldSize,      \* `Fr` is 0 .. FieldSize - 1
  ByteSize,       \* the values of one byte of an `Fr`
  MaxElements,    \* the longest transcript of the model
  MAX_ITERATIONS

ASSUME SynthAssumption ==
  /\ FieldSize \in Nat \ {0}
  /\ ByteSize \in Nat \ {0, 1}
  /\ MaxElements \in Nat
  /\ MAX_ITERATIONS \in Nat

Fr == 0 .. FieldSize - 1

VARIABLES
  kit,        \* which copy of the loop runs
  computed,   \* the elements the reference computes for the scenario
  refusesAt,  \* how many of them it has computed when an assert fails
  surplus,    \* the scenario supplies ledger answers that nothing reads
  transcript, \* `public_transcript_inputs`
  iterations, \* of the loop
  outcome

vars == <<kit, computed, refusesAt, surplus, transcript, iterations, outcome>>

scenario == <<kit, computed, refusesAt, surplus>>

----------------------------------------------------------------------------
(* How a value travels through the message.  `Debug` prints the bytes,      *)
(* least significant first and without the zeros at the end, and `-` for 0. *)
Dash == ByteSize
None == FieldSize

FrBytes[v \in Fr] ==
  IF v = 0 THEN <<>> ELSE <<v % ByteSize>> \o FrBytes[v \div ByteSize]

FrDebug(v) == IF v = 0 THEN <<Dash>> ELSE FrBytes[v]

FromLeBytes(bytes) ==
  LET from[i \in 1 .. Len(bytes) + 1] ==
        IF i > Len(bytes) THEN 0 ELSE bytes[i] + ByteSize * from[i + 1]
  IN IF from[1] \in Fr THEN from[1] ELSE None

(* Mutant of FrFromDebug: `-` is not known.                                 *)
DashUnknown(text) == IF Dash \in Range(text) THEN None ELSE FromLeBytes(text)

FrFromDebug(text) ==
  IF text = <<Dash>> THEN 0
  ELSE IF Dash \in Range(text) THEN None ELSE FromLeBytes(text)

----------------------------------------------------------------------------
(* One run of the reference.  The elements it computes depend on the inputs *)
(* and the ledger's answers only; it compares those it reaches with the     *)
(* transcript and reports one that differs - which, is not relied on.       *)
Refuses == refusesAt < Len(computed)
Differing(t) ==
  {i \in 1 .. refusesAt : i > Len(t) \/ t[i] # computed[i]}

(* Mutant of Resized: resized without asking, so a longer one is cut.       *)
Cut(t, i) == [j \in 1 .. i |-> IF j <= Len(t) THEN t[j] ELSE 0]

(* `resize(index + 1, 0)`.                                                  *)
Resized(t, i) == IF i > Len(t) THEN t \o [j \in 1 .. i - Len(t) |-> 0] ELSE t

(* Mutant of Written: the padding goes one element too far.                 *)
OverPadded(t, i, value) == [Resized(t, i + 1) EXCEPT ![i] = value]
Written(t, i, value) == [Resized(t, i) EXCEPT ![i] = value]

(* Extending is progress, even by a zero.                                   *)
Stalls(t, i, value) == i <= Len(t) /\ t[i] = value

Iterate == /\ outcome = "running"
           /\ iterations < MAX_ITERATIONS
           /\ iterations' = iterations + 1
           /\ UNCHANGED scenario

Return(result) == outcome' = result /\ UNCHANGED transcript

(* `Impact` found element i to differ.                                      *)
Mismatch(i) ==
  LET value == FrFromDebug(FrDebug(computed[i]))
  IN /\ Iterate
     /\ i \in Differing(transcript)
     /\ IF value = None THEN Return("unparseable")
        ELSE IF Stalls(transcript, i, value) THEN Return("stalled")
        ELSE /\ transcript' = Written(transcript, i, value)
             /\ UNCHANGED outcome

(* One of the contract's asserts failed, or the VM panicked.                *)
Reject ==
  /\ Iterate
  /\ Differing(transcript) = {} /\ Refuses
  /\ Return("rejected")

(* The run ended, but a transcript was not used up.  The tests' copy drops  *)
(* elements that were not consumed; it can do nothing about answers.        *)
LengthReport ==
  /\ Iterate
  /\ Differing(transcript) = {} /\ ~ Refuses
  /\ surplus \/ Len(transcript) > Len(computed)
  /\ CASE kit = "bench" -> Return("rejected")
       [] kit = "tests" /\ Len(computed) >= Len(transcript) ->
            Return("underspecified")
       [] OTHER -> /\ transcript' = SubSeq(transcript, 1, Len(computed))
                   /\ UNCHANGED outcome

Accept ==
  /\ Iterate
  /\ ~ Refuses /\ ~ surplus
  /\ transcript = computed
  /\ Return("accepted")

GiveUp ==
  /\ outcome = "running" /\ iterations = MAX_ITERATIONS
  /\ Return("diverged")
  /\ UNCHANGED <<scenario, iterations>>

(* The base transcript is ignored: the loop starts from nothing.            *)
Init ==
  /\ kit \in {"bench", "tests"}
  /\ computed \in UNION {[1 .. n -> Fr] : n \in 0 .. MaxElements}
  /\ refusesAt \in 0 .. Len(computed)
  /\ surplus \in BOOLEAN
  /\ transcript = <<>>
  /\ iterations = 0
  /\ outcome = "running"

Next ==
  \/ \E i \in 1 .. refusesAt : Mismatch(i)
  \/ Reject \/ LengthReport \/ Accept \/ GiveUp

Spec == Init /\ [][Next]_vars
----------------------------------------------------------------------------
(* The verdict is the reference's: a scenario the reference accepts is      *)
(* never refused by the loop itself - not for a value that did not survive  *)
(* its message, not as a stall, not for want of iterations unless the       *)
(* transcript is as long as their number - and no other scenario is         *)
(* accepted (synth.rs: "the loop terminates", "round-trips without loss").  *)
Verdict ==
  /\ outcome \notin {"stalled", "unparseable"}
  /\ outcome = "accepted" => ~ Refuses /\ ~ surplus
  /\ outcome \in {"rejected", "underspecified"} => Refuses \/ surplus
  /\ outcome = "diverged" => Len(computed) >= MAX_ITERATIONS

(* What is kept of a refused run is what the reference had computed when it *)
(* refused, and no padding: the port can be asked the same question.        *)
PartialIsReference ==
  outcome = "rejected" => transcript = SubSeq(computed, 1, refusesAt)

(* Every pass of the loop that does not end it settles at least one element *)
(* and disturbs none that was settled.                                      *)
EveryPassSettles ==
  [][outcome' = "running" =>
       /\ Differing(transcript') \subseteq Differing(transcript)
       /\ Differing(transcript') # Differing(transcript)]_vars
=============================================================================
