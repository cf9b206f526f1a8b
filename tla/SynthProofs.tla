------------------------------ MODULE SynthProofs ------------------------------
(***************************************************************************)
(* Proofs about TranscriptSynth: for any size of the field and of a byte,  *)
(* any scenario and any limit on the passes, a value survives its way      *)
(* through the message, every pass that does not end the loop settles an   *)
(* element, and the verdict is the reference's.                            *)
(***************************************************************************)
EXTENDS TranscriptSynth, TLAPS, FiniteSetTheorems, WellFoundedInduction

Bytes == 0 .. ByteSize - 1

----------------------------------------------------------------------------
(* Arithmetic of a value and its least byte.                               *)

LEMMA LeastByte ==
  ASSUME NEW v \in Nat
  PROVE  /\ v % ByteSize \in Bytes
         /\ v \div ByteSize \in Nat
         /\ v = (v % ByteSize) + ByteSize * (v \div ByteSize)
BY SynthAssumption DEF Bytes

LEMMA RestIsLess ==
  ASSUME NEW v \in Nat, v > 0
  PROVE  v \div ByteSize < v
<1>1. PICK q \in Nat : q = v \div ByteSize
  BY LeastByte
<1>2. v >= ByteSize * q
  BY <1>1, LeastByte, SynthAssumption DEF Bytes
<1>3. ByteSize * q >= q + q
  BY <1>1, SynthAssumption
<1> QED
  BY <1>1, <1>2, <1>3, SynthAssumption

(* A set of numbers that is not empty has a least one.                      *)
LEMMA LeastOf ==
  ASSUME NEW T, T \subseteq Nat, T # {}
  PROVE  \E n \in T : \A m \in Nat : m < n => m \notin T
<1>1. \E n \in T : \A m \in T : ~ (<<m, n>> \in OpToRel(<, Nat))
  BY WFMin, NatLessThanWellFounded
<1>2. \A m, n \in Nat : m < n => <<m, n>> \in OpToRel(<, Nat)
  BY DEF OpToRel
<1> QED
  BY <1>1, <1>2

----------------------------------------------------------------------------
(* The recursive definition of an element's bytes has a solution, so the    *)
(* bytes are what it says.  The domain is taken up to n and n then grows:   *)
(* an induction whose hypothesis is a set of numbers, because the provers   *)
(* take no theorem about an operator that is a parameter.                   *)
Printed(n, f) ==
  f = [v \in 0 .. n |->
         IF v = 0 THEN <<>> ELSE <<v % ByteSize>> \o f[v \div ByteSize]]

LEMMA PrintedExists ==
  ASSUME NEW k \in Nat
  PROVE  \E f : Printed(k, f)
<1> DEFINE Solved(n) == \E f : Printed(n, f)
           Unsolved == {n \in Nat : ~ Solved(n)}
           body(f, v) ==
             IF v = 0 THEN <<>> ELSE <<v % ByteSize>> \o f[v \div ByteSize]
<1>1. Solved(0)
  <2> DEFINE f == [v \in 0 .. 0 |-> <<>>]
  <2>1. f = [v \in 0 .. 0 |-> body(f, v)]
    OBVIOUS
  <2> QED
    BY <2>1 DEF Printed
<1>2. ASSUME NEW n \in Nat, Solved(n) PROVE Solved(n + 1)
  <2>1. PICK f : Printed(n, f)
    BY <1>2
  <2> DEFINE g == [v \in 0 .. n + 1 |-> body(f, v)]
  <2>2. \A v \in 0 .. n : g[v] = f[v]
    <3>1. f = [v \in 0 .. n |-> body(f, v)]
      BY <2>1 DEF Printed
    <3>2. \A v \in 0 .. n : f[v] = body(f, v)
      BY <3>1
    <3> QED
      BY <3>2
  <2>3. \A v \in 0 .. n + 1 : v # 0 => v \div ByteSize \in 0 .. n
    BY LeastByte, RestIsLess
  <2>4. \A v \in 0 .. n + 1 : body(f, v) = body(g, v)
    BY <2>2, <2>3
  <2>5. g = [v \in 0 .. n + 1 |-> body(g, v)]
    BY <2>4
  <2> QED
    BY <2>5 DEF Printed
<1>3. Unsolved = {}
  <2> SUFFICES ASSUME Unsolved # {} PROVE FALSE
    OBVIOUS
  <2> HIDE DEF Solved
  <2>1. PICK n \in Unsolved : \A m \in Nat : m < n => m \notin Unsolved
    BY LeastOf
  <2>2. n # 0
    BY <1>1, <2>1
  <2>3. n - 1 \in Nat /\ n - 1 < n /\ (n - 1) + 1 = n
    BY <2>1, <2>2
  <2>4. Solved((n - 1) + 1)
    BY <1>2, <2>1, <2>3
  <2> QED
    BY <2>1, <2>3, <2>4
<1> QED
  BY <1>3

LEMMA FrBytesStep ==
  /\ FrBytes[0] = <<>>
  /\ \A v \in Fr : v # 0 =>
       /\ v \div ByteSize \in Fr
       /\ FrBytes[v] = <<v % ByteSize>> \o FrBytes[v \div ByteSize]
<1>1. FieldSize - 1 \in Nat
  BY SynthAssumption
<1>2. FrBytes = CHOOSE f : Printed(FieldSize - 1, f)
  BY DEF FrBytes, Printed, Fr
<1>3. Printed(FieldSize - 1, FrBytes)
  BY <1>1, <1>2, PrintedExists
<1>4. \A v \in Fr : FrBytes[v] = IF v = 0 THEN <<>>
                     ELSE <<v % ByteSize>> \o FrBytes[v \div ByteSize]
  BY <1>3 DEF Printed, Fr
<1>5. \A v \in Fr : v # 0 => v \div ByteSize \in Fr
  BY <1>1, LeastByte, RestIsLess DEF Fr
<1>6. 0 \in Fr
  BY <1>1 DEF Fr
<1>7. FrBytes[0] = <<>>
  BY <1>4, <1>6
<1> QED
  BY <1>4, <1>5, <1>7

----------------------------------------------------------------------------
(* Reading the bytes again, from the last to the first.                     *)
Reads(bytes, f) ==
  f = [i \in 1 .. Len(bytes) + 1 |->
         IF i > Len(bytes) THEN 0 ELSE bytes[i] + ByteSize * f[i + 1]]

LEMMA ReadsOneWay ==
  ASSUME NEW bytes \in Seq(Bytes), NEW f, Reads(bytes, f),
         NEW g, Reads(bytes, g)
  PROVE  f[1] = g[1]
<1> DEFINE len == Len(bytes)
           Apart == {n \in Nat : n <= len /\ f[len + 1 - n] # g[len + 1 - n]}
<1>1. len \in Nat
  OBVIOUS
<1>2. /\ \A i \in 1 .. len : /\ f[i] = bytes[i] + ByteSize * f[i + 1]
                             /\ g[i] = bytes[i] + ByteSize * g[i + 1]
      /\ f[len + 1] = 0 /\ g[len + 1] = 0
  <2>1. \A i \in 1 .. len + 1 :
          /\ f[i] = IF i > len THEN 0 ELSE bytes[i] + ByteSize * f[i + 1]
          /\ g[i] = IF i > len THEN 0 ELSE bytes[i] + ByteSize * g[i + 1]
    BY DEF Reads
  <2> HIDE DEF len
  <2> QED
    BY <1>1, <2>1
<1> HIDE DEF len
<1>3. Apart = {}
  <2> SUFFICES ASSUME Apart # {} PROVE FALSE
    OBVIOUS
  <2>1. PICK n \in Apart : \A m \in Nat : m < n => m \notin Apart
    BY LeastOf
  <2>2. n # 0
    BY <1>1, <1>2, <2>1
  <2>3. n - 1 \in Nat /\ n - 1 < n /\ n - 1 <= len
    BY <1>1, <2>1, <2>2
  <2>4. f[len + 1 - (n - 1)] = g[len + 1 - (n - 1)]
    BY <2>1, <2>3
  <2>5. PICK i \in 1 .. len : i = len + 1 - n
    BY <1>1, <2>1, <2>2
  <2>6. f[i + 1] = g[i + 1]
    <3>1. i + 1 = len + 1 - (n - 1)
      BY <1>1, <2>1, <2>5
    <3> QED
      BY <2>4, <3>1
  <2>7. f[i] = g[i]
    BY <1>2, <2>6
  <2> QED
    BY <2>1, <2>5, <2>7
<1>4. \A n \in Nat : n <= len => f[len + 1 - n] = g[len + 1 - n]
  BY <1>3
<1>5. PICK n \in Nat : n <= len /\ len + 1 - n = 1
  BY <1>1
<1> QED
  BY <1>4, <1>5

LEMMA BytesReadBack ==
  \A v \in Fr : /\ FrBytes[v] \in Seq(Bytes)
                /\ \E f : Reads(FrBytes[v], f) /\ f[1] = v
<1> DEFINE Returns(v) == /\ FrBytes[v] \in Seq(Bytes)
                         /\ \E f : Reads(FrBytes[v], f) /\ f[1] = v
           Lost == {v \in Fr : ~ Returns(v)}
<1>1. Fr \subseteq Nat
  BY SynthAssumption DEF Fr
<1>2. Returns(0)
  <2> DEFINE f == [i \in 1 .. 1 |-> 0]
  <2>1. FrBytes[0] = <<>>
    BY FrBytesStep
  <2>2. Reads(<<>>, f) /\ f[1] = 0
    BY DEF Reads
  <2> QED
    BY <2>1, <2>2
<1>3. ASSUME NEW v \in Fr, v # 0, Returns(v \div ByteSize) PROVE Returns(v)
  <2> DEFINE d == v % ByteSize
             w == v \div ByteSize
             rest == FrBytes[w]
             all == <<d>> \o rest
  <2>1. d \in Bytes /\ w \in Nat /\ v = d + ByteSize * w
    BY <1>1, LeastByte
  <2>2. FrBytes[v] = all
    BY <1>3, FrBytesStep
  <2>3. PICK g : Reads(rest, g) /\ g[1] = w
    BY <1>3
  <2>4. rest \in Seq(Bytes)
    BY <1>3
  <2> HIDE DEF d, w, rest
  <2>5. /\ all \in Seq(Bytes)
        /\ Len(rest) \in Nat
        /\ Len(all) = Len(rest) + 1
        /\ all[1] = d
        /\ \A i \in 2 .. Len(rest) + 1 : all[i] = rest[i - 1]
    BY <2>1, <2>4
  <2> HIDE DEF all
  <2> DEFINE n == Len(rest)
             f == [i \in 1 .. n + 2 |-> IF i = 1 THEN v ELSE g[i - 1]]
  <2>6. n \in Nat /\ Len(all) = n + 1
    BY <2>5
  <2>7. \A i \in 1 .. n + 1 :
          g[i] = IF i > n THEN 0 ELSE rest[i] + ByteSize * g[i + 1]
    BY <2>3 DEF Reads
  <2>8. \A i \in 2 .. n + 1 : all[i] = rest[i - 1]
    BY <2>5
  <2> HIDE DEF n
  <2>9. /\ f[1] = v
        /\ \A i \in 1 .. n + 1 : f[i + 1] = g[i]
    BY <2>6
  <2>10. \A i \in 1 .. n + 2 :
           f[i] = IF i > n + 1 THEN 0 ELSE all[i] + ByteSize * f[i + 1]
    <3>1. f[1] = all[1] + ByteSize * f[2]
      BY <2>1, <2>3, <2>5, <2>6, <2>9
    <3>2. ASSUME NEW i \in 2 .. n + 1
          PROVE  f[i] = all[i] + ByteSize * f[i + 1]
      <4>1. PICK j \in 1 .. n : i = j + 1
        BY <2>6
      <4>2. f[j + 1] = g[j] /\ f[j + 1 + 1] = g[j + 1] /\ all[j + 1] = rest[j]
        BY <2>6, <2>8, <2>9
      <4>3. g[j] = rest[j] + ByteSize * g[j + 1]
        BY <2>6, <2>7
      <4> QED
        BY <4>1, <4>2, <4>3
    <3>3. f[n + 2] = 0
      BY <2>6, <2>7
    <3> HIDE DEF f
    <3> QED
      BY <2>6, <3>1, <3>2, <3>3
  <2>11. f = [i \in 1 .. n + 2 |->
                IF i > n + 1 THEN 0 ELSE all[i] + ByteSize * f[i + 1]]
    BY <2>10
  <2>12. Reads(all, f)
    <3>1. Len(all) = n + 1 /\ Len(all) + 1 = n + 2
      BY <2>6
    <3> HIDE DEF f
    <3> QED
      BY <2>11, <3>1 DEF Reads
  <2> QED
    BY <2>2, <2>5, <2>9, <2>12
<1>4. Lost = {}
  <2> SUFFICES ASSUME Lost # {} PROVE FALSE
    OBVIOUS
  <2> HIDE DEF Returns
  <2>1. PICK v \in Lost : \A m \in Nat : m < v => m \notin Lost
    BY <1>1, LeastOf
  <2>2. v \in Fr /\ v # 0 /\ v \in Nat /\ v > 0
    BY <1>1, <1>2, <2>1
  <2>3. /\ v \div ByteSize \in Fr /\ v \div ByteSize \in Nat
        /\ v \div ByteSize < v
    BY <1>1, <2>2, FrBytesStep, RestIsLess
  <2>4. Returns(v \div ByteSize)
    BY <2>1, <2>3
  <2> QED
    BY <1>3, <2>1, <2>2, <2>4
<1> QED
  BY <1>4

(* "Round-trips without loss": what the loop reads out of a message is the  *)
(* element the reference computed, whatever the element.                    *)
LEMMA RoundTrips ==
  ASSUME NEW v \in Fr
  PROVE  /\ FrFromDebug(FrDebug(v)) = v
         /\ v # None
<1>0. v # None
  BY SynthAssumption DEF Fr, None
<1>1. CASE v = 0
  BY <1>0, <1>1 DEF FrFromDebug, FrDebug
<1>2. CASE v # 0
  <2> DEFINE text == FrBytes[v]
             read == CHOOSE f : Reads(text, f)
  <2>1. FrDebug(v) = text
    BY <1>2 DEF FrDebug
  <2>2. text \in Seq(Bytes)
    BY BytesReadBack
  <2>3. Dash \notin Range(text) /\ text # <<Dash>>
    <3>1. Dash \notin Bytes
      BY SynthAssumption DEF Dash, Bytes
    <3>2. \A i \in DOMAIN text : text[i] \in Bytes
      BY <2>2
    <3>3. Dash \notin Range(text)
      BY <3>1, <3>2 DEF Range
    <3>4. Dash \in Range(<<Dash>>)
      <4>1. 1 \in DOMAIN <<Dash>> /\ <<Dash>>[1] = Dash
        OBVIOUS
      <4> QED
        BY <4>1 DEF Range
    <3> QED
      BY <3>3, <3>4
  <2>4. PICK f : Reads(text, f) /\ f[1] = v
    BY BytesReadBack
  <2>5. Reads(text, read)
    BY <2>4
  <2>6. read[1] = v
    BY <2>2, <2>4, <2>5, ReadsOneWay
  <2>7. FromLeBytes(text) = IF read[1] \in Fr THEN read[1] ELSE None
    BY DEF FromLeBytes, Reads
  <2>8. FrFromDebug(text) = FromLeBytes(text)
    BY <2>3 DEF FrFromDebug
  <2> QED
    BY <1>0, <2>1, <2>6, <2>7, <2>8
<1> QED
  BY <1>1, <1>2

----------------------------------------------------------------------------
(* The inductive invariant.  The transcript never outgrows what the         *)
(* reference computes before it refuses, and each pass made so far has      *)
(* settled an element of it: the passes made and the elements still to be   *)
(* settled are together no more than the elements there are.                *)
Settling ==
  /\ Len(transcript) <= refusesAt
  /\ outcome = "running" =>
       iterations + Cardinality(Differing(transcript)) <= refusesAt

Typed ==
  /\ kit \in {"bench", "tests"}
  /\ computed \in Seq(Fr)
  /\ refusesAt \in 0 .. Len(computed)
  /\ transcript \in Seq(Fr)
  /\ iterations \in Nat

SynthInv ==
  /\ Typed
  /\ Settling
  /\ Verdict
  /\ PartialIsReference

LEMMA DifferingIsFinite ==
  ASSUME Typed, NEW t \in Seq(Fr)
  PROVE  /\ IsFiniteSet(Differing(t))
         /\ Cardinality(Differing(t)) \in Nat
         /\ Cardinality(Differing(t)) <= refusesAt
<1>1. refusesAt \in Nat /\ 1 \in Int /\ refusesAt \in Int
  BY DEF Typed
<1>2. /\ IsFiniteSet(1 .. refusesAt)
      /\ Cardinality(1 .. refusesAt) = refusesAt
  <2> DEFINE lo == 1
             hi == refusesAt
  <2>1. lo \in Int /\ hi \in Int
    BY <1>1
  <2> HIDE DEF lo, hi
  <2>2. /\ IsFiniteSet(lo .. hi)
        /\ Cardinality(lo .. hi) = IF lo > hi THEN 0 ELSE hi - lo + 1
    BY <2>1, FS_Interval, Zenon
  <2> QED
    BY <1>1, <2>2 DEF lo, hi
<1>3. Differing(t) \subseteq 1 .. refusesAt
  BY DEF Differing
<1> QED
  BY <1>2, <1>3, FS_Subset, FS_CardinalityType

(* Nothing differs: the transcript is what the reference computed until it  *)
(* refused.                                                                 *)
LEMMA AllSettled ==
  ASSUME Typed, Len(transcript) <= refusesAt, Differing(transcript) = {}
  PROVE  /\ Len(transcript) = refusesAt
         /\ transcript = SubSeq(computed, 1, refusesAt)
<1>1. refusesAt \in Nat /\ refusesAt <= Len(computed)
  BY DEF Typed
<1>2. \A i \in 1 .. refusesAt :
        i <= Len(transcript) /\ transcript[i] = computed[i]
  BY <1>1 DEF Differing, Typed
<1>3. Len(transcript) = refusesAt
  <2>1. refusesAt # 0 => refusesAt <= Len(transcript)
    BY <1>1, <1>2
  <2> QED
    BY <1>1, <2>1 DEF Typed
<1>4. SubSeq(computed, 1, refusesAt) =
        [i \in 1 .. refusesAt |-> computed[i]]
  BY <1>1 DEF Typed
<1>5. transcript = [i \in 1 .. refusesAt |-> transcript[i]]
  BY <1>3 DEF Typed
<1> QED
  BY <1>2, <1>3, <1>4, <1>5

(* Writing the computed element where it differed settles that element,     *)
(* disturbs none that was settled, and pads no further.                     *)
LEMMA WrittenSettles ==
  ASSUME Typed, Len(transcript) <= refusesAt,
         NEW i \in Differing(transcript)
  PROVE  LET next == Written(transcript, i, computed[i])
         IN /\ next \in Seq(Fr)
            /\ Len(next) <= refusesAt
            /\ Differing(next) \subseteq Differing(transcript)
            /\ i \notin Differing(next)
<1> DEFINE base == Resized(transcript, i)
           next == Written(transcript, i, computed[i])
<1>1. i \in 1 .. refusesAt /\ refusesAt \in Nat
  BY DEF Differing, Typed
<1>2. computed[i] \in Fr /\ 0 \in Fr
  BY <1>1, SynthAssumption DEF Typed, Fr
<1>3. /\ base \in Seq(Fr)
      /\ Len(base) <= refusesAt
      /\ Len(base) >= i /\ Len(base) >= Len(transcript)
      /\ \A j \in 1 .. Len(transcript) : base[j] = transcript[j]
  <2>1. CASE i > Len(transcript)
    <3> DEFINE pad == [j \in 1 .. i - Len(transcript) |-> 0]
    <3>1. i - Len(transcript) \in Nat
      BY <1>1, <2>1 DEF Typed
    <3>2. pad \in Seq(Fr) /\ Len(pad) = i - Len(transcript)
      BY <1>2, <3>1
    <3> HIDE DEF pad
    <3>3. transcript \o pad \in Seq(Fr)
      BY <3>2 DEF Typed
    <3>4. Len(transcript \o pad) = i
      BY <1>1, <3>2 DEF Typed
    <3>5. \A j \in 1 .. Len(transcript) :
            (transcript \o pad)[j] = transcript[j]
      BY <3>2 DEF Typed
    <3>6. base = transcript \o pad
      BY <2>1 DEF Resized, pad
    <3> QED
      BY <1>1, <2>1, <3>3, <3>4, <3>5, <3>6 DEF Typed
  <2>2. CASE ~ (i > Len(transcript))
    BY <1>1, <2>2 DEF Resized, Typed
  <2> QED
    BY <2>1, <2>2
<1> HIDE DEF base
<1>4. next = [base EXCEPT ![i] = computed[i]]
  BY DEF Written, base
<1>5. /\ next \in Seq(Fr)
      /\ Len(next) = Len(base)
      /\ next[i] = computed[i]
      /\ \A j \in 1 .. Len(base) : j # i => next[j] = base[j]
  BY <1>1, <1>2, <1>3, <1>4
<1> HIDE DEF next
<1>6. i \notin Differing(next)
  BY <1>1, <1>3, <1>5 DEF Differing
<1>7. ASSUME NEW j \in Differing(next) PROVE j \in Differing(transcript)
  <2>1. j \in 1 .. refusesAt /\ j # i
    BY <1>6, <1>7 DEF Differing
  <2>2. CASE j > Len(transcript)
    BY <2>1, <2>2 DEF Differing
  <2>3. CASE j <= Len(transcript)
    <3>1. j \in 1 .. Len(transcript) /\ j \in 1 .. Len(base)
      BY <1>1, <1>3, <2>1, <2>3 DEF Typed
    <3>2. next[j] = transcript[j]
      BY <1>3, <1>5, <2>1, <3>1
    <3>3. ~ (j > Len(next))
      BY <1>5, <3>1
    <3> QED
      BY <1>7, <2>1, <3>2, <3>3 DEF Differing
  <2> QED
    BY <1>1, <2>1, <2>2, <2>3 DEF Typed
<1> QED
  BY <1>3, <1>5, <1>6, <1>7 DEF next

----------------------------------------------------------------------------
(* The steps.                                                               *)

(* A mismatch neither stalls nor is unreadable: it settles its element.     *)
LEMMA MismatchSettles ==
  ASSUME SynthInv, NEW i \in 1 .. refusesAt, Mismatch(i)
  PROVE  /\ i \in Differing(transcript)
         /\ transcript' = Written(transcript, i, computed[i])
         /\ outcome = "running" /\ outcome' = "running"
         /\ iterations' = iterations + 1
         /\ UNCHANGED scenario
<1> DEFINE value == FrFromDebug(FrDebug(computed[i]))
<1>1. computed[i] \in Fr
  BY DEF SynthInv, Typed
<1>2. value = computed[i] /\ value # None
  BY <1>1, RoundTrips
<1>3. i \in Differing(transcript) /\ Iterate
  BY DEF Mismatch
<1>4. ~ Stalls(transcript, i, value)
  BY <1>2, <1>3 DEF Stalls, Differing, SynthInv, Typed
<1>5. transcript' = Written(transcript, i, value) /\ UNCHANGED outcome
  BY <1>2, <1>4 DEF Mismatch
<1> HIDE DEF value
<1> QED
  BY <1>2, <1>3, <1>5 DEF Iterate

(* The tests' copy never has elements to drop: it is told of too few        *)
(* answers read, or of nothing.                                             *)
LEMMA NothingToDrop ==
  ASSUME SynthInv, LengthReport
  PROVE  /\ surplus /\ ~ Refuses
         /\ Differing(transcript) = {}
         /\ outcome = "running"
         /\ outcome' \in {"rejected", "underspecified"}
         /\ transcript' = transcript
         /\ iterations' = iterations + 1
         /\ UNCHANGED scenario
<1>1. /\ Iterate /\ ~ Refuses /\ Differing(transcript) = {}
      /\ surplus \/ Len(transcript) > Len(computed)
  BY DEF LengthReport
<1>2. /\ Len(transcript) <= Len(computed)
      /\ Len(computed) >= Len(transcript)
      /\ ~ (Len(transcript) > Len(computed))
  BY DEF SynthInv, Settling, Typed
<1>3. CASE kit = "bench"
  BY <1>1, <1>2, <1>3 DEF LengthReport, Return, Iterate
<1>4. CASE kit = "tests"
  BY <1>1, <1>2, <1>4 DEF LengthReport, Return, Iterate
<1> QED
  BY <1>3, <1>4 DEF SynthInv, Typed

LEMMA InitInv == Init => SynthInv
<1> SUFFICES ASSUME Init PROVE SynthInv
  OBVIOUS
<1>1. PICK n \in 0 .. MaxElements : computed \in [1 .. n -> Fr]
  BY DEF Init
<1>2. computed \in Seq(Fr)
  BY <1>1, SynthAssumption
<1>3. Typed
  BY <1>2 DEF Init, Typed
<1>4. Len(transcript) = 0 /\ iterations = 0
  BY DEF Init
<1>5. Settling
  <2>1. /\ Cardinality(Differing(transcript)) <= refusesAt
        /\ Cardinality(Differing(transcript)) \in Nat
    BY <1>3, DifferingIsFinite DEF Typed
  <2> QED
    BY <1>3, <1>4, <2>1 DEF Settling, Typed
<1> QED
  BY <1>3, <1>5 DEF SynthInv, Verdict, PartialIsReference, Init

(* A pass that does not end the loop settles at least one element.          *)
LEMMA PassSettles ==
  ASSUME SynthInv, Next, outcome' = "running"
  PROVE  \E i \in Differing(transcript) :
           /\ transcript' = Written(transcript, i, computed[i])
           /\ Differing(transcript') \subseteq Differing(transcript)
           /\ i \notin Differing(transcript')
           /\ iterations' = iterations + 1
           /\ outcome = "running"
           /\ UNCHANGED scenario
<1>1. ~ (Reject \/ LengthReport \/ Accept \/ GiveUp)
  BY NothingToDrop DEF Reject, Accept, GiveUp, Return
<1>2. PICK i \in 1 .. refusesAt : Mismatch(i)
  BY <1>1 DEF Next
<1>3. /\ i \in Differing(transcript)
      /\ transcript' = Written(transcript, i, computed[i])
      /\ outcome = "running"
      /\ iterations' = iterations + 1
      /\ UNCHANGED scenario
  BY <1>2, MismatchSettles
<1>4. refusesAt' = refusesAt /\ computed' = computed
  BY <1>3 DEF scenario
<1> DEFINE next == Written(transcript, i, computed[i])
<1>5. /\ Differing(next) \subseteq Differing(transcript)
      /\ i \notin Differing(next)
  BY <1>3, WrittenSettles DEF SynthInv, Settling
<1>6. Differing(transcript') = Differing(next)
  BY <1>3, <1>4 DEF Differing
<1> HIDE DEF next
<1> QED
  BY <1>3, <1>5, <1>6

LEMMA InvStep ==
  ASSUME SynthInv, [Next]_vars
  PROVE  SynthInv'
<1>1. CASE UNCHANGED vars
  BY <1>1 DEF vars, SynthInv, Typed, Settling, Verdict, PartialIsReference,
              Differing, Refuses
<1>2. ASSUME NEW i \in 1 .. refusesAt, Mismatch(i) PROVE SynthInv'
  <2> DEFINE next == Written(transcript, i, computed[i])
  <2>1. /\ i \in Differing(transcript)
        /\ transcript' = next
        /\ outcome = "running" /\ outcome' = "running"
        /\ iterations' = iterations + 1
        /\ UNCHANGED scenario
    BY <1>2, MismatchSettles
  <2>2. /\ kit' = kit /\ computed' = computed /\ refusesAt' = refusesAt
        /\ surplus' = surplus
    BY <2>1 DEF scenario
  <2>3. /\ next \in Seq(Fr) /\ Len(next) <= refusesAt
        /\ Differing(next) \subseteq Differing(transcript)
        /\ i \notin Differing(next)
    BY <2>1, WrittenSettles DEF SynthInv, Settling
  <2> HIDE DEF next
  <2>4. Typed'
    BY <2>1, <2>2, <2>3 DEF SynthInv, Typed
  <2>5. Settling'
    <3>1. Differing(transcript)' = Differing(next)
      BY <2>1, <2>2 DEF Differing
    <3>2. /\ IsFiniteSet(Differing(transcript))
          /\ Cardinality(Differing(transcript)) \in Nat
          /\ Cardinality(Differing(next)) \in Nat
      BY <2>3, DifferingIsFinite DEF SynthInv, Typed
    <3>3. Cardinality(Differing(next)) < Cardinality(Differing(transcript))
      <4>1. /\ Differing(next) \subseteq Differing(transcript)
            /\ Differing(next) # Differing(transcript)
        BY <2>1, <2>3
      <4>2. Cardinality(Differing(next)) # Cardinality(Differing(transcript))
        BY <3>2, <4>1, FS_Subset
      <4>3. Cardinality(Differing(next))
              <= Cardinality(Differing(transcript))
        BY <3>2, <4>1, FS_Subset
      <4> QED
        BY <3>2, <4>2, <4>3
    <3>4. /\ iterations \in Nat /\ refusesAt \in Nat
          /\ iterations + Cardinality(Differing(transcript)) <= refusesAt
      BY <2>1 DEF SynthInv, Typed, Settling
    <3>5. iterations + 1 + Cardinality(Differing(next)) <= refusesAt
      BY <3>2, <3>3, <3>4
    <3> QED
      BY <2>1, <2>2, <2>3, <3>1, <3>5 DEF Settling
  <2> QED
    BY <2>1, <2>4, <2>5 DEF SynthInv, Verdict, PartialIsReference
<1>3. CASE Reject
  <2>1. /\ outcome' = "rejected" /\ transcript' = transcript
        /\ iterations' = iterations + 1 /\ UNCHANGED scenario
        /\ Refuses /\ Differing(transcript) = {}
    BY <1>3 DEF Reject, Return, Iterate
  <2>2. transcript = SubSeq(computed, 1, refusesAt)
    BY <2>1, AllSettled DEF SynthInv, Settling
  <2> QED
    BY <2>1, <2>2 DEF SynthInv, Typed, Settling, Verdict,
         PartialIsReference, Refuses, scenario
<1>4. CASE LengthReport
  <2>1. /\ surplus /\ ~ Refuses
        /\ Differing(transcript) = {}
        /\ outcome' \in {"rejected", "underspecified"}
        /\ transcript' = transcript
        /\ iterations' = iterations + 1
        /\ UNCHANGED scenario
    BY <1>4, NothingToDrop
  <2>2. transcript = SubSeq(computed, 1, refusesAt)
    BY <2>1, AllSettled DEF SynthInv, Settling
  <2> QED
    BY <2>1, <2>2 DEF SynthInv, Typed, Settling, Verdict,
         PartialIsReference, Refuses, scenario
<1>5. CASE Accept
  BY <1>5 DEF Accept, Return, Iterate, SynthInv, Typed, Settling, Verdict,
       PartialIsReference, Refuses, scenario
<1>6. CASE GiveUp
  <2>1. /\ outcome = "running" /\ outcome' = "diverged"
        /\ iterations = MAX_ITERATIONS
        /\ transcript' = transcript /\ iterations' = iterations
        /\ UNCHANGED scenario
    BY <1>6 DEF GiveUp, Return
  <2>2. Len(computed) >= MAX_ITERATIONS
    <3>1. Cardinality(Differing(transcript)) \in Nat
      BY DifferingIsFinite DEF SynthInv, Typed
    <3> QED
      BY <2>1, <3>1, SynthAssumption DEF SynthInv, Settling, Typed
  <2> QED
    BY <2>1, <2>2 DEF SynthInv, Typed, Settling, Verdict,
         PartialIsReference, Refuses, scenario
<1> QED
  BY <1>1, <1>2, <1>3, <1>4, <1>5, <1>6 DEF Next

LEMMA SynthInvHolds == Spec => []SynthInv
<1>1. Init => SynthInv
  BY InitInv
<1>2. SynthInv /\ [Next]_vars => SynthInv'
  BY InvStep
<1> QED
  BY <1>1, <1>2, PTL DEF Spec

(* The loop never refuses a scenario the reference accepts, except for want *)
(* of passes when the transcript is at least as long as their number, and   *)
(* accepts no other (prove-bench/src/synth.rs, synthesize).                 *)
THEOREM VerdictIsTheReference == Spec => []Verdict
<1>1. SynthInv => Verdict
  BY DEF SynthInv
<1> QED
  BY <1>1, SynthInvHolds, PTL

(* The transcript of a refused run is the reference's up to the refusal.    *)
THEOREM PartialTranscript == Spec => []PartialIsReference
<1>1. SynthInv => PartialIsReference
  BY DEF SynthInv
<1> QED
  BY <1>1, SynthInvHolds, PTL

(* Every pass that does not end the loop settles at least one element and   *)
(* disturbs none that was settled.                                          *)
THEOREM PassesSettle == Spec => EveryPassSettles
<1>1. SynthInv /\ [Next]_vars =>
        [outcome' = "running" =>
           /\ Differing(transcript') \subseteq Differing(transcript)
           /\ Differing(transcript') # Differing(transcript)]_vars
  <2> SUFFICES ASSUME SynthInv, Next, outcome' = "running"
               PROVE  /\ Differing(transcript') \subseteq
                           Differing(transcript)
                      /\ Differing(transcript') # Differing(transcript)
    OBVIOUS
  <2> QED
    BY PassSettles
<1> QED
  BY <1>1, SynthInvHolds, PTL DEF Spec, EveryPassSettles
=============================================================================
