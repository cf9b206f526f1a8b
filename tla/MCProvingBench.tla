--------------------------- MODULE MCProvingBench ---------------------------
(***************************************************************************)
(* Small instances of the proving harness: two artifacts, two scenarios,   *)
(* a raw file of an earlier run.                                           *)
(***************************************************************************)
EXTENDS ProvingBench

CONSTANTS compactc, minocrab, sel2, sel6

MCRequested == <<sel2, sel6>>
MCArmName == [a \in {compactc, minocrab} |->
                IF a = compactc THEN "compactc-k19" ELSE "minocrab-k18"]
MCEarlier ==
  <<Row("timed", [run |-> 1, scenario |-> sel2, arm |-> compactc], TRUE)>>
=============================================================================
