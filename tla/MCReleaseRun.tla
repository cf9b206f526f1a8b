---------------------------- MODULE MCReleaseRun ----------------------------
(***************************************************************************)
(* Small instances of ReleaseRun: one or two published circuits beside the *)
(* smoke circuit `hello`, which is gated but not published.                *)
(***************************************************************************)
EXTENDS ReleaseRun, TLC

CONSTANTS r1, r2, r3, hello, pool, exec,
          hello1, pool1, exec1, exec2, execGrown

(* The second revision changes `exec`; the third makes it outgrow its k.    *)
MCRevision == {r1, r2}
MCIR == {hello1, pool1, exec1, exec2}
MCEmission ==
  [r \in Revision |->
     [c \in {hello, pool, exec} |->
        CASE c = hello -> hello1
          [] c = pool -> pool1
          [] OTHER -> IF r = r1 THEN exec1 ELSE exec2]]
MCKOf == [i \in IR |-> IF i = pool1 THEN 8 ELSE IF i = execGrown THEN 19 ELSE 18]
MCReleaseOrder == <<pool, exec>>
MCRecordedK == [c \in Released |-> IF c = pool THEN 8 ELSE 18]

(* One published circuit, and a revision in which it outgrows its k.        *)
SoloRevision == {r1, r2, r3}
SoloIR == {hello1, exec1, exec2, execGrown}
SoloEmission ==
  [r \in Revision |->
     [c \in {hello, exec} |->
        IF c = hello THEN hello1
        ELSE IF r = r1 THEN exec1 ELSE IF r = r2 THEN exec2 ELSE execGrown]]
SoloReleaseOrder == <<exec>>

(* Nothing tells one salt from another but that they differ.                *)
Salts == Permutations(Salt)
=============================================================================
