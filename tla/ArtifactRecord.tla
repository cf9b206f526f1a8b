--------------------------- MODULE ArtifactRecord ---------------------------
(***************************************************************************)
(* The working tree and what it says its artifacts are: the source, the    *)
(* toolchain pin, fixtures/port-artifact-hashes.json and the script that   *)
(* re-records it (scripts/check-port-artifacts.sh --write).  A file's hash *)
(* is the file: an IR is a value, a key pair the inputs it was made from.  *)
(***************************************************************************)
EXTENDS Naturals, FiniteSets, Sequences

CONSTANTS
  None,         \* what is absent: a file, a recorded key pair
  Revision,     \* the states of the crate's source
  Tool,         \* the builds of zkir-v3
  Salt,         \* what else may decide what keygen writes, if it is no function
  Circuit,      \* every name emit-zkir can give a circuit
  IR,           \* what emit-zkir can write into a .zkir
  Emission,     \* what it does write: revision -> circuit -> IR
  KOf,          \* the k of an IR
  ReleaseOrder, \* the circuits of fixtures/srs-hashes.json, k ascending
  RecordedK,    \* the k it assigns to each
  MaxEdits      \* bound: how often the tree and the host change

VARIABLES
  source,    \* the tree: the crate's revision, the zkir-v3 it pins
  record,    \* the tree: fixtures/port-artifact-hashes.json
  head,      \* the last commit of both
  installed, \* the zkir-v3 on this host, or in its image
  edits

recordVars == <<source, record, head, installed, edits>>

Released == {ReleaseOrder[i] : i \in DOMAIN ReleaseOrder}
SrsStatus == {"absent", "good", "bad"}
K == {KOf[i] : i \in IR} \cup {RecordedK[c] : c \in Released}

(* A key pair is a claim about an IR: which, and made with what.            *)
KeyPair == [ir : IR, tool : Tool, srs : SrsStatus, salt : Salt]

Source == [rev : Revision, tool : Tool]
Emitted == UNION {[names -> IR] : names \in SUBSET Circuit}
Record ==
  [ir : Emitted, keys : [Released -> KeyPair \cup {None}], tool : Tool]

ASSUME ReleaseAssumption ==
  /\ ReleaseOrder \in Seq(Circuit)
  /\ \A i, j \in DOMAIN ReleaseOrder :
       ReleaseOrder[i] = ReleaseOrder[j] => i = j
  /\ Emission \in [Revision -> Emitted]
ASSUME NoneAssumption == None \notin KeyPair /\ None \notin IR

(* The record a toolchain and a revision start from: its IR, and every key  *)
(* pair or, as after a change of every circuit, none.                       *)
RecordInit ==
  /\ source \in Source
  /\ installed = source.tool
  /\ record \in Record
  /\ record.ir = Emission[source.rev]
  /\ record.tool = source.tool
  /\ \/ \A c \in Released : record.keys[c] = None
     \/ \A c \in Released :
          /\ c \in DOMAIN record.ir
          /\ record.keys[c] # None
          /\ record.keys[c].ir = record.ir[c]
          /\ record.keys[c].tool = source.tool
          /\ record.keys[c].srs = "good"
  /\ head = [source |-> source, record |-> record]
  /\ edits = 0

TreeIsClean == head = [source |-> source, record |-> record]
ToolIsPinned == installed = source.tool

----------------------------------------------------------------------------
(* What a developer does to the tree and to the host.                       *)
EditSource(rev) ==
  /\ source' = [source EXCEPT !.rev = rev]
  /\ UNCHANGED <<record, head, installed>>

BumpTool(tool) ==
  /\ source' = [source EXCEPT !.tool = tool]
  /\ UNCHANGED <<record, head, installed>>

InstallTool(tool) ==
  /\ installed' = tool
  /\ UNCHANGED <<source, record, head>>

Commit ==
  /\ head' = [source |-> source, record |-> record]
  /\ UNCHANGED <<source, record, installed>>

(* Mutant of IrUnmoved: any recorded key pair is carried.                   *)
IrStillEmitted(c, ir) == c \in DOMAIN ir

(* The circuit is emitted as it was recorded.                               *)
IrUnmoved(c, ir) ==
  c \in DOMAIN ir \cap DOMAIN record.ir /\ ir[c] = record.ir[c]

(* Mutant of CarriedKeys: a re-record keeps no key pair.                    *)
NoKeysCarried(ir) == [c \in Released |-> None]

CarriedKeys(ir) ==
  [c \in Released |-> IF IrUnmoved(c, ir) THEN record.keys[c] ELSE None]

(* `--write`: of the tree's own emission, or with `--zkir-dir` of another   *)
(* revision's.  A probe refuses a toolchain that is not the pinned one and  *)
(* stamps it; without, the recorded toolchain is carried forward.           *)
ReRecord(rev, probe) ==
  /\ probe => ToolIsPinned
  /\ DOMAIN Emission[rev] # {}
  /\ record' = [ir |-> Emission[rev],
                keys |-> CarriedKeys(Emission[rev]),
                tool |-> IF probe THEN source.tool ELSE record.tool]
  /\ UNCHANGED <<source, head, installed>>

Edit ==
  /\ edits < MaxEdits
  /\ edits' = edits + 1
  /\ \/ \E rev \in Revision : EditSource(rev)
     \/ \E tool \in Tool : BumpTool(tool)
     \/ \E tool \in Tool : InstallTool(tool)
     \/ \E rev \in Revision, probe \in BOOLEAN : ReRecord(rev, probe)
     \/ Commit

=============================================================================
