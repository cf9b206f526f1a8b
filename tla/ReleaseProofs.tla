--------------------------- MODULE ReleaseProofs ----------------------------
(***************************************************************************)
(* Proofs about ReleaseRun.  First its types, that a SHA256SUMS describes  *)
(* the files beside it and what the record keeps, which hold whatever      *)
(* happens to the tree during a run; then that a record and a tagged       *)
(* release tell the truth, which needs a tree that stays as it is while a  *)
(* run is under way (`Quiet`).                                             *)
(***************************************************************************)
EXTENDS ReleaseRun, TLAPS

(* The steps over one circuit, and those of the whole of step 5.            *)
OneCircuit == {"keying", "copyBinary", "copyIr"}
Keying == OneCircuit \cup {"keygen"}
Gated == Keying \cup {"srs", "clear", "sums", "record"}
USE DEF OneCircuit, Keying, Gated

(* What zkir-v3 makes of a circuit is there, and whole.                     *)
Whole(c) == out.files.key[c] \in KeyPair /\ out.files.bzkir[c] \in Binary

(* What each step of the script has behind it.                              *)
Progress ==
  /\ run.step # "idle" => run.commit \in CommitOf
  /\ run.step \in {"emit", "irGate", "srs", "clear"} => run.at = 1
  /\ run.step \in Gated => Released \subseteq DOMAIN run.ir
  /\ run.step \in OneCircuit =>
       run.at \in DOMAIN ReleaseOrder /\ run.tool \in Tool
  /\ run.step \in {"copyBinary", "copyIr"} => out.files.key[Now] \in KeyPair
  /\ run.step = "copyBinary" => run.binary \in Binary
  /\ run.step = "copyIr" => out.files.bzkir[Now] \in Binary
  /\ run.step \in Keying => \A i \in 1..(run.at - 1) : Whole(ReleaseOrder[i])
  /\ run.step \in {"sums", "record"} => \A c \in Released : Whole(c)

TypeInv == TypeOK /\ Progress

OutType == [files : Files, manifest : Manifest \cup {None},
            sums : Sums \cup {None}]

(* The published circuits are those of the order.                           *)
LEMMA OrderFacts ==
  /\ DOMAIN ReleaseOrder = 1..Len(ReleaseOrder)
  /\ Len(ReleaseOrder) \in Nat
  /\ \A i \in DOMAIN ReleaseOrder : ReleaseOrder[i] \in Released
  /\ \A c \in Released : \E i \in DOMAIN ReleaseOrder : ReleaseOrder[i] = c
  /\ \A i, j \in DOMAIN ReleaseOrder :
       ReleaseOrder[i] = ReleaseOrder[j] => i = j
  /\ Emission \in [Revision -> Emitted]
BY ReleaseAssumption DEF Released

(* The script at rest, and its empty output directory, are of their types.  *)
LEMMA RestTypes ==
  /\ NoRun \in Run
  /\ NoRun.step = "idle"
  /\ EmptyOut \in [files : Files, manifest : Manifest \cup {None},
                   sums : Sums \cup {None}]
<1>1. [c \in {} |-> None] \in Emitted
  <2>1. [c \in {} |-> None] \in [{} -> IR]
    OBVIOUS
  <2>2. {} \in SUBSET Circuit
    OBVIOUS
  <2> QED BY <2>1, <2>2 DEF Emitted
<1>2. NoRun \in Run /\ NoRun.step = "idle"
  BY <1>1, OrderFacts DEF NoRun, Run, Step
<1>3. NoFiles \in Files
  BY DEF NoFiles, Files
<1> QED BY <1>2, <1>3 DEF EmptyOut

(* A circuit's IR, in an emission that has it, is an IR.                    *)
LEMMA EmittedIr ==
  ASSUME NEW ir \in Emitted, NEW c \in DOMAIN ir PROVE ir[c] \in IR
BY DEF Emitted

(* What zkir-v3 writes is a key pair.                                       *)
LEMMA KeyedType ==
  ASSUME TypeOK, NEW ir \in IR, NEW tool \in Tool, NEW salt \in Salt
  PROVE  Keyed(ir, tool, salt) \in KeyPair
<1>1. KOf[ir] \in K
  BY DEF K
<1> QED BY <1>1 DEF TypeOK, Keyed, KeyPair

(* Types hold at the start.                                                 *)
LEMMA TypeInit == Init => TypeInv
<1> SUFFICES ASSUME Init PROVE TypeInv
  OBVIOUS
<1>1. head \in CommitOf /\ record \in Record /\ source \in Source
  BY DEF Init, RecordInit, CommitOf
<1>2. installed \in Tool
  BY DEF Init, RecordInit, Source
<1> QED BY <1>1, <1>2, RestTypes DEF Init, TypeInv, TypeOK, Progress, Whole

(* What a developer does keeps the types of the tree and the host.          *)
LEMMA TypeEdit ==
  ASSUME TypeInv, Edit, UNCHANGED runVars PROVE TypeInv'
<1> USE DEF TypeInv, TypeOK
<1>1. source' \in Source /\ installed' \in Tool
  BY DEF Edit, EditSource, BumpTool, InstallTool, ReRecord, Commit, Source
<1>2. record' \in Record
  <2>1. CASE UNCHANGED record
    BY <2>1
  <2>2. CASE \E rev \in Revision, probe \in BOOLEAN : ReRecord(rev, probe)
    <3>1. PICK rev \in Revision, probe \in BOOLEAN : ReRecord(rev, probe)
      BY <2>2
    <3>2. Emission[rev] \in Emitted
      BY OrderFacts
    <3>3. CarriedKeys(Emission[rev]) \in [Released -> KeyPair \cup {None}]
      BY DEF CarriedKeys, Record
    <3>4. source.tool \in Tool /\ record.tool \in Tool
      BY DEF Source, Record
    <3> QED BY <3>1, <3>2, <3>3, <3>4 DEF ReRecord, Record
  <2> QED BY <2>1, <2>2 DEF Edit, EditSource, BumpTool, InstallTool, Commit
<1>3. head' \in CommitOf
  BY DEF Edit, EditSource, BumpTool, InstallTool, ReRecord, Commit, CommitOf
<1> QED BY <1>1, <1>2, <1>3 DEF runVars, Progress, Whole, Now

(* A run that ends keeps them, whatever it leaves in the directories.       *)
LEMMA TypeStop ==
  ASSUME TypeInv, Stop, UNCHANGED recordVars,
         (out \in [files : Files, manifest : Manifest \cup {None},
                  sums : Sums \cup {None}])',
         (params \in [K -> SrsStatus])', (orphans \subseteq Container)'
  PROVE  TypeInv'
BY RestTypes DEF TypeInv, TypeOK, Progress, Whole, Stop, recordVars

(* A run that starts holds the commit it will name, and has keyed nothing.  *)
LEMMA TypeStart ==
  ASSUME TypeInv, UNCHANGED recordVars, NEW tagged \in BOOLEAN,
         NEW write \in BOOLEAN, NEW dir \in Revision \cup {None},
         Start(tagged, write, dir)
  PROVE  TypeInv'
<1>1. run' = [NoRun EXCEPT !.step = "emit", !.tagged = tagged, !.write = write,
                           !.dir = dir, !.commit = head]
  BY DEF Start
<1>2. head \in CommitOf /\ NoRun \in Run
  BY RestTypes DEF TypeInv, TypeOK
<1>3. run' \in Run /\ run'.step = "emit" /\ run'.commit = head /\ run'.at = 1
  <2>1. run' \in Run
    BY <1>1, <1>2 DEF Run, Step
  <2> QED BY <1>1, <2>1 DEF NoRun
<1>4. Progress'
  BY <1>2, <1>3 DEF Progress, recordVars
<1>5. UNCHANGED <<out, params, orphans>>
  BY DEF Start
<1> QED BY <1>3, <1>4, <1>5 DEF TypeInv, TypeOK, recordVars

(* An emission, of the tree or of --zkir-dir, is of its type.               *)
LEMMA TypeEmit == TypeInv /\ UNCHANGED recordVars /\ EmitZkir => TypeInv'
<1> SUFFICES ASSUME TypeInv, UNCHANGED recordVars, EmitZkir PROVE TypeInv'
  OBVIOUS
<1>1. run.dir \in Revision \cup {None} /\ source.rev \in Revision
  BY DEF TypeInv, TypeOK, Run, Source
<1>2. Emission[IF run.dir = None THEN source.rev ELSE run.dir] \in Emitted
  BY <1>1, OrderFacts
<1>3. run' \in Run /\ run'.step = "irGate" /\ run'.commit = run.commit
        /\ run'.at = run.at
  BY <1>2 DEF TypeInv, TypeOK, EmitZkir, Run, Step
<1> QED BY <1>3 DEF TypeInv, TypeOK, Progress, Whole, EmitZkir, recordVars

(* The gates that pass, up to the clearing of the output directory.         *)
LEMMA TypeGates ==
  TypeInv /\ UNCHANGED recordVars /\ (CheckIr \/ CheckSrs \/ ClearOut) => TypeInv'
<1> SUFFICES ASSUME TypeInv, UNCHANGED recordVars,
                    CheckIr \/ CheckSrs \/ ClearOut
             PROVE  TypeInv'
  OBVIOUS
<1>1. CASE CheckIr
  <2>1. run' \in Run /\ run'.step = "srs"
    BY <1>1 DEF TypeInv, TypeOK, CheckIr, Goto, Run, Step
  <2>2. run'.commit = run.commit /\ run'.ir = run.ir /\ run'.at = run.at
    BY <1>1 DEF TypeInv, TypeOK, CheckIr, Goto, Run
  <2> QED BY <1>1, <2>1, <2>2
          DEF TypeInv, TypeOK, Progress, Whole, CheckIr, IrGate, recordVars
<1>2. CASE CheckSrs
  <2>1. run' \in Run /\ run'.step = "clear"
    BY <1>2 DEF TypeInv, TypeOK, CheckSrs, Goto, Run, Step
  <2>2. run'.commit = run.commit /\ run'.ir = run.ir /\ run'.at = run.at
    BY <1>2 DEF TypeInv, TypeOK, CheckSrs, Goto, Run
  <2> QED BY <1>2, <2>1, <2>2
          DEF TypeInv, TypeOK, Progress, Whole, CheckSrs, recordVars
<1>3. CASE ClearOut
  <2>1. run' \in Run /\ run'.step = "keygen"
    BY <1>3 DEF TypeInv, TypeOK, ClearOut, Goto, Run, Step
  <2>2. run'.commit = run.commit /\ run'.ir = run.ir /\ run'.at = run.at
    BY <1>3 DEF TypeInv, TypeOK, ClearOut, Goto, Run
  <2>3. run.at = 1
    BY <1>3 DEF TypeInv, Progress, ClearOut
  <2> QED BY <1>3, <2>1, <2>2, <2>3, RestTypes
          DEF TypeInv, TypeOK, Progress, Whole, ClearOut, recordVars
<1> QED BY <1>1, <1>2, <1>3

(* The next circuit, and its IR, while the script has one to key.           *)
LEMMA NowTypes ==
  ASSUME TypeInv, run.step \in Keying, run.at \in DOMAIN ReleaseOrder
  PROVE  Now \in Released /\ run.ir[Now] \in IR
<1>1. Now \in Released
  BY OrderFacts DEF Now
<1>2. run.ir \in Emitted /\ Now \in DOMAIN run.ir
  BY <1>1 DEF TypeInv, TypeOK, Progress, Run
<1> QED BY <1>1, <1>2, EmittedIr

(* A step leaves a circuit's files as they are.                             *)
Untouched(c) ==
  /\ out'.files.zkir[c] = out.files.zkir[c]
  /\ out'.files.bzkir[c] = out.files.bzkir[c]
  /\ out'.files.key[c] = out.files.key[c]

(* Writing a key file, whole or torn, touches nothing beside it.            *)
LEMMA KeyWritten ==
  ASSUME out \in OutType, NEW c \in Released,
         NEW key \in KeyPair \cup {None, Torn},
         out' = [out EXCEPT !.files.key[c] = key]
  PROVE  /\ out' \in OutType
         /\ out'.files.key[c] = key
         /\ out'.files.zkir[c] = out.files.zkir[c]
         /\ out'.files.bzkir[c] = out.files.bzkir[c]
         /\ \A d \in Released \ {c} : Untouched(d)
         /\ out'.sums = out.sums
BY DEF OutType, Files, Untouched

(* So does copying a .bzkir,                                                *)
LEMMA BinaryWritten ==
  ASSUME out \in OutType, NEW c \in Released,
         NEW binary \in Binary \cup {None, Torn},
         out' = [out EXCEPT !.files.bzkir[c] = binary]
  PROVE  /\ out' \in OutType
         /\ out'.files.bzkir[c] = binary
         /\ out'.files.zkir[c] = out.files.zkir[c]
         /\ out'.files.key[c] = out.files.key[c]
         /\ \A d \in Released \ {c} : Untouched(d)
         /\ out'.sums = out.sums
BY DEF OutType, Files, Untouched

(* and a .zkir.                                                             *)
LEMMA IrWritten ==
  ASSUME out \in OutType, NEW c \in Released, NEW ir \in IR \cup {None, Torn},
         out' = [out EXCEPT !.files.zkir[c] = ir]
  PROVE  /\ out' \in OutType
         /\ out'.files.zkir[c] = ir
         /\ out'.files.bzkir[c] = out.files.bzkir[c]
         /\ out'.files.key[c] = out.files.key[c]
         /\ \A d \in Released \ {c} : Untouched(d)
         /\ out'.sums = out.sums
BY DEF OutType, Files, Untouched

(* A circuit keyed so far is not the next one, so its files stay.           *)
LEMMA KeyedBefore ==
  ASSUME TypeInv, run.step \in Keying, run.at \in DOMAIN ReleaseOrder,
         NEW i \in 1..(run.at - 1)
  PROVE  ReleaseOrder[i] \in Released \ {Now}
<1>1. run.at \in Nat /\ i \in DOMAIN ReleaseOrder /\ i # run.at
  BY OrderFacts
<1> QED BY <1>1, OrderFacts DEF Now

(* What was whole before a step over the next circuit is whole after it.    *)
LEMMA WholeBefore ==
  ASSUME TypeInv, run.step \in Keying, run.at \in DOMAIN ReleaseOrder,
         \A d \in Released \ {Now} : Untouched(d), NEW i \in 1..(run.at - 1)
  PROVE  Whole(ReleaseOrder[i])'
<1>1. Whole(ReleaseOrder[i])
  BY DEF TypeInv, Progress
<1>2. Untouched(ReleaseOrder[i])
  BY KeyedBefore
<1> QED BY <1>1, <1>2 DEF Whole, Untouched

(* A container that starts tears only the key file of its own circuit.      *)
LEMMA TypeLaunch == TypeInv /\ UNCHANGED recordVars /\ Launch => TypeInv'
<1> SUFFICES ASSUME TypeInv, UNCHANGED recordVars, Launch PROVE TypeInv'
  OBVIOUS
<1>1. /\ Now \in Released /\ out \in OutType
      /\ run.step \in Keying /\ run.at \in DOMAIN ReleaseOrder
  BY NowTypes DEF Launch, TypeInv, TypeOK, OutType
<1>2. out' \in OutType /\ \A d \in Released \ {Now} : Untouched(d)
  BY <1>1, KeyWritten DEF Launch
<1>3. run' \in Run /\ run'.step = "keying" /\ run'.tool \in Tool
  BY DEF TypeInv, TypeOK, Launch, Run, Step
<1>4. run'.commit = run.commit /\ run'.ir = run.ir /\ run'.at = run.at
  BY DEF TypeInv, TypeOK, Launch, Run
<1>5. \A i \in 1..(run.at - 1) : Whole(ReleaseOrder[i])'
  BY <1>1, <1>2, WholeBefore
<1>6. Progress'
  BY <1>1, <1>3, <1>4, <1>5 DEF TypeInv, Progress, Launch
<1>7. orphans' \subseteq Container
  BY DEF TypeInv, TypeOK, Launch, WithoutContainer
<1> QED BY <1>2, <1>3, <1>6, <1>7 DEF TypeInv, TypeOK, Launch, recordVars, OutType

(* A keygen that ends has a key pair, and a .bzkir to copy.                 *)
LEMMA TypeKeygenDone ==
  ASSUME TypeInv, UNCHANGED recordVars, NEW salt \in Salt, NEW other \in Salt,
         KeygenDone(salt, other)
  PROVE  TypeInv'
<1> DEFINE key == Keyed(run.ir[Now], run.tool, salt)
           binary == [ir |-> run.ir[Now], tool |-> run.tool, salt |-> other]
<1>1. /\ run.step = "keying" /\ run.at \in DOMAIN ReleaseOrder
      /\ run.tool \in Tool /\ run \in Run /\ out \in OutType
  BY DEF KeygenDone, TypeInv, TypeOK, Progress, OutType
<1>2. Now \in Released /\ run.ir[Now] \in IR
  BY <1>1, NowTypes
<1>3. key \in KeyPair /\ binary \in Binary
  BY <1>1, <1>2, KeyedType DEF TypeInv, Binary
<1>4. out' = [out EXCEPT !.files.key[Now] = key]
  BY DEF KeygenDone
<1>5. \/ Stop
      \/ run' = [run EXCEPT !.step = "copyBinary", !.binary = binary]
  BY DEF KeygenDone
<1> HIDE DEF key, binary
<1>6. /\ out' \in OutType /\ out'.files.key[Now] = key
      /\ \A d \in Released \ {Now} : Untouched(d)
  BY <1>1, <1>2, <1>3, <1>4, KeyWritten
<1>7. CASE Stop
  BY <1>6, <1>7, TypeStop DEF KeygenDone, OutType, TypeInv, TypeOK
<1>8. CASE run' = [run EXCEPT !.step = "copyBinary", !.binary = binary]
  <2>1. run' \in Run /\ run'.step = "copyBinary" /\ run'.binary = binary
    BY <1>1, <1>3, <1>8 DEF Run, Step
  <2>2. /\ run'.commit = run.commit /\ run'.ir = run.ir /\ run'.at = run.at
        /\ run'.tool = run.tool
    BY <1>1, <1>8 DEF Run
  <2>3. \A i \in 1..(run.at - 1) : Whole(ReleaseOrder[i])'
    BY <1>1, <1>6, WholeBefore
  <2>4. Progress'
    BY <1>1, <1>3, <1>6, <2>1, <2>2, <2>3 DEF TypeInv, Progress, Now
  <2> QED BY <1>6, <2>1, <2>4 DEF TypeInv, TypeOK, KeygenDone, recordVars, OutType
<1> QED BY <1>5, <1>7, <1>8

(* The .bzkir that is copied is the one keygen left.                        *)
LEMMA TypeCopyBinary ==
  TypeInv /\ UNCHANGED recordVars /\ CopyBinary => TypeInv'
<1> SUFFICES ASSUME TypeInv, UNCHANGED recordVars, CopyBinary PROVE TypeInv'
  OBVIOUS
<1>1. /\ run.step = "copyBinary" /\ run.at \in DOMAIN ReleaseOrder
      /\ run.tool \in Tool /\ run.binary \in Binary
      /\ run \in Run /\ out \in OutType
  BY DEF CopyBinary, TypeInv, TypeOK, Progress, OutType
<1>2. Now \in Released
  BY <1>1, NowTypes
<1>3. /\ out' \in OutType /\ out'.files.bzkir[Now] = run.binary
      /\ out'.files.key[Now] = out.files.key[Now]
      /\ \A d \in Released \ {Now} : Untouched(d)
  BY <1>1, <1>2, BinaryWritten DEF CopyBinary
<1>4. run' \in Run /\ run'.step = "copyIr"
  BY <1>1 DEF CopyBinary, Goto, Run, Step
<1>5. /\ run'.commit = run.commit /\ run'.ir = run.ir /\ run'.at = run.at
      /\ run'.tool = run.tool
  BY <1>1 DEF CopyBinary, Goto, Run
<1>6. \A i \in 1..(run.at - 1) : Whole(ReleaseOrder[i])'
  BY <1>1, <1>3, WholeBefore
<1>7. Progress'
  BY <1>1, <1>3, <1>4, <1>5, <1>6 DEF TypeInv, Progress, Now
<1> QED BY <1>3, <1>4, <1>7 DEF TypeInv, TypeOK, CopyBinary, recordVars, OutType

(* With its .zkir copied, a circuit joins those that are whole.             *)
LEMMA TypeCopyIr == TypeInv /\ UNCHANGED recordVars /\ CopyIr => TypeInv'
<1> SUFFICES ASSUME TypeInv, UNCHANGED recordVars, CopyIr PROVE TypeInv'
  OBVIOUS
<1>1. /\ run.step = "copyIr" /\ run.at \in DOMAIN ReleaseOrder
      /\ Whole(Now) /\ run \in Run /\ out \in OutType
  BY DEF CopyIr, TypeInv, TypeOK, Progress, OutType, Whole
<1>2. Now \in Released /\ run.ir[Now] \in IR
  BY <1>1, NowTypes
<1>3. /\ out' \in OutType
      /\ out'.files.key[Now] = out.files.key[Now]
      /\ out'.files.bzkir[Now] = out.files.bzkir[Now]
      /\ \A d \in Released \ {Now} : Untouched(d)
  BY <1>1, <1>2, IrWritten DEF CopyIr
<1>4. run.at + 1 \in 1..(Len(ReleaseOrder) + 1) /\ (run.at + 1) - 1 = run.at
  BY <1>1, OrderFacts
<1>5. run' \in Run /\ run'.step = "keygen"
  BY <1>1, <1>4 DEF CopyIr, Run, Step
<1>6. run'.commit = run.commit /\ run'.ir = run.ir /\ run'.at = run.at + 1
  BY <1>1 DEF CopyIr, Run
<1>7. ASSUME NEW i \in 1..run.at PROVE Whole(ReleaseOrder[i])'
  <2>1. CASE i = run.at
    BY <1>1, <1>3, <2>1 DEF Whole, Now
  <2>2. CASE i # run.at
    <3>1. i \in 1..(run.at - 1)
      BY <2>2, <1>1, OrderFacts
    <3> QED BY <3>1, <1>1, <1>3, WholeBefore
  <2> QED BY <2>1, <2>2
<1>8. Progress'
  BY <1>1, <1>4, <1>5, <1>6, <1>7 DEF TypeInv, Progress
<1> QED BY <1>3, <1>5, <1>8 DEF TypeInv, TypeOK, CopyIr, recordVars, OutType

(* When the last circuit is keyed, what is published of each is whole.      *)
LEMMA AllKeyed ==
  ASSUME TypeInv, Keygenned PROVE \A c \in Released : Whole(c)
<1>1. run.at \in 1..(Len(ReleaseOrder) + 1) /\ run.at \notin 1..Len(ReleaseOrder)
  BY OrderFacts DEF TypeInv, TypeOK, Run, Keygenned
<1>2. run.at - 1 = Len(ReleaseOrder)
  BY <1>1, OrderFacts
<1> QED BY <1>2, OrderFacts DEF TypeInv, Progress, Keygenned

(* Past the key gate every published circuit has a key pair, so a manifest  *)
(* is of its type.                                                          *)
LEMMA TypeCheckKeys == TypeInv /\ UNCHANGED recordVars /\ CheckKeys => TypeInv'
<1> SUFFICES ASSUME TypeInv, UNCHANGED recordVars, CheckKeys PROVE TypeInv'
  OBVIOUS
<1> DEFINE manifest == [tagged |-> run.tagged, commit |-> run.commit,
                        files |-> out.files]
<1>1. run \in Run /\ run.step = "keygen" /\ run.commit \in CommitOf
  BY DEF TypeInv, TypeOK, Progress, CheckKeys, Keygenned
<1>2. manifest \in Manifest
  BY <1>1 DEF TypeInv, TypeOK, Run, Manifest
<1> HIDE DEF manifest
<1>3. out' \in OutType /\ out'.files = out.files
  BY <1>2 DEF TypeInv, TypeOK, CheckKeys, manifest, OutType
<1>4. run' \in Run /\ run'.step = "sums"
  BY <1>1 DEF CheckKeys, Goto, Run, Step
<1>5. run'.commit = run.commit /\ run'.ir = run.ir /\ run'.at = run.at
  BY <1>1 DEF CheckKeys, Goto, Run
<1>6. Progress'
  BY <1>1, <1>3, <1>4, <1>5, AllKeyed DEF TypeInv, Progress, Whole, CheckKeys
<1> QED BY <1>3, <1>4, <1>6 DEF TypeInv, TypeOK, CheckKeys, recordVars, OutType

(* A SHA256SUMS lists files of their types.                                 *)
LEMMA TypeWriteSums == TypeInv /\ UNCHANGED recordVars /\ WriteSums => TypeInv'
<1> SUFFICES ASSUME TypeInv, UNCHANGED recordVars, WriteSums PROVE TypeInv'
  OBVIOUS
<1> DEFINE sums == [files |-> out.files, manifest |-> out.manifest]
<1>1. sums \in Sums
  BY DEF TypeInv, TypeOK, Sums
<1> HIDE DEF sums
<1>2. out' \in OutType /\ out'.files = out.files
  BY <1>1 DEF TypeInv, TypeOK, WriteSums, sums, OutType
<1>3. CASE ~run.write
  BY <1>2, <1>3, TypeStop
  DEF WriteSums, Succeed, TypeInv, TypeOK, OutType
<1>4. CASE run.write
  <2>1. run' \in Run /\ run'.step = "record"
    BY <1>4 DEF TypeInv, TypeOK, WriteSums, Goto, Run, Step
  <2>2. run'.commit = run.commit /\ run'.ir = run.ir /\ run'.at = run.at
    BY <1>4 DEF TypeInv, TypeOK, WriteSums, Goto, Run
  <2>3. Progress'
    BY <1>2, <2>1, <2>2 DEF TypeInv, Progress, Whole, WriteSums
  <2> QED BY <1>2, <2>1, <2>3
          DEF TypeInv, TypeOK, WriteSums, recordVars, OutType
<1> QED BY <1>3, <1>4

(* What --write-keys records are key pairs, since it follows the last       *)
(* keygen.                                                                  *)
LEMMA TypeWriteKeys == TypeInv /\ WriteKeys => TypeInv'
<1> SUFFICES ASSUME TypeInv, WriteKeys PROVE TypeInv'
  OBVIOUS
<1>1. out.files.key \in [Released -> KeyPair \cup {None}]
  BY DEF TypeInv, TypeOK, Progress, Whole, WriteKeys, Files
<1>2. record' \in Record
  BY <1>1 DEF TypeInv, TypeOK, WriteKeys, MadeKeys, Record
<1> QED BY <1>2, RestTypes
        DEF TypeInv, TypeOK, Progress, Whole, WriteKeys, Succeed, Stop

(* The ways a run ends without success.                                     *)
LEMMA TypeEnds ==
  TypeInv /\ UNCHANGED recordVars
    /\ (Refuse \/ KeygenFails \/ CopyTorn \/ Watchdog \/ Killed
        \/ \E kept \in SUBSET (Released \cup Lists) : ClearSome(kept))
  => TypeInv'
<1> SUFFICES ASSUME TypeInv, UNCHANGED recordVars,
                    \/ Refuse \/ KeygenFails \/ CopyTorn \/ Watchdog \/ Killed
                    \/ \E kept \in SUBSET (Released \cup Lists) : ClearSome(kept)
             PROVE  TypeInv'
  OBVIOUS
<1>1. CASE Refuse \/ KeygenFails \/ Watchdog
  BY <1>1, TypeStop DEF Refuse, KeygenFails, Watchdog, TypeInv, TypeOK
<1>2. CASE Killed
  <2>1. orphans' \subseteq Container
    <3>1. CASE run.step = "keying"
      <4>1. Now \in Released /\ run.ir[Now] \in IR /\ run.tool \in Tool
        BY <3>1, NowTypes DEF TypeInv, Progress
      <4> QED BY <1>2, <3>1, <4>1 DEF Killed, Container, TypeInv, TypeOK
    <3>2. CASE run.step # "keying"
      BY <1>2, <3>2 DEF Killed, TypeInv, TypeOK
    <3> QED BY <3>1, <3>2
  <2> QED BY <1>2, <2>1, TypeStop DEF Killed, TypeInv, TypeOK
<1>3. CASE \E kept \in SUBSET (Released \cup Lists) : ClearSome(kept)
  <2>1. PICK kept \in SUBSET (Released \cup Lists) : ClearSome(kept)
    BY <1>3
  <2>2. out' \in OutType
    BY <2>1 DEF ClearSome, Left, TypeInv, TypeOK, OutType, Files
  <2> QED BY <2>1, <2>2, TypeStop DEF ClearSome, TypeInv, TypeOK, OutType
<1>4. CASE CopyTorn
  <2>1. out \in OutType /\ Now \in Released
    BY <1>4, NowTypes DEF CopyTorn, TypeInv, TypeOK, Progress, OutType
  <2>2. out' \in OutType
    BY <1>4, <2>1, BinaryWritten, IrWritten DEF CopyTorn
  <2> QED BY <1>4, <2>2, TypeStop DEF CopyTorn, TypeInv, TypeOK, OutType
<1> QED BY <1>1, <1>2, <1>3, <1>4

(* An SRS file that arrives, whole or not, leaves the types.                *)
LEMMA TypeFetch ==
  ASSUME TypeInv, UNCHANGED recordVars, NEW k \in Needed,
         NEW got \in {"good", "bad"}, FetchSrs(k, got)
  PROVE  TypeInv'
<1>1. params' \in [K -> SrsStatus]
  BY DEF TypeInv, TypeOK, FetchSrs, SrsStatus
<1>2. CASE got = "good"
  BY <1>1, <1>2 DEF TypeInv, TypeOK, Progress, Whole, FetchSrs, recordVars
<1>3. CASE got # "good"
  BY <1>1, <1>3, TypeStop DEF FetchSrs, TypeInv, TypeOK
<1> QED BY <1>2, <1>3

(* A container that outlived its script, and an SRS directory that changes. *)
LEMMA TypeOrphan ==
  ASSUME TypeInv, UNCHANGED recordVars, NEW o \in orphans, NEW salt \in Salt,
         OrphanWrites(o, salt)
  PROVE  TypeInv'
<1> DEFINE key == Keyed(o.ir, o.tool, salt)
<1>1. o.circuit \in Released /\ key \in KeyPair
  BY KeyedType DEF TypeInv, TypeOK, Container
<1> HIDE DEF key
<1>2. /\ out' \in OutType /\ out'.files.key[o.circuit] = key
      /\ out'.files.bzkir[o.circuit] = out.files.bzkir[o.circuit]
      /\ \A d \in Released \ {o.circuit} : Untouched(d)
  BY <1>1, KeyWritten DEF OrphanWrites, key, TypeInv, TypeOK, OutType
<1>3. ASSUME NEW c \in Released
      PROVE  /\ out'.files.bzkir[c] = out.files.bzkir[c]
             /\ out.files.key[c] \in KeyPair => out'.files.key[c] \in KeyPair
             /\ Whole(c) => Whole(c)'
  <2>1. CASE c = o.circuit
    BY <1>1, <1>2, <2>1 DEF Whole
  <2>2. CASE c # o.circuit
    BY <1>2, <2>2 DEF Whole, Untouched
  <2> QED BY <2>1, <2>2
<1>4. /\ run.step \in Keying =>
           \A i \in 1..(run.at - 1) : ReleaseOrder[i] \in Released
      /\ run.step \in OneCircuit => Now \in Released
  BY OrderFacts, NowTypes DEF TypeInv, TypeOK, Progress, Run
<1>5. Progress'
  BY <1>3, <1>4 DEF TypeInv, Progress, OrphanWrites, Now
<1> QED BY <1>2, <1>5 DEF TypeInv, TypeOK, OrphanWrites, recordVars, OutType

(* So does one that is lost or replaced.                                    *)
LEMMA TypeSpoil ==
  ASSUME TypeInv, NEW k \in Needed, SpoilSrs(k) PROVE TypeInv'
BY DEF TypeInv, TypeOK, Progress, Whole, Now, SpoilSrs, SrsStatus

(* Every step keeps the types.                                              *)
LEMMA TypeStep == TypeInv /\ [Next]_vars => TypeInv'
<1> SUFFICES ASSUME TypeInv, [Next]_vars PROVE TypeInv'
  OBVIOUS
<1>1. CASE UNCHANGED recordVars /\ Script
  BY <1>1, TypeEmit, TypeGates, TypeLaunch, TypeCopyBinary, TypeCopyIr,
     TypeCheckKeys, TypeWriteSums, TypeEnds DEF Script
<1>2. ASSUME UNCHANGED recordVars, NEW o \in orphans, OrphanDies(o)
      PROVE  TypeInv'
  BY <1>2 DEF TypeInv, TypeOK, Progress, Whole, Now, OrphanDies, recordVars
<1>3. CASE UNCHANGED vars
  BY <1>3 DEF TypeInv, TypeOK, Progress, Whole, Now, vars, runVars, recordVars
<1> QED BY <1>1, <1>2, <1>3, TypeStart, TypeFetch, TypeEnds, TypeKeygenDone,
           TypeOrphan, TypeWriteKeys, TypeEdit, TypeSpoil DEF Next

(* The tree, the record, the run and the output directory keep their types: *)
(* no half-written key file is ever recorded.                               *)
THEOREM TypeCorrect == Spec => []TypeOK
<1>1. TypeInv => TypeOK
  BY DEF TypeInv
<1> QED BY <1>1, TypeInit, TypeStep, PTL DEF Spec

----------------------------------------------------------------------------
(* Where a container that outlived its script can be: gone from every name  *)
(* the run has keyed, and gone altogether once there is a SHA256SUMS.       *)
Fenced ==
  /\ run.step = "keygen" =>
       \A o \in orphans, i \in 1..(run.at - 1) : o.circuit # ReleaseOrder[i]
  /\ run.step \in OneCircuit =>
       \A o \in orphans, i \in 1..run.at : o.circuit # ReleaseOrder[i]
  /\ run.step \in {"sums", "record"} => orphans = {}
  /\ run.step \in Keying \cup {"sums"} => out.sums = None
  /\ out.sums # None => orphans = {}

SumsInv == SumsDescribeFiles /\ Fenced

(* A run that ends keeps the fence when it adds no container beside a       *)
(* SHA256SUMS.                                                              *)
LEMMA FencedStop ==
  ASSUME Stop, (out.sums # None => orphans = {})' PROVE Fenced'
BY RestTypes DEF Fenced, Stop

(* There is no SHA256SUMS and no container at the start.                    *)
LEMMA SumsInit == Init => SumsInv
BY RestTypes DEF Init, SumsInv, SumsDescribeFiles, Fenced, EmptyOut

(* While there is no SHA256SUMS, a step that writes none needs the fence    *)
(* only.                                                                    *)
LEMMA NoSums == (out.sums = None)' => SumsDescribeFiles'
BY DEF SumsDescribeFiles

(* `docker rm -f` moves the fence past the circuit about to be keyed.       *)
LEMMA SumsLaunch == TypeInv /\ SumsInv /\ Launch => SumsInv'
<1> SUFFICES ASSUME TypeInv, SumsInv, Launch PROVE SumsInv'
  OBVIOUS
<1>1. Now \in Released /\ out \in OutType /\ out.sums = None
  BY NowTypes DEF Launch, TypeInv, TypeOK, OutType, SumsInv, Fenced
<1>2. out'.sums = None
  BY <1>1, KeyWritten DEF Launch
<1>3. run' = [run EXCEPT !.step = "keying", !.tool = installed] /\ run \in Run
  BY DEF Launch, TypeInv, TypeOK
<1>4. run'.step = "keying" /\ run'.at = run.at
  BY <1>3 DEF Run
<1>5. ASSUME NEW o \in orphans', NEW i \in 1..run.at
      PROVE  o.circuit # ReleaseOrder[i]
  <2>1. o \in orphans /\ o.circuit # ReleaseOrder[run.at]
    BY DEF Launch, WithoutContainer, Now
  <2>2. i = run.at \/ i \in 1..(run.at - 1)
    BY <1>3 DEF Run
  <2> QED BY <2>1, <2>2 DEF SumsInv, Fenced, Launch
<1>6. Fenced'
  BY <1>2, <1>4, <1>5 DEF Fenced
<1> QED BY <1>2, <1>6, NoSums DEF SumsInv

(* A keygen that ends leaves the fence where its launch put it.             *)
LEMMA SumsKeygenDone ==
  ASSUME TypeInv, SumsInv, NEW salt \in Salt, NEW other \in Salt,
         KeygenDone(salt, other)
  PROVE  SumsInv'
<1>1. run.step = "keying" /\ run \in Run /\ out \in OutType /\ out.sums = None
  BY DEF KeygenDone, TypeInv, TypeOK, OutType, SumsInv, Fenced
<1>2. out'.sums = None
  BY <1>1 DEF KeygenDone, OutType
<1>3. CASE Stop
  BY <1>2, <1>3, FencedStop, NoSums DEF SumsInv
<1>4. CASE KAsRecorded(Now)
  <2>1. run'.step = "copyBinary" /\ run'.at = run.at
    BY <1>1, <1>4 DEF Run, KeygenDone
  <2>2. Fenced'
    BY <1>1, <1>2, <2>1 DEF SumsInv, Fenced, KeygenDone
  <2> QED BY <1>2, <2>2, NoSums DEF SumsInv
<1> QED BY <1>3, <1>4 DEF KeygenDone

(* So do the copies, whole or torn.                                         *)
LEMMA SumsCopy ==
  TypeInv /\ SumsInv /\ (CopyBinary \/ CopyIr \/ CopyTorn) => SumsInv'
<1> SUFFICES ASSUME TypeInv, SumsInv, CopyBinary \/ CopyIr \/ CopyTorn
             PROVE  SumsInv'
  OBVIOUS
<1>1. /\ run.step \in {"copyBinary", "copyIr"}
      /\ run \in Run /\ out \in OutType /\ out.sums = None
  BY DEF CopyBinary, CopyIr, CopyTorn, TypeInv, TypeOK, OutType, SumsInv, Fenced
<1>2. out'.sums = None
  BY <1>1 DEF CopyBinary, CopyIr, CopyTorn, OutType
<1>3. CASE CopyBinary
  <2>1. run'.step = "copyIr" /\ run'.at = run.at
    BY <1>1, <1>3 DEF CopyBinary, Goto, Run
  <2> QED BY <1>1, <1>2, <1>3, <2>1, NoSums DEF SumsInv, Fenced, CopyBinary
<1>4. CASE CopyIr
  <2>1. run'.step = "keygen" /\ run'.at = run.at + 1 /\ run.at \in Nat
    BY <1>1, <1>4 DEF CopyIr, Run
  <2>2. (run.at + 1) - 1 = run.at
    BY <2>1
  <2>3. Fenced'
    BY <1>1, <1>2, <1>4, <2>1, <2>2 DEF SumsInv, Fenced, CopyIr
  <2> QED BY <1>2, <2>3, NoSums DEF SumsInv
<1>5. CASE CopyTorn
  BY <1>2, <1>5, FencedStop, NoSums DEF SumsInv, CopyTorn
<1> QED BY <1>3, <1>4, <1>5

(* The last circuit keyed, no name is left to a container.                  *)
LEMMA SumsCheckKeys == TypeInv /\ SumsInv /\ CheckKeys => SumsInv'
<1> SUFFICES ASSUME TypeInv, SumsInv, CheckKeys PROVE SumsInv'
  OBVIOUS
<1>1. run \in Run /\ run.step = "keygen" /\ out \in OutType /\ out.sums = None
  BY DEF CheckKeys, Keygenned, TypeInv, TypeOK, OutType, SumsInv, Fenced
<1>2. run.at - 1 = Len(ReleaseOrder)
  BY <1>1, OrderFacts DEF Run, CheckKeys, Keygenned
<1>3. orphans = {}
  <2>1. \A o \in orphans : o.circuit \in Released
    BY DEF TypeInv, TypeOK, Container
  <2> QED BY <1>1, <1>2, <2>1, OrderFacts DEF SumsInv, Fenced
<1>4. run'.step = "sums" /\ out'.sums = None /\ orphans' = {}
  BY <1>1, <1>3 DEF CheckKeys, Goto, Run, OutType
<1> QED BY <1>4, NoSums DEF SumsInv, Fenced

(* SHA256SUMS is written of the files as they are, with no container left.  *)
LEMMA SumsWriteSums == TypeInv /\ SumsInv /\ WriteSums => SumsInv'
<1> SUFFICES ASSUME TypeInv, SumsInv, WriteSums PROVE SumsInv'
  OBVIOUS
<1>1. run \in Run /\ out \in OutType /\ orphans = {} /\ orphans' = {}
  BY DEF WriteSums, TypeInv, TypeOK, OutType, SumsInv, Fenced
<1>2. /\ out'.files = out.files /\ out'.manifest = out.manifest
      /\ out'.sums = [files |-> out.files, manifest |-> out.manifest]
  BY <1>1 DEF WriteSums, OutType
<1>3. SumsDescribeFiles'
  BY <1>2 DEF SumsDescribeFiles
<1>4. run'.step \in {"idle", "record"}
  BY <1>1, RestTypes DEF WriteSums, Succeed, Stop, Goto, Run
<1> QED BY <1>1, <1>3, <1>4 DEF SumsInv, Fenced

(* Killed among the files it deletes, the script leaves some of each.       *)
LEMMA SumsClearSome ==
  ASSUME TypeInv, SumsInv, NEW kept \in SUBSET (Released \cup Lists),
         ClearSome(kept)
  PROVE  SumsInv'
<1>1. out \in OutType
  BY DEF TypeInv, TypeOK, OutType
<1>2. /\ out'.sums \in {out.sums, None} /\ out'.manifest \in {out.manifest, None}
      /\ \A c \in Released :
           /\ out'.files.zkir[c] \in {out.files.zkir[c], None}
           /\ out'.files.bzkir[c] \in {out.files.bzkir[c], None}
           /\ out'.files.key[c] \in {out.files.key[c], None}
  BY <1>1 DEF ClearSome, Left, OutType, Files
<1>3. SumsDescribeFiles'
  BY <1>2 DEF SumsDescribeFiles, SumsInv
<1>4. Fenced'
  BY <1>2, FencedStop DEF ClearSome, SumsInv, Fenced
<1> QED BY <1>3, <1>4 DEF SumsInv

(* A container only ever writes where there is no SHA256SUMS.               *)
LEMMA SumsOrphan ==
  ASSUME TypeInv, SumsInv, NEW o \in orphans, NEW salt \in Salt,
         OrphanWrites(o, salt)
  PROVE  SumsInv'
<1>1. out \in OutType /\ out.sums = None
  BY DEF TypeInv, TypeOK, OutType, SumsInv, Fenced
<1>2. out'.sums = None
  BY <1>1 DEF OrphanWrites, OutType
<1>3. Fenced'
  BY <1>1, <1>2 DEF SumsInv, Fenced, OrphanWrites
<1> QED BY <1>2, <1>3, NoSums DEF SumsInv

(* The steps that touch neither the lists nor the containers.               *)
LEMMA SumsElsewhere ==
  ASSUME TypeInv, SumsInv, UNCHANGED out, orphans' \subseteq orphans,
         UNCHANGED run \/ run'.step \in {"idle", "emit", "irGate", "srs", "clear"}
  PROVE  SumsInv'
BY DEF SumsInv, SumsDescribeFiles, Fenced

(* Every step keeps the lists true and the fence up.                        *)
LEMMA SumsStep == TypeInv /\ SumsInv /\ [Next]_vars => SumsInv'
<1> SUFFICES ASSUME TypeInv, SumsInv, [Next]_vars PROVE SumsInv'
  OBVIOUS
<1>0. run \in Run
  BY DEF TypeInv, TypeOK
<1>1. CASE EmitZkir \/ CheckIr \/ CheckSrs
  <2>1. run'.step \in {"irGate", "srs", "clear"}
    BY <1>0, <1>1 DEF EmitZkir, CheckIr, CheckSrs, Goto, Run
  <2> QED BY <1>1, <2>1, SumsElsewhere DEF EmitZkir, CheckIr, CheckSrs
<1>2. CASE ClearOut
  <2>1. run'.step = "keygen" /\ run'.at = 1 /\ out'.sums = None
    BY <1>0, <1>2 DEF ClearOut, Goto, Run, EmptyOut, TypeInv, Progress
  <2> QED BY <2>1, NoSums DEF SumsInv, Fenced
<1>3. CASE Refuse \/ KeygenFails \/ Watchdog
  BY <1>3, RestTypes, SumsElsewhere DEF Refuse, KeygenFails, Watchdog, Stop
<1>4. CASE Killed
  <2>1. Fenced'
    BY <1>4, FencedStop DEF Killed, SumsInv, Fenced
  <2> QED BY <1>4, <2>1 DEF Killed, SumsInv, SumsDescribeFiles
<1>5. ASSUME NEW tagged \in BOOLEAN, NEW write \in BOOLEAN,
             NEW dir \in Revision \cup {None}, Start(tagged, write, dir)
      PROVE  SumsInv'
  <2>1. run'.step = "emit"
    BY <1>5 DEF Start, NoRun
  <2> QED BY <1>5, <2>1, SumsElsewhere DEF Start
<1>6. ASSUME NEW k \in Needed, NEW got \in {"good", "bad"}, FetchSrs(k, got)
      PROVE  SumsInv'
  BY <1>6, RestTypes, SumsElsewhere DEF FetchSrs, Stop
<1>7. CASE WriteKeys
  BY <1>7, RestTypes, SumsElsewhere DEF WriteKeys, Succeed, Stop
<1>8. ASSUME NEW o \in orphans, OrphanDies(o) PROVE SumsInv'
  BY <1>8, SumsElsewhere DEF OrphanDies
<1>9. ASSUME NEW k \in Needed, SpoilSrs(k) PROVE SumsInv'
  BY <1>9, SumsElsewhere DEF SpoilSrs
<1>10. CASE UNCHANGED runVars
  BY <1>10, SumsElsewhere DEF runVars
<1>11. CASE Script
  BY <1>1, <1>2, <1>3, <1>11, SumsLaunch, SumsCopy, SumsCheckKeys,
     SumsWriteSums DEF Script
<1> QED BY <1>3, <1>4, <1>5, <1>6, <1>7, <1>8, <1>9, <1>10, <1>11,
           SumsKeygenDone, SumsCopy, SumsClearSome, SumsOrphan DEF Next, vars

(* However many runs are killed, wherever, and whatever containers they     *)
(* leave keying: a SHA256SUMS in the output directory describes the files   *)
(* beside it.                                                               *)
THEOREM SumsAlwaysDescribe == Spec => []SumsDescribeFiles
<1>1. SumsInv => SumsDescribeFiles
  BY DEF SumsInv
<1> QED BY <1>1, TypeInit, TypeStep, SumsInit, SumsStep, PTL DEF Spec

----------------------------------------------------------------------------
SafeInv == TypeInv /\ SumsInv

(* What is shown so far, as one invariant: at the start,                    *)
LEMMA SafeInit == Init => SafeInv
BY TypeInit, SumsInit DEF SafeInv

(* and of every step.                                                       *)
LEMMA SafeStep == SafeInv /\ [Next]_vars => SafeInv'
BY TypeStep, SumsStep DEF SafeInv

(* Past the key gate, a recorded key is the one in the output directory.    *)
GatedKeys == run.step \in {"sums", "record"} => KeyGate

StandInv == SafeInv /\ GatedKeys

(* A re-record keeps or drops a key pair; it never brings one.              *)
LEMMA EditKeys ==
  ASSUME SafeInv, Edit
  PROVE  \A c \in Released : record'.keys[c] \in {record.keys[c], None}
BY DEF SafeInv, TypeInv, TypeOK, Edit, EditSource, BumpTool, InstallTool,
       ReRecord, Commit, CarriedKeys, Record

(* No step undoes the key gate before the run records its keys.             *)
LEMMA StandStep == StandInv /\ [Next]_vars => StandInv'
<1> SUFFICES ASSUME StandInv, [Next]_vars PROVE GatedKeys'
  BY SafeStep DEF StandInv
<1>0. run \in Run /\ out \in OutType
  BY DEF StandInv, SafeInv, TypeInv, TypeOK, OutType
<1>1. CASE UNCHANGED recordVars /\ CheckKeys
  <2>1. out'.files = out.files
    BY <1>0, <1>1 DEF CheckKeys, OutType
  <2> QED BY <1>1, <2>1 DEF CheckKeys, GatedKeys, KeyGate, recordVars
<1>2. CASE UNCHANGED recordVars /\ WriteSums
  <2>1. out'.files = out.files
    BY <1>0, <1>2 DEF WriteSums, OutType
  <2> QED BY <1>2, <2>1
          DEF WriteSums, StandInv, GatedKeys, KeyGate, recordVars
<1>3. CASE UNCHANGED <<record, run, out>>
  BY <1>3 DEF StandInv, GatedKeys, KeyGate
<1>4. CASE Edit /\ UNCHANGED runVars
  BY <1>4, EditKeys DEF StandInv, GatedKeys, KeyGate, runVars
<1>5. ASSUME NEW o \in orphans, NEW salt \in Salt, OrphanWrites(o, salt)
      PROVE  GatedKeys'
  BY <1>5 DEF StandInv, SafeInv, SumsInv, Fenced, OrphanWrites, GatedKeys
<1>6. CASE run'.step \notin {"sums", "record"}
  BY <1>6 DEF GatedKeys
<1>7. CASE EmitZkir \/ CheckIr \/ CheckSrs \/ ClearOut \/ Launch \/ Watchdog
           \/ CopyBinary \/ CopyIr \/ CopyTorn \/ Refuse \/ KeygenFails
           \/ Killed \/ WriteKeys
  <2>1. run'.step \notin {"sums", "record"}
    BY <1>0, <1>7, RestTypes DEF EmitZkir, CheckIr, CheckSrs, ClearOut, Launch,
       CopyBinary, CopyIr, CopyTorn, Watchdog, Refuse, KeygenFails, Killed,
       WriteKeys, Succeed, Stop, Goto, Run
  <2> QED BY <1>6, <2>1
<1>8. ASSUME NEW tagged \in BOOLEAN, NEW write \in BOOLEAN,
             NEW dir \in Revision \cup {None}, Start(tagged, write, dir)
      PROVE  GatedKeys'
  BY <1>8 DEF Start, NoRun, GatedKeys
<1>9. ASSUME UNCHANGED recordVars, NEW k \in Needed,
             NEW got \in {"good", "bad"}, FetchSrs(k, got)
      PROVE  GatedKeys'
  BY <1>0, <1>3, <1>6, <1>9, RestTypes DEF FetchSrs, Stop, recordVars
<1>10. ASSUME NEW kept \in SUBSET (Released \cup Lists), ClearSome(kept)
       PROVE  GatedKeys'
  BY <1>6, <1>10, RestTypes DEF ClearSome, Stop
<1>11. ASSUME NEW salt \in Salt, NEW other \in Salt, KeygenDone(salt, other)
       PROVE  GatedKeys'
  <2>1. run'.step \notin {"sums", "record"}
    BY <1>0, <1>11, RestTypes DEF KeygenDone, Stop, Run
  <2> QED BY <1>6, <2>1
<1>12. ASSUME UNCHANGED recordVars, NEW o \in orphans, OrphanDies(o)
       PROVE  GatedKeys'
  BY <1>3, <1>12 DEF OrphanDies, recordVars
<1>13. ASSUME NEW k \in Needed, SpoilSrs(k) PROVE GatedKeys'
  BY <1>3, <1>13 DEF SpoilSrs
<1>14. CASE UNCHANGED vars
  BY <1>3, <1>14 DEF vars, recordVars, runVars
<1> QED BY <1>1, <1>2, <1>4, <1>5, <1>7, <1>8, <1>9, <1>10, <1>11, <1>12,
           <1>13, <1>14 DEF Next, Script

(* Of all steps, a re-record and --write-keys alone touch the record.       *)
LEMMA RecordMoves ==
  [Next]_vars => \/ UNCHANGED record
                 \/ \E rev \in Revision, probe \in BOOLEAN : ReRecord(rev, probe)
                 \/ WriteKeys
BY DEF Next, vars, recordVars, Edit, EditSource, BumpTool, InstallTool, Commit,
       SpoilSrs

(* A recorded key pair stands for as long as its circuit's IR does: no      *)
(* re-record drops it and no release writes another over it.                *)
THEOREM KeysStand == Spec => RecordedKeysStand
<1>1. Init => StandInv
  BY SafeInit, RestTypes DEF StandInv, GatedKeys, Init
<1>2. StandInv /\ [Next]_vars =>
        [\A c \in Released :
           record.keys[c] # None /\ IrUnmoved(c, record'.ir) =>
             record'.keys[c] = record.keys[c]]_vars
  <2> SUFFICES ASSUME StandInv, [Next]_vars, NEW c \in Released,
                      record.keys[c] # None, IrUnmoved(c, record'.ir)
               PROVE  record'.keys[c] = record.keys[c]
    OBVIOUS
  <2>1. CASE UNCHANGED record
    BY <2>1
  <2>2. CASE \E rev \in Revision, probe \in BOOLEAN : ReRecord(rev, probe)
    BY <2>2 DEF ReRecord, CarriedKeys
  <2>3. CASE WriteKeys
    <3>1. record'.keys[c] = out.files.key[c]
      BY <2>3 DEF WriteKeys, MadeKeys, StandInv, SafeInv, TypeInv, TypeOK, Record
    <3> QED BY <2>3, <3>1 DEF StandInv, GatedKeys, KeyGate, WriteKeys
  <2> QED BY <2>1, <2>2, <2>3, RecordMoves
<1> QED BY <1>1, <1>2, StandStep, PTL DEF Spec, RecordedKeysStand

----------------------------------------------------------------------------
(* What is known of a circuit's keys and of its .bzkir when they are made,  *)
(* and of the circuit when the script is through with it.                   *)
KeyMade(c) ==
  /\ out.files.key[c].ir = run.ir[c]
  /\ out.files.key[c].tool = installed
  /\ out.files.key[c].srs = "good"
  /\ KOf[run.ir[c]] = RecordedK[c]

Derived(binary, c) == binary.ir = run.ir[c] /\ binary.tool = installed

Made(c) ==
  /\ out.files.zkir[c] = run.ir[c]
  /\ Derived(out.files.bzkir[c], c)
  /\ KeyMade(c)

(* What the gates have established for the rest of the run.                 *)
GatesHold ==
  /\ run.step # "idle" =>
       /\ ToolIsPinned
       /\ run.tagged => run.commit = [source |-> source, record |-> record]
  /\ run.step \in Gated => run.ir = record.ir
  /\ run.step \in Gated \ {"srs"} => \A k \in Needed : SrsReady(k)
  /\ run.step = "keying" => run.tool = installed
  /\ run.step \in {"copyBinary", "copyIr"} => KeyMade(Now)
  /\ run.step = "copyBinary" => Derived(run.binary, Now)
  /\ run.step = "copyIr" => Derived(out.files.bzkir[Now], Now)
  /\ run.step \in Keying => \A i \in 1..(run.at - 1) : Made(ReleaseOrder[i])
  /\ run.step \in {"sums", "record"} => \A c \in Released : Made(c)

QuietInv ==
  SafeInv /\ GatesHold /\ RecordedKeysFitIr /\ TaggedFilesAreCommitted

(* A run at rest claims nothing.                                            *)
LEMMA GatesStop == Stop => GatesHold'
BY RestTypes DEF Stop, GatesHold

(* Steps that leave the record and the releases as they are.                *)
LEMMA TruthStands ==
  ASSUME UNCHANGED <<record, releases>>, RecordedKeysFitIr,
         TaggedFilesAreCommitted
  PROVE  RecordedKeysFitIr' /\ TaggedFilesAreCommitted'
BY DEF RecordedKeysFitIr, TaggedFilesAreCommitted

(* The first record fits its tree, and nothing is released.                 *)
LEMMA QuietInit == Init => QuietInv
<1> SUFFICES ASSUME Init PROVE QuietInv
  OBVIOUS
<1>1. GatesHold
  BY RestTypes DEF Init, GatesHold
<1>2. RecordedKeysFitIr
  BY DEF Init, RecordInit, RecordedKeysFitIr
<1>3. TaggedFilesAreCommitted
  BY DEF Init, TaggedFilesAreCommitted
<1> QED BY <1>1, <1>2, <1>3, SafeInit DEF QuietInv

(* A run starts with the pinned tool, and tagged only of a clean tree.      *)
LEMMA QuietStart ==
  ASSUME QuietInv, UNCHANGED recordVars, NEW tagged \in BOOLEAN,
         NEW write \in BOOLEAN, NEW dir \in Revision \cup {None},
         Start(tagged, write, dir)
  PROVE  GatesHold'
<1>1. /\ run'.step = "emit" /\ run'.commit = head
      /\ run'.tagged => TreeIsClean
  BY DEF Start, NoRun
<1> QED BY <1>1 DEF GatesHold, Start, TreeIsClean, ToolIsPinned, recordVars

(* What is emitted past the IR gate is what the record says, and past the   *)
(* SRS gate every file is good.                                             *)
LEMMA QuietGates ==
  ASSUME QuietInv, UNCHANGED recordVars,
         EmitZkir \/ CheckIr \/ CheckSrs \/ ClearOut
  PROVE  GatesHold'
<1>1. run \in Run
  BY DEF QuietInv, SafeInv, TypeInv, TypeOK
<1>2. run'.commit = run.commit /\ run'.tagged = run.tagged
  BY <1>1 DEF EmitZkir, CheckIr, CheckSrs, ClearOut, Goto, Run
<1>3. CASE EmitZkir
  <2>1. run'.step = "irGate" /\ run.step = "emit"
    BY <1>1, <1>3 DEF EmitZkir, Run
  <2> QED BY <1>2, <2>1 DEF QuietInv, GatesHold, ToolIsPinned, recordVars
<1>4. CASE CheckIr
  <2>1. run'.step = "srs" /\ run.step = "irGate" /\ run'.ir = record.ir
    BY <1>1, <1>4 DEF CheckIr, IrGate, Goto, Run
  <2> QED BY <1>2, <2>1 DEF QuietInv, GatesHold, ToolIsPinned, recordVars
<1>5. CASE CheckSrs
  <2>1. run'.step = "clear" /\ run.step = "srs" /\ run'.ir = run.ir
    BY <1>1, <1>5 DEF CheckSrs, Goto, Run
  <2> QED BY <1>2, <1>5, <2>1
          DEF QuietInv, GatesHold, ToolIsPinned, SrsReady, CheckSrs,
              recordVars
<1>6. CASE ClearOut
  <2>1. /\ run'.step = "keygen" /\ run.step = "clear" /\ run'.ir = run.ir
        /\ run'.at = 1
    BY <1>1, <1>6
    DEF ClearOut, Goto, Run, QuietInv, SafeInv, TypeInv, Progress
  <2> QED BY <1>2, <1>6, <2>1
          DEF QuietInv, GatesHold, ToolIsPinned, SrsReady, ClearOut,
              recordVars
<1> QED BY <1>3, <1>4, <1>5, <1>6

(* A step that touches the files of other circuits only leaves what is made *)
(* as it is.                                                                *)
LEMMA MadeStays ==
  ASSUME NEW c, Untouched(c), UNCHANGED installed, run'.ir = run.ir
  PROVE  /\ KeyMade(c) => KeyMade(c)'
         /\ Made(c) => Made(c)'
BY DEF Made, KeyMade, Derived, Untouched

(* So what was made before the circuit at hand stays made.                  *)
LEMMA MadeBefore ==
  ASSUME QuietInv, run.step \in Keying, run.at \in DOMAIN ReleaseOrder,
         \A d \in Released \ {Now} : Untouched(d), UNCHANGED installed,
         run'.ir = run.ir, NEW i \in 1..(run.at - 1)
  PROVE  Made(ReleaseOrder[i])'
<1>1. Made(ReleaseOrder[i]) /\ TypeInv
  BY DEF QuietInv, SafeInv, GatesHold
<1>2. Untouched(ReleaseOrder[i])
  BY <1>1, KeyedBefore
<1> QED BY <1>1, <1>2, MadeStays

(* A keygen that starts takes the pinned tool, and leaves what was made     *)
(* before it.                                                               *)
LEMMA QuietLaunch ==
  ASSUME QuietInv, UNCHANGED recordVars, Launch PROVE GatesHold'
<1>1. run \in Run /\ TypeInv /\ out \in OutType
  BY DEF QuietInv, SafeInv, TypeInv, TypeOK, OutType
<1>2. /\ run'.step = "keying" /\ run.step = "keygen" /\ run'.at = run.at
      /\ run'.ir = run.ir /\ run'.commit = run.commit
      /\ run'.tagged = run.tagged /\ run'.tool = installed
  BY <1>1 DEF Launch, Run
<1>3. Now \in Released /\ run.at \in DOMAIN ReleaseOrder
  BY <1>1, <1>2, NowTypes DEF Launch
<1>4. \A d \in Released \ {Now} : Untouched(d)
  BY <1>1, <1>3, KeyWritten DEF Launch
<1>5. \A i \in 1..(run.at - 1) : Made(ReleaseOrder[i])'
  BY <1>2, <1>3, <1>4, MadeBefore DEF recordVars
<1> QED BY <1>2, <1>5
        DEF QuietInv, GatesHold, ToolIsPinned, SrsReady, Launch, recordVars

(* A keygen that ends at the recorded k has made its key from the gated IR, *)
(* with the pinned tool and the recorded SRS, and a .bzkir of that IR.      *)
LEMMA QuietKeygenDone ==
  ASSUME QuietInv, UNCHANGED recordVars, NEW salt \in Salt, NEW other \in Salt,
         KeygenDone(salt, other)
  PROVE  GatesHold'
<1> DEFINE key == Keyed(run.ir[Now], run.tool, salt)
           binary == [ir |-> run.ir[Now], tool |-> run.tool, salt |-> other]
<1>1. run \in Run /\ TypeInv /\ out \in OutType
  BY DEF QuietInv, SafeInv, TypeInv, TypeOK, OutType
<1>2. /\ run.step = "keying" /\ run.at \in DOMAIN ReleaseOrder
      /\ run.tool \in Tool /\ run.tool = installed
  BY <1>1 DEF KeygenDone, TypeInv, Progress, QuietInv, GatesHold
<1>3. Now \in Released /\ run.ir[Now] \in IR
  BY <1>1, <1>2, NowTypes
<1>4. key \in KeyPair
  BY <1>1, <1>2, <1>3, KeyedType DEF TypeInv
<1>5. CASE Stop
  BY <1>5, GatesStop
<1>6. CASE KAsRecorded(Now)
  <2>1. /\ out' = [out EXCEPT !.files.key[Now] = key]
        /\ run' = [run EXCEPT !.step = "copyBinary", !.binary = binary]
    BY <1>6 DEF KeygenDone
  <2>2. /\ key.ir = run.ir[Now] /\ key.tool = installed
        /\ key.srs = params[KOf[run.ir[Now]]]
        /\ binary.ir = run.ir[Now] /\ binary.tool = installed
    BY <1>2 DEF Keyed
  <2>3. key.srs = "good"
    BY <1>2, <1>3, <1>6, <2>2
    DEF KAsRecorded, Needed, SrsReady, QuietInv, GatesHold
  <2> HIDE DEF key, binary
  <2>4. /\ run'.step = "copyBinary" /\ run'.ir = run.ir
        /\ run'.commit = run.commit /\ run'.tagged = run.tagged
        /\ run'.at = run.at /\ run'.binary = binary
    BY <2>1, <1>1 DEF Run
  <2>5. /\ out'.files.key[Now] = key
        /\ \A d \in Released \ {Now} : Untouched(d)
    BY <2>1, <1>1, <1>3, <1>4, KeyWritten
  <2>6. \A i \in 1..(run.at - 1) : Made(ReleaseOrder[i])'
    BY <1>2, <2>4, <2>5, MadeBefore DEF recordVars
  <2>7. (KeyMade(Now) /\ Derived(run.binary, Now))'
    BY <1>6, <2>2, <2>3, <2>4, <2>5
    DEF KeyMade, Derived, KAsRecorded, Now, recordVars
  <2> QED BY <1>2, <2>4, <2>6, <2>7
          DEF QuietInv, GatesHold, ToolIsPinned, SrsReady, KeygenDone, recordVars
<1> QED BY <1>5, <1>6 DEF KeygenDone

(* The .bzkir that is published is the one derived from the gated IR.       *)
LEMMA QuietCopyBinary ==
  ASSUME QuietInv, UNCHANGED recordVars, CopyBinary PROVE GatesHold'
<1>1. run \in Run /\ TypeInv /\ out \in OutType /\ run.step = "copyBinary"
  BY DEF QuietInv, SafeInv, TypeInv, TypeOK, OutType, CopyBinary
<1>2. run.at \in DOMAIN ReleaseOrder /\ run.binary \in Binary
  BY <1>1 DEF TypeInv, Progress
<1>3. Now \in Released
  BY <1>1, <1>2, NowTypes
<1>4. /\ run'.step = "copyIr" /\ run'.ir = run.ir /\ run'.at = run.at
      /\ run'.commit = run.commit /\ run'.tagged = run.tagged
  BY <1>1 DEF CopyBinary, Goto, Run
<1>5. /\ out'.files.bzkir[Now] = run.binary
      /\ out'.files.key[Now] = out.files.key[Now]
      /\ \A d \in Released \ {Now} : Untouched(d)
  BY <1>1, <1>2, <1>3, BinaryWritten DEF CopyBinary
<1>6. \A i \in 1..(run.at - 1) : Made(ReleaseOrder[i])'
  BY <1>1, <1>2, <1>4, <1>5, MadeBefore DEF recordVars
<1>7. KeyMade(Now) /\ Derived(run.binary, Now)
  BY <1>1 DEF QuietInv, GatesHold
<1>8. (KeyMade(Now) /\ Derived(out.files.bzkir[Now], Now))'
  BY <1>4, <1>5, <1>7 DEF KeyMade, Derived, Now, recordVars
<1> QED BY <1>1, <1>4, <1>6, <1>8
        DEF QuietInv, GatesHold, ToolIsPinned, SrsReady, CopyBinary, recordVars

(* Its .zkir copied, the circuit is made.                                   *)
LEMMA QuietCopyIr ==
  ASSUME QuietInv, UNCHANGED recordVars, CopyIr PROVE GatesHold'
<1>1. run \in Run /\ TypeInv /\ out \in OutType /\ run.step = "copyIr"
  BY DEF QuietInv, SafeInv, TypeInv, TypeOK, OutType, CopyIr
<1>2. run.at \in DOMAIN ReleaseOrder
  BY <1>1 DEF TypeInv, Progress
<1>3. Now \in Released /\ run.ir[Now] \in IR
  BY <1>1, <1>2, NowTypes
<1>4. /\ run'.step = "keygen" /\ run'.ir = run.ir
      /\ run'.at = run.at + 1 /\ (run.at + 1) - 1 = run.at
      /\ run'.commit = run.commit /\ run'.tagged = run.tagged
  BY <1>1 DEF CopyIr, Run
<1>5. /\ out'.files.zkir[Now] = run.ir[Now]
      /\ out'.files.bzkir[Now] = out.files.bzkir[Now]
      /\ out'.files.key[Now] = out.files.key[Now]
      /\ \A d \in Released \ {Now} : Untouched(d)
  BY <1>1, <1>3, IrWritten DEF CopyIr
<1>6. ASSUME NEW i \in 1..run.at PROVE Made(ReleaseOrder[i])'
  <2>1. CASE i = run.at
    <3>1. KeyMade(Now) /\ Derived(out.files.bzkir[Now], Now)
      BY <1>1 DEF QuietInv, GatesHold
    <3>2. ReleaseOrder[i] = Now
      BY <2>1 DEF Now
    <3> QED BY <1>4, <1>5, <3>1, <3>2 DEF Made, KeyMade, Derived, recordVars
  <2>2. CASE i # run.at
    <3>1. i \in 1..(run.at - 1)
      BY <2>2, <1>1 DEF Run
    <3> QED BY <3>1, <1>1, <1>2, <1>4, <1>5, MadeBefore DEF recordVars
  <2> QED BY <2>1, <2>2
<1> QED BY <1>1, <1>4, <1>6
        DEF QuietInv, GatesHold, ToolIsPinned, SrsReady, CopyIr, recordVars

(* The last keygen ended, all of them are made.                             *)
LEMMA QuietCheckKeys ==
  ASSUME QuietInv, UNCHANGED recordVars, CheckKeys PROVE GatesHold'
<1>1. run \in Run /\ TypeInv /\ out \in OutType
  BY DEF QuietInv, SafeInv, TypeInv, TypeOK, OutType
<1>2. /\ run'.step = "sums" /\ run.step = "keygen" /\ run'.ir = run.ir
      /\ run'.commit = run.commit /\ run'.tagged = run.tagged
      /\ out'.files = out.files
  BY <1>1 DEF CheckKeys, Keygenned, Goto, Run, OutType
<1>3. run.at - 1 = Len(ReleaseOrder)
  BY <1>1, OrderFacts DEF CheckKeys, Keygenned, Run
<1>4. \A c \in Released : Made(c)
  BY <1>2, <1>3, OrderFacts DEF QuietInv, GatesHold
<1> QED BY <1>2, <1>4
        DEF QuietInv, GatesHold, Made, KeyMade, Derived, ToolIsPinned, SrsReady, CheckKeys,
            recordVars

(* What a run that succeeds adds to the releases is what its commit says.   *)
LEMMA QuietSucceed ==
  ASSUME QuietInv, run.step \in {"sums", "record"}, Succeed,
         out'.files = out.files
  PROVE  TaggedFilesAreCommitted'
<1> DEFINE new == [commit |-> run.commit, files |-> out'.files]
<1>1. releases' \subseteq releases \cup {new} /\ (~run.tagged => releases' = releases)
  BY DEF Succeed, QuietInv, SafeInv, TypeInv, TypeOK
<1>2. ASSUME NEW c \in Released, run.tagged
      PROVE  LET ir == new.commit.record.ir[c]
                 key == new.files.key[c]
                 binary == new.files.bzkir[c]
             IN /\ new.files.zkir[c] = ir
                /\ binary.ir = ir
                /\ binary.tool = new.commit.source.tool
                /\ key.ir = ir
                /\ key.tool = new.commit.source.tool
                /\ key.srs = "good"
                /\ KOf[ir] = RecordedK[c]
  <2>1. Made(c) /\ ToolIsPinned /\ run.ir = record.ir
    BY DEF QuietInv, GatesHold
  <2>2. run.commit = [source |-> source, record |-> record]
    BY <1>2 DEF QuietInv, GatesHold
  <2> QED BY <2>1, <2>2 DEF Made, KeyMade, Derived, ToolIsPinned
<1> QED BY <1>1, <1>2 DEF QuietInv, TaggedFilesAreCommitted

(* A run that ends at SHA256SUMS publishes what was made.                   *)
LEMMA QuietWriteSums ==
  ASSUME QuietInv, UNCHANGED recordVars, WriteSums
  PROVE  GatesHold' /\ TaggedFilesAreCommitted'
<1>1. run \in Run /\ out'.files = out.files /\ run.step = "sums"
  BY DEF QuietInv, SafeInv, TypeInv, TypeOK, OutType, WriteSums
<1>2. CASE ~run.write
  <2>1. Succeed
    BY <1>2 DEF WriteSums
  <2> QED BY <1>1, <2>1, QuietSucceed, GatesStop DEF Succeed
<1>3. CASE run.write
  <2>1. /\ run'.step = "record" /\ run'.ir = run.ir
        /\ run'.commit = run.commit /\ run'.tagged = run.tagged
    BY <1>1, <1>3 DEF WriteSums, Goto, Run
  <2>2. GatesHold'
    BY <1>1, <2>1
    DEF QuietInv, GatesHold, Made, KeyMade, Derived, ToolIsPinned, SrsReady, WriteSums,
        recordVars
  <2> QED BY <1>3, <2>2, TruthStands DEF WriteSums, QuietInv, recordVars
<1> QED BY <1>2, <1>3

(* A run that records its keys records them beside the IR they were made    *)
(* of.                                                                      *)
LEMMA QuietWriteKeys ==
  ASSUME QuietInv, WriteKeys
  PROVE  GatesHold' /\ TaggedFilesAreCommitted' /\ RecordedKeysFitIr'
<1>1. GatesHold' /\ TaggedFilesAreCommitted'
  BY QuietSucceed, GatesStop DEF WriteKeys, Succeed
<1>2. record'.ir = record.ir /\ record'.keys = out.files.key
  BY DEF WriteKeys, MadeKeys, QuietInv, SafeInv, TypeInv, TypeOK, Record
<1>3. \A c \in Released : Made(c) /\ run.ir = record.ir
  BY DEF WriteKeys, QuietInv, GatesHold
<1>4. RecordedKeysFitIr'
  BY <1>2, <1>3 DEF RecordedKeysFitIr, Made, KeyMade, WriteKeys
<1> QED BY <1>1, <1>4

(* A re-record carries a key pair with its IR, or drops it.                 *)
LEMMA QuietEdit ==
  ASSUME QuietInv, Idle, Edit, UNCHANGED runVars
  PROVE  GatesHold' /\ TaggedFilesAreCommitted' /\ RecordedKeysFitIr'
<1>1. GatesHold' /\ TaggedFilesAreCommitted'
  BY DEF Idle, GatesHold, runVars, QuietInv, TaggedFilesAreCommitted
<1>2. CASE \E rev \in Revision, probe \in BOOLEAN : ReRecord(rev, probe)
  BY <1>1, <1>2
  DEF ReRecord, CarriedKeys, IrUnmoved, RecordedKeysFitIr, QuietInv
<1>3. CASE UNCHANGED record
  BY <1>1, <1>3 DEF RecordedKeysFitIr, QuietInv
<1> QED BY <1>2, <1>3 DEF Edit, EditSource, BumpTool, InstallTool, Commit

(* A container of a killed run writes no circuit that this run has keyed.   *)
LEMMA QuietOrphan ==
  ASSUME QuietInv, UNCHANGED recordVars, NEW o \in orphans, NEW salt \in Salt,
         OrphanWrites(o, salt)
  PROVE  GatesHold'
<1>1. run \in Run /\ out \in OutType /\ o \in Container /\ TypeInv
  BY DEF QuietInv, SafeInv, TypeInv, TypeOK, OutType
<1>2. run.step \notin {"sums", "record"}
  BY DEF QuietInv, SafeInv, SumsInv, Fenced
<1>3. \A d \in Released \ {o.circuit} : Untouched(d)
  <2>1. Keyed(o.ir, o.tool, salt) \in KeyPair
    BY <1>1, KeyedType DEF TypeInv, Container
  <2> QED BY <1>1, <2>1, KeyWritten DEF OrphanWrites, Container
<1>4. ASSUME run.step \in Keying, NEW i \in 1..(run.at - 1)
      PROVE  Made(ReleaseOrder[i])'
  <2>1. ReleaseOrder[i] \in Released /\ i \in 1..run.at
    BY <1>1, OrderFacts DEF Run
  <2>2. ReleaseOrder[i] # o.circuit
    BY <1>4, <2>1 DEF QuietInv, SafeInv, SumsInv, Fenced
  <2>3. Made(ReleaseOrder[i])
    BY <1>4 DEF QuietInv, GatesHold
  <2> QED BY <1>3, <2>1, <2>2, <2>3, MadeStays DEF OrphanWrites, recordVars
<1>5. ASSUME run.step \in OneCircuit PROVE Untouched(Now)
  <2>1. Now \in Released /\ run.at \in 1..run.at
    BY <1>1, <1>5, NowTypes, OrderFacts DEF TypeInv, Progress, Run
  <2>2. Now # o.circuit
    BY <1>5, <2>1 DEF QuietInv, SafeInv, SumsInv, Fenced, Now
  <2> QED BY <1>3, <2>1, <2>2
<1>6. run.step \in {"copyBinary", "copyIr"} => KeyMade(Now)'
  BY <1>5, MadeStays DEF QuietInv, GatesHold, OrphanWrites, Now, recordVars
<1>7. run.step = "copyIr" => Derived(out.files.bzkir[Now], Now)'
  BY <1>5 DEF Untouched, Derived, QuietInv, GatesHold, OrphanWrites, Now,
     recordVars
<1>8. run.step = "copyBinary" => Derived(run.binary, Now)'
  BY DEF Derived, QuietInv, GatesHold, OrphanWrites, Now, recordVars
<1> QED BY <1>2, <1>4, <1>6, <1>7, <1>8
        DEF QuietInv, GatesHold, ToolIsPinned, SrsReady, OrphanWrites, recordVars

(* A fetch touches neither the emission nor what was made.                  *)
LEMMA QuietFetch ==
  ASSUME QuietInv, UNCHANGED recordVars, NEW k \in Needed,
         NEW got \in {"good", "bad"}, FetchSrs(k, got)
  PROVE  GatesHold'
<1>1. CASE got = "good"
  BY <1>1 DEF FetchSrs, QuietInv, GatesHold, ToolIsPinned, recordVars
<1>2. CASE got # "good"
  BY <1>2, GatesStop DEF FetchSrs
<1> QED BY <1>1, <1>2

(* No step of a quiet run makes the record or a release lie.                *)
LEMMA QuietStep ==
  ASSUME Quiet, QuietInv, [Next]_vars PROVE QuietInv'
<1>1. SafeInv'
  BY SafeStep DEF QuietInv
<1>2. ASSUME UNCHANGED <<record, releases>>, GatesHold' PROVE QuietInv'
  BY <1>1, <1>2, TruthStands DEF QuietInv
<1>3. CASE UNCHANGED recordVars /\ (EmitZkir \/ CheckIr \/ CheckSrs \/ ClearOut)
  BY <1>2, <1>3, QuietGates
  DEF EmitZkir, CheckIr, CheckSrs, ClearOut, recordVars
<1>4. CASE UNCHANGED recordVars /\ Launch
  BY <1>2, <1>4, QuietLaunch DEF Launch, recordVars
<1>5. CASE UNCHANGED recordVars /\ CheckKeys
  BY <1>2, <1>5, QuietCheckKeys DEF CheckKeys, recordVars
<1>6. CASE UNCHANGED recordVars /\ WriteSums
  BY <1>1, <1>6, QuietWriteSums DEF QuietInv, RecordedKeysFitIr, recordVars
<1>7. CASE UNCHANGED recordVars
           /\ (Refuse \/ Watchdog \/ KeygenFails \/ CopyTorn \/ Killed)
  BY <1>2, <1>7, GatesStop
  DEF Refuse, Watchdog, KeygenFails, CopyTorn, Killed, recordVars
<1>8. ASSUME UNCHANGED recordVars, NEW tagged \in BOOLEAN, NEW write \in BOOLEAN,
             NEW dir \in Revision \cup {None}, Start(tagged, write, dir)
      PROVE  QuietInv'
  BY <1>2, <1>8, QuietStart DEF QuietInv, Start, recordVars
<1>9. ASSUME UNCHANGED recordVars, NEW k \in Needed,
             NEW got \in {"good", "bad"}, FetchSrs(k, got)
      PROVE  QuietInv'
  BY <1>2, <1>9, QuietFetch DEF FetchSrs, recordVars
<1>10. ASSUME UNCHANGED recordVars, NEW kept \in SUBSET (Released \cup Lists),
              ClearSome(kept)
       PROVE  QuietInv'
  BY <1>2, <1>10, GatesStop DEF ClearSome, recordVars
<1>11. ASSUME UNCHANGED recordVars, NEW salt \in Salt, NEW other \in Salt,
              KeygenDone(salt, other)
       PROVE  QuietInv'
  BY <1>2, <1>11, QuietKeygenDone DEF KeygenDone, recordVars
<1>12. ASSUME UNCHANGED recordVars, NEW o \in orphans, NEW salt \in Salt,
              OrphanWrites(o, salt)
       PROVE  QuietInv'
  BY <1>2, <1>12, QuietOrphan DEF OrphanWrites, recordVars
<1>13. ASSUME UNCHANGED recordVars, NEW o \in orphans, OrphanDies(o)
       PROVE  QuietInv'
  <2>1. GatesHold'
    BY <1>13 DEF OrphanDies, QuietInv, GatesHold, Made, KeyMade, Derived, Now,
       ToolIsPinned, SrsReady, recordVars
  <2> QED BY <1>2, <1>13, <2>1 DEF OrphanDies, recordVars
<1>14. CASE WriteKeys
  BY <1>1, <1>14, QuietWriteKeys DEF QuietInv
<1>15. CASE Idle /\ Edit /\ UNCHANGED runVars
  BY <1>1, <1>15, QuietEdit DEF QuietInv
<1>16. ASSUME Idle, NEW k \in Needed, SpoilSrs(k) PROVE QuietInv'
  <2>1. GatesHold'
    BY <1>16 DEF SpoilSrs, Idle, GatesHold
  <2> QED BY <1>2, <1>16, <2>1 DEF SpoilSrs
<1>17. CASE UNCHANGED vars
  <2>1. GatesHold'
    BY <1>17 DEF vars, recordVars, runVars, QuietInv, GatesHold, Made, KeyMade,
       Derived, Now, ToolIsPinned, SrsReady
  <2> QED BY <1>2, <1>17, <2>1 DEF vars, recordVars, runVars
<1>18. CASE UNCHANGED recordVars /\ (CopyBinary \/ CopyIr)
  BY <1>2, <1>18, QuietCopyBinary, QuietCopyIr DEF CopyBinary, CopyIr, recordVars
<1> QED BY <1>3, <1>4, <1>5, <1>6, <1>7, <1>8, <1>9, <1>10, <1>11, <1>12,
           <1>13, <1>14, <1>15, <1>16, <1>17, <1>18 DEF Next, Script

(* With the tree left alone during runs, the record never names a key pair  *)
(* that was not made from the IR beside it.                                 *)
THEOREM KeysFitIr == ASSUME Quiet PROVE Spec => []RecordedKeysFitIr
<1>1. QuietInv => RecordedKeysFitIr
  BY DEF QuietInv
<1>2. QuietInv /\ [Next]_vars => QuietInv'
  BY QuietStep
<1> QED BY <1>1, <1>2, QuietInit, PTL DEF Spec

(* And what a tag publishes is the IR its commit records, with a .bzkir and *)
(* keys of that IR from the pinned tool and the recorded SRS.               *)
THEOREM TagsPublishTheirCommit ==
  ASSUME Quiet PROVE Spec => []TaggedFilesAreCommitted
<1>1. QuietInv => TaggedFilesAreCommitted
  BY DEF QuietInv
<1>2. QuietInv /\ [Next]_vars => QuietInv'
  BY QuietStep
<1> QED BY <1>1, <1>2, QuietInit, PTL DEF Spec

----------------------------------------------------------------------------
(* What a tag publishes is whole, and its keys are determined by its commit *)
(* where the commit records them.                                           *)
Reproducible ==
  \A p \in releases :
    /\ p.files \in Files
    /\ \A c \in Released :
         /\ p.files.key[c] \in KeyPair /\ p.files.bzkir[c] \in Binary
         /\ p.commit.record.keys[c] # None =>
              p.files.key[c] = p.commit.record.keys[c]

ReproInv == QuietInv /\ GatedKeys /\ Reproducible

(* A release appears only when a run succeeds, past every gate.             *)
LEMMA ReleasesMove ==
  ASSUME QuietInv, [Next]_vars
  PROVE  \/ UNCHANGED releases
         \/ /\ run.step \in {"sums", "record"}
            /\ Succeed
            /\ out'.files = out.files
<1>0. out \in OutType
  BY DEF QuietInv, SafeInv, TypeInv, TypeOK, OutType
<1>1. CASE WriteSums
  <2>1. run.step = "sums" /\ out'.files = out.files
    BY <1>0, <1>1 DEF WriteSums, OutType
  <2> QED BY <1>1, <2>1 DEF WriteSums
<1>2. CASE WriteKeys
  BY <1>2 DEF WriteKeys
<1>3. CASE EmitZkir \/ CheckIr \/ CheckSrs \/ ClearOut \/ Launch \/ Watchdog
           \/ CopyBinary \/ CopyIr \/ CopyTorn \/ CheckKeys \/ Refuse
           \/ KeygenFails \/ Killed
  BY <1>3 DEF EmitZkir, CheckIr, CheckSrs, ClearOut, Launch, Watchdog,
     CopyBinary, CopyIr, CopyTorn, CheckKeys, Refuse, KeygenFails, Killed
<1>4. ASSUME NEW tagged \in BOOLEAN, NEW write \in BOOLEAN,
             NEW dir \in Revision \cup {None}, Start(tagged, write, dir)
      PROVE  UNCHANGED releases
  BY <1>4 DEF Start
<1>5. ASSUME NEW k \in Needed, NEW got \in {"good", "bad"}, FetchSrs(k, got)
      PROVE  UNCHANGED releases
  BY <1>5 DEF FetchSrs
<1>6. ASSUME NEW kept \in SUBSET (Released \cup Lists), ClearSome(kept)
      PROVE  UNCHANGED releases
  BY <1>6 DEF ClearSome
<1>7. ASSUME NEW salt \in Salt, NEW other \in Salt, KeygenDone(salt, other)
      PROVE  UNCHANGED releases
  BY <1>7 DEF KeygenDone
<1>8. ASSUME NEW o \in orphans, NEW salt \in Salt, OrphanWrites(o, salt)
      PROVE  UNCHANGED releases
  BY <1>8 DEF OrphanWrites
<1>9. ASSUME NEW o \in orphans, OrphanDies(o) PROVE UNCHANGED releases
  BY <1>9 DEF OrphanDies
<1>10. ASSUME NEW k \in Needed, SpoilSrs(k) PROVE UNCHANGED releases
  BY <1>10 DEF SpoilSrs
<1>11. CASE Edit /\ UNCHANGED runVars
  BY <1>11 DEF runVars
<1>12. CASE UNCHANGED vars
  BY <1>12 DEF vars, runVars
<1> QED BY <1>1, <1>2, <1>3, <1>4, <1>5, <1>6, <1>7, <1>8, <1>9, <1>10, <1>11,
           <1>12 DEF Next, Script

(* The new release holds the record's keys where it has them: the key gate  *)
(* compared every one of them.                                              *)
LEMMA ReproStep ==
  ASSUME Quiet, ReproInv, [Next]_vars PROVE ReproInv'
<1>1. QuietInv'
  BY QuietStep DEF ReproInv
<1>2. GatedKeys'
  BY StandStep DEF ReproInv, QuietInv, StandInv
<1> SUFFICES Reproducible'
  BY <1>1, <1>2 DEF ReproInv
<1>3. CASE UNCHANGED releases
  BY <1>3 DEF ReproInv, Reproducible
<1>4. CASE run.step \in {"sums", "record"} /\ Succeed /\ out'.files = out.files
  <2> DEFINE new == [commit |-> run.commit, files |-> out'.files]
  <2>1. /\ releases' \subseteq releases \cup {new}
        /\ ~run.tagged => releases' = releases
    BY <1>4 DEF Succeed
  <2>2. ASSUME run.tagged
        PROVE  /\ new.files \in Files
               /\ \A c \in Released :
                    /\ new.files.key[c] \in KeyPair
                    /\ new.files.bzkir[c] \in Binary
                    /\ new.commit.record.keys[c] # None =>
                         new.files.key[c] = new.commit.record.keys[c]
    <3>1. out.files \in Files
      BY DEF ReproInv, QuietInv, SafeInv, TypeInv, TypeOK
    <3>2. run.commit.record = record
      BY <1>4, <2>2 DEF ReproInv, QuietInv, GatesHold
    <3>3. \A c \in Released : Whole(c)
      BY <1>4 DEF ReproInv, QuietInv, SafeInv, TypeInv, Progress
    <3>4. KeyGate
      BY <1>4 DEF ReproInv, GatedKeys
    <3> QED BY <1>4, <3>1, <3>2, <3>3, <3>4 DEF Whole, KeyGate
  <2>3. Reproducible
    BY DEF ReproInv
  <2> HIDE DEF new
  <2> QED BY <2>1, <2>2, <2>3 DEF Reproducible
<1> QED BY <1>3, <1>4, ReleasesMove DEF ReproInv

(* The invariant of every run of a quiet tree.                              *)
LEMMA ReproInit == Init => ReproInv
BY QuietInit, RestTypes DEF ReproInv, GatedKeys, Reproducible, Init

(* Two releases of one commit publish the IR it records.                    *)
LEMMA SameIr ==
  ASSUME ReproInv, NEW p \in releases, NEW q \in releases, p.commit = q.commit
  PROVE  /\ p.files.zkir = q.files.zkir
         /\ \A c \in Released :
              /\ p.files.bzkir[c].ir = q.files.bzkir[c].ir
              /\ p.files.bzkir[c].tool = q.files.bzkir[c].tool
<1>1. p.files \in Files /\ q.files \in Files
  BY DEF ReproInv, Reproducible
<1>2. ASSUME NEW c \in Released
      PROVE  /\ p.files.zkir[c] = q.files.zkir[c]
             /\ p.files.bzkir[c].ir = q.files.bzkir[c].ir
             /\ p.files.bzkir[c].tool = q.files.bzkir[c].tool
  BY DEF ReproInv, QuietInv, TaggedFilesAreCommitted
<1>3. p.files.zkir = q.files.zkir
  BY <1>1, <1>2 DEF Files
<1> QED BY <1>2, <1>3

(* If it records all its keys, the keys they publish are those.             *)
LEMMA SameKeys ==
  ASSUME Reproducible, NEW p \in releases, NEW q \in releases,
         p.commit = q.commit, \A c \in Released : p.commit.record.keys[c] # None
  PROVE  p.files.key = q.files.key
<1>1. p.files \in Files /\ q.files \in Files
  BY DEF Reproducible
<1>2. \A c \in Released : p.files.key[c] = q.files.key[c]
  BY DEF Reproducible
<1> QED BY <1>1, <1>2 DEF Files

(* With the tree left alone during runs, a commit that records its keys has *)
(* one set of .zkir, .prover and .verifier files, and .bzkir files of one   *)
(* IR and tool: not keygen's randomness, nor an SRS directory, nor what     *)
(* killed runs left, makes a second tagged release differ from the first in *)
(* what a gate has compared.                                                *)
THEOREM TagsReproduce == ASSUME Quiet PROVE Spec => []TaggedReleasesReproduce
<1>1. ReproInv /\ [Next]_vars => ReproInv'
  BY ReproStep
<1>2. ReproInv => TaggedReleasesReproduce
  BY SameIr, SameKeys DEF ReproInv, TaggedReleasesReproduce
<1> QED BY <1>1, <1>2, ReproInit, PTL DEF Spec

(* If zkir-v3 is a function of the IR, the tool and the SRS, recorded keys  *)
(* or not, two releases of one commit publish the same in every file.       *)
LEMMA FunctionalTool ==
  ASSUME ReproInv, \A s, t \in Salt : s = t,
         NEW p \in releases, NEW q \in releases, p.commit = q.commit
  PROVE  p.files = q.files
<1>1. p.files \in Files /\ q.files \in Files
  BY DEF ReproInv, Reproducible
<1>2. ASSUME NEW c \in Released PROVE p.files.key[c] = q.files.key[c]
  <2>1. p.files.key[c] \in KeyPair /\ q.files.key[c] \in KeyPair
    BY DEF ReproInv, Reproducible
  <2>2. /\ p.files.key[c].ir = q.files.key[c].ir
        /\ p.files.key[c].tool = q.files.key[c].tool
        /\ p.files.key[c].srs = q.files.key[c].srs
    BY DEF ReproInv, QuietInv, TaggedFilesAreCommitted
  <2>3. p.files.key[c].salt = q.files.key[c].salt
    BY <2>1 DEF KeyPair
  <2> QED BY <2>1, <2>2, <2>3 DEF KeyPair
<1>3. ASSUME NEW c \in Released PROVE p.files.bzkir[c] = q.files.bzkir[c]
  <2>1. p.files.bzkir[c] \in Binary /\ q.files.bzkir[c] \in Binary
    BY DEF ReproInv, Reproducible
  <2>2. p.files.bzkir[c].salt = q.files.bzkir[c].salt
    BY <2>1 DEF Binary
  <2> QED BY <2>1, <2>2, SameIr DEF Binary
<1>4. p.files.key = q.files.key /\ p.files.bzkir = q.files.bzkir
  BY <1>1, <1>2, <1>3 DEF Files
<1> QED BY <1>1, <1>4, SameIr DEF Files

(* So the .bzkir alone is left to keygen: where it is a function, the four  *)
(* files of every circuit, and SHA256SUMS with them, are the commit's.      *)
THEOREM FunctionalToolReproduces ==
  ASSUME Quiet, \A s, t \in Salt : s = t
  PROVE  Spec => [](\A p, q \in releases :
                      p.commit = q.commit => p.files = q.files)
<1>1. ReproInv /\ [Next]_vars => ReproInv'
  BY ReproStep
<1>2. ReproInv => (\A p, q \in releases :
                     p.commit = q.commit => p.files = q.files)
  BY FunctionalTool
<1> QED BY <1>1, <1>2, ReproInit, PTL DEF Spec
=============================================================================
