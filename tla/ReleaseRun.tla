----------------------------- MODULE ReleaseRun -----------------------------
(***************************************************************************)
(* scripts/release-artifacts.sh over a working tree that changes and an    *)
(* output directory that outlives its runs: one run at a time, each of     *)
(* which may fail at any gate or be killed at any step, with `zkir-v3` in  *)
(* a container (which a killed script leaves running).                     *)
(***************************************************************************)
EXTENDS ArtifactRecord

CONSTANTS
  Torn,    \* the content of a file whose writer has not finished
  Quiet,   \* TRUE: the tree and the host stay as they are during a run
  MaxRuns  \* bound: how many runs are started

VARIABLES
  run,      \* the script: its step and what it holds in its shell and $work
  out,      \* the output directory
  params,   \* the SRS directory: k -> SrsStatus
  orphans,  \* containers of killed runs, still keying into out
  releases, \* what tagged runs that reported success have produced
  runs

runVars == <<run, out, params, orphans, releases, runs>>
vars == <<recordVars, runVars>>

Step == {"idle", "emit", "irGate", "srs", "clear", "keygen", "keying",
         "copyBinary", "copyIr", "sums", "record"}

(* The .bzkir that zkir-v3 derives from an IR while it makes the keys, with *)
(* what else may decide its bytes, be it what decides the keys' or not.     *)
Binary == [ir : IR, tool : Tool, salt : Salt]

CommitOf == [source : Source, record : Record]
Run == [step : Step, tagged : BOOLEAN, write : BOOLEAN,
        dir : Revision \cup {None}, commit : CommitOf \cup {None},
        ir : Emitted, at : 1..(Len(ReleaseOrder) + 1),
        tool : Tool \cup {None}, binary : Binary \cup {None}]
NoRun == [step |-> "idle", tagged |-> FALSE, write |-> FALSE, dir |-> None,
          commit |-> None, ir |-> [c \in {} |-> None], at |-> 1,
          tool |-> None, binary |-> None]
Idle == run.step = "idle"

(* A circuit's files: the two the script copies, and `key`, its .prover and *)
(* .verifier, which one command writes in place.                            *)
Files == [zkir : [Released -> IR \cup {None, Torn}],
          bzkir : [Released -> Binary \cup {None, Torn}],
          key : [Released -> KeyPair \cup {None, Torn}]]
Manifest == [tagged : BOOLEAN, commit : CommitOf, files : Files]
Sums == [files : Files, manifest : Manifest \cup {None}]
NoFiles == [zkir |-> [c \in Released |-> None],
            bzkir |-> [c \in Released |-> None],
            key |-> [c \in Released |-> None]]
Lists == {"manifest.json", "SHA256SUMS"}
EmptyOut == [files |-> NoFiles, manifest |-> None, sums |-> None]

Container == [circuit : Released, ir : IR, tool : Tool]

(* The k of fixtures/srs-hashes.json, which has a hash for no other SRS.    *)
Needed == {RecordedK[c] : c \in Released}

Init ==
  /\ RecordInit
  /\ run = NoRun
  /\ out = EmptyOut
  /\ params \in [K -> SrsStatus]
  /\ \A k \in K \ Needed : params[k] # "good"
  /\ orphans = {}
  /\ releases = {}
  /\ runs = 0

----------------------------------------------------------------------------
Goto(step) == run' = [run EXCEPT !.step = step]
Stop == run' = NoRun

Start(tagged, write, dir) ==
  /\ Idle
  /\ runs < MaxRuns
  /\ tagged => TreeIsClean
  /\ ToolIsPinned
  /\ run' = [NoRun EXCEPT !.step = "emit", !.tagged = tagged, !.write = write,
                          !.dir = dir, !.commit = head]
  /\ runs' = runs + 1
  /\ UNCHANGED <<out, params, orphans, releases>>

(* `emit-zkir` on the tree as it is now, or `--zkir-dir`.                   *)
EmitZkir ==
  /\ run.step = "emit"
  /\ run' = [run EXCEPT
       !.step = "irGate", !.dir = None,
       !.ir = Emission[IF run.dir = None THEN source.rev ELSE run.dir]]
  /\ UNCHANGED <<out, params, orphans, releases, runs>>

(* Mutant of IrGate: only the published circuits must be there.             *)
IrPresent == Released \subseteq DOMAIN run.ir

IrGate == run.ir = record.ir /\ Released \subseteq DOMAIN run.ir

CheckIr ==
  /\ run.step = "irGate"
  /\ IrGate
  /\ Goto("srs")
  /\ UNCHANGED <<out, params, orphans, releases, runs>>

SrsReady(k) == params[k] = "good"

(* `gh release download --clobber` or `curl`; a file that does not hash to  *)
(* its record ends the run and stays where it is.                           *)
FetchSrs(k, got) ==
  /\ run.step = "srs"
  /\ ~SrsReady(k)
  /\ params' = [params EXCEPT ![k] = got]
  /\ IF got = "good" THEN UNCHANGED run ELSE Stop
  /\ UNCHANGED <<out, orphans, releases, runs>>

CheckSrs ==
  /\ run.step = "srs"
  /\ \A k \in Needed : SrsReady(k)
  /\ Goto("clear")
  /\ UNCHANGED <<out, params, orphans, releases, runs>>

ClearOut ==
  /\ run.step = "clear"
  /\ out' = EmptyOut
  /\ Goto("keygen")
  /\ UNCHANGED <<params, orphans, releases, runs>>

Left(file, kept) == [c \in Released |-> IF c \in kept THEN file[c] ELSE None]

(* `find -delete` takes the files one by one and is killed among them: of a *)
(* circuit's files all are left here or none, which nothing here tells from *)
(* some.                                                                    *)
ClearSome(kept) ==
  /\ run.step = "clear"
  /\ out' = [
       files |-> [zkir |-> Left(out.files.zkir, kept),
                  bzkir |-> Left(out.files.bzkir, kept),
                  key |-> Left(out.files.key, kept)],
       manifest |-> IF "manifest.json" \in kept THEN out.manifest ELSE None,
       sums |-> IF "SHA256SUMS" \in kept THEN out.sums ELSE None]
  /\ Stop
  /\ UNCHANGED <<params, orphans, releases, runs>>

----------------------------------------------------------------------------
Now == ReleaseOrder[run.at]

(* Mutant of WithoutContainer: a container left of that name is ignored.    *)
EveryContainer(c) == orphans

(* `docker rm -f`, of the name the circuit's container always has.          *)
WithoutContainer(c) == {o \in orphans : o.circuit # c}

Launch ==
  /\ run.step = "keygen"
  /\ run.at \in DOMAIN ReleaseOrder
  /\ orphans' = WithoutContainer(Now)
  /\ out' = [out EXCEPT !.files.key[Now] = Torn]
  /\ run' = [run EXCEPT !.step = "keying", !.tool = installed]
  /\ UNCHANGED <<params, releases, runs>>

(* What zkir-v3 writes: it takes the SRS of the k the IR really has.        *)
Keyed(ir, tool, salt) ==
  [ir |-> ir, tool |-> tool, srs |-> params[KOf[ir]], salt |-> salt]

KAsRecorded(c) == KOf[run.ir[c]] = RecordedK[c]

(* It has made the keys and, in the run's scratch directory, the .bzkir;    *)
(* the k it announces is read only now.                                     *)
KeygenDone(salt, other) ==
  /\ run.step = "keying"
  /\ params[KOf[run.ir[Now]]] # "absent"
  /\ out' = [out EXCEPT !.files.key[Now] = Keyed(run.ir[Now], run.tool, salt)]
  /\ IF KAsRecorded(Now)
     THEN run' = [run EXCEPT
            !.step = "copyBinary",
            !.binary = [ir |-> run.ir[Now], tool |-> run.tool, salt |-> other]]
     ELSE Stop
  /\ UNCHANGED <<params, orphans, releases, runs>>

CopyBinary ==
  /\ run.step = "copyBinary"
  /\ out' = [out EXCEPT !.files.bzkir[Now] = run.binary]
  /\ Goto("copyIr")
  /\ UNCHANGED <<params, orphans, releases, runs>>

CopyIr ==
  /\ run.step = "copyIr"
  /\ out' = [out EXCEPT !.files.zkir[Now] = run.ir[Now]]
  /\ run' = [run EXCEPT !.step = "keygen", !.at = @ + 1]
  /\ UNCHANGED <<params, orphans, releases, runs>>

(* A `cp` that is killed or fails, for want of space for one, in the middle. *)
CopyTorn ==
  /\ \/ /\ run.step = "copyBinary"
        /\ out' = [out EXCEPT !.files.bzkir[Now] = Torn]
     \/ /\ run.step = "copyIr"
        /\ out' = [out EXCEPT !.files.zkir[Now] = Torn]
  /\ Stop
  /\ UNCHANGED <<params, orphans, releases, runs>>

(* zkir-v3 exits with an error, out of memory for one, or has left no       *)
(* .bzkir.                                                                  *)
KeygenFails ==
  /\ run.step \in {"keying", "copyBinary"}
  /\ Stop
  /\ UNCHANGED <<out, params, orphans, releases, runs>>

(* Mutant of TimeIsUp: there is no watchdog.                                *)
NeverUp == FALSE

TimeIsUp == run.step = "keying"

(* The watchdog's `docker kill` after timeout_seconds.                      *)
Watchdog ==
  /\ TimeIsUp
  /\ Stop
  /\ UNCHANGED <<out, params, orphans, releases, runs>>

----------------------------------------------------------------------------
Keygenned ==
  run.step = "keygen" /\ run.at \notin DOMAIN ReleaseOrder

(* Mutant of KeyGate: what was made is what is published.                   *)
NoKeyGate == TRUE

KeyGate ==
  \A c \in Released :
    record.keys[c] # None => out.files.key[c] = record.keys[c]

CheckKeys ==
  /\ Keygenned
  /\ KeyGate
  /\ out' = [out EXCEPT
       !.manifest = [tagged |-> run.tagged, commit |-> run.commit,
                     files |-> out.files]]
  /\ Goto("sums")
  /\ UNCHANGED <<params, orphans, releases, runs>>

Succeed ==
  /\ Stop
  /\ releases' = IF run.tagged
                 THEN releases \cup {[commit |-> run.commit, files |-> out.files]}
                 ELSE releases

WriteSums ==
  /\ run.step = "sums"
  /\ out' = [out EXCEPT
       !.sums = [files |-> out.files, manifest |-> out.manifest]]
  /\ IF run.write THEN Goto("record") /\ UNCHANGED releases ELSE Succeed
  /\ UNCHANGED <<params, orphans, runs>>

(* Mutant of MadeKeys: the IR's hash is recorded as the key's.              *)
MadeIr == out.files.zkir

MadeKeys == out.files.key

(* `--write-keys`: the record is read again, and keeps the IR it now has.   *)
WriteKeys ==
  /\ run.step = "record"
  /\ Released \subseteq DOMAIN record.ir
  /\ record' = [record EXCEPT !.keys = MadeKeys]
  /\ Succeed
  /\ UNCHANGED <<source, head, installed, edits, out, params, orphans, runs>>

(* A gate's `exit`: 1 for the IR, 75 for the SRS, 97 for a file the script  *)
(* does not know (which are no part of `out`), 74 for the keys; and the     *)
(* KeyError of a circuit the record no longer has.                          *)
Refuse ==
  /\ \/ run.step = "irGate" /\ ~IrGate
     \/ run.step = "srs" /\ \E k \in Needed : ~SrsReady(k)
     \/ run.step = "clear"
     \/ Keygenned /\ ~KeyGate
     \/ run.step = "record" /\ ~(Released \subseteq DOMAIN record.ir)
  /\ Stop
  /\ UNCHANGED <<out, params, orphans, releases, runs>>

(* SIGKILL, or the host gives out: no trap runs, the container lives on.    *)
Killed ==
  /\ ~Idle
  /\ orphans' = IF run.step = "keying"
                THEN orphans \cup {[circuit |-> Now, ir |-> run.ir[Now],
                                    tool |-> run.tool]}
                ELSE orphans
  /\ Stop
  /\ UNCHANGED <<out, params, releases, runs>>

(* It keys into the output directory; its .bzkir stays in the scratch       *)
(* directory of the run that is gone.                                       *)
OrphanWrites(o, salt) ==
  /\ params[KOf[o.ir]] # "absent"
  /\ out' = [out EXCEPT !.files.key[o.circuit] = Keyed(o.ir, o.tool, salt)]
  /\ orphans' = orphans \ {o}
  /\ UNCHANGED <<run, params, releases, runs>>

OrphanDies(o) ==
  /\ orphans' = orphans \ {o}
  /\ UNCHANGED <<run, out, params, releases, runs>>

(* An SRS file is lost, or replaced under the same name.                    *)
SpoilSrs(k) ==
  /\ edits < MaxEdits
  /\ edits' = edits + 1
  /\ \E status \in {"absent", "bad"} : params' = [params EXCEPT ![k] = status]
  /\ UNCHANGED <<source, record, head, installed, run, out, orphans, releases,
                 runs>>

Script ==
  \/ EmitZkir \/ CheckIr \/ CheckSrs \/ ClearOut
  \/ Launch \/ Watchdog \/ CopyBinary \/ CopyIr
  \/ CheckKeys \/ WriteSums \/ Refuse

Next ==
  \/ /\ UNCHANGED recordVars
     /\ \/ \E tagged, write \in BOOLEAN, dir \in Revision \cup {None} :
             Start(tagged, write, dir)
        \/ Script
        \/ \E k \in Needed, got \in {"good", "bad"} : FetchSrs(k, got)
        \/ \E kept \in SUBSET (Released \cup Lists) : ClearSome(kept)
        \/ \E salt, other \in Salt : KeygenDone(salt, other)
        \/ CopyTorn
        \/ KeygenFails
        \/ Killed
        \/ \E o \in orphans, salt \in Salt : OrphanWrites(o, salt)
        \/ \E o \in orphans : OrphanDies(o)
  \/ WriteKeys
  \/ (Quiet => Idle) /\ Edit /\ UNCHANGED runVars
  \/ \E k \in Needed : (Quiet => Idle) /\ SpoilSrs(k)

Spec == Init /\ [][Next]_vars

(* A running script goes on: its steps need nobody, except the network for  *)
(* FetchSrs and zkir-v3 for KeygenDone, which may never answer.             *)
FairSpec ==
  Spec /\ WF_vars(Script /\ UNCHANGED recordVars) /\ WF_vars(WriteKeys)

----------------------------------------------------------------------------
(* The types of the tree, the record, the run and the output directory.     *)
TypeOK ==
  /\ source \in Source
  /\ record \in Record
  /\ head \in CommitOf
  /\ installed \in Tool
  /\ run \in Run
  /\ out \in [files : Files, manifest : Manifest \cup {None},
             sums : Sums \cup {None}]
  /\ params \in [K -> SrsStatus]
  /\ orphans \subseteq Container

(* While there is a SHA256SUMS, whatever it lists and is there is as it     *)
(* lists it, whatever runs failed or were killed since: step 4 clears what  *)
(* an earlier run left, SHA256SUMS is written last, and a container that    *)
(* outlived its script is removed before its circuit is keyed again.        *)
SumsDescribeFiles ==
  out.sums # None =>
    /\ \A c \in Released :
         /\ out.files.zkir[c] \in {None, out.sums.files.zkir[c]}
         /\ out.files.bzkir[c] \in {None, out.sums.files.bzkir[c]}
         /\ out.files.key[c] \in {None, out.sums.files.key[c]}
    /\ out.manifest \in {None, out.sums.manifest}

(* "Silently keeping a key hash next to IR that no longer produces it is    *)
(* the one way this file could lie" (check-port-artifacts.sh): a recorded   *)
(* key pair was made from the recorded IR.                                  *)
RecordedKeysFitIr ==
  \A c \in Released :
    record.keys[c] # None =>
      c \in DOMAIN record.ir /\ record.keys[c].ir = record.ir[c]

(* A published key hash never moves while its IR stands: a re-record        *)
(* carries it and a release that makes another key records nothing.         *)
RecordedKeysStand ==
  [][\A c \in Released :
       record.keys[c] # None /\ IrUnmoved(c, record'.ir) =>
         record'.keys[c] = record.keys[c]]_vars

(* Two tagged runs of one commit publish the same .zkir and the same keys   *)
(* once its keys are recorded, whatever SRS directory, emission or leavings *)
(* each started from and whether or not keygen is a function (release-      *)
(* artifacts.sh, "reproducible rather than merely repeatable").  Of the     *)
(* .bzkir, which no gate compares, only the IR and the tool are the same.   *)
TaggedReleasesReproduce ==
  \A p, q \in releases :
    p.commit = q.commit /\ (\A c \in Released : p.commit.record.keys[c] # None)
      => /\ p.files.zkir = q.files.zkir
         /\ p.files.key = q.files.key
         /\ \A c \in Released :
              /\ p.files.bzkir[c].ir = q.files.bzkir[c].ir
              /\ p.files.bzkir[c].tool = q.files.bzkir[c].tool

(* What a tag publishes is what its commit records: the recorded IR, and a  *)
(* .bzkir and keys of that IR from the pinned tool, the keys with the       *)
(* recorded SRS and k.                                                      *)
TaggedFilesAreCommitted ==
  \A p \in releases, c \in Released :
    LET ir == p.commit.record.ir[c]
        key == p.files.key[c]
        binary == p.files.bzkir[c]
    IN /\ p.files.zkir[c] = ir
       /\ binary.ir = ir
       /\ binary.tool = p.commit.source.tool
       /\ key.ir = ir
       /\ key.tool = p.commit.source.tool
       /\ key.srs = "good"
       /\ KOf[ir] = RecordedK[c]

(* Keygen, once begun, is not waited for forever: the run ends, by success, *)
(* failure or watchdog.                                                     *)
KeygenEnds ==
  run.step \in {"keygen", "keying", "copyBinary", "copyIr"} ~> Idle

(* "the `zkir-v3` that produced every key hash under `circuits`": what the  *)
(* record says of its own toolchain block.                                  *)
RecordedToolMadeKeys ==
  \A c \in Released :
    record.keys[c] # None => record.keys[c].tool = record.tool
=============================================================================
