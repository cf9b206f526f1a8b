# The account manager and its port, in TLA+

This directory models the account-abstraction manager that `manager-port/`
builds as zero-knowledge circuits: a Midnight contract that registers native
and EVM accounts, holds shielded and unshielded tokens for them, and lets an
EVM owner act by signing EIP-712 digests. A second group of modules models the life
of a call: proved off chain against one ledger, applied to a later one. A third
models the tools around the circuits: the scripts that turn them into a release,
the loop that derives a call's transcript, the proving harness. TLC checks the
models on small instances; TLAPS proves the main properties for every instance.

## 1. Inventory

| part | state | operations | interacts with |
|---|---|---|---|
| action envelope (`action_envelope.rs`) | none | `Selectors::of`, `assertActionEnvelope` | `execute` runs it first |
| EIP-712 (`eip712.rs`, `byte_codec.rs`) | none; reads `deploymentDomain` | account id, domain separator, seven struct hashes, digest | `execute` verifies a signature over the digest |
| account registry (`account_registry.rs`) | slots 0-3: `accounts`, `accountModes`, `evmOwners`, `evmNonces` | `registerAccount`, `gatewayAccount` with its two authorisation arms, readers `isRegistered`, `accountRecord` | `execute` writes it; custody is passed two membership facts |
| custody (`custody.rs`, `shielded_custody.rs`, `unshielded_custody.rs`, `zswap_primitives.rs`) | slots 4-6: `pools`, `shieldedBalances`, `unshieldedBalances` | `custodyDispatch` (five selectors), `depositShielded`, `depositUnshielded`, four readers | claims and creates coins on the chain, moves the contract's unshielded balance |
| execute (`execute.rs`, `ledger.rs`, `lib.rs`) | all eight slots | one entry point for selectors 0-6 | everything above, block time, the signature |
| differential test support (`manager-port/tests/support`) | a ledger pre-state, a growing transcript | `synthesize`, `run` in verify mode, post-state readers | proves and replays calls |
| artifact record (`check-port-artifacts.sh`, `toolchain.sh`, `fixtures/`) | the tree's source and pin, recorded IR and key hashes, toolchain block | `--write`, pin check | read and written by release runs |
| release run (`release-artifacts.sh`, `bin/emit_zkir.rs`) | output directory, SRS directory, containers | emit, IR gate, SRS, clear, keygen, key gate, manifest, SHA256SUMS, `--write-keys` | files that outlive a run, a host where keygen hangs or goes on |
| single keygen (`keygen-zkir.sh`, `free-port.sh`) | per arm: an output directory, a staged IR, a container known by name; per run: a watchdog and its flag | guard, stage, log, `docker run`, watchdog, the exit trap | runs of one arm share all that is the arm's |
| proving benchmark (`prove-bench/`) | the raw CSV, cells of times by arm and scenario, a count of unverified proofs | `check`, `bench`, `solo`; its own `synthesize` | reads both artifacts, calls upstream's prover and verifier |
| `checks.rs`, `disclosures.rs`, `hello.rs`, CI, report scripts | none | plumbing, formatting | |

What is hard in it:

* **Many owners, one muxed entry point.** Every call carries the same sixteen
  fields, and one copy of each debit, credit and pool write serves five
  actions. A wrong selector set moves value between families or accounts.
* **Signatures outlive calls.** A signed payload can be submitted by anyone, at
  any time until its deadline, more than once, next to any other call. The
  nonce, the deadline and the envelope together decide what it can still do.
* **A record in four maps, a coin in two places.** Registry records span four
  maps written by different statements; each shielded colour has a pool entry
  and an on-chain coin that must move together in six different shapes.
* **Circuits, not programs.** A circuit runs the arithmetic of every branch and
  guards only effects and asserts. A proof is made against one ledger and
  applied to a later one: the values it stores were computed from the answers it
  recorded, and only those answers are compared again.
* **Loops that learn from messages.** A transcript is grown from what the
  reference says about the last attempt, through a number printed in
  hexadecimal.
* **Hours of measurement.** A benchmark may be killed at any proof; what it has
  written by then must agree with what it has counted.
* **Boundaries.** `Uint<64>` nonces and deadlines, `Uint<128>` balances and
  merged coins.
* **Shell pipelines.** A release run takes minutes, reads the same record three
  times, writes its keys before it judges them, and can be killed anywhere with
  a container still writing. Its record is kept by a second script, over a
  history of edits, bumps, reverts and re-records.

PROJECT.json lists each of these at its line, with the properties that would
catch it going wrong, or the reason why none does yet.

## 2. Modules

    ActionEnvelope <- Eip712 <- SignedPayload <- SignedPayloadProofs
          ^                          ^
    AccountRegistry <- Custody       MCSignedPayload
                          ^
                       Manager (+ Eip712)  --INSTANCE-->  CustodyPromise
                        ^    ^
                 MCManager   CustodyProofs <- PromiseProofs

                       Manager <- CallTranscript <- ProvedCalls <- MCProvedCalls
                                                         ^
                              CustodyProofs <- ProvedCallsProofs

    ArtifactRecord <- ReleaseRun <- MCReleaseRun
                           ^
                      ReleaseProofs

    TranscriptSynth <- SynthProofs

    ProvingBench <- MCProvingBench        SingleKeygen <- MCSingleKeygen
          ^                                     ^
      BenchProofs                          KeygenProofs

* **ActionEnvelope** has the payload as a record whose field types are the
  circuit's input constraints, one shape per selector, and
  `AssertActionEnvelope`. Words are opaque; `Zero` is the all-zero word, which
  is also a legal colour, as in the code.
* **Eip712** has the four preimages as tuples. Keccak is a free constructor:
  equal digests have equal preimages.
* **SignedPayload** is a submitter at work: it starts from a payload an owner
  signed and replaces fields, `MaxEdits` of them at most.
* **AccountRegistry** has the four maps as functions whose domain is their key
  set, the registration and both arms of `authenticatedActionAccount`. Account
  ids come from two injective operators that never meet, which is what the
  hash and the domain-separated commitment are used for
  (`HashAssumption`).
* **Custody** has the balances as functions of account and colour (the code
  stores them under a hash of account, colour and a family tag; a missing cell
  reads 0 there and is 0 here) and the pools. Three variables stand for what
  the chain keeps for the contract: `coins`, its unspent shielded coins;
  `nextIndex`, the leaf the next coin gets; `unshieldedHeld`. They are external
  and move as the code's kernel calls move them: a claimed nullifier takes a
  coin away, an inserted coin adds one. `CustodyDispatch` has the guards in
  source order, then the give leg, the debit, the want leg and the credit,
  which reads what the debit wrote.
* **Manager** composes them. `Execute(p, sk, pk)` is the whole of `execute`
  for payload `p`, witness secret `sk` and public key `pk`: registrations are
  `ExecuteRegistration`, custody actions `ExecuteAction`. `Signed` is the
  set of (address, digest) pairs that exist; a signature verifies when its pair
  is in it. A call that fails an assert changes nothing and is not a step.
  `Deposit` is the two deposit circuits, `Tick` the chain's clock.
* **CustodyPromise** is the abstract specification: members, their claims, a
  vault, and five steps. `Manager!Promise` maps accounts to members, a
  (family, colour) pair to a token, balances to claims, pooled coins and the
  unshielded balance to the vault.

* **CallTranscript** has one call as its proof carries it. A read is a query
  (`Member`, `Lookup`, the kernel's two comparisons); `ExecuteReads` and
  `DepositReads` say which queries a call makes, and a lookup is made only where
  the member answered yes. `CircuitAccepts` and `DepositAccepts` are the
  circuits' statements over the recorded answers alone, with every range check
  that binds whatever branch is taken (`ArithmeticFits`); a read whose guard is
  off yields the type's default. `ExecuteWrites` and `DepositWrites` store what
  was computed from those answers. Nothing is taken from `Manager`'s guards: the
  circuit is translated a second time, from the side of the prover. `cells` says
  which balance cells exist, because the transcript tells a cell that was never
  written from one that holds 0.
* **ProvedCalls** has the chain. `Prove` records the answers of the ledger as it
  stands and puts the call into `pending`; `Apply` takes any call out of it
  whose recorded answers still hold (`Matches`) and does its writes, all or
  nothing; `Drop` is a call that is refused or given up; `Pass` is the clock.
  A call that is applied leaves `pending`: that one proof is not applied twice
  is the chain's promise for native calls, and the nonce's for EVM calls, which
  can be proved again here as often as anyone likes.
* **TranscriptSynth** has the fixpoint loop of both `synth.rs` copies. The state
  is the transcript, the iteration and the verdict; the reference is what a
  scenario makes it compute (`computed`), where it refuses, and whether it has
  answers left over. `FrDebug` and `FrFromDebug` are the trip of a value through
  the message, written as recursive functions over the bytes. Any differing
  element may be the one reported.
* **ProvingBench** has the three commands of the harness step by step: the
  accept gate, the shared preimages, the raw file, the warmups, the interleaved
  matrix, the summary and the exit code. A time is represented by the attempt it
  was measured on: `bench` puts it into `cells`, by arm and scenario, and `solo`
  into the flat `all`, as the code does. `Attempts` is the order of the three
  nested loops, in turns of one scenario. Prover, verifier and artifact
  acceptance are free choices.
* **SingleKeygen** has `keygen-zkir.sh`: the script's steps per run, its
  watchdog as a process of its own, containers by arm, SIGKILL of the script at
  any step, and directories removed by hand between runs. `AtOnce` bounds how
  many runs of one arm are under way together; runs of other arms are free.

* **ArtifactRecord** has the working tree: `source` is the crate's revision and
  the zkir-v3 it pins, `record` the JSON fixture, `head` the last commit of
  both, `installed` the zkir-v3 of the host. A hash stands for the file: an IR
  is a value, and a key pair is the record of what it was made from (IR, tool,
  SRS, and `salt`, whatever else keygen may depend on). `Emission` says which
  circuits a revision emits and what. `ReRecord` is `--write`; the other edits
  are a developer's.
* **ReleaseRun** is `release-artifacts.sh` step by step, on the Docker path. `run`
  is what the script holds in its shell and its scratch directory; `out` the
  output directory, `params` the SRS directory, `orphans` the containers that
  outlived a killed script. A circuit has three files here: `key`, which is
  `.prover` and `.verifier`, written in place by one command; `bzkir`, which the
  same command derives from the IR and leaves in the scratch directory; and
  `zkir`, the IR as emitted. `Launch` removes a container of its circuit's name
  and tears the key file; `KeygenDone` completes it, leaves a `.bzkir` (`Binary`,
  with a salt of its own) and compares k; `CopyBinary` and `CopyIr` are the two
  `cp`. `Watchdog`, `KeygenFails` and `CopyTorn`, a `cp` that fails or is killed
  in the middle, end the run; `Killed` and `ClearSome` are SIGKILL. A
  container that is no longer waited for may still write its keys
  (`OrphanWrites`), and its `.bzkir` where nobody looks.
  `releases` is a history variable: what tagged runs that reported success have
  produced.

Operators whose comment begins "Mutant of" are faulty variants of the
definition below them, one for each property: TLC reports the property as
violated when the variant takes the definition's place.

## 3. What the runs check

| run | instance | states | properties |
|---|---|---|---|
| `signed_payload` | every action an EVM owner can sign, three fields edited | 30,384 | `SignatureCoversPayload` |
| `evm` | two EVM owners, one native user, one unshielded colour | 2,753 | `TypeOK`, `RegistryCoherent`, `IdentityBinds`, `RecordAuthorises`, `UnshieldedBacked`, `RegistrationIsPermanent`, `DebitConsumesNonce`, `DebitsAreConsented` |
| `shielded` | two native users, two shielded colours | 7,244 | `PoolIsItsCoins`, `ShieldedBacked`, `OnlyRegisteredHold`, `PromiseKept` |
| `release_killed` | two published circuits, three runs, a tree that changes under them, fair | 1,225,772 | `SumsDescribeFiles`, `KeygenEnds` |
| `release_record` | one published circuit, three revisions, two tools, two salts, two runs, quiet tree | 2,810,444 up to salts | `TypeOK`, `RecordedKeysFitIr`, `TaggedReleasesReproduce`, `TaggedFilesAreCommitted`, `RecordedKeysStand` |
| `release_tool` | a toolchain bump and a re-record | violated | `RecordedToolMadeKeys` |
| `release_overlap` | a re-record during a run | violated | `RecordedKeysFitIr` |
| `proved_evm` | two EVM owners, unshielded payments and withdrawals, two calls waiting | 37,700 | `EveryCallProvable`, `FundsStandBehindCell`, `AppliedAsExecuted` |
| `proved_native` | two native users, both families and a swap, two calls waiting | 67,992 | `CallsTypeOK`, `EveryCallProvable`, `ShieldedBacked`, `UnshieldedBacked`, `AppliedAsExecuted` |
| `transcript_synth` | both loops, every transcript of up to three of five values | 10,908 | `Verdict`, `PartialIsReference`, `EveryPassSettles` |
| `bench` | three commands, two artifacts, two scenarios, two runs | 230,344 | `CountedIsSound`, `RawFileComplete`, `EarlierKept`, `ArmsAbreast`, `Delivered`, `GatePassed` |
| `keygen_alone` | three runs of one arm, one at a time, fair | 74,618 | `LogNamesKeyedIr`, `ResultStands`, `ContainersEnd` |

* `SignatureCoversPayload`: a digest covers at most 14 words, yet envelope and
  digest together pin all 16 fields.
* `RegistryCoherent`, `RecordAuthorises`: no call sequence reaches a record
  that the code's own asserts refuse, and a wallet that signs for what
  `accountRecord` shows is never refused for its identity.
* `IdentityBinds`, `RegistrationIsPermanent`: nobody can take an id that is not
  theirs, or restart a nonce.
* `DebitConsumesNonce`, `DebitsAreConsented`: an EVM account loses value only
  by what its owner signed, for that nonce, within the deadline's hour, and
  only as much and to whom it says; once.
* `PoolIsItsCoins`, `ShieldedBacked`, `UnshieldedBacked`: pool entries are the
  unspent coins, and what accounts are owed in a colour is what is held in it,
  so the pool guards behind the account guard never refuse a covered payment.
* `OnlyRegisteredHold`: no credit waits for whoever registers its id.
* `PromiseKept`: the contract implements `CustodyPromise`.
* `SumsDescribeFiles`: whatever runs failed or were killed since, a SHA256SUMS in
  the output directory describes what lies beside it. Clearing first, writing
  SHA256SUMS last and removing containers by name are all needed for it.
* `RecordedKeysFitIr`, `RecordedKeysStand`: the record never names a key of
  another IR, and never drops or moves a published key whose IR stands.
* `TaggedReleasesReproduce`: two tagged runs of a commit that records its keys
  publish the same `.zkir`, `.prover` and `.verifier` files even when keygen is
  not a function. Of the `.bzkir`, which no gate compares, it claims only that
  both are of one IR and from one tool.
* `TaggedFilesAreCommitted`: a tag publishes the IR its commit records, with a
  `.bzkir` and keys of that IR from the pinned tool, the keys with the recorded
  SRS and the recorded k.
* `KeygenEnds`: a run that has begun to key ends, however long zkir-v3 hangs.
* `AppliedAsExecuted`: the refinement of `Manager` by `ProvedCalls`. A call
  applied late does what `execute` would do whole at that moment; one read too
  few among the compared answers and a deposit that landed in between would be
  overwritten by a balance computed before it.
* `EveryCallProvable`: the other direction, for a call proved and applied at
  once. `Allowed` and `DepositAllowed` say what the contract's own asserts and
  sums ask of a call; no range check on a branch that is not taken makes a call
  unprovable that they accept. `safeGive` is needed for it.
* `FundsStandBehindCell`: a waiting unshielded withdrawal whose own balance cell
  has not changed is never refused for the contract's funds, whatever other
  accounts have drawn meanwhile.
* `Verdict`, `EveryPassSettles`, `PartialIsReference`: every pass that does not
  end the loop settles an element and disturbs none, so a scenario that the
  reference accepts is accepted, unless its transcript is as long as the number
  of passes; what is left of a refused one is what the reference computed. Of
  the loop in `tests/support`, the branch that cuts a transcript that was not
  used up is never taken: the padding reaches only up to an element that the
  reference has computed. `LengthReport` keeps the branch.
* `CountedIsSound`, `RawFileComplete`: a time that counts belongs to a verified
  proof of that arm and scenario with its row on disk, and every finished
  attempt has its row, in order, wherever the process was killed.
* `EarlierKept`, `ArmsAbreast`, `Delivered`, `GatePassed`: a refused preimage
  costs no earlier file; neither arm is ever two proofs ahead of the other in a
  scenario; `solo` and `check` succeed only if nothing is missing, though each
  compares a single count with a total.
* `LogNamesKeyedIr`, `ResultStands`, `ContainersEnd`: the keys are those of the
  IR whose hash the log shows; keys that were reported are not disturbed by a
  later run or by what a killed one left behind; no container keys for ever,
  since the watchdog outlives a script that is killed.

The two violated runs are disagreements between the scripts and what they say
of themselves.

* `release_tool`: the record calls its toolchain block "the `zkir-v3` that
  produced every key hash under `circuits`". A bump of the pin followed by
  `--write` with the probe stamps the new tool and carries the old tool's key
  hashes; nothing compares the two. The next release's key gate notices only if
  the new tool's bytes differ.
* `release_overlap`: step 7 reads the record again and writes the keys beside
  whatever IR hash it finds there. A `--write` of a changed circuit during the
  minutes of keygen therefore leaves the old IR's keys beside the new IR's
  hash, and drops the recorded keys that would have made the key gate refuse.
  The theorem `KeysFitIr` says that it takes a change during a run.

Four more places where the repository says one thing and does another came up
while modelling. No run of the project shows them: in the first two there is no
action that could make the statement true, the third needs an instance that
the property excludes, and the fourth a tool that nobody has seen.

* `prove-bench/src/main.rs:294` says of the statement vectors that "the two are
  compared". `bench` writes their lengths (lines 595 and 694) and compares
  nothing: arms that prove different statements end like arms that agree.
* `prove-bench/src/main.rs:384` says of the embedded verifier parameters that
  "we fall back to the arm's own k-specific SRS and RECORD which one was used".
  `build_arm` always takes the embedded set. A good proof that it does not cover
  is a proof that does not verify: in `ProvingBench`, `VerifierParams`.
* `scripts/keygen-zkir.sh:17` says that "a previous result is never silently
  overwritten". The guard (line 64) and `mkdir -p` (line 76) are two commands.
  With `AtOnce = 2` two runs of one arm pass the guard together and
  `ResultStands` fails, as TLC reports on that instance; `keygen_alone` and
  `KeygenProofs` have `AtOnce = 1`, which is what the property needs.
* `scripts/release-artifacts.sh:66-72` says that two runs of one commit "produce
  byte-identical `manifest.json` and `SHA256SUMS`", and lines 58-60 that the key
  gate makes a release "reproducible rather than merely repeatable". Both files
  list the `.bzkir`; the IR gate compares the `.zkir` (lines 247-269) and the key
  gate the two keys (lines 520-527). If zkir-v3 wrote another `.bzkir` with the
  same keys, every gate would pass and both files would differ. So the sentence
  rests on the tool for the `.bzkir` and on the gates for the rest, which is how
  the theorems `TagsReproduce` and `FunctionalToolReproduces` divide it.

**Bounds.** `MaxUint64` is 1 to 4, `MaxUint128` 1 to 3, `LiveHorizon` 2 instead
of 3600. They are small so that the last nonce, a full balance, a merged coin
that does not fit, a deadline too far ahead and an expired one all occur:
with `MaxUint64 = 4` an account spends its nonces to the last one. `MaxIndex`
bounds how many coins are ever created; six lets a pool be filled, merged,
spent to nothing and filled again. Amounts 1 and 2 against balances up to 3
give exact payment, change, and refusal. In `evm`, Eve also submits a
registration of Bob's id and payments from Bob's account under her own name,
Bob has signed no payment of 2, and has signed his payments of 1 only for the
far deadline.

`MaxPending` is two: for the ledger to move under a waiting call one other call
is enough, and the second lets two calls wait for the same cell or coin and
overtake each other. `proved_evm` has `MaxIndex = 0`, since it has no shielded
token; two coins, the bound of `proved_native`, are a deposit and its change or
its merge, after which every waiting call that read the pool is stale.

`transcript_synth` has three passes for transcripts of up to three elements, so
that giving up occurs; a byte has two values and an element five, so that an
element takes up to three bytes and not every three bytes are an element.
`bench` has two of each thing that is iterated over, the smallest instance in
which the order of the loops shows. `keygen_alone` has three runs, for a killed
one, one that meets its leavings and one that comes after both, and `MaxRemove`
of two removals between them.

In the release runs `MaxRuns` bounds the runs and `MaxEdits` the changes of
tree and host together. Two runs are what it takes to compare two releases or
to find the leavings of a killed run, three to find leavings of leavings. Three
edits are a source edit, a re-record and a commit, or a bump, an installation
and a re-record; the initial states already hold every revision, either pinned
tool, and a record with and without keys. Two salts, which are symmetric, let
keygen give two answers, one for the keys and one for the `.bzkir`. The
published circuits stand beside `hello`, which is gated and not published, as in
the repository, and one revision outgrows its recorded k: the SRS of that k, for
which the fixture has no hash, is absent or there unverified. `Quiet = TRUE` means that tree and host stay as they are while a
run is under way; the scripts assume it and do not check it, which is why
`release_overlap` runs without.

**Deadlock** checking is off in the manager's runs: with the clock at its bound
and the tree full, an instance really stops; in the release and keygen runs,
which stop when their runs and edits are used up; and in the synthesiser's and
the harness', which end. **Fairness**: none is assumed of the
contract and no liveness is claimed; it acts only when called, and nothing
obliges anybody to call it. `FairSpec` assumes weak fairness of the script's own
steps and of its watchdog: a shell that is not killed goes on to its next
command. It assumes none of `FetchSrs`, since the network may never answer, and
none of `KeygenDone`, since zkir-v3 may hang; that is why `KeygenEnds` begins
with keygen and rests on the watchdog. `SingleKeygen!FairSpec` is the same for
`keygen-zkir.sh`: fair steps of a script that is not killed, and a watchdog
whose sleep ends; none for `ContainerEnds`.

## 4. What is proved

All for every value of the constants that satisfies the named assumptions:
`WordAssumption` and `WidthAssumption` (the zero word is a word, colours are
words, the widths are positive), `FiniteAssumption` (thirty-two bytes have
finitely many values, so there are finitely many accounts and their balances
have a sum), `HashAssumption`, `PayloadAssumption`
(payloads are well-typed), `TokenAssumption`, `HorizonAssumption`,
`SignedAssumption`; for the release modules `ReleaseAssumption` (the published
circuits are distinct, an emission maps names to IR) and `NoneAssumption`; for
the proved calls `PendingAssumption`, which no proof uses; for the tools
`KeygenAssumption` (finitely many runs; a directory's contents are told apart),
`BenchAssumption` (at least one scenario is requested, names may repeat, the arms
have different names) and `SynthAssumption` (a field of at least one element, a
byte of at least two values).

* **SignedPayloadProofs.** One lemma per signable action shows that preimage
  and shape fix every field, and `ActionsApart` that the type hash tells the
  actions apart. `DigestDeterminesPayload` follows, and from it
  `SignatureBinds`.
* **CustodyProofs**, the registry. The invariant is `RegistryInv`: types,
  coherence, `IdentityBinds` and the clock's type. Coherence is what makes a record that
  is in EVM mode complete (its owner and its nonce are there), so that
  `RecordAuthorises` follows of any record an action acts on, a nonce write
  always moves an existing nonce, and a native action, whose record is in
  native mode, never touches one.
* **CustodyProofs**, custody. `CustodyInv` adds the balances' types, `PoolOK` (the pool
  as a value: its coins are its entries, each positive and of the colour's
  width) and `OnlyRegisteredHold`. `PoolOK` is proved of each pool step alone
  (`SpendThenInsert`, `SpendThenRemove`, `FirstInsert`), then of the give and
  the receive, then of a whole call, whose want leg starts from the pool that
  the give leg leaves. The second half is about sums. `Owed` is the library's
  fold, a recursive function over the sets of accounts. `SumsExist` shows that
  its equation has a solution, and `SetInduction` is the induction over sets of
  accounts, each by way of a counterexample of least cardinality, because an
  induction theorem over operators cannot be instantiated here. `OwedBounds`
  (no cell exceeds the sum) and `OwedMoves` (the sum moves by what two cells
  move) follow, and with the effects already proved (`DispatchBalances`,
  `DispatchPools`, `HeldType`) `Backed` is inductive: `ShieldedStaysBacked`,
  `UnshieldedStaysBacked`. `PaymentsAreCovered` draws the consequence: no guard
  on the pool or on the kernel's balance refuses what the account's own balance
  allows.
* **PromiseProofs.** `ActionMoves` reduces a call to its effect on claims and
  vault, cell by cell; `ActionKeepsPromise` matches it with an abstract step.
  `ManagerKeepsPromise == Spec => PromiseKept` is the refinement theorem. The
  same module has what a debit needs: only the account a payload acts for can lose, its nonce
  then moves by one, and its owner has signed that payload:
  `NoncesCountDebits`, `OnlyOwnersMove`.
* **ReleaseProofs**, one run after another. `Progress` says what each step of the script has behind it:
  the circuits keyed so far have a whole key file and a whole `.bzkir`, and past
  the key gate all of them have. `TypeCorrect` needs it, because `--write-keys` copies the
  directory into the record, where a torn file has no place. `Fenced` says where
  a surviving container can be: never under a name the run has passed, and
  nowhere once there is a SHA256SUMS; `SumsAlwaysDescribe` follows.
* **ReleaseProofs**, the record. `GatedKeys` (past the key gate, a recorded key is the one in
  the directory, even if a re-record intervenes, since that only drops keys)
  gives `KeysStand`. `GatesHold` carries what the gates have established to the
  end of a run: the emission is the record's, the SRS files are good, and every
  circuit keyed was keyed from them. It is inductive only on a tree that stays
  quiet, so `KeysFitIr` and `TagsPublishTheirCommit` assume `Quiet`.
  `TagsReproduce` assumes it too: a commit that records its keys has the key gate
  compare every published pair with the one record, so the keys of two tagged
  releases of it are equal without keygen being a function, and the `.zkir` are
  the record's. The `.bzkir` is followed from keygen through the scratch
  directory to its copy (`Derived`), which shows its IR and its tool and no more;
  `FunctionalToolReproduces` adds the assumption under which it is equal too,
  that all salts are one, and then needs no recorded keys.
* **ProvedCallsProofs.** `CallsInv` adds two parts to `RegistryInv` and
  `CustodyInv`: `CellsOK` (a cell that was never written holds 0, so a lookup
  that was not made and the default it yields are the balance) and `CallProved`
  of every waiting call (it was accepted, and it has recorded an answer to every
  query its effect depends on). `ExecuteRecords` and `DepositRecords` establish
  the second where a call is proved; `Matched` turns a recorded answer that
  still holds into a fact of the ledger. From there each guard of `Manager`
  follows from its counterpart over the answers (`StillAuthorised`), the pool's
  writes are `ShieldedLegs` (`ApplyPools`; a swap's second leg needs that the
  give leaves the other colours alone, `GiveElsewhere`), and the two balance
  writes are `Debited` and `Credited` (`FamilyWritten`; the credit's recorded
  answer precedes the debit, so it needs that the two cells differ).
  `CallsImplement == CallsSpec => AppliedAsExecuted` is the refinement theorem.
  `FundsInv` adds `Backed` and `ActsForAccount` (the account a waiting action
  spends from is one of the accounts summed over): the payer's cell is then one
  term of the sum the contract's balance equals, which is
  `FundsStandBehindWaitingCalls`. `AllowedCallsAreProvable` is the converse of
  the refinement: from `CallsInv` alone, the answers recorded on the ledger that
  allows a call satisfy the circuit's statement. `ActionProvable` goes through
  the range checks leg by leg; a give that the code clamps to zero, a pool entry
  that is not there and a native account's missing nonce are its cases
  (`PooledWorth`: a coin that is not there is taken for one worth nothing).
* **KeygenProofs.** `KeygenInv` is about what a killed script leaves behind. Keys
  in a directory are at rest (`KeysAtRest`): no container of the arm can write
  there, and no run of the arm is between its guard and its container's end.
  That holds because a run that passed the guard found no directory, and where
  there is no directory no container is mounted (`NothingMounted`), whoever
  started it. `KeyingAt` says that a script that waits does so for its own
  container over its own IR, so the exit code it gets is about its keys. One
  lemma per action keeps all of it; the kills by name of an old watchdog and of
  the exit trap are the ones that could disturb another run's.
  `LogsNameTheirIr` and `ResultsStand` assume `AtOnce = 1`: the code's guard is a
  test followed by a `mkdir -p`, and with two runs of one arm at once both are
  false (TLC finds it with `AtOnce = 2`). The number of arms, of runs and of
  leavings is arbitrary.
* **BenchProofs.** `BenchInv` says where a command can be and what the raw file
  holds there (`Placed`: the warmup's rows, then one row per finished attempt),
  that what was counted is the number of rows of its kind (`Tallied`, by
  `CountIn`, the same count of any file), and that the lead of one arm is one
  turn long (`Abreast`). `AttemptsInOrder` and `TurnsAreShared` carry the
  arithmetic of the three nested loops: the nth attempt, and that the two arms of
  a turn have one scenario. `AllOrNotAll` is the step from a count to a
  statement about every attempt: a count of verified rows equals the total only
  if each row is verified. `GateCounts` is the same for the accept gate, where
  each scenario counts two or the total is missed.
* **SynthProofs.** `RoundTrips` is the heart: what the loop reads out of a message
  is the element that the reference computed, for a field and a byte of any size.
  `PrintedExists` shows that the recursive definition of an element's bytes has a
  solution, `BytesReadBack` that reading them gives the element again, and
  `ReadsOneWay` that a text can be read in one way, each by a least
  counterexample. So a mismatch never stalls, and `WrittenSettles` says that the
  write settles its element, disturbs none and pads no further than it. The
  invariant `Settling` counts: the passes made and the elements still to be
  settled are together at most the elements there are, which is why passes run
  out only on a transcript as long as their number.

Only model-checked: `KeygenEnds` and `ContainersEnd`, which rest on fairness and
are out of the prover's reach. Every other property of a passing run is a
theorem. `PaymentsAreCovered`, `DigestDeterminesPayload` and
`FunctionalToolReproduces` are theorems that no run checks.

## 5. What is not modelled

Coin nonces and commitments, disclosure labels, word padding and byte order,
the hashes themselves, ECDSA, and the row counts of circuits. The deployment
domain is a constant, since no circuit writes it. A native owner's consent is
not a property: whoever holds the secret is the account, by construction. The
readers `isRegistered`, `accountRecord`, `poolValue`, `poolHasColour` and the
two balance readers change nothing and are operators.

Of a proved call: `decode_ops`, which turns field elements into VM operations;
the gas and size of a call; the reads of `kernel.self()` and
`deploymentDomain`, whose answers never change; which calls of several the chain
takes first, which is free here.

Of the harness: the statistics over the cells, the headline that compares
medians pooled over scenarios, resident set size and load, the scenarios'
concrete words, `--runs 0` (with which `solo` passes after no proof), and two
arms of one name, which pool their times: `BenchAssumption` takes the names to
differ and nothing in the code compares them. A row is written and flushed in
one step here; the file is unbuffered (`main.rs:474-490`), so a kill in the middle
of a row leaves part of it as the file's last line, after the whole rows that
`RawFileComplete` is about.

Of `keygen-zkir.sh`: INT and TERM, whose handler is the cleanup of the exit, run
when `docker run` returns, after which the script goes on to its report; the
sampler; and the time-out line that a keygen which ends just then may get in its
log.

Of the release scripts: the native keygen path, whose child no trap and no name
reaches; two runs at once; half-written JSON files; checking out an older
commit; the contract pin, which is payload; an SRS download without a time
limit, which hangs before any watchdog runs; a directory that `emit-zkir` leaves
half filled, which is scratch; and the watchdog of a killed script, which kills
by a name that the next run may have taken, a refusal more. INT and TERM make
the `wait` for a keygen fail, which is `KeygenFails`. A circuit's `.prover` and
`.verifier` are one file here, since one command writes both, and a clearing
that is killed leaves all files of a circuit or none. The tool of a keygen is the
one installed when it is launched. A file the script does not know is
only the refusal it causes. `--force` lifts that refusal and nothing else.

## 6. Plan

Done: the manager, its calls and its tools are modelled and checked, and every
safety property and action property of a passing run is proved. What is left, in
the order of its worth:

1. **Two release runs at once** over one output directory, each removing the
   other's containers and keys, and the native keygen path, whose child
   outlives even an orderly exit.
2. **Torn records**: a script killed while it dumps the JSON record, and the
   next reader.
3. **Two keygens of one arm**: which of the two properties a guard that makes the
   directory in one step would restore, and the proof of it without
   `AtOnce = 1`.
