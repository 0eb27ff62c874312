# Verification of confidential model delivery

TLA+ models of the system in this repository, TLC configurations that check
them on small instances, and TLAPS proofs of their main safety properties for
every value of the constants.

## The system

A *producer* packages a model from the Hugging Face Hub, encrypts the package
(Layer 1), signs the encrypted artifact (Layer 2) and uploads both files. A
*consumer*, a Kubernetes Job, downloads them, verifies the signature with a
mounted public key, decrypts with a mounted key, restores the files, loads the
model and predicts once. The two share the library `confidential_crypto` and
nothing else: they communicate through the Hub only.

| Component | State it keeps | Operations |
|---|---|---|
| artifact format (`confidential_crypto/artifact.py`, `format.py`, `ciphers/`) | counter and read-ahead chunk of one stream | `encrypt_parts`, `encrypt_stream`, `decrypt`, `decrypt_stream` |
| signatures (`artifact.py`, `format.py`, `signers/`) | none | `sign_stream`, `verify_stream` |
| registry (`registry.py`) | constant tables | lookups by name and by id, with a guard for unsafe ciphers |
| producer (`services/producer`) | work directory: `model/`, `model.tar`, `upload/` | `package`, `encrypt`, `sign`, `publish`, `run` |
| key files (`infra/keys.py` of both, `keys.py`) | key files, created exclusively | `gen-key`, `gen-signing-keypair`, reads |
| command line (`cli/main.py` of both, `models/settings.py`) | settings of one process, from defaults, environment, flags and answers | `run` with and without `--interactive`, exit codes |
| the Hub | branches of commits | a commit of one or two files, download by name and branch |
| consumer (`services/consumer`) | download cache, work directory (configured or temporary) | `run` |
| deployment (`scripts/`, `k8s/`) | Secret, ConfigMap, one Job | `demo.sh happy`, `demo.sh negative ...` |
| benchmarks (`benchmarks/`) | result files | measurements and a ranking |

What is hard here is not concurrency inside a process, for there is none: both
programs are sequential. It is that files outlive processes. Any command may
fail or be killed at any step and the next one starts from what it left; the
Hub's branch moves between two downloads of one run; what is stored may be cut,
reordered or mixed; commands are given in any order; a file that is listed,
measured, hashed and copied may change in between; the cluster works at its own
pace while a script waits for it; a dialog looks at files, waits for a person and
acts on what it saw; and nothing keeps two commands from one work directory or
one key file at once. `PROJECT.json` lists the hazards with the line at which each bites.

What makes each component correct:

* artifact format: what `decrypt_stream` has written is a gapless prefix of one
  plaintext at every moment, and all of it when it returns; a nonce is used once;
* consumer: the key is not read before verification; a refused run changes
  nothing; what is loaded is what the manifest describes;
* producer: only ciphertext is uploaded; a run publishes its own pair;
* packaging: what is renamed to `model.tar` is complete, and the consumer
  restores from it the files as they were;
* files written by way of `.tmp`: what is published is whole, and no temporary
  file stays;
* key files: a key is never overwritten, a reported pair is a pair;
* command line: Enter keeps what the flags said, an offered key fits, and what a
  run publishes can be opened with the key files it used;
* deployment: the demo judges the Job it applied and no earlier one;
* all together: what a verifying consumer loads is one model, whole, that the
  producer released.

## Modules

### ChunkedArtifact

`encrypt_stream`, `encrypt_parts`, `decrypt_stream` and `decrypt` over a store
that may alter the file. The file is a sequence of cells, one per byte, each
naming who wrote it and where in that output it stands, so that truncation,
splices and exchanges at *every* byte offset are possible. Plaintext is not
spelled out: a chunk is an interval of its source.

| Model | Code |
|---|---|
| `BeginStream`, `SealChunk` | `encrypt_stream` up to its loop, one turn of the loop |
| `SealWhole` | `encrypt_parts` |
| `Store` | `encrypt_file` renames the finished file into place |
| `Truncate`, `Corrupt`, `Splice`, `Exchange`, `SwapHeader` | the storage (external) |
| `RejectHeader`, `BeginDecrypt`, `OpenWhole` | header decoding and the first read; `decrypt` for version 1 |
| `ReleaseChunk`, `RejectChunk` | one turn of the loop of `decrypt_stream`, by outcome |

Assumed: the AEAD is ideal (cells open under a header, a counter and a flag
only if they are a whole box sealed under these), and the random nonce or nonce
prefix of each encryption is fresh. `SealedOnce` is the part of nonce
uniqueness that is the code's own: no artifact uses a counter twice. An artifact
stands for its header, since the header holds the random part.

### Consumer

`consumer run`, one action per step of `pipeline.run` and one per member that
`restore_package` writes. `Start(s)` takes any settings: verify or not, force
or not, a configured or a temporary work directory, a public key file that is
usable or not, a key or none. Each download reaches the Hub or not; in the
second case it takes the cached copy unless forced. `Verify` fails with the same
error for a pair that does not verify and for a file that cannot be read
(`core/verify.py:42`). `Uncaught` is any exception that no handler below the CLI
converts (exit code 1), at any step. `Kill` ends the process with no handler
run, at any step. `HubCommit` changes the branch at any time.

`keyRead`, `before`, `steady` and `unread` are history: no guard depends on
them. `unread` says that `Verify` could not read a file, which the
exit code does not, so that `SteadyPairIsAccepted` can say what else a signature
error means.

A package is a model value with the members of its tar, the names its manifest
lists and the members whose size and hash match; `Safe` collects what
`_check_member` and the position of the manifest decide. A file of the model
directory is the package it came from and whether it is whole. A signature is
the artifact it signs and its key pair with the scheme; what `verify_stream`
accepts is `Accepts`. An artifact's content does not change under the run that
reads it: the code opens it by path again after verification, and the cache is
taken to be the consumer's own.

`Decrypt` may fail for any artifact, which stands for the wrong key or a full
disk; `Load` and `Infer` may fail for any model. That makes safety stronger, not
weaker.

### Producer

The commands over one work directory and one repository. `pc` walks through the
steps of a command (`After`); the single commands are paths of one step or
three, `run` is all of them. `Stop` is any error or kill at a step that has
changed no file another command reads, `BreakDownload` the one that leaves part
of a download, `PublishUnanswered` a commit whose answer is lost. `Copy` is the
operator who copies the plaintext package over an artifact or a signature,
between commands. Names and signature names are related by the constant
`StemOf`, since `with_suffix` maps several names to one.

`--artifact` paths of the library functions are always the settings' own path
in the commands and are not a parameter. The creation of the repository before
the upload is not modelled: it changes none of its files. Two producers at once
in one work directory are `AtomicFile`'s, as far as they write the same file;
that they also share `model/`, which each empties for itself, is `Change` in
`Packaging`: the directory may change between any two steps.

### AtomicFile

The idiom with which `model.tar`, artifact, signature and the consumer's package
are written: open `<name>.tmp`, write, `os.replace`, and in the `finally`
`unlink(missing_ok=True)`. `tmp` and `out` are *names* of inodes, since a process
keeps writing to the inode it opened after another has renamed or removed the
name, and opening a name that exists truncates the same inode. `Put` is a write
at the writer's own position, with a hole where a truncation has cut what was
before. `Replace` fails when somebody else has taken the name away. `Fail` goes
through `finally`, `Kill` does not.

The claim of `packaging.py:71`, that a partial file never sits at `out_path`, does
not hold for any two writers; what holds, and is proved, is `UndisturbedIsWhole`:
an attempt during which no other process was at work publishes a whole file,
whatever was left before it, and later ones do not spoil it in place.

### Packaging

`package_model` at the level of single files: `Start`, `ListDir`, `Visit` and
`Select` are `collect_files` (`os.walk` lists a directory when it gets there),
`Stat` and `Hash` are the two reads of `build_manifest`, `OpenTar`, `AddMember`,
`CloseTar` and `Replace` are `write_package`. `Change` alters or removes a file
of the model directory between any two of them. The history `had` holds the
contents each file has had since the run began. `DiskError` runs the `finally`,
`Kill` does not, and the next run meets what is left. A file's content is a
short sequence of bytes, so that one content can be a prefix of another or have
its size: `addfile` copies as many bytes as the manifest says. A hash is the
content it was taken of, at one moment; a file that is rewritten while it is
hashed or copied gives some content in the code and is not modelled beyond
that. The allow-list is a set of files. Directories are at most two deep
(`DirAssumption`). `Restores` is what `restore_package` checks of a well-formed
tar; the malformed ones are `Consumer`'s. A package of which size, hash and bytes are
of three different moments is made and published like any other; `NothingTorn`
says that the consumer restores it only if every file in it was there, whole, at
some moment of the run.

### Registry

`registry.py`, the constants of `ciphers/` and `signers/`, and the lengths of
`keys.py` as operators: a lookup is the set of its results, empty where the code
raises. `Fits` is `_check_type`; `Decodes` says whether `decode_symmetric_key`
gives a key back that was written raw or as hex, with a newline or without.

### KeyFiles

`gen-key` and `gen-signing-keypair`, several at once, each of which may stop
between creating a file (`O_EXCL`) and writing it, and between the private and
the public file. Requests may name the same file for both halves; two private
names may have one default public name (`with_suffix`). It is checked as a part
of `Cli`.

### Cli

`producer run` over those key files, beside the generators. `Launch` takes
environment and flags (`_settings`) and starts the run or the dialog; `Answer`
and `Accept` are one answer in the dialog, the second with the offer to make the
key, whose generator then runs step by step (`KeyStep`) while the dialog waits;
`Settle` is the `_settings(**answers)` at its end. `NextPrompt` is the order in
which `_ask_settings` asks, with the prompts that earlier answers leave out.
`Chosen` is where the two offers differ: the symmetric key is made for
`current.cipher`, the settings *before* the dialog, the pair for the signer just
chosen. `Encrypt` and `Sign` are what `run_encrypt` and `run_sign` need of the key
files; packaging and upload are `Producer`'s, and what can fail there is
`Interrupt`. `ConsumerExit` is the consumer's `run` as the list of its checks in
the order of the code, with the exit code of the first that fails; errors of its
own disk and network are left to `Consumer`. Settings that
touch no key (model, revision, repository, visibility, work directory, metrics)
are left out; their prompts are like that of `artifact_name`.

### Deployment

`scripts/demo.sh` and the cluster. `Script` is the script's next step in one of
its four scenarios; `Interrupt` ends it anywhere (`set -e`, or a person) and the
next run starts over what it left. `Cluster` is external: the Job's pod starts
when what it mounts exists, ends with an exit code, the Job controller sets the
condition, a finished Job expires (`ttlSecondsAfterFinished`), and the pods of a
Job that is gone are collected some time later. `Outcome` gives the exit codes
that `Consumer` allows for the key and the revision a pod mounted; `Mishaps` are
the ones that may occur anyway. Images and the public key ConfigMap, which every
run renders anew, are left out.

### Delivery and TrustedDelivery

`Delivery` instantiates `Producer` and `Consumer` over one branch of the Hub.
Each step is a step of one of the two and leaves the other's variables alone,
except `Publish`, which is the producer's upload *and* the consumer's
`HubCommit`. `Interfere` is a commit of anybody else: any artifact seen before
or made by others, with any signature seen before or made with another key.
What an artifact decrypts to is no constant here but the package the producer
encrypted (`Opens`). `signed` and `last` are history.

`TrustedDelivery` is what the two promise: the models released grow, and what a
verifying consumer has in memory is nothing or a released model as a whole. It
promises no freshness, since an old signed pair is as good as a new one. The
refinement maps `released` to the models of signed artifacts and `served` to
the model in memory; `Sign` is `Release`, `Load` is `Serve`, a new run is
`Withdraw`, all else is a stutter.

## Runs

| Run | Bounds | What it shows |
|---|---|---|
| `artifact` | two chunked artifacts with chunks of 2 and 3 bytes, a one-shot one, lengths 0, 1, 6 and 7, a counter that holds 3 chunks, one alteration | decryption releases prefixes only, all or an error, never for an altered file, always for an intact one; no counter is used twice |
| `consumer` | two runs, one commit, packages of at most two files, all kinds of bad packages and pairs | the order of the layers, no trace of a refused run, what is loaded, what is left behind, what a signature error means |
| `producer` | four commands or copies, two models, three names of which two share a signature file | ciphertext only, one model per package, a run's own pair, survival of published pairs |
| `packaging` | two runs, one change; a root with two files, a directory with safetensors, one that is excluded; three contents, of which one is a prefix and one of equal size; links | `model.tar` is always complete; an undisturbed run packages exactly the wanted files in order, and the consumer restores them as they are; of a disturbed one it restores no torn file |
| `producer_cli` | one `run`, two generations, two processes, three paths of which all private ones share a public name; five algorithms, one of which the consumer lacks; good and bad flags, variables and answers | keys stay, reports are true, no public key without its private key; flags survive the dialog, offered keys fit, what is published can be opened with the key raw or in hex |
| `atomic_file` | three processes, four openings of the temporary file, files of one and two pieces | an undisturbed writer publishes a whole file that stays whole; nothing temporary stays but after a kill |
| `deployment` | three runs of the script in any scenarios, one mishap code | the run judges its own Job and pod, success is real, the script ends |
| `delivery` | two commands, two commits of anyone, one consumer run, two models | refinement of `TrustedDelivery`; a published pair that can be read is accepted |
| `stale_work_dir` | two runs, one commit | *violated*: a configured directory keeps files of the earlier release |
| `mismatched_pair` | signed commands, one name | *violated*: `encrypt` and `publish` upload a pair that does not verify |
| `shared_signature` | signed runs, two names with one stem | *violated*: the second publish breaks the first artifact |
| `foreign_exit_code` | two runs of the script | *violated*: the exit code printed is that of an earlier Job's pod |

Why the bounds suffice. Lengths: 0 and 1 are the empty and the short plaintext,
6 a multiple of both chunk sizes, 7 neither; 7 bytes in chunks of 2 need four
chunks, one more than the counter holds. The header is as long as one chunk and
the header read twice as long, so that the first read holds none, a part, or
all of the first chunk. One alteration of a file from which any prefix and any
rest of another can be combined gives every way in which one cut and one joint
can be placed; the proofs cover any number. Consumer: what one run can leave to
another takes two runs, and between two downloads one commit is enough to make
them differ. Producer: a leftover needs a command that leaves it, one that
replaces it and one that publishes; the fourth repeats or repairs. Packaging: a
leftover takes two runs, and one change can fall between any two of the reads of
one file. Deployment: one run leaves a Job or Secret, the next is confused by
it, the third shows that this in turn leaves nothing worse. Key files: a conflict
needs two generations, of which one may be the dialog's; the second process
makes keys before, during and after the run. Atomic files: a third process can
meet what a second has left of a first, and four openings give each one, and one
of them another. Delivery: a signed and an unsigned commit, or one of the
producer and one of others, around the two downloads of one run; what several
consumer runs leave to each other is the `consumer` run's, and the proof has no
such bound.

All runs allow the system to stop (`CHECK_DEADLOCK FALSE`): processes end, and
counters of runs, commands and alterations are bounded.

### Fairness

`ScriptEnds` is checked under weak fairness of `Script`: each `kubectl` call
answers or fails, and the wait has a deadline (`demo.sh:83`). Nothing is assumed
of the cluster: its pods may stay pending for ever. It is the only liveness
property: the consumer's and the producer's runs are sequences of calls and loops
over finite lists, whose end is a matter of the calls themselves.

## Findings

1. A configured consumer work directory is never emptied, so a release is
   loaded beside the files of an earlier one. The listed files are right
   (`ListedFilesAreThePackage` holds); what the manifest does not list may be
   there too, also half written. The producer empties its own directory.
2. `publish` does not check that the signature is of the artifact
   (`producer/infra/hub.py:45` claims the Hub never shows a mismatched pair).
   `run` is not affected: `RunPublishesItsOwnPair`.
3. `model.v1` and `model.v2` share `model.sig` (`producer/models/settings.py:27`).
4. `demo.sh negative ...` prints the exit code of the first pod with
   `app=consumer`, which may be one that an earlier Job left and that is not
   collected yet (`demo.sh:150`); the workflow greps that code.

Seen while modelling, without a run of its own:

* A missing signature ends a run with exit 3 and not 4 as `docs/layers.md:212` and
  `:215` say: it fails as a download (`Checks` in `Cli`, `FetchSignature` in
  `Consumer`). `tests/integration/test_security.py` expects what the code does.
* A consumer that cannot read its own downloaded files ends with exit 4, like one
  that was given a modified artifact (`core/verify.py:42`,
  `tests/test_verify.py:71`), where the table in `README.md:341` lists a modified
  artifact or signature, a wrong key and an unsigned publish. Exit 4 alone does
  not prove tampering.
* The docstring of `packaging.py:71` is true of one writer at a time only, see
  `AtomicFile`.
* A dialog that fails at the public key file has already written the private
  key. The next dialog takes that file as it is, so a run can publish what no
  consumer can verify yet: the exception for `broken` in `PublishedCanBeOpened`.
* `with_suffix` gives `other.pub` for `other.key`, where the tamper demonstration in
  the repository's README uses `other.key.pub`.

Not a contradiction of any document but worth knowing: a consumer that is killed
while it decrypts leaves plaintext in `model.tar.tmp` of a configured
directory, and later runs that are refused before they decrypt leave it there
(the exception in `NothingLeftBehind`). And a safetensors file in any
subdirectory makes the packager drop every `pytorch_model.bin`, also the one
that is the model's only weights at the root (`packaging.py:107`).

## Proofs

Every model has an inductive invariant and proofs for arbitrary constants, with
no bound on runs, commands, sizes or alterations but that the bounds are
numbers.

`ChunkedArtifact_proofs`: `TypeOK /\ EncInv /\ DecInv`, then `WrittenInv` and
`FileInv`. That released chunks are
contiguous does not follow from their counters alone; it needs that where a box
stands in its plaintext is a function of its counter (`WellSealed`), which needs
that the pending chunk of an encryption is always the one its counter says
(`Streaming`). `DecInv` says that the released boxes carry the counters 0, 1,
2, ... of the decoded header and that only the final one is flagged last.
About the bytes, `WrittenInv` says that what an encryption writes is its header and
its boxes, each at its `Offset`, and nothing else once it is done (`Stands`); and
`FileInv` that a reader has compared everything before its pending chunk with
what was written under the header that the file carries (`Reading`). No
encryption is at work by then, so what a reader compares with stays as it is. From
these `OnlyIntactDecrypts` follows, since the last box is flagged and nothing stands
behind it, and `IntactDecrypts`, since the chunk that the reader cuts out of an
unaltered file is exactly one box (`OneBox`, `LastBox`): also the first one, of which
the header read has taken a part that the next read has to continue.

`Consumer_proofs`: `TypeOK /\ KeyInv /\ TraceInv /\ ExtractInv /\ WritingInv
/\ LeftInv /\ SteadyInv`, one part per theorem: what stands between download and key in a verifying run;
that exit codes are set only on leaving the steps and nothing is written before
decryption; that during extraction `model.tar` is the run's own package and
every member not on the list is in place and checked. `TypeOK` is not inductive
without the last: only then is what is written into the directory a package. `LeftInv` is why
nothing is left: except while it decrypts, a run has no `model.tar.tmp` in its
directory but one that it found there and that it has not come to replace. `SteadyInv` carries from the two downloads to the verification that
what was fetched is what the Hub serves, as long as nobody has committed in
between; an error of a run that could read both files is then the pair's. `FreshLoadsNothingElse` is what is left of the promise that finding 1
refutes: it holds of every run whose model directory was empty when it began, by
`FreshInv`.

`Producer_proofs`: `TypeOK /\ OnlyCiphertextOnHub /\ ModelInv /\ RunInv /\
CommitInv`. `RunInv` follows the run's own files from step to step. The three action
properties are about the one step that changes the branch, so `OneCommit` says
once what that step does: it puts the command's artifact and, if it was to sign, its
signature in place, and leaves every other file alone (`CommitInv`: only `publish`
and `run` get there). `RunPublishesItsOwnPair`, `UnsignedOnlyWhenAsked` and
`PairSurvives` follow from it. So do the conditions under which findings 2 and 3
vanish: one signature per artifact where no two names share a signature file
(`OneSignatureEach`), no mismatched pair where in addition only signed runs
publish (`SignedRunsMatch`).

`Packaging_proofs`: `TypeOK /\ TarInv`. `NeverPartial` alone is not inductive: it
needs that the members of a tar being written begin those of its manifest, which
is the run's own, and that a tar is closed only when none is missing. A tar that
a killed run left is never the one that is renamed, because the states in which
it is are reached through `OpenTar` only. What an undisturbed run packages needs all
of `collect_files`, `build_manifest` and `write_package`: `WalkInv`, every wanted file is
selected, in the current listing or below a directory that is still to be listed;
`ManifestInv`, the manifest so far is the lower part of the wanted files in
increasing order, and describes them as they are; `CopyInv`, the members of the tar
are copies of what the manifest lists. `SteadyIsExact` states the order as such, a list
with increasing ranks and the wanted files as its paths, since a sorting operator is
defined by recursion, which the provers cannot follow. `RoundTrip` follows for
whatever was copied, since copies are as long as the manifest says (`CopyLength`).
Of a directory that does change, `HadInv` keeps that every hash of the manifest was
taken of a content the file had during the run. The members need no such part: one
that the consumer restores has the hash, and so is that content (`TornIsRefused`).

`Cli_proofs` first proves the generators alone: `TypeOK /\ KeysInv /\ OrderInv`.
That a process between its two files has its private key in place follows only
with `KeysInv`, no two generators hold one key: otherwise one could complete the
other's file. Every step of `Cli` is one of `KeyFiles` or leaves the files alone
(`OnlyGenerators`), so these theorems hold of commands and dialogs as well. On
top of that `CliInv` has a part for each promise: `EnterInv`, prompts that are
still to come have the proposed value and those that are past were answered or
do not matter (`PromptFacts`: the prompts are asked in their order); `StageInv`,
what a run has read is what its settings name; `PairInv`, every private key has
its public file, or its generator is still at work, or has failed; `MadeInv`,
what a published artifact was made with is still there (files that are written
stay, `FilesKept`); `OwnInv`, a key made on an offer is of the algorithm that was
chosen. `ConsumersCanOpen` needs `PairInv` and `MadeInv` and that all ciphers of the
table take keys of one length (`TableFacts`), since the offer's key may be made
for another cipher than the run's.

`AtomicFile_proofs`: `UndisturbedIsWhole` is not inductive. It needs that a writer
that has been alone so far has in its inode exactly what it has written, under
the temporary name or none (`SoleInv`), and that what such a writer has published
is open in no process that still writes (`OutInv`). `NothingLeft` needs that a
temporary name exists only while some process has yet to come to its `finally`, or
after a kill (`LitterInv`).

`Deployment_proofs`: `TypeOK /\ ScriptInv /\ PodInv`. `ScriptInv` says from which
step on Secret, revision and the absence of an old Job are this run's; `PodInv`
carries that to what a pod mounted and to the Job's condition. The theorems need
both, since a pod mounts at any later time. `CodeInv`, an ended pod has its own
outcome or a mishap's, adds `ReportsTheScenario`: the code that the script prints is
the announced one of its scenario, 4 or 5, or a mishap's, whenever no pod of an
earlier Job is left to be listed first. Finding 4 needs exactly such a pod.

`Delivery_proofs` first shows that the composition keeps `Producer`'s and
`Consumer`'s own specifications, so that their theorems hold in it. What is left
is where the producer's signatures are: every encoded signature file of the work
directory is of a signed artifact and every signed artifact holds one model
(`SignedInv`), hence so is every signature on the branch that names the
producer's key (`BranchInv`), whoever committed it, and every copy in the cache
or in a run (`CopiesInv`). A verifying run has read the key
(`LoadsOnlyWithKey`), so its signature is the trusted key's over its artifact,
so that artifact is signed; what it opens to is one model, and the listed files
are loaded whole (`ListedFilesAreThePackage`): `ServedInv`, from which each step
is one of `TrustedDelivery` or a stutter (`Implements`). `RunIsAccepted` is the other
direction, that what is released is not refused: as long as a signed run's commit is the
last one, the branch holds its artifact with the producer's signature of it
(`RunPair`), which `Consumer` accepts where it can read both files. Assumed: others do not
have the producer's key, and what they make is not what the producer made
(`ForeignAssumption`).

The proofs assume what the modules assume of their constants, among them that
the header read is at most one least chunk longer than a header
(`FormatAssumption`; 266 and 4096 bytes in the code). Every invariant
and every action property that a passing run checks is proved. Only
model-checked is `ScriptEnds`, since liveness under fairness is beyond
the prover; what the other four runs violate cannot be proved, and its
conditional forms are named above.

## Plan

Done, with proofs: `ChunkedArtifact`, `Consumer`, `Producer`, `Packaging`,
`KeyFiles` with `Cli` and `Registry`, `AtomicFile`, `Deployment`, and the composition
`Delivery`, which implements `TrustedDelivery`. Next: the producer's names, with
the `.sig` suffix, `with_suffix` and the name pattern as operators in place of the
constants `StemOf` and `PublicOf`.

Not modelled, and why: logging, metrics, tables on the terminal and the `config`
command, on which no state depends; the padding and the MAC inside
AES-CBC-HMAC, which the registry refuses outside of the benchmarks; the
mathematics of ciphers and signatures; the bytes of header, envelope and tar;
Transformers; the Layer 3 key provider, a stub that always raises; image
building and the public key ConfigMap; and the benchmarks, which are
measurements.
