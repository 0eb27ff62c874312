------------------------------ MODULE Producer ------------------------------
(***************************************************************************)
(* The producer's commands over one work directory and one Hub repository: *)
(* `package`, `encrypt`, `sign`, `publish` and `run`, which is all four.   *)
(* The files of the work directory outlive each command, so each command   *)
(* starts from what the earlier ones left, also when they failed or were   *)
(* killed half way.  The operator works on one command at a time and may   *)
(* put a plaintext file where the commands expect their own.               *)
(***************************************************************************)
EXTENDS Integers

CONSTANTS
  Models,       \* models of the Hub, as `--model-id` and `--revision` name them
  Names,        \* artifact names
  Stems,        \* their signatures' names
  StemOf,       \* artifact name -> signature name
  Commands,     \* commands the operator may give
  MaxCommands,  \* bound: commands, and files put by hand
  None

ASSUME NameAssumption == StemOf \in [Names -> Stems]
ASSUME CommandAssumption ==
  Commands \subseteq [op : {"package", "encrypt", "sign", "publish", "run"},
                      name : Names, model : Models, sign : BOOLEAN]
ASSUME BoundAssumption == MaxCommands \in Nat

\* A model directory, and the package made from it: what it has of each model.
Package == [Models -> {"none", "part", "whole"}]
Only(m) == [k \in Models |-> IF k = m THEN "whole" ELSE "none"]
Empty == [k \in Models |-> "none"]

\* A file of the upload directory.  Each encryption of a package is another
\* artifact, told apart by its serial; serial 0 is plaintext.  A signature is
\* represented by the artifact that it signs.
File == [pkg : Package, serial : Nat]
Plain(p) == [pkg |-> p, serial |-> 0]

ASSUME NoneAssumption == None \notin File /\ None \notin Package

VARIABLES
  modelDir,  \* work_dir/model
  package,   \* work_dir/model.tar
  art, sig,  \* work_dir/upload
  hub,       \* the repository: artifacts and signatures
  cmd, pc,   \* the command and its step
  exit,      \* how the last command ended
  serial,    \* encryptions done
  commands

work == <<modelDir, package, art, sig>>
vars == <<work, hub, cmd, pc, exit, serial, commands>>

\* SignatureEnvelope.decode and ArtifactHeader.decode accept it.
Encoded(f) == f # None /\ f.serial # 0

-----------------------------------------------------------------------------
(* Each command is a path through the steps.  Where an operator has a       *)
(* mutant, a plausible slip in the same code, the mutant stands before it.  *)

First(op) == IF op \in {"package", "run"} THEN "reset" ELSE op

UnsignedRun(c) == [pack |-> "encrypt", encrypt |-> "publish", sign |-> "publish"]
\* run_all
Run(c) == [pack |-> "encrypt",
           encrypt |-> IF c.sign THEN "sign" ELSE "publish",
           sign |-> "publish"]

After(step) ==
  CASE step = "reset"    -> "download"
    [] step = "download" -> "pack"
    [] step \in {"pack", "encrypt", "sign"} -> IF cmd.op = "run" THEN Run(cmd)[step] ELSE "idle"
    [] step = "publish"  -> "idle"

Done(step) ==
  /\ pc = step
  /\ pc' = After(step)
  /\ exit' = IF pc' = "idle" THEN "ok" ELSE exit
  /\ UNCHANGED <<cmd, commands>>

Command(c) ==
  /\ pc = "idle" /\ commands < MaxCommands
  /\ cmd' = c
  /\ pc' = First(c.op)
  /\ exit' = "running"
  /\ commands' = commands + 1
  /\ UNCHANGED <<work, hub, serial>>

-----------------------------------------------------------------------------
(* run_package                                                              *)

KeptDir == modelDir
\* _reset_dir
ResetDir == Empty

Reset ==
  /\ Done("reset")
  /\ modelDir' = ResetDir
  /\ UNCHANGED <<package, art, sig, hub, serial>>

\* snapshot_download merges into the directory; an error may leave part of it.
Download ==
  /\ Done("download")
  /\ modelDir' = [modelDir EXCEPT ![cmd.model] = "whole"]
  /\ UNCHANGED <<package, art, sig, hub, serial>>

BreakDownload ==
  /\ pc = "download"
  /\ pc' = "idle"
  /\ exit' \in {"error", "killed"}
  /\ modelDir' = [modelDir EXCEPT ![cmd.model] = "part"]
  /\ UNCHANGED <<package, art, sig, hub, cmd, serial, commands>>

\* package_model refuses an empty directory and replaces model.tar at once.
Pack ==
  /\ Done("pack")
  /\ modelDir # Empty
  /\ package' = modelDir
  /\ UNCHANGED <<modelDir, art, sig, hub, serial>>

-----------------------------------------------------------------------------
(* run_encrypt, run_sign                                                    *)

\* With a key; the signature of the artifact it replaces stays where it is.
Encrypt ==
  /\ Done("encrypt")
  /\ package # None
  /\ serial' = serial + 1
  /\ art' = [art EXCEPT ![cmd.name] = [pkg |-> package, serial |-> serial']]
  /\ UNCHANGED <<modelDir, package, sig, hub>>

Sign ==
  /\ Done("sign")
  /\ Encoded(art[cmd.name])     \* _require_encrypted
  /\ sig' = [sig EXCEPT ![StemOf[cmd.name]] = art[cmd.name]]
  /\ UNCHANGED <<modelDir, package, art, hub, serial>>

-----------------------------------------------------------------------------
(* run_publish                                                              *)

AnyFile(c) == art[c.name] # None /\ (c.sign => sig[StemOf[c.name]] # None)
NoSignatureCheck(c) == Encoded(art[c.name])
\* _require_encrypted and _require_signature: neither looks at the other file.
Publishable(c) ==
  /\ Encoded(art[c.name])
  /\ c.sign => Encoded(sig[StemOf[c.name]])

OldSignature(c) ==
  [art |-> [hub.art EXCEPT ![c.name] = art[c.name]],
   sig |-> [hub.sig EXCEPT ![StemOf[c.name]] = IF c.sign /\ @ = None THEN sig[StemOf[c.name]] ELSE @]]
\* HubClient.upload: one commit; files that it does not name stay.
Uploaded(c) ==
  [art |-> [hub.art EXCEPT ![c.name] = art[c.name]],
   sig |-> [hub.sig EXCEPT ![StemOf[c.name]] = IF c.sign THEN sig[StemOf[c.name]] ELSE @]]

Publish ==
  /\ Done("publish")
  /\ Publishable(cmd)
  /\ hub' = Uploaded(cmd)
  /\ UNCHANGED <<work, serial>>

\* The commit was made, its answer never came or the process was killed.
PublishUnanswered ==
  /\ pc = "publish"
  /\ Publishable(cmd)
  /\ hub' = Uploaded(cmd)
  /\ pc' = "idle"
  /\ exit' \in {"error", "killed"}
  /\ UNCHANGED <<work, cmd, serial, commands>>

-----------------------------------------------------------------------------
\* A missing file, key or token, an error of the Hub or of the disk, a kill:
\* the step changed no file that another command reads.
Stop ==
  /\ pc # "idle"
  /\ pc' = "idle"
  /\ exit' \in {"error", "killed"}
  /\ UNCHANGED <<work, hub, cmd, serial, commands>>

\* The operator copies the plaintext package over an artifact or a signature.
Copy == \E n \in Names, over \in {"art", "sig"} :
  /\ pc = "idle" /\ package # None /\ commands < MaxCommands
  /\ commands' = commands + 1
  /\ IF over = "art"
       THEN art' = [art EXCEPT ![n] = Plain(package)] /\ UNCHANGED sig
       ELSE sig' = [sig EXCEPT ![StemOf[n]] = Plain(package)] /\ UNCHANGED art
  /\ exit' = "copied"
  /\ UNCHANGED <<modelDir, package, hub, cmd, pc, serial>>

Init ==
  /\ modelDir = Empty /\ package = None
  /\ art = [n \in Names |-> None] /\ sig = [s \in Stems |-> None]
  /\ hub = [art |-> art, sig |-> sig]
  /\ cmd \in Commands /\ pc = "idle" /\ exit = "none"
  /\ serial = 0 /\ commands = 0

Step == \/ Reset \/ Download \/ BreakDownload \/ Pack \/ Encrypt \/ Sign
        \/ Publish \/ PublishUnanswered \/ Stop

Next == \/ Step \/ Copy
        \/ \E c \in Commands : Command(c)

Spec == Init /\ [][Next]_vars

-----------------------------------------------------------------------------
Files(of) == [of -> File \union {None}]

(* Every step finds what it needs: a run never comes to a step whose input  *)
(* file is missing.                                                         *)
TypeOK ==
  /\ modelDir \in Package /\ package \in Package \union {None}
  /\ art \in Files(Names) /\ sig \in Files(Stems)
  /\ hub \in [art : Files(Names), sig : Files(Stems)]
  /\ cmd \in Commands
  /\ pc \in {"idle", "reset", "download", "pack", "encrypt", "sign", "publish"}
  /\ exit \in {"none", "running", "ok", "error", "killed", "copied"}
  /\ serial \in Nat /\ commands \in 0..MaxCommands
  /\ pc \in {"sign", "publish"} /\ cmd.op = "run" => Encoded(art[cmd.name])
  /\ pc = "publish" /\ cmd.op = "run" /\ cmd.sign => Encoded(sig[StemOf[cmd.name]])

(* Nothing but ciphertext and signature envelopes is ever uploaded, though  *)
(* plaintext lies in the same work directory and the operator may copy it   *)
(* over either file (app/pipeline.py, run_publish).                         *)
OnlyCiphertextOnHub ==
  /\ \A n \in Names : hub.art[n] # None => hub.art[n].serial # 0
  /\ \A s \in Stems : hub.sig[s] # None => hub.sig[s].serial # 0

(* Whatever downloads were broken off or killed before, each package, and   *)
(* each artifact on the Hub, holds exactly one model and all of it.         *)
PackageIsOneModel ==
  LET OneModel(p) == \E m \in Models : p = Only(m) IN
  /\ package # None => OneModel(package)
  /\ \A n \in Names : hub.art[n] # None => OneModel(hub.art[n].pkg)

(* `run` publishes the model it was asked for, encrypted in this very run,  *)
(* and unless told not to sign, with the signature of exactly that artifact *)
(* and none that an earlier command left (app/pipeline.py, run_all).        *)
RunPublishesItsOwnPair == [][
  hub' # hub /\ cmd.op = "run" =>
    /\ hub'.art[cmd.name] = [pkg |-> Only(cmd.model), serial |-> serial]
    /\ cmd.sign => hub'.sig[StemOf[cmd.name]] = hub'.art[cmd.name]]_vars

(* "an unsigned artifact never reaches the Hub by accident": a commit that  *)
(* was to be signed brings a signature with it (run_publish).               *)
UnsignedOnlyWhenAsked == [][
  hub' # hub /\ cmd.sign => hub'.sig[StemOf[cmd.name]] \in File]_vars

Paired(h, n) == h.art[n] # None /\ h.sig[StemOf[n]] = h.art[n]

SharesSignature(n) == \E k \in Names \ {n} : StemOf[k] = StemOf[n]

(* The verifiable pair of an artifact with a signature file of its own      *)
(* stays verifiable until the same artifact is published without being      *)
(* signed anew: by `publish`, or by `run --no-sign`.                        *)
PairSurvives == [][
  \A n \in Names : Paired(hub, n) /\ ~Paired(hub', n) /\ ~SharesSignature(n) =>
    cmd.name = n /\ (cmd.op = "publish" \/ ~cmd.sign)]_vars

(* producer/infra/hub.py:45: the Hub never shows a mismatched pair.         *)
NoMismatchedPair ==
  \A n \in Names : hub.art[n] # None /\ hub.sig[StemOf[n]] # None => Paired(hub, n)

(* producer/models/settings.py:27: one signature per artifact, so that a    *)
(* repository can hold several: what one signed run published is verifiable *)
(* until the same artifact is published again.                              *)
OneSignaturePerArtifact == [][
  \A n \in Names : Paired(hub, n) /\ ~Paired(hub', n) => cmd.name = n]_vars
=============================================================================
