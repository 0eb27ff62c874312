------------------------------ MODULE Consumer ------------------------------
(***************************************************************************)
(* `consumer run`: fetch the artifact and its signature, verify, decrypt,  *)
(* restore the package, load the model, predict.  The process may be       *)
(* killed at any step and is started again with the same or other          *)
(* settings; a configured work directory and the download cache outlive    *)
(* it, a temporary work directory is removed when a run ends by itself.    *)
(*                                                                         *)
(* The Hub is the content of one revision.  When that is a branch, commits *)
(* change it at any time, also between the two downloads of a run.         *)
(***************************************************************************)
EXTENDS Integers

CONSTANTS
  Names,      \* file names a package may hold
  Packages,   \* plaintext packages
  Members,    \* package -> names of the tar's members after the manifest
  Listed,     \* package -> names its manifest lists
  Matching,   \* package -> members with the size and hash of the manifest
  Safe,       \* packages of regular files with safe names, manifest first
  Artifacts,  \* encrypted artifacts
  Readable,   \* the artifacts whose header decodes and names a cipher
  Opens,      \* artifact -> what it decrypts to under the mounted key, or None
  Signers,    \* signature scheme and key pair, together
  Commits,    \* what the Hub may serve: [art, sig], each may be None
  Publics,    \* public keys that may be mounted, None for no usable file
  Keeps,      \* whether a work directory may be configured
  MaxRuns,    \* bound: runs of the consumer
  MaxCommits, \* bound: commits to the revision
  None

ASSUME NoneAssumption ==
  None \notin Names \union Packages \union Artifacts \union Signers

Envelopes == [of : Artifacts, by : Signers]

ASSUME PackageAssumption ==
  /\ Members \in [Packages -> SUBSET Names] /\ Listed \in [Packages -> SUBSET Names]
  /\ Matching \in [Packages -> SUBSET Names]
  /\ Opens \in [Artifacts -> Packages \union {None}]
ASSUME SourceAssumption ==
  /\ Commits \subseteq [art : Artifacts \union {None}, sig : Envelopes \union {None}]
  /\ Publics \subseteq Signers \union {None} /\ Keeps \subseteq BOOLEAN
ASSUME BoundAssumption == MaxRuns \in Nat /\ MaxCommits \in Nat

Settings == [verify : BOOLEAN, force : BOOLEAN, keep : Keeps, public : Publics, key : BOOLEAN]

\* consumer/core/errors.py; the two last are no exit code.
Unexpected == 1
ConfigError == 2
DownloadError == 3
SignatureError == 4
DecryptError == 5
ExtractionError == 6
ModelLoadError == 7
InferenceError == 8
Running == 100
Killed == 137

VARIABLES
  hub,       \* the Hub's files at the configured revision
  cache,     \* the last copy of each that was downloaded
  pc,        \* the step of the run
  settings,  \* its settings
  art,       \* the artifact it fetched
  sig,       \* the signature it fetched
  writing,   \* the member it is writing
  todo,      \* the members it has not written
  dirs,      \* the configured and the temporary work directory
  loaded,    \* the model directory as load_model found it
  exit,      \* the exit code
  runs, commits,
  (* history *)
  keyRead,   \* the run read the decryption key
  before,    \* its work directory when it started
  steady,    \* both downloads reached the Hub and no commit came after the first
  unread     \* verification could not read one of the two files

world == <<hub, commits>>
run == <<settings, runs, before, unread>>
vars == <<hub, cache, pc, settings, art, sig, writing, todo, dirs, loaded, exit,
          runs, commits, keyRead, before, steady, unread>>

Contents == (Packages \X {"part", "whole"}) \union {None}
NoFiles == [n \in Names |-> None]
EmptyDir == [tar |-> None, tmp |-> FALSE, model |-> NoFiles]
Place == IF settings.keep THEN "kept" ELSE "temp"
Dir == dirs[Place]
Package == Dir.tar

Fail(code) == pc' = "closing" /\ exit' = code
Go(step) == pc' = step /\ UNCHANGED exit

-----------------------------------------------------------------------------
(* Settings and downloads.  Where an operator has a mutant, a plausible     *)
(* slip in the same code, the mutant stands before it.                      *)

ResetDirs(s) == [dirs EXCEPT ![IF s.keep THEN "kept" ELSE "temp"] = EmptyDir]
\* _work_dir: a configured directory is taken as it is, a temporary one is new.
DirsAtStart(s) == IF s.keep THEN dirs ELSE [dirs EXCEPT !.temp = EmptyDir]

Start(s) ==
  /\ pc = "idle" /\ runs < MaxRuns
  /\ pc' = "artifact"
  /\ settings' = s
  /\ dirs' = DirsAtStart(s)
  /\ before' = IF s.keep THEN dirs.kept ELSE EmptyDir
  /\ runs' = runs + 1
  /\ exit' = Running
  /\ art' = None /\ sig' = None /\ writing' = None /\ todo' = {} /\ loaded' = None
  /\ keyRead' = FALSE /\ steady' = TRUE /\ unread' = FALSE
  /\ UNCHANGED <<world, cache>>

\* hf_hub_download: the Hub's copy when it is reached, else the cached one,
\* else an error (None).
Download(f, reached) ==
  CASE reached                   -> hub[f]
    [] ~reached /\ ~settings.force -> cache[f]
    [] OTHER                     -> None

Cached(f, reached) ==
  IF reached /\ hub[f] # None THEN [cache EXCEPT ![f] = hub[f]] ELSE cache

NeverMissing(got) == FALSE
Missing(got) == got = None

FetchArtifact == \E reached \in BOOLEAN :
  /\ pc = "artifact"
  /\ art' = Download("art", reached)
  /\ cache' = Cached("art", reached)
  /\ steady' = reached
  /\ IF Missing(art') THEN Fail(DownloadError) ELSE Go("signature")
  /\ UNCHANGED <<world, run, sig, writing, todo, dirs, loaded, keyRead>>

FetchSignature == \E reached \in BOOLEAN :
  /\ pc = "signature" /\ settings.verify
  /\ sig' = Download("sig", reached)
  /\ cache' = Cached("sig", reached)
  /\ steady' = (steady /\ reached)
  /\ IF Missing(sig') THEN Fail(DownloadError) ELSE Go("verify")
  /\ UNCHANGED <<world, run, art, writing, todo, dirs, loaded, keyRead>>

SkipSignature ==
  /\ pc = "signature" /\ ~settings.verify
  /\ Go("header")
  /\ UNCHANGED <<world, run, cache, art, sig, writing, todo, dirs, loaded, keyRead, steady>>

-----------------------------------------------------------------------------
(* Layer 2, then Layer 1.                                                   *)

\* read_public_key, FileKeyProvider.get_key: a PEM file, a raw or hex key of
\* the cipher's size.
PublicKey == settings.public
KeyUsable == settings.key

AnyDigest(e, a, public) == e # None /\ e.by = public
AnySigner(e, a, public) == e # None /\ e.of = a
NeverAccepts(e, a, public) == FALSE
\* verify_stream: scheme, fingerprint, then the signed digest.
Accepts(e, a, public) == e # None /\ e.by = public /\ e.of = a

\* verify_file, after the public key was read.  The two files are downloaded,
\* but reading them may fail all the same, and then the error is the same.
Verify ==
  /\ pc = "verify"
  /\ \/ PublicKey = None /\ Fail(ConfigError) /\ UNCHANGED unread
     \/ PublicKey # None /\ Fail(SignatureError) /\ unread' = TRUE
     \/ /\ PublicKey # None /\ UNCHANGED unread
        /\ IF Accepts(sig, art, PublicKey) THEN Go("header") ELSE Fail(SignatureError)
  /\ UNCHANGED <<world, settings, runs, before, cache, art, sig, writing, todo, dirs,
                 loaded, keyRead, steady>>

\* decrypt_file up to the first chunk.  A failure removes the .tmp file, also
\* one that an earlier run left.
ReadKey ==
  /\ pc = "header"
  /\ \/ Fail(DecryptError) /\ UNCHANGED keyRead    \* no such header, or an OSError
     \/ art \in Readable /\ ~KeyUsable /\ Fail(ConfigError) /\ UNCHANGED keyRead
     \/ art \in Readable /\ KeyUsable /\ Go("decrypt") /\ keyRead' = TRUE
  /\ dirs' = [dirs EXCEPT ![Place].tmp = keyRead']
  /\ UNCHANGED <<world, run, cache, art, sig, writing, todo, loaded, steady>>

LeftTmp(tar) == [dirs EXCEPT ![Place].tar = tar]
\* os.replace onto model.tar, or nothing but the removal of the .tmp file.
Decrypted(tar) == [dirs EXCEPT ![Place].tar = tar, ![Place].tmp = FALSE]

Decrypt ==
  /\ pc = "decrypt"
  /\ \/ /\ Opens[art] # None
        /\ dirs' = Decrypted(Opens[art])
        /\ Go("check")
     \/ /\ dirs' = Decrypted(Package)     \* no authentication, or no space
        /\ Fail(DecryptError)
  /\ UNCHANGED <<world, run, cache, art, sig, writing, todo, loaded, keyRead, steady>>

-----------------------------------------------------------------------------
(* restore_package, load_model, fill_mask.                                  *)

\* _check_member on all members, then _read_manifest.
WellFormed(p) == p \in Safe /\ Members[p] = Listed[p]

CheckPackage ==
  /\ pc = "check"
  /\ IF WellFormed(Package)
       THEN Go("extract") /\ todo' = Members[Package]
       ELSE Fail(ExtractionError) /\ UNCHANGED todo
  /\ UNCHANGED <<world, run, cache, art, sig, writing, dirs, loaded, keyRead, steady>>

Put(n, state) == [dirs EXCEPT ![Place].model[n] = <<Package, state>>]

\* _extract_verified opens the file for writing ...
OpenMember(n) ==
  /\ pc = "extract" /\ writing = None /\ n \in todo
  /\ writing' = n
  /\ dirs' = Put(n, "part")
  /\ UNCHANGED <<world, run, cache, pc, art, sig, todo, loaded, exit, keyRead, steady>>

AnyHash(n) == TRUE
HashMatches(n) == n \in Matching[Package]

\* ... and compares size and hash once it is written.
CloseMember ==
  /\ pc = "extract" /\ writing # None
  /\ dirs' = Put(writing, "whole")
  /\ todo' = todo \ {writing}
  /\ writing' = None
  /\ IF HashMatches(writing) THEN Go("extract") ELSE Fail(ExtractionError)
  /\ UNCHANGED <<world, run, cache, art, sig, loaded, keyRead, steady>>

Load ==
  /\ pc = "extract" /\ todo = {}
  /\ \/ loaded' = Dir.model /\ Go("infer")
     \/ UNCHANGED loaded /\ Fail(ModelLoadError)
  /\ UNCHANGED <<world, run, cache, art, sig, writing, todo, dirs, keyRead, steady>>

Infer ==
  /\ pc = "infer"
  /\ Fail(0) \/ Fail(InferenceError)
  /\ UNCHANGED <<world, run, cache, art, sig, writing, todo, dirs, loaded, keyRead, steady>>

\* An exception that no step converts ends the run with exit code 1: an
\* OSError while extracting, top_k beyond the vocabulary, no memory anywhere.
\* The `finally` of decrypt_file is on its way.
Uncaught ==
  /\ pc \notin {"idle", "closing"}
  /\ Fail(Unexpected)
  /\ writing' = None
  /\ dirs' = IF pc \in {"header", "decrypt"} THEN Decrypted(Package) ELSE dirs
  /\ UNCHANGED <<world, run, cache, art, sig, todo, loaded, keyRead, steady>>

-----------------------------------------------------------------------------
LeavesTemp == dirs
\* _work_dir: TemporaryDirectory removes itself, a configured one stays.
Cleaned == IF settings.keep THEN dirs ELSE [dirs EXCEPT !.temp = EmptyDir]

Close ==
  /\ pc = "closing"
  /\ pc' = "idle"
  /\ dirs' = Cleaned
  /\ UNCHANGED <<world, run, cache, art, sig, writing, todo, loaded, exit, keyRead, steady>>

\* SIGKILL, out of memory, node lost: no handler and no finally runs.
Kill ==
  /\ pc # "idle"
  /\ pc' = "idle" /\ exit' = Killed
  /\ UNCHANGED <<world, run, cache, art, sig, writing, todo, dirs, loaded, keyRead, steady>>

HubCommit(c) ==
  /\ commits < MaxCommits
  /\ hub' = c
  /\ commits' = commits + 1
  /\ steady' = FALSE
  /\ UNCHANGED <<run, cache, pc, art, sig, writing, todo, dirs, loaded, exit, keyRead>>

-----------------------------------------------------------------------------
Init ==
  /\ hub \in Commits
  /\ cache = [art |-> None, sig |-> None]
  /\ pc = "idle"
  /\ settings \in Settings
  /\ art = None /\ sig = None /\ writing = None /\ todo = {} /\ loaded = None
  /\ dirs = [kept |-> EmptyDir, temp |-> EmptyDir]
  /\ exit = Running
  /\ runs = 0 /\ commits = 0
  /\ keyRead = FALSE /\ before = EmptyDir /\ steady = FALSE /\ unread = FALSE

Step == \/ FetchArtifact \/ FetchSignature \/ SkipSignature \/ Verify
        \/ ReadKey \/ Decrypt \/ CheckPackage \/ CloseMember
        \/ Load \/ Infer \/ Uncaught \/ Close
        \/ \E n \in Names : OpenMember(n)

Next == \/ Step \/ Kill
        \/ \E s \in Settings : Start(s)
        \/ \E c \in Commits : HubCommit(c)

Spec == Init /\ [][Next]_vars

-----------------------------------------------------------------------------
(* Every step finds what it needs: no step after the download runs without  *)
(* an artifact, none after verification without a signature.                *)
TypeOK ==
  /\ hub \in Commits
  /\ cache \in [art : Artifacts \union {None}, sig : Envelopes \union {None}]
  /\ settings \in Settings
  /\ pc \in {"idle", "closing", "artifact", "signature", "verify", "header",
             "decrypt", "check", "extract", "infer"}
  /\ art \in Artifacts \union {None} /\ sig \in Envelopes \union {None}
  /\ pc \in {"signature", "verify", "header", "decrypt", "check"} => art # None
  /\ pc = "verify" => sig # None
  /\ todo \subseteq Names /\ writing \in todo \union {None}
  /\ dirs \in [{"kept", "temp"} -> [tar : Packages \union {None}, tmp : BOOLEAN,
                                    model : [Names -> Contents]]]
  /\ loaded \in [Names -> Contents] \union {None}
  /\ exit \in (0..8) \union {Running, Killed}
  /\ {keyRead, steady, unread} \subseteq BOOLEAN

(* Layer 2 before Layer 1: when the key was read in a run that verifies,    *)
(* the fetched signature is the trusted signer's over exactly the artifact  *)
(* that is decrypted (core/verify.py, core/decrypt.py).                     *)
KeyOnlyAfterVerification ==
  keyRead /\ settings.verify => /\ settings.public # None
                                /\ sig = [of |-> art, by |-> settings.public]

(* A run that ends with a download or a signature error has not read the    *)
(* key, and its work directory is as it found it.                           *)
RejectedLeavesNoTrace ==
  exit \in {DownloadError, SignatureError} /\ pc # "idle" =>
    /\ ~keyRead
    /\ Dir = before

(* Every file the manifest lists is loaded with the bytes the manifest      *)
(* describes, from the one package that the run's artifact decrypts to,     *)
(* whatever earlier runs, complete or killed, left in the work directory.   *)
ListedFilesAreThePackage ==
  loaded # None =>
    \A n \in Listed[Opens[art]] : /\ loaded[n] = <<Opens[art], "whole">>
                                  /\ n \in Matching[Opens[art]]

(* A run that ended by itself left of a temporary work directory nothing,   *)
(* whichever step failed, and of a configured one no half-decrypted .tmp    *)
(* file, unless a killed run left it and this one never got to decrypt.     *)
NothingLeftBehind ==
  pc = "idle" /\ exit \in 0..8 =>
    IF settings.keep THEN Dir.tmp => before.tmp /\ ~keyRead
                     ELSE Dir = EmptyDir

(* A signature error has one of three causes: the two downloads did not see *)
(* the same Hub, or a file could not be read once it was there, or that     *)
(* Hub's pair does not verify.  Neither a cached copy nor a commit that     *)
(* came before or after both makes a good pair fail (core/verify.py).       *)
SteadyPairIsAccepted ==
  exit = SignatureError /\ steady /\ ~unread =>
    hub.sig # [of |-> hub.art, by |-> settings.public]

(* tests/integration/test_end_to_end.py:65-80: the restored directory of a  *)
(* configured work directory holds exactly the packaged files.              *)
LoadsNothingElse ==
  loaded # None => \A n \in Names \ Listed[Opens[art]] : loaded[n] = None
=============================================================================
