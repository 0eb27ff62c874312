-------------------------- MODULE Producer_proofs --------------------------
(***************************************************************************)
(* What the producer's commands guarantee in any order, over any models,   *)
(* names and shared signature names, whatever fails or is killed.          *)
(***************************************************************************)
EXTENDS Producer, TLAPS

USE NameAssumption, CommandAssumption, BoundAssumption, NoneAssumption

OneModel(p) == \E m \in Models : p = Only(m)

(***************************************************************************)
(* The model directory is emptied before a download and holds one model    *)
(* after it, so every package, and every file made from one, is one model. *)
(***************************************************************************)
ModelInv ==
  /\ pc = "download" => modelDir = Empty
  /\ pc = "pack" => modelDir = Only(cmd.model)
  /\ package # None => OneModel(package)
  /\ \A n \in Names : art[n] # None => OneModel(art[n].pkg)
  /\ \A n \in Names : hub.art[n] # None => OneModel(hub.art[n].pkg)

(***************************************************************************)
(* A run carries its own files from step to step.                          *)
(***************************************************************************)
RunInv ==
  cmd.op = "run" =>
    /\ pc = "encrypt" => package = Only(cmd.model)
    /\ pc \in {"sign", "publish"} => art[cmd.name] = [pkg |-> Only(cmd.model), serial |-> serial]
    /\ pc = "publish" /\ cmd.sign => sig[StemOf[cmd.name]] = art[cmd.name]

\* Only these commands come to the step that commits.
CommitInv == pc = "publish" => cmd.op \in {"publish", "run"}

Inv == TypeOK /\ OnlyCiphertextOnHub /\ ModelInv /\ RunInv /\ CommitInv

-----------------------------------------------------------------------------
LEMMA Models0 ==
  /\ Empty \in Package
  /\ \A m \in Models : Only(m) \in Package
BY DEF Empty, Only, Package

LEMMA CommandParts ==
  ASSUME TypeOK
  PROVE  /\ cmd \in Commands
         /\ cmd.op \in {"package", "encrypt", "sign", "publish", "run"}
         /\ cmd.name \in Names /\ cmd.model \in Models /\ cmd.sign \in BOOLEAN
         /\ StemOf[cmd.name] \in Stems
<1>1. cmd \in Commands
  BY DEF TypeOK
<1>2. cmd \in [op : {"package", "encrypt", "sign", "publish", "run"},
               name : Names, model : Models, sign : BOOLEAN]
  BY <1>1
<1>3. QED
  BY <1>1, <1>2

\* Which step follows, in full.
LEMMA Following ==
  ASSUME TypeOK, NEW step, Done(step)
  PROVE  /\ step = "reset" => pc' = "download"
         /\ step = "download" => pc' = "pack"
         /\ step = "pack" => pc' = IF cmd.op = "run" THEN "encrypt" ELSE "idle"
         /\ step = "encrypt" => pc' = IF cmd.op = "run"
                                        THEN IF cmd.sign THEN "sign" ELSE "publish"
                                        ELSE "idle"
         /\ step = "sign" => pc' = IF cmd.op = "run" THEN "publish" ELSE "idle"
         /\ step = "publish" => pc' = "idle"
         /\ pc = step /\ UNCHANGED <<cmd, commands>>
         /\ exit' \in {"ok", exit}
<1>1. /\ step = "reset" => After(step) = "download"
      /\ step = "download" => After(step) = "pack"
      /\ step = "publish" => After(step) = "idle"
  BY DEF After
<1>2. step = "pack" => After(step) = IF cmd.op = "run" THEN "encrypt" ELSE "idle"
  BY DEF After, Run
<1>3. step = "encrypt" => After(step) = IF cmd.op = "run"
                                          THEN IF cmd.sign THEN "sign" ELSE "publish"
                                          ELSE "idle"
  BY DEF After, Run
<1>4. step = "sign" => After(step) = IF cmd.op = "run" THEN "publish" ELSE "idle"
  BY DEF After, Run
<1>5. QED
  BY <1>1, <1>2, <1>3, <1>4 DEF Done

LEMMA TypeStep ==
  ASSUME TypeOK, [Next]_vars
  PROVE  TypeOK'
<1> USE Models0, CommandParts
<1>1. CASE UNCHANGED vars
  BY <1>1 DEF vars, work, TypeOK, Encoded, Files
<1>2. ASSUME NEW c \in Commands, Command(c) PROVE TypeOK'
  BY <1>2 DEF Command, First, work, TypeOK, Files
<1>3. CASE Reset
  BY <1>3, Following DEF Reset, ResetDir, TypeOK, Files
<1>4. CASE Download
  <2>1. modelDir' \in Package
    BY <1>4 DEF Download, TypeOK, Package
  <2>2. QED
    BY <1>4, <2>1, Following DEF Download, TypeOK, Files
<1>5. CASE BreakDownload
  <2>1. modelDir' \in Package
    BY <1>5 DEF BreakDownload, TypeOK, Package
  <2>2. QED
    BY <1>5, <2>1 DEF BreakDownload, TypeOK, Files
<1>6. CASE Pack
  BY <1>6, Following DEF Pack, TypeOK, Files
<1>7. CASE Encrypt
  <2>1. [pkg |-> package, serial |-> serial + 1] \in File
    BY <1>7 DEF Encrypt, TypeOK, File
  <2>2. art' \in Files(Names) /\ Encoded(art'[cmd.name])
    BY <1>7, <2>1 DEF Encrypt, TypeOK, Files, Encoded, File
  <2>3. QED
    BY <1>7, <2>2, Following DEF Encrypt, TypeOK
<1>8. CASE Sign
  <2>1. sig' \in Files(Stems) /\ Encoded(sig'[StemOf[cmd.name]])
    BY <1>8 DEF Sign, TypeOK, Files, Encoded
  <2>2. QED
    BY <1>8, <2>1, Following DEF Sign, TypeOK
<1>9. Uploaded(cmd) \in [art : Files(Names), sig : Files(Stems)]
  BY DEF Uploaded, TypeOK, Files
<1>10. CASE Publish
  BY <1>10, <1>9, Following DEF Publish, work, TypeOK
<1>11. CASE PublishUnanswered
  BY <1>11, <1>9 DEF PublishUnanswered, work, TypeOK
<1>12. CASE Stop
  BY <1>12 DEF Stop, work, TypeOK
<1>13. CASE Copy
  <2>1. Plain(package) \in File
    BY <1>13 DEF Copy, Plain, File, TypeOK
  <2>2. art' \in Files(Names) /\ sig' \in Files(Stems)
    BY <1>13, <2>1 DEF Copy, TypeOK, Files
  <2>3. QED
    BY <1>13, <2>2 DEF Copy, TypeOK
<1>14. QED
  BY <1>1, <1>2, <1>3, <1>4, <1>5, <1>6, <1>7, <1>8, <1>10, <1>11, <1>12, <1>13 DEF Next, Step

LEMMA CipherStep ==
  ASSUME TypeOK, OnlyCiphertextOnHub, [Next]_vars
  PROVE  OnlyCiphertextOnHub'
<1> USE CommandParts
<1>1. CASE UNCHANGED hub
  BY <1>1 DEF OnlyCiphertextOnHub
<1>2. CASE Publishable(cmd) /\ hub' = Uploaded(cmd)
  BY <1>2 DEF Publishable, Uploaded, Encoded, OnlyCiphertextOnHub, TypeOK, Files
<1>3. QED
  BY <1>1, <1>2 DEF Next, Step, vars, Command, Reset, Download, BreakDownload, Pack, Encrypt, Sign,
                    Publish, PublishUnanswered, Stop, Copy

LEMMA ModelStep ==
  ASSUME TypeOK, ModelInv, [Next]_vars
  PROVE  ModelInv'
<1> USE CommandParts DEF ModelInv
<1>1. CASE UNCHANGED vars
  BY <1>1 DEF vars, work
<1>2. ASSUME NEW c \in Commands, Command(c) PROVE ModelInv'
  BY <1>2 DEF Command, First, work
<1>3. CASE Reset
  BY <1>3, Following DEF Reset, ResetDir
<1>4. CASE Download
  <2>1. [Empty EXCEPT ![cmd.model] = "whole"] = Only(cmd.model)
    BY DEF Empty, Only
  <2>2. QED
    BY <1>4, <2>1, Following DEF Download
<1>5. CASE BreakDownload
  BY <1>5 DEF BreakDownload
<1>6. CASE Pack
  BY <1>6, Following DEF Pack, OneModel
<1>7. CASE Encrypt
  BY <1>7, Following DEF Encrypt, TypeOK, Files
<1>8. CASE Sign
  BY <1>8, Following DEF Sign
<1>9. CASE Publishable(cmd) /\ hub' = Uploaded(cmd) /\ UNCHANGED work /\ pc' = "idle"
  BY <1>9 DEF Uploaded, work, Publishable, TypeOK, Files
<1>10. CASE Publish \/ PublishUnanswered
  BY <1>9, <1>10, Following DEF Publish, PublishUnanswered
<1>11. CASE Stop
  BY <1>11 DEF Stop, work
<1>12. CASE Copy
  BY <1>12 DEF Copy, Plain, TypeOK, Files
<1>13. QED
  BY <1>1, <1>2, <1>3, <1>4, <1>5, <1>6, <1>7, <1>8, <1>10, <1>11, <1>12 DEF Next, Step

LEMMA RunStep ==
  ASSUME TypeOK, ModelInv, RunInv, [Next]_vars
  PROVE  RunInv'
<1> USE CommandParts DEF RunInv
<1>1. CASE UNCHANGED vars
  BY <1>1 DEF vars, work
<1>2. ASSUME NEW c \in Commands, Command(c) PROVE RunInv'
  BY <1>2 DEF Command, First, work
<1>3. CASE Reset \/ Download
  BY <1>3, Following DEF Reset, Download
<1>4. CASE Pack
  BY <1>4, Following DEF Pack, ModelInv
<1>5. CASE Encrypt
  BY <1>5, Following DEF Encrypt, TypeOK, Files
<1>6. CASE Sign
  BY <1>6, Following DEF Sign, TypeOK, Files
<1>7. CASE Publish
  BY <1>7, Following DEF Publish
<1>8. CASE BreakDownload \/ PublishUnanswered \/ Stop \/ Copy
  BY <1>8 DEF BreakDownload, PublishUnanswered, Stop, Copy
<1>9. QED
  BY <1>1, <1>2, <1>3, <1>4, <1>5, <1>6, <1>7, <1>8 DEF Next, Step

LEMMA CommitStep ==
  ASSUME TypeOK, CommitInv, [Next]_vars
  PROVE  CommitInv'
<1> USE CommandParts DEF CommitInv
<1>1. CASE UNCHANGED vars
  BY <1>1 DEF vars
<1>2. ASSUME NEW c \in Commands, Command(c) PROVE CommitInv'
  BY <1>2 DEF Command, First
<1>3. CASE Reset \/ Download \/ Pack \/ Encrypt \/ Sign \/ Publish
  BY <1>3, Following DEF Reset, Download, Pack, Encrypt, Sign, Publish
<1>4. CASE BreakDownload \/ PublishUnanswered \/ Stop \/ Copy
  BY <1>4 DEF BreakDownload, PublishUnanswered, Stop, Copy
<1>5. QED
  BY <1>1, <1>2, <1>3, <1>4 DEF Next, Step

LEMMA InvInductive == Spec => []Inv
<1>1. Init => Inv
  <2> SUFFICES ASSUME Init PROVE Inv
    OBVIOUS
  <2>1. TypeOK
    BY Models0 DEF Init, TypeOK, Files
  <2>2. OnlyCiphertextOnHub /\ ModelInv /\ RunInv /\ CommitInv
    BY DEF Init, OnlyCiphertextOnHub, ModelInv, RunInv, CommitInv
  <2>3. QED
    BY <2>1, <2>2 DEF Inv
<1>2. Inv /\ [Next]_vars => Inv'
  BY TypeStep, CipherStep, ModelStep, RunStep, CommitStep DEF Inv
<1>3. QED
  BY <1>1, <1>2, PTL DEF Spec

\* The Hub changes by one commit, in the last step of a command that may
\* publish: what the command names is replaced, everything else stays.
LEMMA OneCommit ==
  ASSUME Inv, [Next]_vars, hub' # hub
  PROVE  /\ pc = "publish" /\ cmd.op \in {"publish", "run"} /\ Publishable(cmd)
         /\ hub'.art = [hub.art EXCEPT ![cmd.name] = art[cmd.name]]
         /\ \A s \in Stems : hub'.sig[s] =
               IF cmd.sign /\ s = StemOf[cmd.name] THEN sig[s] ELSE hub.sig[s]
<1>1. Publishable(cmd) /\ hub' = Uploaded(cmd) /\ pc = "publish"
  BY DEF Next, Step, vars, Command, Reset, Download, BreakDownload, Pack, Encrypt, Sign,
         Publish, PublishUnanswered, Stop, Copy, Done
<1>2. \A s \in Stems : Uploaded(cmd).sig[s] =
        IF cmd.sign /\ s = StemOf[cmd.name] THEN sig[s] ELSE hub.sig[s]
  BY CommandParts DEF Inv, TypeOK, Uploaded, Files
<1>3. QED
  BY <1>1, <1>2 DEF Inv, CommitInv, Uploaded

-----------------------------------------------------------------------------
(* No command comes to a step whose input file is missing.                  *)
THEOREM TypeCorrect == Spec => []TypeOK
BY InvInductive, PTL DEF Inv

(* Nothing but ciphertext and envelopes is uploaded (run_publish).          *)
THEOREM UploadsCiphertext == Spec => []OnlyCiphertextOnHub
BY InvInductive, PTL DEF Inv

(* Packages and published artifacts hold one model, and all of it, whatever *)
(* downloads were broken off before (_reset_dir, run_package).              *)
THEOREM PackagesOneModel == Spec => []PackageIsOneModel
<1>1. Inv => PackageIsOneModel
  BY DEF Inv, ModelInv, OneModel, PackageIsOneModel
<1>2. QED
  BY <1>1, InvInductive, PTL

(* `run` commits the model it was asked for under the signature made for    *)
(* it, never a leftover (run_all).                                          *)
THEOREM RunPublishesItsOwn == Spec => RunPublishesItsOwnPair
<1> DEFINE A == hub' # hub /\ cmd.op = "run" =>
                  /\ hub'.art[cmd.name] = [pkg |-> Only(cmd.model), serial |-> serial]
                  /\ cmd.sign => hub'.sig[StemOf[cmd.name]] = hub'.art[cmd.name]
<1>1. Inv /\ [Next]_vars => [A]_vars
  <2> SUFFICES ASSUME Inv, [Next]_vars, hub' # hub, cmd.op = "run" PROVE A
    BY DEF vars
  <2>1. hub'.art[cmd.name] = art[cmd.name]
        /\ (cmd.sign => hub'.sig[StemOf[cmd.name]] = sig[StemOf[cmd.name]])
    BY OneCommit, CommandParts DEF Inv, TypeOK, Files
  <2>2. QED
    BY <2>1, OneCommit DEF Inv, RunInv
<1>2. QED
  BY <1>1, InvInductive, PTL DEF Spec, RunPublishesItsOwnPair

(* A commit that was to be signed brings a signature file with it           *)
(* (_require_signature, run_publish).                                       *)
THEOREM SignedUnlessAsked == Spec => UnsignedOnlyWhenAsked
<1> DEFINE A == hub' # hub /\ cmd.sign => hub'.sig[StemOf[cmd.name]] \in File
<1>1. Inv /\ [Next]_vars => [A]_vars
  <2> SUFFICES ASSUME Inv, [Next]_vars, hub' # hub, cmd.sign PROVE A
    BY DEF vars
  <2>1. hub'.sig[StemOf[cmd.name]] = sig[StemOf[cmd.name]]
    BY OneCommit, CommandParts DEF Inv
  <2>2. Encoded(sig[StemOf[cmd.name]])
    BY OneCommit DEF Publishable
  <2>3. QED
    BY <2>1, <2>2, CommandParts DEF Inv, TypeOK, Files, Encoded
<1>2. QED
  BY <1>1, InvInductive, PTL DEF Spec, UnsignedOnlyWhenAsked

(* Commits about other artifacts never break a verifiable pair whose        *)
(* signature file is its own, and a signed run puts a new pair in its place *)
(* (HubClient.upload, run_all).                                             *)
THEOREM PairsSurvive == Spec => PairSurvives
<1> DEFINE A == \A n \in Names :
                  Paired(hub, n) /\ ~Paired(hub', n) /\ ~SharesSignature(n) =>
                    cmd.name = n /\ (cmd.op = "publish" \/ ~cmd.sign)
<1>1. Inv /\ [Next]_vars => [A]_vars
  <2> SUFFICES ASSUME Inv, [Next]_vars, NEW n \in Names,
                      Paired(hub, n), ~Paired(hub', n), ~SharesSignature(n)
               PROVE  cmd.name = n /\ (cmd.op = "publish" \/ ~cmd.sign)
    BY DEF vars
  <2>1. hub' # hub
    OBVIOUS
  <2>2. cmd.name \in Names /\ StemOf[n] \in Stems /\ TypeOK
    BY CommandParts DEF Inv
  <2>3. cmd.name = n
    <3> SUFFICES ASSUME cmd.name # n PROVE FALSE
      OBVIOUS
    <3>1. StemOf[cmd.name] # StemOf[n]
      BY <2>2 DEF SharesSignature
    <3>2. hub'.art[n] = hub.art[n]
      BY <2>1, <2>2, OneCommit DEF TypeOK, Files
    <3>3. hub'.sig[StemOf[n]] = hub.sig[StemOf[n]]
      BY <2>1, <2>2, <3>1, OneCommit
    <3>4. QED
      BY <3>2, <3>3 DEF Paired
  <2>4. CASE cmd.op = "run" /\ cmd.sign
    <3>1. hub'.art[n] = art[n] /\ art[n] # None
      BY <2>1, <2>2, <2>3, OneCommit DEF TypeOK, Files, Publishable, Encoded
    <3>2. hub'.sig[StemOf[n]] = sig[StemOf[n]]
      BY <2>1, <2>2, <2>3, <2>4, OneCommit
    <3>3. sig[StemOf[n]] = art[n]
      BY <2>1, <2>3, <2>4, OneCommit DEF Inv, RunInv
    <3>4. QED
      BY <3>1, <3>2, <3>3 DEF Paired
  <2>5. QED
    BY <2>1, <2>2, <2>3, <2>4, OneCommit, CommandParts
<1>2. QED
  BY <1>1, InvInductive, PTL DEF Spec, PairSurvives

-----------------------------------------------------------------------------
(* Two promises of the documentation that fail in general, and what they    *)
(* need.                                                                    *)

(* "One signature per artifact" (models/settings.py) is true wherever no    *)
(* two artifact names have one signature file.                              *)
THEOREM OneSignatureEach ==
  (\A n \in Names : ~SharesSignature(n)) => (Spec => OneSignaturePerArtifact)
<1> SUFFICES ASSUME \A n \in Names : ~SharesSignature(n)
             PROVE  Spec => OneSignaturePerArtifact
  OBVIOUS
<1> DEFINE A == \A n \in Names :
                  Paired(hub, n) /\ ~Paired(hub', n) /\ ~SharesSignature(n) =>
                    cmd.name = n /\ (cmd.op = "publish" \/ ~cmd.sign)
           B == \A n \in Names : Paired(hub, n) /\ ~Paired(hub', n) => cmd.name = n
<1>1. [A]_vars => [B]_vars
  OBVIOUS
<1>2. QED
  BY <1>1, PairsSurvive, PTL DEF PairSurvives, OneSignaturePerArtifact

(* "The Hub never shows a mismatched pair" (infra/hub.py) is true wherever, *)
(* in addition, whatever is published is published by signed runs.          *)
SignedRunsOnly ==
  /\ \A n \in Names : ~SharesSignature(n)
  /\ \A c \in Commands : c.op # "publish" /\ (c.op = "run" => c.sign)

THEOREM SignedRunsMatch == SignedRunsOnly => (Spec => []NoMismatchedPair)
<1> SUFFICES ASSUME SignedRunsOnly PROVE Spec => []NoMismatchedPair
  OBVIOUS
<1>1. Init => NoMismatchedPair
  BY DEF Init, NoMismatchedPair
<1>2. Inv /\ NoMismatchedPair /\ [Next]_vars => NoMismatchedPair'
  <2> SUFFICES ASSUME Inv, NoMismatchedPair, [Next]_vars, hub' # hub, NEW n \in Names,
                      hub'.art[n] # None, hub'.sig[StemOf[n]] # None
               PROVE  hub'.sig[StemOf[n]] = hub'.art[n]
    BY DEF NoMismatchedPair, Paired
  <2>1. cmd.name \in Names /\ StemOf[n] \in Stems /\ TypeOK /\ cmd \in Commands
    BY CommandParts DEF Inv
  <2>2. cmd.op = "run" /\ cmd.sign
    BY <2>1, OneCommit DEF SignedRunsOnly
  <2>3. CASE cmd.name = n
    <3>1. hub'.art[n] = art[n] /\ hub'.sig[StemOf[n]] = sig[StemOf[n]]
      BY <2>1, <2>2, <2>3, OneCommit DEF TypeOK, Files
    <3>2. QED
      BY <2>2, <2>3, <3>1, OneCommit DEF Inv, RunInv
  <2>4. CASE cmd.name # n
    <3>1. StemOf[cmd.name] # StemOf[n]
      BY <2>1, <2>4 DEF SignedRunsOnly, SharesSignature
    <3>2. hub'.art[n] = hub.art[n] /\ hub'.sig[StemOf[n]] = hub.sig[StemOf[n]]
      BY <2>1, <2>4, <3>1, OneCommit DEF TypeOK, Files
    <3>3. QED
      BY <3>2 DEF NoMismatchedPair, Paired
  <2>5. QED
    BY <2>3, <2>4
<1>3. QED
  BY <1>1, <1>2, InvInductive, PTL DEF Spec
=============================================================================
