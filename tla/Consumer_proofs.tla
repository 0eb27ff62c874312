-------------------------- MODULE Consumer_proofs --------------------------
(***************************************************************************)
(* What a run of the consumer guarantees whatever the Hub serves, whatever *)
(* earlier runs left and wherever a run is killed, for any packages,       *)
(* artifacts, settings and number of runs.                                 *)
(***************************************************************************)
EXTENDS Consumer, TLAPS

USE NoneAssumption, PackageAssumption, SourceAssumption, BoundAssumption DEF PublicKey, KeyUsable

WorkDir == [tar : Packages \union {None}, tmp : BOOLEAN, model : [Names -> Contents]]

Authentic == settings.public # None /\ sig = [of |-> art, by |-> settings.public]

(***************************************************************************)
(* The key is read in the header step or later, and what stands between    *)
(* the download and that step in a verifying run is Authentic.             *)
(***************************************************************************)
KeyInv ==
  /\ pc \in {"artifact", "signature", "verify", "header"} => ~keyRead
  /\ (pc = "header" \/ keyRead) /\ settings.verify => Authentic

(***************************************************************************)
(* The exit code is set exactly when the run leaves its steps, and until   *)
(* it decrypts, the run has written nothing.                               *)
(***************************************************************************)
TraceInv ==
  /\ pc \notin {"idle", "closing"} => exit = Running
  /\ pc \in {"artifact", "signature", "verify", "header"} => Dir = before
  /\ RejectedLeavesNoTrace

(***************************************************************************)
(* While it extracts, model.tar is the package the artifact decrypts to,   *)
(* and every member that is no longer to do is in place and checked.       *)
(***************************************************************************)
Extracted(n) == Dir.model[n] = <<Package, "whole">> /\ n \in Matching[Package]

ExtractInv ==
  /\ pc \in {"check", "extract"} => Package = Opens[art] /\ Package # None
  /\ pc = "extract" => /\ WellFormed(Package)
                       /\ todo \subseteq Members[Package]
                       /\ \A n \in Members[Package] \ todo : Extracted(n)
  /\ pc \notin {"idle", "closing", "infer"} => loaded = None
  /\ ListedFilesAreThePackage

\* A member is only written while the run extracts.
WritingInv == pc \notin {"idle", "extract"} => writing = None

(***************************************************************************)
(* Except while it decrypts, a run has no .tmp file in its directory but   *)
(* one it found there and has not come to replace.                         *)
(***************************************************************************)
LeftInv ==
  /\ pc \notin {"idle", "decrypt"} => (Dir.tmp => before.tmp /\ ~keyRead)
  /\ NothingLeftBehind

(***************************************************************************)
(* As long as `steady` holds, what the run has fetched is what the Hub     *)
(* still serves.                                                           *)
(***************************************************************************)
SteadyInv ==
  /\ pc \in {"signature", "verify"} /\ steady => art = hub.art
  /\ pc = "verify" /\ steady => sig = hub.sig
  /\ SteadyPairIsAccepted

Inv == TypeOK /\ KeyInv /\ TraceInv /\ ExtractInv /\ WritingInv /\ LeftInv /\ SteadyInv

-----------------------------------------------------------------------------
LEMMA Dirs ==
  ASSUME TypeOK
  PROVE  /\ dirs \in [{"kept", "temp"} -> WorkDir]
         /\ Place \in {"kept", "temp"}
         /\ EmptyDir \in WorkDir
         /\ Dir \in WorkDir
<1>1. EmptyDir \in WorkDir
  <2>1. NoFiles \in [Names -> Contents]
    BY DEF NoFiles, Contents
  <2>2. QED
    BY <2>1 DEF EmptyDir, WorkDir
<1>2. dirs \in [{"kept", "temp"} -> WorkDir]
  BY DEF TypeOK, WorkDir
<1>3. Place \in {"kept", "temp"}
  BY DEF Place
<1>4. QED
  BY <1>1, <1>2, <1>3 DEF Dir

LEMMA InitType == Init => TypeOK
<1> SUFFICES ASSUME Init PROVE TypeOK
  OBVIOUS
<1>1. EmptyDir \in WorkDir
  <2>1. NoFiles \in [Names -> Contents]
    BY DEF NoFiles, Contents
  <2>2. QED
    BY <2>1 DEF EmptyDir, WorkDir
<1>2. dirs \in [{"kept", "temp"} -> WorkDir]
  BY <1>1 DEF Init
<1>3. exit \in (0..8) \union {Running, Killed}
  BY DEF Init
<1>4. QED
  BY <1>2, <1>3 DEF Init, TypeOK, WorkDir

\* What each step leaves in the directories is a pair of directories.
LEMMA DirsTyped ==
  ASSUME TypeOK, ExtractInv, [Next]_vars
  PROVE  dirs' \in [{"kept", "temp"} -> WorkDir]
<1> USE Dirs
<1>1. CASE UNCHANGED dirs
  BY <1>1
<1>2. ASSUME NEW s \in Settings, Start(s)
      PROVE  dirs' \in [{"kept", "temp"} -> WorkDir]
  BY <1>2 DEF Start, DirsAtStart
<1>3. CASE ReadKey
  <2>1. keyRead' \in BOOLEAN
    BY <1>3 DEF ReadKey, TypeOK
  <2>2. QED
    BY <1>3, <2>1 DEF ReadKey, WorkDir
<1>d. ASSUME NEW t \in Packages \union {None}
      PROVE  Decrypted(t) \in [{"kept", "temp"} -> WorkDir]
  <2> DEFINE new == [dirs[Place] EXCEPT !.tar = t, !.tmp = FALSE]
  <2>1. Place \in {"kept", "temp"} /\ dirs \in [{"kept", "temp"} -> WorkDir]
    BY DEF Place, TypeOK
  <2>2. dirs[Place] \in WorkDir
    BY <2>1
  <2>3. new \in WorkDir
    BY <1>d, <2>2 DEF WorkDir
  <2>4. Decrypted(t) = [dirs EXCEPT ![Place] = new]
    BY <2>1, <2>2 DEF Decrypted, WorkDir
  <2>5. QED
    BY <2>1, <2>3, <2>4
<1>4. CASE Decrypt \/ Uncaught
  <2>1. Decrypt /\ Opens[art] # None => Opens[art] \in Packages
    BY DEF Decrypt, TypeOK
  <2>2. Package \in Packages \union {None}
    BY DEF Package, WorkDir
  <2>3. dirs' = Decrypted(Package) \/ UNCHANGED dirs
          \/ (Opens[art] \in Packages /\ dirs' = Decrypted(Opens[art]))
    BY <1>4, <2>1 DEF Decrypt, Uncaught
  <2>4. QED
    BY <1>1, <1>d, <2>2, <2>3
<1>5. ASSUME NEW n \in Names, NEW state \in {"part", "whole"}, pc = "extract"
      PROVE  Put(n, state) \in [{"kept", "temp"} -> WorkDir]
  <2>1. Package \in Packages
    BY <1>5 DEF ExtractInv, Package, WorkDir
  <2>2. <<Package, state>> \in Contents
    BY <2>1 DEF Contents
  <2>3. [Dir.model EXCEPT ![n] = <<Package, state>>] \in [Names -> Contents]
    BY <2>2 DEF WorkDir
  <2>4. [Dir EXCEPT !.model = [Dir.model EXCEPT ![n] = <<Package, state>>]] \in WorkDir
    BY <2>3 DEF WorkDir
  <2>5. Put(n, state) = [dirs EXCEPT ![Place] = [Dir EXCEPT !.model = [Dir.model EXCEPT ![n] = <<Package, state>>]]]
    BY DEF Put, Dir
  <2>6. QED
    BY <2>4, <2>5
<1>6. ASSUME NEW n \in Names, OpenMember(n)
      PROVE  dirs' \in [{"kept", "temp"} -> WorkDir]
  BY <1>5, <1>6 DEF OpenMember
<1>7. CASE CloseMember
  <2>1. writing \in Names
    BY <1>7 DEF CloseMember, TypeOK
  <2>2. QED
    BY <1>5, <1>7, <2>1 DEF CloseMember
<1>8. CASE Close
  BY <1>8 DEF Close, Cleaned
<1>9. QED
  BY <1>1, <1>2, <1>3, <1>4, <1>6, <1>7, <1>8
     DEF Next, Step, vars, FetchArtifact, FetchSignature, SkipSignature, Verify,
         CheckPackage, Load, Infer, Kill, HubCommit

\* All of TypeOK but the directories.
RestTyped ==
  /\ hub \in Commits
  /\ cache \in [art : Artifacts \union {None}, sig : Envelopes \union {None}]
  /\ settings \in Settings
  /\ pc \in {"idle", "closing", "artifact", "signature", "verify", "header",
             "decrypt", "check", "extract", "infer"}
  /\ art \in Artifacts \union {None} /\ sig \in Envelopes \union {None}
  /\ pc \in {"signature", "verify", "header", "decrypt", "check"} => art # None
  /\ pc = "verify" => sig # None
  /\ todo \subseteq Names /\ writing \in todo \union {None}
  /\ loaded \in [Names -> Contents] \union {None}
  /\ exit \in (0..8) \union {Running, Killed}
  /\ {keyRead, steady, unread} \subseteq BOOLEAN

LEMMA RestTypedStep ==
  ASSUME TypeOK, ExtractInv, WritingInv, [Next]_vars
  PROVE  RestTyped'
<1> USE DEF RestTyped, Fail, Go, world, run
<1>0. RestTyped
  BY DEF TypeOK
<1> HIDE DEF RestTyped
<1>c. /\ hub.art \in Artifacts \union {None} /\ hub.sig \in Envelopes \union {None}
      /\ cache.art \in Artifacts \union {None} /\ cache.sig \in Envelopes \union {None}
  BY <1>0 DEF RestTyped
<1>1. CASE UNCHANGED vars
  BY <1>0, <1>1 DEF vars, RestTyped
<1>2. ASSUME NEW s \in Settings, Start(s) PROVE RestTyped'
  BY <1>0, <1>2 DEF Start, RestTyped
<1>3. CASE FetchArtifact
  BY <1>0, <1>c, <1>3 DEF FetchArtifact, Download, Cached, Missing, RestTyped, DownloadError
<1>4. CASE FetchSignature
  BY <1>0, <1>c, <1>4 DEF FetchSignature, Download, Cached, Missing, RestTyped, DownloadError
<1>5. CASE SkipSignature
  BY <1>0, <1>5 DEF SkipSignature, RestTyped
<1>6. CASE Verify
  <2>1. {keyRead', steady', unread'} \subseteq BOOLEAN
    BY <1>0, <1>6 DEF Verify, RestTyped
  <2>2. pc' \in {"closing", "header"} /\ exit' \in (0..8) \union {Running, Killed}
    BY <1>0, <1>6 DEF Verify, RestTyped, ConfigError, SignatureError
  <2>3. QED
    BY <1>0, <1>6, <2>1, <2>2 DEF Verify, RestTyped
<1>7. CASE ReadKey
  <2>1. {keyRead', steady', unread'} \subseteq BOOLEAN
    BY <1>0, <1>7 DEF ReadKey, RestTyped
  <2>2. /\ pc' \in {"closing", "decrypt"} /\ (pc' = "decrypt" => art # None)
        /\ exit' \in (0..8) \union {Running, Killed}
    BY <1>0, <1>7 DEF ReadKey, RestTyped, ConfigError, DecryptError
  <2>3. QED
    BY <1>0, <1>7, <2>1, <2>2 DEF ReadKey, RestTyped
<1>8. CASE Decrypt
  BY <1>0, <1>8 DEF Decrypt, RestTyped, DecryptError
<1>9. CASE CheckPackage
  <2>1. Package \in Packages
    BY <1>9, Dirs DEF CheckPackage, ExtractInv, Package, WorkDir
  <2>2. Members[Package] \subseteq Names
    BY <2>1
  <2>3. writing = None
    BY <1>9 DEF CheckPackage, WritingInv
  <2>4. QED
    BY <1>0, <1>9, <2>2, <2>3 DEF CheckPackage, RestTyped, ExtractionError
<1>10. ASSUME NEW n \in Names, OpenMember(n) PROVE RestTyped'
  BY <1>0, <1>10 DEF OpenMember, RestTyped
<1>11. CASE CloseMember
  BY <1>0, <1>11 DEF CloseMember, RestTyped, ExtractionError
<1>12. CASE Uncaught
  BY <1>0, <1>12 DEF Uncaught, RestTyped, Unexpected
<1>13. CASE Load
  BY <1>0, <1>13, Dirs DEF Load, RestTyped, WorkDir, ModelLoadError
<1>14. CASE Infer
  BY <1>0, <1>14 DEF Infer, RestTyped, InferenceError
<1>15. CASE Close
  BY <1>0, <1>15 DEF Close, RestTyped
<1>16. CASE Kill
  BY <1>0, <1>16 DEF Kill, RestTyped
<1>17. ASSUME NEW c \in Commits, HubCommit(c) PROVE RestTyped'
  <2>1. hub' \in Commits /\ {keyRead', steady', unread'} \subseteq BOOLEAN
    BY <1>0, <1>17 DEF HubCommit, RestTyped
  <2>2. UNCHANGED <<cache, settings, pc, art, sig, todo, writing, loaded, exit>>
    BY <1>17 DEF HubCommit
  <2>3. QED
    BY <1>0, <2>1, <2>2 DEF RestTyped
<1>18. QED
  BY <1>1, <1>2, <1>3, <1>4, <1>5, <1>6, <1>7, <1>8, <1>9, <1>10, <1>11, <1>12,
     <1>13, <1>14, <1>15, <1>16, <1>17 DEF Next, Step

LEMMA TypeStep ==
  ASSUME TypeOK, ExtractInv, WritingInv, [Next]_vars
  PROVE  TypeOK'
BY DirsTyped, RestTypedStep DEF RestTyped, TypeOK, WorkDir

-----------------------------------------------------------------------------
LEMMA KeyInvStep ==
  ASSUME TypeOK, KeyInv, [Next]_vars
  PROVE  KeyInv'
<1> USE DEF KeyInv, Authentic, Fail, Go, world, run
<1>1. CASE UNCHANGED vars
  BY <1>1 DEF vars
<1>2. ASSUME NEW s \in Settings, Start(s) PROVE KeyInv'
  BY <1>2 DEF Start
<1>3. CASE FetchArtifact
  BY <1>3 DEF FetchArtifact
<1>4. CASE FetchSignature
  BY <1>4 DEF FetchSignature
<1>5. CASE SkipSignature
  BY <1>5 DEF SkipSignature
<1>6. CASE Verify
  <2>1. sig \in Envelopes \union {None}
    BY DEF TypeOK
  <2>2. ASSUME Accepts(sig, art, settings.public)
        PROVE  sig = [of |-> art, by |-> settings.public]
    BY <2>1, <2>2 DEF Accepts, Envelopes
  <2>3. QED
    BY <1>6, <2>2 DEF Verify
<1>7. CASE ReadKey
  BY <1>7 DEF ReadKey
<1>8. CASE UNCHANGED <<settings, art, sig, keyRead>> /\ pc' \notin {"artifact", "signature", "verify", "header"}
  BY <1>8
<1>9. ASSUME NEW c \in Commits, HubCommit(c) PROVE KeyInv'
  BY <1>9 DEF HubCommit
<1>10. ASSUME NEW n \in Names, OpenMember(n) PROVE KeyInv'
  BY <1>10 DEF OpenMember
<1>11. CASE Decrypt
  BY <1>8, <1>11 DEF Decrypt
<1>12. CASE CheckPackage \/ CloseMember \/ Uncaught \/ Load \/ Infer \/ Close \/ Kill
  BY <1>8, <1>12 DEF CheckPackage, CloseMember, Uncaught, Load, Infer, Close, Kill
<1>13. QED
  BY <1>1, <1>2, <1>3, <1>4, <1>5, <1>6, <1>7, <1>9, <1>10, <1>11, <1>12 DEF Next, Step

LEMMA TraceInvStep ==
  ASSUME TypeOK, KeyInv, TraceInv, [Next]_vars
  PROVE  TraceInv'
<1> USE DEF TraceInv, RejectedLeavesNoTrace, Fail, Go, world, run,
            Running, Killed, Unexpected, ConfigError, DownloadError, SignatureError,
            DecryptError, ExtractionError, ModelLoadError, InferenceError
<1>1. CASE UNCHANGED <<pc, exit, dirs, settings, before, keyRead>>
  <2>1. Dir' = Dir
    BY <1>1 DEF Dir, Place
  <2>2. QED
    BY <1>1, <2>1
<1>2. ASSUME NEW s \in Settings, Start(s) PROVE TraceInv'
  <2>1. pc' = "artifact" /\ exit' = Running
    BY <1>2 DEF Start
  <2>2. Dir' = before'
    BY <1>2, Dirs DEF Start, DirsAtStart, Dir, Place
  <2>3. QED
    BY <2>1, <2>2
\* Before the run decrypts, nothing has changed.
<1>3. CASE /\ UNCHANGED <<dirs, settings, before, keyRead>>
           /\ pc \in {"artifact", "signature", "verify"}
           /\ pc' \notin {"idle", "closing"} => exit' = Running
  <2>1. Dir' = Dir
    BY <1>3 DEF Dir, Place
  <2>2. ~keyRead' /\ Dir' = before'
    BY <1>3, <2>1 DEF KeyInv
  <2>3. QED
    BY <1>3, <2>2
\* From then on, a run ends with neither error.
<1>4. CASE /\ pc' \in {"idle", "closing", "decrypt", "check", "extract", "infer"}
           /\ pc' \notin {"idle", "closing"} => exit' = Running
           /\ pc' = "closing" => exit' \notin {DownloadError, SignatureError}
  BY <1>4
<1>5. CASE FetchArtifact \/ FetchSignature \/ SkipSignature
  BY <1>3, <1>5 DEF FetchArtifact, FetchSignature, SkipSignature
<1>6. CASE Verify
  BY <1>3, <1>6 DEF Verify
<1>7. CASE ReadKey
  BY <1>4, <1>7 DEF ReadKey
<1>8. CASE Decrypt
  BY <1>4, <1>8 DEF Decrypt
<1>9. CASE CheckPackage \/ CloseMember \/ Uncaught
  BY <1>4, <1>9 DEF CheckPackage, CloseMember, Uncaught
<1>10. ASSUME NEW n \in Names, OpenMember(n) PROVE TraceInv'
  BY <1>4, <1>10 DEF OpenMember
<1>11. CASE Load \/ Infer
  BY <1>4, <1>11 DEF Load, Infer
<1>12. CASE Close \/ Kill
  BY <1>4, <1>12 DEF Close, Kill
<1>13. ASSUME NEW c \in Commits, HubCommit(c) PROVE TraceInv'
  BY <1>1, <1>13 DEF HubCommit
<1>14. QED
  BY <1>1, <1>2, <1>5, <1>6, <1>7, <1>8, <1>9, <1>10, <1>11, <1>12, <1>13 DEF Next, Step, vars

-----------------------------------------------------------------------------
\* A step that keeps what ExtractInv speaks of keeps ExtractInv.
LEMMA ExtractInvKept ==
  ASSUME ExtractInv, UNCHANGED <<dirs, settings, art, loaded>>,
         \/ pc' = pc /\ UNCHANGED todo
         \/ /\ pc' \in {"idle", "closing", "artifact", "signature", "verify", "header", "decrypt"}
            /\ pc' \in {"idle", "closing"} \/ pc \notin {"idle", "closing", "infer"}
  PROVE  ExtractInv'
<1>1. Package' = Package /\ Dir' = Dir
  BY DEF Package, Dir, Place
<1>2. \A n : Extracted(n)' <=> Extracted(n)
  BY <1>1 DEF Extracted
<1>3. ListedFilesAreThePackage'
  BY DEF ExtractInv, ListedFilesAreThePackage
<1>4. QED
  BY <1>1, <1>2, <1>3 DEF ExtractInv, WellFormed

LEMMA ExtractInvStep ==
  ASSUME TypeOK, ExtractInv, [Next]_vars
  PROVE  ExtractInv'
<1> USE DEF Fail, Go, world, run
<1>1. CASE UNCHANGED vars
  BY <1>1, ExtractInvKept DEF vars
<1>2. ASSUME NEW s \in Settings, Start(s) PROVE ExtractInv'
  BY <1>2 DEF Start, ExtractInv, ListedFilesAreThePackage
<1>3. CASE FetchArtifact
  BY <1>3 DEF FetchArtifact, ExtractInv, ListedFilesAreThePackage
<1>4. CASE FetchSignature \/ SkipSignature \/ Infer \/ Kill
  BY <1>4, ExtractInvKept DEF FetchSignature, SkipSignature, Infer, Kill
<1>5. CASE Verify
  BY <1>5, ExtractInvKept DEF Verify
<1>6. ASSUME NEW c \in Commits, HubCommit(c) PROVE ExtractInv'
  BY <1>6, ExtractInvKept DEF HubCommit
<1>7. CASE ReadKey \/ Close \/ Uncaught
  <2>1. UNCHANGED <<loaded, art>> /\ pc' \in {"idle", "closing", "decrypt"}
        /\ (pc' = "decrypt" => pc = "header")
    BY <1>7 DEF ReadKey, Close, Uncaught
  <2>2. QED
    BY <2>1 DEF ExtractInv, ListedFilesAreThePackage
<1>8. CASE Decrypt
  <2>1. UNCHANGED <<loaded, art, settings>> /\ pc = "decrypt" /\ pc' \in {"closing", "check"}
    BY <1>8 DEF Decrypt
  <2>2. ASSUME pc' = "check" PROVE Package' = Opens[art] /\ Opens[art] # None
    <3>1. Opens[art] # None /\ dirs' = Decrypted(Opens[art])
      BY <1>8, <2>2 DEF Decrypt
    <3>2. dirs'[Place].tar = Opens[art]
      BY <3>1, Dirs DEF Decrypted, WorkDir
    <3>3. QED
      BY <2>1, <3>1, <3>2 DEF Package, Dir, Place
  <2>3. QED
    BY <2>1, <2>2 DEF ExtractInv, ListedFilesAreThePackage
<1>9. CASE CheckPackage
  <2>1. UNCHANGED <<loaded, art, settings, dirs>> /\ pc = "check" /\ pc' \in {"closing", "extract"}
    BY <1>9 DEF CheckPackage
  <2>2. Package' = Package
    BY <2>1 DEF Package, Dir, Place
  <2>3. pc' = "extract" => WellFormed(Package) /\ todo' = Members[Package]
    BY <1>9 DEF CheckPackage
  <2>4. QED
    BY <2>1, <2>2, <2>3 DEF ExtractInv, ListedFilesAreThePackage, WellFormed
<1>10. ASSUME NEW n \in Names, OpenMember(n) PROVE ExtractInv'
  <2>1. UNCHANGED <<loaded, art, settings, todo, pc>> /\ pc = "extract" /\ n \in todo
    BY <1>10 DEF OpenMember
  <2>2. dirs' = Put(n, "part")
    BY <1>10 DEF OpenMember
  <2>3. Package' = Package /\ \A k \in Names \ {n} : Dir'.model[k] = Dir.model[k]
    BY <2>1, <2>2, Dirs DEF Put, Package, Dir, Place, WorkDir
  <2>4. \A k \in Members[Package] \ todo : Extracted(k)'
    <3>1. Package \in Packages
      BY <2>1, Dirs DEF ExtractInv, Package, WorkDir
    <3>2. QED
      BY <2>1, <2>3, <3>1 DEF ExtractInv, Extracted
  <2>5. QED
    BY <2>1, <2>3, <2>4 DEF ExtractInv, ListedFilesAreThePackage, WellFormed
<1>11. CASE CloseMember
  <2>1. UNCHANGED <<loaded, art, settings>> /\ pc = "extract" /\ pc' \in {"closing", "extract"}
    BY <1>11 DEF CloseMember
  <2>2. dirs' = Put(writing, "whole") /\ writing \in todo /\ writing \in Names
        /\ todo' = todo \ {writing}
        /\ (pc' = "extract" => writing \in Matching[Package])
    BY <1>11 DEF CloseMember, TypeOK, HashMatches
  <2>3. Package' = Package /\ (\A k \in Names \ {writing} : Dir'.model[k] = Dir.model[k])
        /\ Dir'.model[writing] = <<Package, "whole">>
    BY <2>1, <2>2, Dirs DEF Put, Package, Dir, Place, WorkDir
  <2>4. ASSUME pc' = "extract"
        PROVE  \A k \in Members[Package] \ todo' : Extracted(k)'
    <3>1. Package \in Packages
      BY <2>1, Dirs DEF ExtractInv, Package, WorkDir
    <3>2. QED
      BY <2>1, <2>2, <2>3, <2>4, <3>1 DEF ExtractInv, Extracted
  <2>5. QED
    BY <2>1, <2>2, <2>3, <2>4 DEF ExtractInv, ListedFilesAreThePackage, WellFormed
<1>12. CASE Load
  <2>1. UNCHANGED <<dirs, art, settings>> /\ pc = "extract" /\ pc' \in {"closing", "infer"}
        /\ todo = {} /\ loaded' \in {Dir.model, None}
    BY <1>12 DEF Load, ExtractInv
  <2>2. ASSUME loaded' # None
        PROVE  \A n \in Listed[Opens[art]] : /\ loaded'[n] = <<Opens[art], "whole">>
                                             /\ n \in Matching[Opens[art]]
    BY <2>1, <2>2 DEF ExtractInv, Extracted, WellFormed
  <2>3. QED
    BY <2>1, <2>2 DEF ExtractInv, ListedFilesAreThePackage
<1>13. QED
  BY <1>1, <1>2, <1>3, <1>4, <1>5, <1>6, <1>7, <1>8, <1>9, <1>10, <1>11, <1>12 DEF Next, Step

LEMMA WritingInvStep ==
  ASSUME TypeOK, WritingInv, [Next]_vars
  PROVE  WritingInv'
<1> USE DEF WritingInv, Fail, Go
<1>1. CASE pc' = "idle" \/ pc' = "extract" \/ writing' = None
  BY <1>1
<1>2. CASE pc \notin {"idle", "extract"} /\ UNCHANGED writing
  BY <1>2
<1>3. CASE UNCHANGED <<pc, writing>>
  BY <1>3
<1>4. CASE FetchArtifact \/ FetchSignature \/ SkipSignature \/ Verify
  BY <1>2, <1>4 DEF FetchArtifact, FetchSignature, SkipSignature, Verify
<1>5. CASE ReadKey \/ Decrypt
  BY <1>2, <1>5 DEF ReadKey, Decrypt
<1>6. CASE CheckPackage \/ Infer
  BY <1>2, <1>6 DEF CheckPackage, Infer
<1>7. CASE CloseMember \/ Uncaught
  BY <1>1, <1>7 DEF CloseMember, Uncaught
<1>8. CASE Load
  <2>1. writing = None /\ UNCHANGED writing
    BY <1>8 DEF Load, TypeOK
  <2>2. QED
    BY <2>1, <1>1
<1>9. ASSUME NEW n \in Names, OpenMember(n) PROVE WritingInv'
  BY <1>9 DEF OpenMember
<1>10. CASE Close \/ Kill
  BY <1>1, <1>10 DEF Close, Kill
<1>11. ASSUME NEW s \in Settings, Start(s) PROVE WritingInv'
  BY <1>1, <1>11 DEF Start
<1>12. ASSUME NEW c \in Commits, HubCommit(c) PROVE WritingInv'
  BY <1>3, <1>12 DEF HubCommit
<1>13. QED
  BY <1>3, <1>4, <1>5, <1>6, <1>7, <1>8, <1>9, <1>10, <1>11, <1>12 DEF Next, Step, vars

-----------------------------------------------------------------------------
LEMMA LeftInvStep ==
  ASSUME TypeOK, KeyInv, TraceInv, LeftInv, [Next]_vars
  PROVE  LeftInv'
<1> USE DEF LeftInv, NothingLeftBehind, Fail, Go, world, run
<1>1. CASE UNCHANGED <<pc, exit, dirs, settings, before, keyRead>>
  <2>1. Dir' = Dir
    BY <1>1 DEF Dir, Place
  <2>2. QED
    BY <1>1, <2>1
<1>2. ASSUME NEW s \in Settings, Start(s) PROVE LeftInv'
  <2>1. pc' = "artifact" /\ ~keyRead'
    BY <1>2 DEF Start
  <2>2. Dir' = before'
    BY <1>2, Dirs DEF Start, DirsAtStart, Dir, Place
  <2>3. QED
    BY <2>1, <2>2
\* The .tmp file stays as it is, and the run goes on.
<1>3. CASE /\ UNCHANGED <<settings, before, keyRead>>
           /\ Dir'.tmp = Dir.tmp
           /\ pc \notin {"idle", "decrypt"} /\ pc' # "idle"
  BY <1>3
<1>4. CASE FetchArtifact \/ FetchSignature \/ SkipSignature \/ Verify
  <2>1. UNCHANGED <<dirs, settings, before, keyRead>>
        /\ pc \notin {"idle", "decrypt"} /\ pc' # "idle"
    BY <1>4 DEF FetchArtifact, FetchSignature, SkipSignature, Verify
  <2>2. QED
    BY <1>3, <2>1 DEF Dir, Place
<1>5. CASE ReadKey
  <2>1. pc' = "decrypt" \/ (pc' = "closing" /\ ~keyRead')
    BY <1>5 DEF ReadKey, KeyInv
  <2>2. Dir'.tmp = keyRead'
    BY <1>5, Dirs DEF ReadKey, Dir, Place, WorkDir
  <2>3. QED
    BY <2>1, <2>2
<1>6. CASE Decrypt
  <2>1. ASSUME NEW t, dirs' = Decrypted(t) PROVE ~Dir'.tmp
    BY <1>6, <2>1, Dirs DEF Decrypt, Decrypted, Dir, Place, WorkDir
  <2>2. ~Dir'.tmp /\ pc' # "idle"
    BY <1>6, <2>1 DEF Decrypt
  <2>3. QED
    BY <2>2
<1>u. CASE Uncaught
  <2>1. /\ UNCHANGED <<settings, before, keyRead>>
        /\ pc \notin {"idle", "closing"} /\ pc' = "closing"
    BY <1>u DEF Uncaught
  <2>2. CASE pc \in {"header", "decrypt"}
    <3>1. ~Dir'.tmp
      BY <1>u, <2>2, Dirs DEF Uncaught, Decrypted, Dir, Place, WorkDir
    <3>2. QED
      BY <2>1, <3>1
  <2>3. CASE pc \notin {"header", "decrypt"}
    <3>1. Dir' = Dir
      BY <1>u, <2>3 DEF Uncaught, Dir, Place
    <3>2. QED
      BY <1>3, <2>1, <2>3, <3>1
  <2>4. QED
    BY <2>2, <2>3
<1>7. CASE CheckPackage \/ Load \/ Infer
  <2>1. UNCHANGED <<dirs, settings, before, keyRead>>
        /\ pc \notin {"idle", "decrypt"} /\ pc' # "idle"
    BY <1>7 DEF CheckPackage, Load, Infer
  <2>2. QED
    BY <1>3, <2>1 DEF Dir, Place
<1>8. ASSUME NEW n \in Names, NEW state, dirs' = Put(n, state), UNCHANGED settings
      PROVE  Dir'.tmp = Dir.tmp
  BY <1>8, Dirs DEF Put, Dir, Place, WorkDir
<1>9. ASSUME NEW n \in Names, OpenMember(n) PROVE LeftInv'
  BY <1>3, <1>8, <1>9 DEF OpenMember
<1>10. CASE CloseMember
  <2>1. writing \in Names
    BY <1>10 DEF CloseMember, TypeOK
  <2>2. QED
    BY <1>3, <1>8, <1>10, <2>1 DEF CloseMember
<1>11. CASE Close
  <2>1. CASE settings.keep
    <3>1. Dir' = Dir
      BY <1>11, <2>1 DEF Close, Cleaned, Dir, Place
    <3>2. QED
      BY <1>11, <2>1, <3>1 DEF Close
  <2>2. CASE ~settings.keep
    <3>1. Dir' = EmptyDir
      BY <1>11, <2>2, Dirs DEF Close, Cleaned, Dir, Place
    <3>2. QED
      BY <1>11, <2>2, <3>1 DEF Close
  <2>3. QED
    BY <2>1, <2>2
<1>12. CASE Kill
  BY <1>12 DEF Kill, Killed
<1>13. ASSUME NEW c \in Commits, HubCommit(c) PROVE LeftInv'
  BY <1>1, <1>13 DEF HubCommit
<1>14. QED
  BY <1>1, <1>2, <1>4, <1>5, <1>6, <1>u, <1>7, <1>9, <1>10, <1>11, <1>12, <1>13
     DEF Next, Step, vars

LEMMA SteadyInvStep ==
  ASSUME TypeOK, TraceInv, SteadyInv, [Next]_vars
  PROVE  SteadyInv'
<1> USE DEF SteadyInv, SteadyPairIsAccepted, Fail, Go, world, run,
            Running, Killed, Unexpected, ConfigError, DownloadError, SignatureError,
            DecryptError, ExtractionError, ModelLoadError, InferenceError
<1>1. CASE UNCHANGED <<pc, exit, hub, settings, art, sig, steady, unread>>
  BY <1>1
<1>2. ASSUME NEW s \in Settings, Start(s) PROVE SteadyInv'
  BY <1>2 DEF Start
<1>3. CASE FetchArtifact
  BY <1>3 DEF FetchArtifact, Download, TraceInv
<1>4. CASE FetchSignature
  <2>1. PICK reached \in BOOLEAN : sig' = Download("sig", reached) /\ steady' = (steady /\ reached)
    BY <1>4 DEF FetchSignature
  <2>2. UNCHANGED <<hub, art, settings>> /\ exit' # SignatureError /\ pc = "signature"
    BY <1>4 DEF FetchSignature, TraceInv
  <2>3. steady' => steady /\ sig' = hub.sig
    BY <2>1 DEF Download, TypeOK
  <2>4. QED
    BY <2>2, <2>3
<1>5. CASE SkipSignature
  BY <1>5 DEF SkipSignature, TraceInv
<1>6. CASE Verify
  <2>1. sig # None /\ UNCHANGED <<hub, settings, steady>>
    BY <1>6 DEF Verify, TypeOK
  <2>2. ASSUME exit' = SignatureError, ~unread'
        PROVE  sig # [of |-> art, by |-> settings.public]
    BY <1>6, <2>1, <2>2 DEF Verify, Accepts, TraceInv
  <2>3. pc' \in {"closing", "header"}
    BY <1>6 DEF Verify
  <2>4. QED
    BY <1>6, <2>1, <2>2, <2>3 DEF Verify
\* No later step ends in a signature error.
<1>7. CASE /\ UNCHANGED <<hub, settings, steady, unread>>
           /\ pc' \notin {"signature", "verify"}
           /\ exit' = exit \/ exit' # SignatureError
  BY <1>7
<1>8. CASE ReadKey
  BY <1>7, <1>8 DEF ReadKey
<1>9. CASE Decrypt
  BY <1>7, <1>9 DEF Decrypt
<1>10. CASE CheckPackage \/ CloseMember \/ Uncaught
  BY <1>7, <1>10 DEF CheckPackage, CloseMember, Uncaught
<1>11. ASSUME NEW n \in Names, OpenMember(n) PROVE SteadyInv'
  BY <1>7, <1>11 DEF OpenMember
<1>12. CASE Load \/ Infer
  BY <1>7, <1>12 DEF Load, Infer
<1>13. CASE Close \/ Kill
  BY <1>7, <1>13 DEF Close, Kill
<1>14. ASSUME NEW c \in Commits, HubCommit(c) PROVE SteadyInv'
  BY <1>14 DEF HubCommit
<1>15. QED
  BY <1>1, <1>2, <1>3, <1>4, <1>5, <1>6, <1>8, <1>9, <1>10, <1>11, <1>12, <1>13, <1>14
     DEF Next, Step, vars

-----------------------------------------------------------------------------
LEMMA InvInductive == Spec => []Inv
<1>1. Init => Inv
  <2> SUFFICES ASSUME Init PROVE Inv
    OBVIOUS
  <2>1. TypeOK
    BY InitType
  <2>2. KeyInv /\ TraceInv /\ ExtractInv /\ WritingInv
    BY DEF Init, WritingInv, KeyInv, TraceInv, RejectedLeavesNoTrace, ExtractInv, ListedFilesAreThePackage,
           Running, DownloadError, SignatureError
  <2>3. LeftInv /\ SteadyInv
    BY DEF Init, LeftInv, NothingLeftBehind, SteadyInv, SteadyPairIsAccepted,
           Running, SignatureError
  <2>4. QED
    BY <2>1, <2>2, <2>3 DEF Inv
<1>2. Inv /\ [Next]_vars => Inv'
  BY TypeStep, KeyInvStep, TraceInvStep, ExtractInvStep, WritingInvStep, LeftInvStep,
     SteadyInvStep DEF Inv
<1>3. QED
  BY <1>1, <1>2, PTL DEF Spec

(* Every step finds what it needs, in every run.                            *)
THEOREM TypeCorrect == Spec => []TypeOK
BY InvInductive, PTL DEF Inv

(* The key is read only after Layer 2 accepted exactly the artifact that is *)
(* then decrypted (core/verify.py, core/decrypt.py).                        *)
THEOREM KeyAfterVerification == Spec => []KeyOnlyAfterVerification
<1>1. Inv => KeyOnlyAfterVerification
  BY DEF Inv, KeyInv, Authentic, KeyOnlyAfterVerification
<1>2. QED
  BY <1>1, InvInductive, PTL

(* A run that is refused by the Hub or by Layer 2 has touched nothing       *)
(* (app/pipeline.py, the order of its steps).                               *)
THEOREM RejectionLeavesNoTrace == Spec => []RejectedLeavesNoTrace
BY InvInductive, PTL DEF Inv, TraceInv

(* The loaded model's listed files are, whole and with the manifest's       *)
(* hashes, those of the package the run's own artifact decrypts to          *)
(* (core/extract.py), whatever a killed run left in the directory.          *)
THEOREM LoadsListedFiles == Spec => []ListedFilesAreThePackage
BY InvInductive, PTL DEF Inv, ExtractInv

(* A run that ends by itself removes its temporary directory, and leaves no *)
(* half-decrypted file in a configured one, at whichever step it failed     *)
(* (_work_dir, and the `finally` of core/decrypt.py).                       *)
THEOREM LeavesNothingBehind == Spec => []NothingLeftBehind
BY InvInductive, PTL DEF Inv, LeftInv

(* A run whose two downloads saw the Hub as it still is ends in a signature *)
(* error only if it could not read a file or that pair does not verify      *)
(* (core/verify.py).                                                        *)
THEOREM AcceptsSteadyPair == Spec => []SteadyPairIsAccepted
BY InvInductive, PTL DEF Inv, SteadyInv

(* The model is loaded only in a run that read the key (decrypt_file before *)
(* restore_package and load_model).                                         *)
LoadedInv ==
  loaded # None \/ pc \in {"decrypt", "check", "extract", "infer"} => keyRead

THEOREM LoadsOnlyWithKey == Spec => []LoadedInv
<1>1. Init => LoadedInv
  BY DEF Init, LoadedInv
<1>2. LoadedInv /\ [Next]_vars => LoadedInv'
  <2> SUFFICES ASSUME LoadedInv, [Next]_vars PROVE LoadedInv'
    OBVIOUS
  <2> USE DEF LoadedInv, Fail, Go
  <2>1. CASE Kill
    BY <2>1 DEF Kill
  <2>2. ASSUME NEW s \in Settings, Start(s) PROVE LoadedInv'
    BY <2>2 DEF Start
  <2>3. ASSUME NEW c \in Commits, HubCommit(c) PROVE LoadedInv'
    BY <2>3 DEF HubCommit
  <2>4. ASSUME NEW n \in Names, OpenMember(n) PROVE LoadedInv'
    BY <2>4 DEF OpenMember
  <2>5. CASE FetchArtifact
    BY <2>5 DEF FetchArtifact
  <2>6. CASE FetchSignature
    BY <2>6 DEF FetchSignature
  <2>7. CASE SkipSignature
    BY <2>7 DEF SkipSignature
  <2>8. CASE Verify
    BY <2>8 DEF Verify
  <2>9. CASE ReadKey
    <3>1. (pc' = "closing" /\ keyRead' = keyRead) \/ (pc' = "decrypt" /\ keyRead' = TRUE)
      BY <2>9 DEF ReadKey
    <3> QED BY <2>9, <3>1 DEF ReadKey
  <2>10. CASE Decrypt
    BY <2>10 DEF Decrypt
  <2>11. CASE CheckPackage
    BY <2>11 DEF CheckPackage
  <2>12. CASE CloseMember
    BY <2>12 DEF CloseMember
  <2>13. CASE Uncaught
    BY <2>13 DEF Uncaught
  <2>14. CASE Load
    BY <2>14 DEF Load
  <2>15. CASE Infer
    BY <2>15 DEF Infer
  <2>16. CASE Close
    BY <2>16 DEF Close
  <2>17. CASE UNCHANGED vars
    BY <2>17 DEF vars
  <2> QED BY <2>1, <2>2, <2>3, <2>4, <2>5, <2>6, <2>7, <2>8, <2>9, <2>10, <2>11,
             <2>12, <2>13, <2>14, <2>15, <2>16, <2>17 DEF Next, Step
<1> QED BY <1>1, <1>2, PTL DEF Spec


(***************************************************************************)
(* A model directory that was empty when the run started holds nothing but *)
(* members of the run's own package.                                       *)
(***************************************************************************)
FreshInv ==
  /\ ~settings.keep => before.model = NoFiles
  /\ before.model = NoFiles =>
       /\ pc \in {"decrypt", "check"} => Dir.model = NoFiles
       /\ pc = "extract" => \A n \in Names \ Members[Package] : Dir.model[n] = None
       /\ LoadsNothingElse

LEMMA FreshInvStep ==
  ASSUME Inv, FreshInv, [Next]_vars
  PROVE  FreshInv'
<1> USE DEF Fail, Go, world, run
<1>1. ASSUME UNCHANGED <<pc, dirs, settings, before, loaded, art>> PROVE FreshInv'
  BY <1>1 DEF FreshInv, LoadsNothingElse, Dir, Place, Package
<1>2. ASSUME UNCHANGED <<settings, before, loaded, art>>,
             pc' \notin {"decrypt", "check", "extract"}
      PROVE  FreshInv'
  BY <1>2 DEF FreshInv, LoadsNothingElse
<1>3. ASSUME NEW s \in Settings, Start(s) PROVE FreshInv'
  BY <1>3 DEF Start, FreshInv, LoadsNothingElse, EmptyDir
<1>4. CASE FetchArtifact
  BY <1>4 DEF FetchArtifact, FreshInv, LoadsNothingElse, Inv, ExtractInv
<1>5. CASE FetchSignature \/ SkipSignature \/ Verify
  BY <1>2, <1>5 DEF FetchSignature, SkipSignature, Verify
<1>6. CASE Uncaught \/ Infer \/ Close \/ Kill
  BY <1>2, <1>6 DEF Uncaught, Infer, Close, Kill
<1>7. CASE ReadKey \/ Decrypt
  <2>1. /\ UNCHANGED <<settings, before, loaded, art>>
        /\ pc \in {"header", "decrypt"} /\ pc' \in {"closing", "decrypt", "check"}
    BY <1>7 DEF ReadKey, Decrypt
  <2>2. Dir'.model = Dir.model
    BY <1>7, <2>1, Dirs DEF Inv, ReadKey, Decrypt, Decrypted, Dir, Place, WorkDir
  <2>3. before.model = NoFiles => Dir.model = NoFiles
    BY <2>1 DEF Inv, TraceInv, FreshInv
  <2>4. before'.model = NoFiles => LoadsNothingElse'
    BY <2>1 DEF FreshInv, LoadsNothingElse
  <2>5. QED
    BY <2>1, <2>2, <2>3, <2>4 DEF FreshInv
<1>8. CASE CheckPackage
  <2>1. /\ UNCHANGED <<settings, before, loaded, art, dirs>>
        /\ pc = "check" /\ pc' \in {"closing", "extract"}
    BY <1>8 DEF CheckPackage
  <2>2. Dir' = Dir
    BY <2>1 DEF Dir, Place
  <2>3. QED
    BY <2>1, <2>2 DEF FreshInv, LoadsNothingElse, NoFiles
<1>9. ASSUME UNCHANGED <<settings, before, loaded, art>>, pc = "extract", pc' \in {"closing", "extract"},
             NEW n \in todo, NEW state \in {"part", "whole"}, dirs' = Put(n, state)
      PROVE  FreshInv'
  <2>1. n \in Names /\ n \in Members[Package]
    BY <1>9 DEF Inv, TypeOK, ExtractInv
  <2>2. Package' = Package /\ \A k \in Names \ {n} : Dir'.model[k] = Dir.model[k]
    BY <1>9, <2>1, Dirs DEF Inv, Put, Package, Dir, Place, WorkDir
  <2>3. QED
    BY <1>9, <2>1, <2>2 DEF FreshInv, LoadsNothingElse
<1>10. ASSUME NEW n \in Names, OpenMember(n) PROVE FreshInv'
  BY <1>9, <1>10 DEF OpenMember
<1>11. CASE CloseMember
  BY <1>9, <1>11 DEF CloseMember, Inv, TypeOK
<1>12. CASE Load
  <2>1. /\ UNCHANGED <<settings, before, art, dirs>> /\ pc = "extract"
        /\ pc' \in {"closing", "infer"} /\ loaded' \in {Dir.model, loaded}
    BY <1>12 DEF Load
  <2>2. Members[Package] = Listed[Opens[art]]
    BY <2>1 DEF Inv, ExtractInv, WellFormed
  <2>3. QED
    BY <2>1, <2>2 DEF FreshInv, LoadsNothingElse
<1>13. ASSUME NEW c \in Commits, HubCommit(c) PROVE FreshInv'
  BY <1>1, <1>13 DEF HubCommit
<1>14. CASE UNCHANGED vars
  BY <1>1, <1>14 DEF vars
<1>15. QED
  BY <1>3, <1>4, <1>5, <1>6, <1>7, <1>8, <1>10, <1>11, <1>12, <1>13, <1>14 DEF Next, Step

(* A run with a temporary work directory, or with a configured one whose    *)
(* model directory was empty, loads exactly the packaged files: the promise *)
(* of test_end_to_end.py, which other configured directories break.         *)
THEOREM FreshLoadsNothingElse ==
  Spec => [](~settings.keep \/ before.model = NoFiles => LoadsNothingElse)
<1>1. Init => FreshInv
  BY DEF Init, FreshInv, LoadsNothingElse, EmptyDir
<1>2. Inv /\ FreshInv /\ [Next]_vars => FreshInv'
  BY FreshInvStep
<1>3. FreshInv => (~settings.keep \/ before.model = NoFiles => LoadsNothingElse)
  BY DEF FreshInv
<1>4. QED
  BY <1>1, <1>2, <1>3, InvInductive, PTL DEF Spec
=============================================================================
