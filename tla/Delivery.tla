------------------------------ MODULE Delivery ------------------------------
(***************************************************************************)
(* The producer and one consumer over one branch of the Hub, which others  *)
(* may write to as well.  What the producer uploads is what the consumer   *)
(* may find there; nothing else connects the two.                          *)
(***************************************************************************)
EXTENDS Integers

CONSTANTS
  Models, Names, Stems, StemOf, Commands, MaxCommands, None,  \* of Producer
  Name,       \* the artifact the consumer is configured for
  FileNames,  \* names of files in a package
  FilesOf,    \* model -> the names of its files
  Foreign,    \* artifacts that others make, or alter
  Headed,     \* of these, the ones with a header that decodes
  Trusted,    \* the producer's signing key, whose public half is mounted
  Others,     \* signing keys of others
  Keeps, MaxRuns, MaxCommits  \* of Consumer

VARIABLES
  (* the producer *)
  modelDir, package, pArt, pSig, uploads, cmd, pPc, pExit, serial, commands,
  (* the Hub's branch, and the consumer *)
  hub, cache, pc, settings, art, sig, writing, todo, dirs, loaded, exit,
  runs, commits, keyRead, before, steady, unread,
  (* history *)
  signed,     \* the artifacts the producer has signed
  last        \* who made the last commit to the branch, or how

\* The instances bring the theorems about the two services along.
P == INSTANCE Producer_proofs WITH
       art <- pArt, sig <- pSig, hub <- uploads, pc <- pPc, exit <- pExit

\* The packages are the producer's: all regular files, and all listed and
\* hashed as they are.
FilesIn == [p \in P!Package |-> {n \in FileNames : \E m \in Models : p[m] # "none" /\ n \in FilesOf[m]}]

Artifacts == P!File \union Foreign
\* One key decrypts all that the producer has encrypted.
Opens == [a \in Artifacts |-> IF a \notin Foreign /\ a.serial # 0 THEN a.pkg ELSE None]
Readable == {a \in Artifacts : IF a \in Foreign THEN a \in Headed ELSE a.serial # 0}

Signers == {Trusted} \union Others
Envelopes == [of : Artifacts, by : Signers]
Contents == [art : Artifacts \union {None}, sig : Envelopes \union {None}]

C == INSTANCE Consumer_proofs WITH
       Names <- FileNames, Packages <- P!Package, Safe <- P!Package,
       Members <- FilesIn, Listed <- FilesIn, Matching <- FilesIn,
       Commits <- Contents, Publics <- {Trusted}

ASSUME ProducerAssumption ==
  P!NameAssumption /\ P!CommandAssumption /\ P!BoundAssumption /\ P!NoneAssumption
ASSUME NameAssumption == Name \in Names
ASSUME FileAssumption == FilesOf \in [Models -> SUBSET FileNames]
ASSUME ForeignAssumption ==
  /\ Foreign \intersect P!File = {} /\ Headed \subseteq Foreign
  /\ Trusted \notin Others
ASSUME NoneAssumption ==
  /\ None \notin FileNames \union P!Package \union Artifacts \union Signers \union Models
  /\ None \notin [of : Artifacts \union {None}, by : Signers]
ASSUME ConsumerBounds == MaxRuns \in Nat /\ MaxCommits \in Nat /\ Keeps \subseteq BOOLEAN

producer == <<modelDir, package, pArt, pSig, uploads, cmd, pPc, pExit, serial, commands>>
consumer == <<hub, cache, pc, settings, art, sig, writing, todo, dirs, loaded, exit,
              runs, commits, keyRead, before, steady, unread>>
history == <<signed, last>>
vars == <<producer, consumer, history>>

-----------------------------------------------------------------------------
Work ==
  /\ \/ P!Reset \/ P!Download \/ P!BreakDownload \/ P!Pack \/ P!Encrypt \/ P!Stop
     \/ P!Copy \/ \E c \in Commands : P!Command(c)
  /\ UNCHANGED <<consumer, history>>

Sign ==
  /\ P!Sign
  /\ signed' = signed \union {pArt[cmd.name]}
  /\ UNCHANGED <<consumer, last>>

Envelope(f) == [of |-> f, by |-> Trusted]

\* Where an operator has a mutant, a plausible slip in the same code, the
\* mutant stands before it.
FirstSignature ==
  [art |-> IF cmd.name = Name THEN pArt[Name] ELSE hub.art,
   sig |-> IF cmd.sign /\ hub.sig = None THEN Envelope(pSig[StemOf[Name]]) ELSE hub.sig]
\* The commit, as far as the consumer's two files are concerned.
Branch ==
  [art |-> IF cmd.name = Name THEN pArt[Name] ELSE hub.art,
   sig |-> IF cmd.sign /\ StemOf[cmd.name] = StemOf[Name]
             THEN Envelope(pSig[StemOf[Name]]) ELSE hub.sig]

Publish ==
  /\ P!Publish \/ P!PublishUnanswered
  /\ C!HubCommit(Branch)
  /\ last' = IF cmd.op = "run" /\ cmd.sign /\ cmd.name = Name THEN "run" ELSE "command"
  /\ UNCHANGED signed

\* What others have seen or made, and the signatures of it: the producer's
\* own, and theirs of anything.
Seen == signed \union Foreign \union ({hub.art} \ {None})
Signatures == [of : signed, by : {Trusted}] \union [of : Seen, by : Others]

\* Others commit these, in any combination.
Interfere == \E a \in Seen \union {None}, e \in Signatures \union {None} :
  /\ C!HubCommit([art |-> a, sig |-> e])
  /\ last' = "others"
  /\ UNCHANGED <<producer, signed>>

Consume ==
  /\ C!Step \/ C!Kill \/ \E s \in C!Settings : C!Start(s)
  /\ UNCHANGED <<producer, history>>

Init ==
  /\ hub = [art |-> None, sig |-> None]
  /\ P!Init /\ C!Init
  /\ signed = {} /\ last = "none"

Next == Work \/ Sign \/ Publish \/ Interfere \/ Consume

Spec == Init /\ [][Next]_vars

-----------------------------------------------------------------------------
Ours(e) == e # None /\ e.by = Trusted => e.of \in signed

(* A signature of the producer's key is of an artifact that the producer    *)
(* signed, wherever it is found.                                            *)
TypeOK ==
  /\ signed \subseteq P!File /\ last \in {"none", "run", "command", "others"}
  /\ Ours(hub.sig) /\ Ours(cache.sig) /\ Ours(sig)
  /\ \A s \in Stems : P!Encoded(pSig[s]) => pSig[s] \in signed

IsModel(m) ==
  /\ Opens[art] = P!Only(m)
  /\ \A n \in FilesOf[m] : loaded[n] = <<P!Only(m), "whole">>

Released == {m \in Models : \E f \in signed : f.pkg = P!Only(m)}
Served ==
  IF loaded = None \/ ~settings.verify THEN None
  ELSE IF \E m \in Models : IsModel(m) THEN CHOOSE m \in Models : IsModel(m)
  ELSE "no model"

Trust == INSTANCE TrustedDelivery WITH released <- Released, served <- Served

(* Whatever others commit, whatever command or run fails or is killed, and  *)
(* however commits and downloads interleave: what a verifying consumer      *)
(* loads is one model, whole, that the producer packaged, encrypted and     *)
(* signed (docs/layers.md).                                                 *)
DeliversTrusted == Trust!Spec

(* The pair that `run` has put on the branch verifies, whatever was there   *)
(* before and whatever answer the producer got: a consumer that downloads   *)
(* it undisturbed has a signature error only where it cannot read a file.   *)
PublishedIsAccepted == exit = C!SignatureError /\ steady /\ ~unread => last # "run"
=============================================================================
