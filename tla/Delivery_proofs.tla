-------------------------- MODULE Delivery_proofs --------------------------
(***************************************************************************)
(* Producer and consumer together implement TrustedDelivery.  Each service *)
(* keeps its own specification within the composition, so that what was    *)
(* proved of it alone holds here; what remains is where signatures are.    *)
(***************************************************************************)
EXTENDS Delivery, TLAPS

USE NameAssumption, ForeignAssumption

(***************************************************************************)
(* The producer keeps its specification.                                   *)
(***************************************************************************)
LEMMA ProducerKept == Spec => P!Spec
<1>1. Init => P!Init
  BY DEF Init
<1>2. [Next]_vars => [P!Next]_P!vars
  <2>1. Work => P!Next
    BY DEF Work, P!Next, P!Step
  <2>2. Sign => P!Next
    BY DEF Sign, P!Next, P!Step
  <2>3. Publish => P!Next
    BY DEF Publish, P!Next, P!Step
  <2>4. UNCHANGED producer => UNCHANGED P!vars
    BY DEF producer, P!vars, P!work
  <2>5. Interfere \/ Consume \/ UNCHANGED vars => UNCHANGED producer
    BY DEF Interfere, Consume, vars
  <2> QED BY <2>1, <2>2, <2>3, <2>4, <2>5 DEF Next
<1> QED BY <1>1, <1>2, PTL DEF Spec, P!Spec

LEMMA ProducerInv == Spec => []P!Inv
<1>1. P!NameAssumption /\ P!CommandAssumption /\ P!BoundAssumption /\ P!NoneAssumption
  BY ProducerAssumption
<1>2. P!Spec => []P!Inv
  BY <1>1, P!InvInductive
<1> QED BY <1>2, ProducerKept, PTL

-----------------------------------------------------------------------------
(***************************************************************************)
(* What is signed, and where the signatures are.                           *)
(***************************************************************************)
SignedInv ==
  /\ signed \subseteq P!File
  /\ \A f \in signed : f.serial # 0 /\ \E m \in Models : f.pkg = P!Only(m)
  /\ \A s \in Stems : P!Encoded(pSig[s]) => pSig[s] \in signed

BranchInv == SignedInv /\ hub \in Contents /\ Ours(hub.sig)

LEMMA SignatureParts ==
  ASSUME NEW f
  PROVE  Envelope(f).of = f /\ Envelope(f).by = Trusted /\ (f \in signed => Ours(Envelope(f)))
BY DEF Envelope, Ours

\* The steps that leave the signatures of the work directory, or clear one.
LEMMA WorkSignatures ==
  ASSUME P!Inv, SignedInv, Work
  PROVE  SignedInv'
<1>1. signed' = signed
  BY DEF Work, history
<1>2. CASE pSig' = pSig
  BY <1>1, <1>2 DEF SignedInv, P!Encoded
<1>3. CASE P!Copy
  <2>1. PICK n \in Names, over \in {"art", "sig"} :
          pSig' = pSig \/ pSig' = [pSig EXCEPT ![StemOf[n]] = P!Plain(package)]
    BY <1>3 DEF P!Copy
  <2>2. pSig \in P!Files(Stems)
    BY DEF P!Inv, P!TypeOK
  <2>3. ASSUME NEW s \in Stems, P!Encoded(pSig'[s])
        PROVE  pSig'[s] \in signed
    <3>1. CASE pSig'[s] = pSig[s]
      BY <2>3, <3>1 DEF SignedInv
    <3>2. CASE pSig'[s] = P!Plain(package)
      BY <2>3, <3>2 DEF P!Encoded, P!Plain
    <3> QED BY <2>1, <2>2, <3>1, <3>2 DEF P!Files
  <2> QED BY <1>1, <2>3 DEF SignedInv, P!Encoded
<1>4. pSig' = pSig \/ P!Copy
  <2>1. P!Reset \/ P!Download \/ P!BreakDownload \/ P!Pack \/ P!Encrypt \/ P!Stop => pSig' = pSig
    BY DEF P!Reset, P!Download, P!BreakDownload, P!Pack, P!Encrypt, P!Stop, P!work
  <2>2. ASSUME NEW c \in Commands, P!Command(c) PROVE pSig' = pSig
    BY <2>2 DEF P!Command, P!work
  <2> QED BY <2>1, <2>2 DEF Work
<1> QED BY <1>2, <1>3, <1>4

\* What is signed is one model, encrypted.
LEMMA SignSignatures ==
  ASSUME P!Inv, SignedInv, Sign
  PROVE  /\ SignedInv'
         /\ \E m \in Models : pArt[cmd.name].pkg = P!Only(m)
<1> DEFINE a == pArt[cmd.name]
<1>1. a # None /\ a.serial # 0
  BY DEF Sign, P!Sign, P!Encoded
<1>2. cmd.name \in Names /\ StemOf[cmd.name] \in Stems
  <2>1. P!NameAssumption /\ P!CommandAssumption
    BY ProducerAssumption
  <2>2. cmd \in Commands
    BY DEF P!Inv, P!TypeOK
  <2> QED BY <2>1, <2>2 DEF P!NameAssumption, P!CommandAssumption
<1>3. pArt \in P!Files(Names) /\ pSig \in P!Files(Stems)
  BY DEF P!Inv, P!TypeOK
<1>4. a \in P!File
  BY <1>1, <1>2, <1>3 DEF P!Files
<1>5. \E m \in Models : a.pkg = P!Only(m)
  BY <1>1, <1>2 DEF P!Inv, P!ModelInv, P!OneModel
<1>6. signed' = signed \union {a} /\ pSig' = [pSig EXCEPT ![StemOf[cmd.name]] = a]
  BY DEF Sign, P!Sign
<1>7. \A s \in Stems : pSig'[s] = pSig[s] \/ pSig'[s] = a
  BY <1>3, <1>6 DEF P!Files
<1> QED BY <1>1, <1>4, <1>5, <1>6, <1>7 DEF SignedInv, P!Encoded

LEMMA PublishedBranch ==
  ASSUME P!Inv, BranchInv, Publish
  PROVE  Branch \in Contents /\ Ours(Branch.sig)
<1>1. P!Publishable(cmd)
  BY DEF Publish, P!Publish, P!PublishUnanswered
<1>2. pArt[Name] \in P!File \union {None} /\ StemOf[Name] \in Stems
  <2>1. P!NameAssumption
    BY ProducerAssumption
  <2> QED BY <2>1 DEF P!NameAssumption, P!Inv, P!TypeOK, P!Files
<1>3. Branch.art \in Artifacts \union {None}
  BY <1>2 DEF Branch, BranchInv, Contents, Artifacts
<1>4. CASE cmd.sign /\ StemOf[cmd.name] = StemOf[Name]
  <2>1. P!Encoded(pSig[StemOf[Name]])
    BY <1>1, <1>4 DEF P!Publishable
  <2>2. pSig[StemOf[Name]] \in signed
    BY <1>2, <2>1 DEF BranchInv, SignedInv
  <2>3. Branch.sig = Envelope(pSig[StemOf[Name]])
    BY <1>4 DEF Branch
  <2>4. Branch.sig \in Envelopes
    BY <2>2, <2>3 DEF BranchInv, SignedInv, Envelope, Envelopes, Artifacts, Signers
  <2> QED BY <1>3, <2>2, <2>3, <2>4, SignatureParts DEF Branch, Contents
<1>5. CASE ~(cmd.sign /\ StemOf[cmd.name] = StemOf[Name])
  <2>1. Branch.sig = hub.sig
    BY <1>5 DEF Branch
  <2> QED BY <1>3, <2>1 DEF Branch, BranchInv, Contents
<1> QED BY <1>4, <1>5

LEMMA OthersBranch ==
  ASSUME BranchInv, NEW a \in Seen \union {None}, NEW e \in Signatures \union {None}
  PROVE  [art |-> a, sig |-> e] \in Contents /\ Ours(e)
<1>1. a \in Artifacts \union {None}
  BY DEF Seen, BranchInv, SignedInv, Contents, Artifacts
<1>2. Seen \subseteq Artifacts
  BY DEF Seen, BranchInv, SignedInv, Contents, Artifacts
<1>3. signed \subseteq Artifacts
  BY DEF BranchInv, SignedInv, Artifacts
<1>4. CASE e = None
  BY <1>1, <1>4 DEF Contents, Ours
<1>5. CASE e \in [of : signed, by : {Trusted}]
  BY <1>1, <1>3, <1>5 DEF Contents, Envelopes, Signers, Ours
<1>6. CASE e \in [of : Seen, by : Others]
  BY <1>1, <1>2, <1>6 DEF Contents, Envelopes, Signers, Ours
<1> QED BY <1>4, <1>5, <1>6 DEF Signatures

\* No step of the consumer changes the branch.
LEMMA HubKept ==
  ASSUME Consume
  PROVE  hub' = hub
<1> USE DEF C!world
<1>1. ASSUME NEW s \in C!Settings, C!Start(s) PROVE hub' = hub
  BY <1>1 DEF C!Start
<1>2. ASSUME NEW n \in FileNames, C!OpenMember(n) PROVE hub' = hub
  BY <1>2 DEF C!OpenMember
<1> QED BY <1>1, <1>2 DEF Consume, C!Kill, C!Step, C!FetchArtifact, C!FetchSignature,
            C!SkipSignature, C!Verify, C!ReadKey, C!Decrypt, C!CheckPackage, C!CloseMember,
            C!Uncaught, C!Load, C!Infer, C!Close

LEMMA BranchInvariant == Spec => []BranchInv
<1>1. Init => BranchInv
  BY DEF Init, BranchInv, SignedInv, Contents, Ours, P!Init, P!Encoded
<1>2. P!Inv /\ BranchInv /\ [Next]_vars => BranchInv'
  <2> SUFFICES ASSUME P!Inv, BranchInv, [Next]_vars PROVE BranchInv'
    OBVIOUS
  <2>1. CASE Work
    BY <2>1, WorkSignatures DEF Work, consumer, history, BranchInv, Ours
  <2>2. CASE Sign
    BY <2>2, SignSignatures DEF Sign, consumer, BranchInv, Ours
  <2>3. CASE Publish
    <3>1. hub' = Branch /\ signed' = signed /\ pSig' = pSig
      BY <2>3 DEF Publish, C!HubCommit, P!Publish, P!PublishUnanswered, P!work
    <3> QED BY <2>3, <3>1, PublishedBranch DEF BranchInv, SignedInv, Ours, P!Encoded
  <2>4. CASE Interfere
    <3>1. PICK a \in Seen \union {None}, e \in Signatures \union {None} :
            hub' = [art |-> a, sig |-> e]
      BY <2>4 DEF Interfere, C!HubCommit
    <3>2. signed' = signed /\ pSig' = pSig
      BY <2>4 DEF Interfere, producer
    <3> QED BY <3>1, <3>2, OthersBranch DEF BranchInv, SignedInv, Ours, P!Encoded
  <2>5. CASE Consume
    BY <2>5, HubKept DEF Consume, producer, history, BranchInv, SignedInv, Ours, P!Encoded
  <2>6. CASE UNCHANGED vars
    BY <2>6 DEF vars, producer, consumer, history, BranchInv, SignedInv, Ours, P!Encoded
  <2> QED BY <2>1, <2>2, <2>3, <2>4, <2>5, <2>6 DEF Next
<1> QED BY <1>1, <1>2, ProducerInv, PTL DEF Spec

-----------------------------------------------------------------------------
(***************************************************************************)
(* The consumer keeps its specification, since what is committed is always *)
(* something that the Hub may serve.                                       *)
(***************************************************************************)
LEMMA ConsumerKept == Spec => C!Spec
<1>1. Init => C!Init
  BY DEF Init
<1>2. P!Inv /\ BranchInv /\ [Next]_vars => [C!Next]_C!vars
  <2> SUFFICES ASSUME P!Inv, BranchInv, [Next]_vars PROVE [C!Next]_C!vars
    OBVIOUS
  <2>1. CASE Publish
    BY <2>1, PublishedBranch DEF Publish, C!Next
  <2>2. CASE Interfere
    BY <2>2, OthersBranch DEF Interfere, C!Next
  <2>3. CASE Consume
    BY <2>3 DEF Consume, C!Next
  <2>4. Work \/ Sign \/ UNCHANGED vars => UNCHANGED consumer
    BY DEF Work, Sign, vars
  <2>5. UNCHANGED consumer => UNCHANGED C!vars
    BY DEF consumer, C!vars
  <2> QED BY <2>1, <2>2, <2>3, <2>4, <2>5 DEF Next
<1> QED BY <1>1, <1>2, ProducerInv, BranchInvariant, PTL DEF Spec, C!Spec

LEMMA OpensTyped ==
  /\ Opens \in [Artifacts -> P!Package \union {None}]
  /\ \A f \in P!File : f.serial # 0 => Opens[f] = f.pkg
<1>1. \A a \in Artifacts : a \notin Foreign => a \in P!File
  BY DEF Artifacts
<1>2. \A f \in P!File : f.pkg \in P!Package /\ f \notin Foreign /\ f \in Artifacts
  BY DEF P!File, Artifacts
<1> QED BY <1>1, <1>2 DEF Opens

LEMMA ConsumerInv == Spec => [](C!Inv /\ C!LoadedInv)
<1>1. C!NoneAssumption
  BY NoneAssumption DEF C!NoneAssumption
<1>2. C!PackageAssumption
  BY OpensTyped DEF C!PackageAssumption, FilesIn
<1>3. C!SourceAssumption
  BY ConsumerBounds DEF C!SourceAssumption, C!Envelopes, Contents, Envelopes, Signers
<1>4. C!BoundAssumption
  BY ConsumerBounds DEF C!BoundAssumption
<1>5. C!Spec => []C!Inv
  BY <1>1, <1>2, <1>3, <1>4, C!InvInductive
<1>6. C!Spec => []C!LoadedInv
  BY <1>1, <1>2, <1>3, <1>4, C!LoadsOnlyWithKey
<1> QED BY <1>5, <1>6, ConsumerKept, PTL

-----------------------------------------------------------------------------
(***************************************************************************)
(* The consumer's copies of a signature come from the branch.              *)
(***************************************************************************)
CopiesInv == Ours(cache.sig) /\ Ours(sig)

LEMMA CopiesStep ==
  ASSUME C!TypeOK, C!Step \/ C!Kill \/ \E s \in C!Settings : C!Start(s)
  PROVE  /\ cache'.sig \in {cache.sig, hub.sig}
         /\ sig' \in {sig, cache.sig, hub.sig, None}
<1> USE DEF C!Fail, C!Go, C!world, C!run
<1>1. CASE C!FetchArtifact
  <2>1. PICK reached \in BOOLEAN : cache' = C!Cached("art", reached) /\ sig' = sig
    BY <1>1 DEF C!FetchArtifact
  <2> QED BY <2>1 DEF C!Cached, C!TypeOK
<1>2. CASE C!FetchSignature
  <2>1. PICK reached \in BOOLEAN :
          cache' = C!Cached("sig", reached) /\ sig' = C!Download("sig", reached)
    BY <1>2 DEF C!FetchSignature
  <2>2. hub.sig = hub["sig"] /\ cache.sig = cache["sig"]
    OBVIOUS
  <2>3. cache'.sig \in {cache.sig, hub.sig}
    BY <2>1 DEF C!Cached, C!TypeOK
  <2>4. sig' \in {cache.sig, hub.sig, None}
    BY <2>1 DEF C!Download
  <2> QED BY <2>3, <2>4
<1>3. ASSUME NEW s \in C!Settings, C!Start(s)
      PROVE  cache' = cache /\ sig' = None
  BY <1>3 DEF C!Start
<1>4. ASSUME NEW n \in FileNames, C!OpenMember(n)
      PROVE  cache' = cache /\ sig' = sig
  BY <1>4 DEF C!OpenMember
<1>5. CASE C!SkipSignature \/ C!Verify \/ C!ReadKey \/ C!Decrypt \/ C!CheckPackage
           \/ C!CloseMember \/ C!Uncaught \/ C!Load \/ C!Infer \/ C!Close \/ C!Kill
  <2>1. cache' = cache /\ sig' = sig
    BY <1>5 DEF C!SkipSignature, C!Verify, C!ReadKey, C!Decrypt, C!CheckPackage,
         C!CloseMember, C!Uncaught, C!Load, C!Infer, C!Close, C!Kill
  <2> QED BY <2>1
<1> QED BY <1>1, <1>2, <1>3, <1>4, <1>5 DEF C!Step

LEMMA CopiesInvariant == Spec => []CopiesInv
<1>1. Init => CopiesInv
  BY DEF Init, C!Init, CopiesInv, Ours
<1>2. BranchInv /\ C!Inv /\ CopiesInv /\ [Next]_vars => CopiesInv'
  <2> SUFFICES ASSUME BranchInv, C!Inv, CopiesInv, [Next]_vars PROVE CopiesInv'
    OBVIOUS
  <2>1. CASE Consume
    <3>1. /\ cache'.sig \in {cache.sig, hub.sig}
          /\ sig' \in {sig, cache.sig, hub.sig, None}
      BY <2>1, CopiesStep DEF Consume, C!Inv
    <3>2. signed' = signed
      BY <2>1 DEF Consume, history
    <3> QED BY <3>1, <3>2 DEF CopiesInv, BranchInv, Ours
  <2>2. CASE ~Consume
    <3>1. signed \subseteq signed' /\ cache' = cache /\ sig' = sig
      BY <2>2 DEF Next, vars, Work, Sign, Publish, Interfere, consumer, history,
                  C!HubCommit, C!run
    <3> QED BY <3>1 DEF CopiesInv, Ours
  <2> QED BY <2>1, <2>2
<1> QED BY <1>1, <1>2, BranchInvariant, ConsumerInv, PTL DEF Spec

(* A signature of the producer's key is of an artifact the producer signed, *)
(* wherever it is found: on the branch, in the cache, in a run.             *)
THEOREM TypeCorrect == Spec => []TypeOK
<1> DEFINE LastOK == last \in {"none", "run", "command", "others"}
<1>1. Init => LastOK
  BY DEF Init
<1>2. LastOK /\ [Next]_vars => LastOK'
  BY DEF Next, vars, Work, Sign, Publish, Interfere, Consume, history
<1>3. BranchInv /\ CopiesInv /\ LastOK => TypeOK
  BY DEF BranchInv, SignedInv, CopiesInv, TypeOK
<1> HIDE DEF LastOK
<1>4. Spec => []LastOK
  BY <1>1, <1>2, PTL DEF Spec
<1> QED BY <1>4, <1>3, BranchInvariant, CopiesInvariant, PTL

-----------------------------------------------------------------------------
(***************************************************************************)
(* The pair that a signed run has committed stays on the branch until the  *)
(* next commit.                                                            *)
(***************************************************************************)
RunPair == last = "run" => hub.sig = Envelope(hub.art)

LEMMA RunPairInvariant == Spec => []RunPair
<1>1. Init => RunPair
  BY DEF Init, RunPair
<1>2. P!Inv /\ RunPair /\ [Next]_vars => RunPair'
  <2> SUFFICES ASSUME P!Inv, RunPair, [Next]_vars PROVE RunPair'
    OBVIOUS
  <2>1. CASE Publish
    <3> SUFFICES ASSUME cmd.op = "run", cmd.sign, cmd.name = Name PROVE RunPair'
      BY <2>1 DEF Publish, RunPair
    <3>1. pPc = "publish"
      BY <2>1 DEF Publish, P!Publish, P!PublishUnanswered, P!Done
    <3>2. pSig[StemOf[Name]] = pArt[Name]
      BY <3>1 DEF P!Inv, P!RunInv
    <3>3. hub' = [art |-> pArt[Name], sig |-> Envelope(pSig[StemOf[Name]])]
      BY <2>1 DEF Publish, Branch, C!HubCommit
    <3> QED BY <3>2, <3>3 DEF RunPair
  <2>2. CASE Interfere
    BY <2>2 DEF Interfere, RunPair
  <2>3. CASE Consume
    BY <2>3, HubKept DEF Consume, history, RunPair
  <2>4. CASE Work \/ Sign \/ UNCHANGED vars
    BY <2>4 DEF Work, Sign, vars, consumer, history, RunPair
  <2> QED BY <2>1, <2>2, <2>3, <2>4 DEF Next
<1> QED BY <1>1, <1>2, ProducerInv, PTL DEF Spec

(* A verifying consumer that downloads what `run` has published, with no    *)
(* commit in between, and can read both files, has no signature error       *)
(* (run_all, core/verify.py).                                               *)
THEOREM RunIsAccepted == Spec => []PublishedIsAccepted
<1>1. C!Inv /\ RunPair => PublishedIsAccepted
  <2>1. C!Inv => settings.public = Trusted
    BY DEF C!Inv, C!TypeOK, C!Settings
  <2>2. C!Inv => C!SteadyPairIsAccepted
    BY DEF C!Inv, C!SteadyInv
  <2> QED BY <2>1, <2>2 DEF C!SteadyPairIsAccepted, RunPair, Envelope, PublishedIsAccepted
<1> QED BY <1>1, RunPairInvariant, ConsumerInv, PTL

-----------------------------------------------------------------------------
(***************************************************************************)
(* What a verifying consumer loads is a released model.                    *)
(***************************************************************************)
Only1 == \A m, k \in Models : P!Only(m) = P!Only(k) => m = k

LEMMA OnlyInjective == Only1
BY DEF Only1, P!Only

LEMMA FilesOfOne ==
  ASSUME NEW m \in Models
  PROVE  P!Only(m) \in P!Package /\ FilesIn[P!Only(m)] = FilesOf[m]
<1>1. P!Only(m) \in P!Package
  BY DEF P!Only, P!Package
<1>2. \A k \in Models : P!Only(m)[k] # "none" <=> k = m
  BY DEF P!Only
<1>3. FilesOf[m] \subseteq FileNames
  BY FileAssumption
<1> QED BY <1>1, <1>2, <1>3 DEF FilesIn

ServedInv == Served \in Released \union {None}

LEMMA ServedReleased ==
  ASSUME SignedInv, CopiesInv, C!Inv, C!LoadedInv
  PROVE  ServedInv
<1> SUFFICES ASSUME loaded # None, settings.verify
             PROVE  \E m \in Released : Served = m
  BY DEF ServedInv, Served
<1>1. settings.public = Trusted
  BY DEF C!Inv, C!TypeOK, C!Settings
<1>2. sig = [of |-> art, by |-> Trusted]
  BY <1>1 DEF C!Inv, C!KeyInv, C!Authentic, C!LoadedInv
<1>3. sig # None
  <2>1. art \in Artifacts \union {None} /\ Trusted \in Signers
    BY DEF C!Inv, C!TypeOK, Signers
  <2>2. sig \in [of : Artifacts \union {None}, by : Signers]
    BY <1>2, <2>1
  <2> QED BY <2>2, NoneAssumption
<1>4. art \in signed
  BY <1>2, <1>3 DEF CopiesInv, Ours
<1>5. PICK m \in Models : art.pkg = P!Only(m)
  BY <1>4 DEF SignedInv
<1>6. Opens[art] = P!Only(m)
  BY <1>4, <1>5, OpensTyped DEF SignedInv
<1>7. IsModel(m)
  BY <1>6, FilesOfOne DEF IsModel, C!Inv, C!ExtractInv, C!ListedFilesAreThePackage
<1>8. \A k \in Models : IsModel(k) => k = m
  BY <1>6, OnlyInjective DEF IsModel, Only1
<1>9. Served = m
  BY <1>7, <1>8 DEF Served
<1>10. m \in Released
  BY <1>4, <1>5 DEF Released
<1> QED BY <1>9, <1>10

LEMMA ServedInvariant == Spec => []ServedInv
<1>1. BranchInv /\ CopiesInv /\ C!Inv /\ C!LoadedInv => ServedInv
  BY ServedReleased DEF BranchInv
<1> QED BY <1>1, BranchInvariant, CopiesInvariant, ConsumerInv, PTL

-----------------------------------------------------------------------------
(***************************************************************************)
(* The refinement: Sign is Release, a step of the consumer Serve, Withdraw *)
(* or nothing, and all others are nothing.                                 *)
(***************************************************************************)
LEMMA SignReleases ==
  ASSUME P!Inv, SignedInv, Sign
  PROVE  Trust!Release
<1>1. PICK m \in Models : pArt[cmd.name].pkg = P!Only(m)
  BY SignSignatures
<1>2. signed' = signed \union {pArt[cmd.name]}
  BY DEF Sign
<1>3. Released' = Released \union {m}
  BY <1>1, <1>2, OnlyInjective DEF Released, Only1
<1>4. Served' = Served
  BY DEF Sign, consumer, Served, IsModel
<1> QED BY <1>3, <1>4 DEF Trust!Release

(* What a verifying consumer loads is one model, whole, that the producer   *)
(* packaged, encrypted and signed: the two services and their branch        *)
(* implement TrustedDelivery.                                               *)
THEOREM Implements == Spec => DeliversTrusted
<1>1. Init => Trust!Init
  BY DEF Init, C!Init, Released, Served, Trust!Init
<1>2. P!Inv /\ BranchInv /\ ServedInv' /\ [Next]_vars => [Trust!Next]_Trust!vars
  <2> SUFFICES ASSUME P!Inv, BranchInv, ServedInv', [Next]_vars
               PROVE  [Trust!Next]_Trust!vars
    OBVIOUS
  <2>1. CASE Sign
    BY <2>1, SignReleases DEF BranchInv, Trust!Next
  <2>2. CASE Consume
    <3>1. Released' = Released
      BY <2>2 DEF Consume, history, Released
    <3>2. Served' \in Released \union {None}
      BY <3>1 DEF ServedInv
    <3> QED BY <3>1, <3>2 DEF Trust!Next, Trust!Serve, Trust!Withdraw
  <2>3. CASE Work \/ Publish \/ Interfere \/ UNCHANGED vars
    <3>1. UNCHANGED <<signed, loaded, settings, art>>
      BY <2>3 DEF Work, Publish, Interfere, vars, consumer, history, C!HubCommit, C!run
    <3>2. Released' = Released /\ Served' = Served
      BY <3>1 DEF Released, Served, IsModel
    <3> QED BY <3>2 DEF Trust!vars
  <2> QED BY <2>1, <2>2, <2>3 DEF Next
<1> QED BY <1>1, <1>2, ProducerInv, BranchInvariant, ServedInvariant, PTL
     DEF Spec, DeliversTrusted, Trust!Spec
=============================================================================
