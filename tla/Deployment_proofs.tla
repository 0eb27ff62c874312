------------------------- MODULE Deployment_proofs -------------------------
(***************************************************************************)
(* The script judges its own Job, for any number of interrupted runs, and  *)
(* what it takes for the exit code it prints to be that Job's.             *)
(***************************************************************************)
EXTENDS Deployment, TLAPS

USE BoundAssumption, MishapAssumption, NoneAssumption

(***************************************************************************)
(* From the moment the script applies a Job until the next run starts, the *)
(* Secret and the revision are those of its scenario, and while it waits   *)
(* the Job in the cluster is its own.                                      *)
(***************************************************************************)
Replaced == pc = "apply" \/ (pc = "secret" /\ scenario # "happy")

ScriptInv ==
  /\ pc # "idle" => runs # 0 /\ result = "running"
  /\ own # None => own = runs
  /\ pc \in {"secret", "config", "delete", "apply"} => own = None
  /\ pc \in {"wait", "report", "drop"} => own # None /\ job = own
  /\ pc \in {"report", "drop"} => scenario # "happy"
  /\ Replaced => job = None
  /\ Replaced \/ pc = "delete" \/ own # None => config = RevisionOf(scenario)
  /\ pc = "apply" \/ (pc \in {"config", "delete"} /\ scenario = "happy") \/ own # None
       => secret = SecretOf(scenario)
  /\ judged # None => judged = own

(***************************************************************************)
(* What pods mounted, and what the Job's condition says of its pod.        *)
(***************************************************************************)
Started(j) == pods[j].phase \in {"running", "ended"}

PodInv ==
  /\ \A j \in Jobs : Started(j) => pods[j].secret # None /\ pods[j].revision # None
  /\ own # None /\ Started(own) => /\ pods[own].secret = SecretOf(scenario)
                                   /\ pods[own].revision = RevisionOf(scenario)
  /\ job # None /\ state # "running" =>
       pods[job].phase = "ended" /\ (state = "complete" <=> pods[job].code = 0)
  /\ result = "ok" /\ scenario = "happy" =>
       /\ own # None /\ judged = own
       /\ pods[own].phase \in {"ended", "gone"}
       /\ pods[own].phase = "ended" => pods[own].code = 0

Inv == TypeOK /\ ScriptInv /\ PodInv

-----------------------------------------------------------------------------
LEMMA InitInv == Init => Inv
<1> SUFFICES ASSUME Init PROVE Inv
  OBVIOUS
<1>1. NewPod("none") \in Pod
  BY DEF NewPod, Pod
<1>2. TypeOK
  BY <1>1 DEF Init, TypeOK, NewPod, Scenarios, States
<1>3. ScriptInv
  BY DEF Init, ScriptInv, Replaced
<1>4. PodInv
  BY DEF Init, PodInv, Started, NewPod
<1>5. QED
  BY <1>2, <1>3, <1>4 DEF Inv

\* A run of the script starts.
LEMMA StartStep == ASSUME Inv, NEW s \in Scenarios, Start(s) PROVE Inv'
<1>1. TypeOK'
  BY DEF Inv, Start, TypeOK, cluster
<1>2. ScriptInv'
  BY DEF Inv, TypeOK, Start, ScriptInv, Replaced, cluster
<1>3. PodInv'
  BY DEF Inv, TypeOK, Start, PodInv, Started, cluster
<1>4. QED
  BY <1>1, <1>2, <1>3 DEF Inv

\* The steps up to the deletion of the old Job, with no Job of its own.
LEMMA PrepareStep ==
  ASSUME Inv, SetSecret \/ ApplyConfig \/ DeleteJob PROVE Inv'
<1>1. own = None /\ own' = None /\ pc # "idle"
  BY DEF Inv, TypeOK, ScriptInv, Replaced, SetSecret, ApplyConfig, DeleteJob, Goes
<1>2. TypeOK'
  BY DEF Inv, TypeOK, SetSecret, ApplyConfig, DeleteJob, Goes, SecretOf, RevisionOf,
         Deleted, Scenarios, Secrets, Revisions
<1>3. ScriptInv'
  BY <1>1 DEF Inv, TypeOK, ScriptInv, Replaced, SetSecret, ApplyConfig, DeleteJob, Goes, Deleted
<1>4. PodInv'
  BY <1>1 DEF Inv, ScriptInv, PodInv, Started, SetSecret, ApplyConfig, DeleteJob, Deleted, Goes
<1>5. QED
  BY <1>2, <1>3, <1>4 DEF Inv

LEMMA ApplyStep == ASSUME Inv, ApplyJob PROVE Inv'
<1>1. /\ job = None /\ runs \in Jobs /\ pc = "apply" /\ own = None
      /\ config = RevisionOf(scenario) /\ secret = SecretOf(scenario)
  <2>1. pc = "apply"
    BY DEF ApplyJob, Goes
  <2>2. runs \in Jobs
    BY <2>1 DEF Inv, TypeOK, ScriptInv, Jobs
  <2>3. QED
    BY <2>1, <2>2 DEF Inv, ScriptInv, Replaced
<1>2. NewPod("pending") \in Pod /\ NewPod("pending").phase = "pending"
  BY DEF NewPod, Pod
<1>3. /\ own' = runs /\ job' = runs /\ state' = "running" /\ pc' = "wait"
      /\ pods' = [pods EXCEPT ![runs] = NewPod("pending")]
      /\ UNCHANGED <<secret, config, scenario, judged, reported, result, runs>>
  BY <1>1 DEF ApplyJob, Goes
<1>4. pods' \in [Jobs -> Pod] /\ pods'[runs].phase = "pending"
  BY <1>1, <1>2, <1>3 DEF Inv, TypeOK
<1>5. \A j \in Jobs : j # runs => pods'[j] = pods[j]
  BY <1>3 DEF Inv, TypeOK
<1>6. TypeOK'
  BY <1>1, <1>3, <1>4, <1>5 DEF Inv, TypeOK, States
<1>7. ScriptInv'
  BY <1>1, <1>3 DEF Inv, ScriptInv, Replaced, RevisionOf, SecretOf
<1>8. PodInv'
  BY <1>1, <1>3, <1>4, <1>5 DEF Inv, ScriptInv, PodInv, Started
<1>9. QED
  BY <1>6, <1>7, <1>8 DEF Inv

\* The wait ends, the exit code is read, the Job is dropped, or none of it.
LEMMA EndStep ==
  ASSUME Inv, Observe \/ Timeout \/ Report \/ DropJob \/ Interrupt PROVE Inv'
<1>1. UNCHANGED <<secret, config, state, pods, own, scenario, runs>>
  BY DEF Observe, Timeout, Report, DropJob, Interrupt, Goes, Finish, cluster
<1>2. CASE Observe
  <2>1. pc = "wait" /\ job = own /\ own # None /\ job' = job /\ judged' = own /\ reported' = reported
    BY <1>2 DEF Inv, ScriptInv, Observe, cluster
  <2>2. /\ pc' \in {"idle", "report", "drop"} /\ result' \in {"running", "ok", "failed"}
        /\ pc' # "idle" => scenario # "happy" /\ result' = "running"
        /\ result' = "ok" /\ scenario = "happy" => state = "complete"
    BY <1>2, <2>1 DEF Inv, ScriptInv, Observe, Finish, Goes, HappyResult, JobState
  <2>3. TypeOK'
    BY <1>1, <2>1, <2>2 DEF Inv, TypeOK
  <2>4. ScriptInv'
    BY <1>1, <2>1, <2>2 DEF Inv, ScriptInv, Replaced
  <2>5. PodInv'
    BY <1>1, <2>1, <2>2 DEF Inv, PodInv, Started
  <2>6. QED
    BY <2>3, <2>4, <2>5 DEF Inv
<1>3. CASE Timeout \/ Report \/ Interrupt
  <2>1. /\ job' = job /\ judged' = judged /\ pc # "idle"
        /\ \/ pc' = "idle" /\ result' \in {"failed", "interrupted"}
           \/ /\ pc' = "drop" /\ result' = result
              /\ pc = "report" \/ (pc = "wait" /\ scenario # "happy")
    BY <1>3 DEF Timeout, Report, Interrupt, Goes, Finish, cluster
  <2>2. reported' \in Codes \union {None}
    BY <1>3 DEF Timeout, Report, Interrupt, Inv, TypeOK, Pod
  <2>3. TypeOK'
    BY <1>1, <2>1, <2>2 DEF Inv, TypeOK
  <2>4. ScriptInv'
    BY <1>1, <2>1 DEF Inv, ScriptInv, Replaced
  <2>5. PodInv'
    BY <1>1, <2>1 DEF Inv, ScriptInv, PodInv, Started
  <2>6. QED
    BY <2>3, <2>4, <2>5 DEF Inv
<1>4. CASE DropJob
  <2>1. /\ job' = None /\ judged' = judged /\ reported' = reported
        /\ pc' = "idle" /\ result' = "ok" /\ scenario # "happy"
    BY <1>4 DEF Inv, ScriptInv, DropJob, Finish, Deleted
  <2>2. TypeOK'
    BY <1>1, <2>1 DEF Inv, TypeOK
  <2>3. ScriptInv'
    BY <1>1, <2>1 DEF Inv, ScriptInv, Replaced
  <2>4. PodInv'
    BY <1>1, <2>1 DEF Inv, PodInv, Started
  <2>5. QED
    BY <2>2, <2>3, <2>4 DEF Inv
<1>5. QED
  BY <1>2, <1>3, <1>4

\* A pod starts, with the Secret and the revision that are in the cluster.
LEMMA StartPodStep == ASSUME Inv, NEW j \in Jobs, StartPod(j) PROVE Inv'
<1> DEFINE new == [NewPod("running") EXCEPT !.secret = secret, !.revision = config]
<1>1. /\ pods' = [pods EXCEPT ![j] = new] /\ pods[j].phase = "pending"
      /\ secret # None /\ config # None
      /\ UNCHANGED <<secret, config, job, state, scenario, pc, own, judged, reported, result, runs>>
  BY DEF StartPod, Mountable, script
<1>2. /\ new.phase = "running" /\ new.secret = secret /\ new.revision = config /\ new.code = None
      /\ new \in Pod
  BY DEF NewPod, Pod, Inv, TypeOK
<1> HIDE DEF new
<1>3. pods' \in [Jobs -> Pod] /\ pods'[j] = new /\ \A k \in Jobs : k # j => pods'[k] = pods[k]
  BY <1>1, <1>2 DEF Inv, TypeOK
<1>4. TypeOK'
  BY <1>1, <1>2, <1>3 DEF Inv, TypeOK
<1>5. ScriptInv'
  BY <1>1 DEF Inv, ScriptInv, Replaced
<1>6. PodInv'
  <2>1. own # None => secret = SecretOf(scenario) /\ config = RevisionOf(scenario) /\ own \in Jobs
    BY DEF Inv, ScriptInv, TypeOK
  <2>2. judged # None => judged \in Jobs
    BY DEF Inv, TypeOK
  <2>3. job # None => job \in Jobs
    BY DEF Inv, TypeOK
  <2>4. \A k \in Jobs : Started(k)' => pods'[k].secret # None /\ pods'[k].revision # None
    BY <1>1, <1>2, <1>3 DEF Inv, PodInv, Started
  <2>5. own # None /\ Started(own)' => /\ pods'[own].secret = SecretOf(scenario)
                                       /\ pods'[own].revision = RevisionOf(scenario)
    <3>1. CASE own = j
      BY <1>2, <1>3, <2>1, <3>1
    <3>2. CASE own # j
      <4>1. own # None => pods'[own] = pods[own]
        BY <1>3, <2>1, <3>2
      <4>2. own' = own
        BY <1>1
      <4>3. QED
        BY <4>1, <4>2 DEF Inv, PodInv, Started
    <3>3. QED
      BY <3>1, <3>2
  <2>6. job # None /\ state # "running" =>
          pods'[job].phase = "ended" /\ (state = "complete" <=> pods'[job].code = 0)
    BY <1>1, <1>3, <2>3 DEF Inv, PodInv
  <2>7. result = "ok" /\ scenario = "happy" =>
          /\ own # None /\ judged = own
          /\ pods'[own].phase \in {"ended", "gone"}
          /\ pods'[own].phase = "ended" => pods'[own].code = 0
    BY <1>1, <1>3, <2>1 DEF Inv, PodInv
  <2>8. QED
    BY <1>1, <2>4, <2>5, <2>6, <2>7 DEF PodInv, Started
<1>7. QED
  BY <1>4, <1>5, <1>6 DEF Inv

LEMMA EndPodStep == ASSUME Inv, NEW j \in Jobs, EndPod(j) PROVE Inv'
<1>1. PICK code \in Mishaps \union {Outcome(pods[j])} :
        pods' = [pods EXCEPT ![j] = [pods[j] EXCEPT !.phase = "ended", !.code = code]]
  BY DEF EndPod, Inv, TypeOK, Pod
<1>2. pods[j].phase = "running" /\ UNCHANGED <<secret, config, job, state, script>>
  BY DEF EndPod
<1>3. code \in Codes
  BY DEF Outcome, Codes
<1>4. /\ pods'[j].phase = "ended" /\ pods'[j].code = code
      /\ pods'[j].secret = pods[j].secret /\ pods'[j].revision = pods[j].revision
      /\ pods' \in [Jobs -> Pod] /\ \A k \in Jobs : k # j => pods'[k] = pods[k]
  <2> DEFINE new == [pods[j] EXCEPT !.phase = "ended", !.code = code]
  <2>1. pods \in [Jobs -> Pod] /\ pods[j] \in Pod
    BY DEF Inv, TypeOK
  <2>2. /\ new \in Pod /\ new.phase = "ended" /\ new.code = code
        /\ new.secret = pods[j].secret /\ new.revision = pods[j].revision
    <3>1. new.phase = "ended" /\ new.code = code
      BY <2>1 DEF Pod
    <3>2. new.secret = pods[j].secret /\ new.revision = pods[j].revision
      BY <2>1 DEF Pod
    <3>3. new \in Pod
      BY <1>3, <2>1, ZenonT(30) DEF Pod
    <3>4. QED
      BY <3>1, <3>2, <3>3
  <2>3. pods' = [pods EXCEPT ![j] = new]
    BY <1>1
  <2> HIDE DEF new
  <2>4. QED
    BY <2>1, <2>2, <2>3
<1>5. TypeOK'
  BY <1>2, <1>4 DEF Inv, TypeOK, script
<1>6. ScriptInv'
  BY <1>2 DEF Inv, ScriptInv, Replaced, script
<1>7. PodInv'
  <2>1. /\ own # None => own \in Jobs
        /\ job # None => job \in Jobs
    BY DEF Inv, TypeOK
  <2>2. UNCHANGED <<job, state, scenario, own, judged, result>>
    BY <1>2 DEF script
  <2>3. Started(j)
    BY <1>2 DEF Started
  <2>4. \A k \in Jobs : Started(k)' => pods'[k].secret # None /\ pods'[k].revision # None
    BY <1>4, <2>3 DEF Inv, PodInv, Started
  <2>5. own # None /\ Started(own)' => /\ pods'[own].secret = SecretOf(scenario)
                                       /\ pods'[own].revision = RevisionOf(scenario)
    <3>1. CASE own = j
      <4>1. own # None => /\ pods[own].secret = SecretOf(scenario)
                          /\ pods[own].revision = RevisionOf(scenario)
        BY <1>2, <3>1 DEF Inv, PodInv, Started
      <4>2. QED
        BY <1>4, <3>1, <4>1
    <3>2. CASE own # j
      BY <1>4, <2>1, <2>2, <3>2 DEF Inv, PodInv, Started
    <3>3. QED
      BY <3>1, <3>2
  <2>6. job # None /\ state # "running" =>
          pods'[job].phase = "ended" /\ (state = "complete" <=> pods'[job].code = 0)
    BY <1>2, <1>4, <2>1 DEF Inv, PodInv
  <2>7. result = "ok" /\ scenario = "happy" =>
          /\ own # None /\ judged = own
          /\ pods'[own].phase \in {"ended", "gone"}
          /\ pods'[own].phase = "ended" => pods'[own].code = 0
    BY <1>2, <1>4, <2>1 DEF Inv, PodInv
  <2>8. QED
    BY <2>2, <2>4, <2>5, <2>6, <2>7 DEF PodInv, Started, SecretOf, RevisionOf
<1>8. QED
  BY <1>5, <1>6, <1>7 DEF Inv

LEMMA CollectStep == ASSUME Inv, NEW j \in Jobs, CollectPod(j) PROVE Inv'
<1>1. /\ pods' = [pods EXCEPT ![j] = NewPod("gone")] /\ job # j
      /\ UNCHANGED <<secret, config, job, state, scenario, pc, own, judged, reported, result, runs>>
  BY DEF CollectPod, script
<1>2. NewPod("gone") \in Pod /\ NewPod("gone").phase = "gone"
  BY DEF NewPod, Pod
<1>3. pods' \in [Jobs -> Pod] /\ pods'[j].phase = "gone" /\ \A k \in Jobs : k # j => pods'[k] = pods[k]
  BY <1>1, <1>2 DEF Inv, TypeOK
<1>4. TypeOK'
  BY <1>1, <1>3 DEF Inv, TypeOK
<1>5. ScriptInv'
  BY <1>1 DEF Inv, ScriptInv, Replaced
<1>6. PodInv'
  <2>1. \A k \in Jobs : Started(k)' => k # j /\ pods'[k] = pods[k]
    BY <1>3 DEF Started
  <2>2. own \in Jobs \union {None} /\ job \in Jobs \union {None}
    BY DEF Inv, TypeOK
  <2>3. \A k \in Jobs : Started(k)' => pods'[k].secret # None /\ pods'[k].revision # None
    BY <2>1 DEF Inv, PodInv, Started
  <2>4. own # None /\ Started(own)' => /\ pods'[own].secret = SecretOf(scenario)
                                      /\ pods'[own].revision = RevisionOf(scenario)
    BY <1>1, <2>1, <2>2 DEF Inv, PodInv, Started
  <2>5. job # None /\ state # "running" =>
          pods'[job].phase = "ended" /\ (state = "complete" <=> pods'[job].code = 0)
    BY <1>1, <1>3, <2>2 DEF Inv, PodInv
  <2>6. result = "ok" /\ scenario = "happy" =>
          /\ own # None /\ judged = own
          /\ pods'[own].phase \in {"ended", "gone"}
          /\ pods'[own].phase = "ended" => pods'[own].code = 0
    BY <1>3, <2>2 DEF Inv, PodInv
  <2>7. QED
    BY <1>1, <2>3, <2>4, <2>5, <2>6 DEF PodInv, Started, SecretOf, RevisionOf
<1>7. QED
  BY <1>4, <1>5, <1>6 DEF Inv

\* The Job's condition is set, or the Job expires.
LEMMA JobStep == ASSUME Inv, JobController \/ ExpireJob PROVE Inv'
<1>1. UNCHANGED <<secret, config, pods, scenario, pc, own, judged, reported, result, runs>>
  BY DEF JobController, ExpireJob, script
<1>2. \/ /\ job' = job /\ job # None /\ pods[job].phase = "ended"
         /\ state' = IF pods[job].code = 0 THEN "complete" ELSE "failed"
      \/ job' = None /\ state' = state /\ (pc = "idle" \/ job # own) /\ job # None
  BY DEF JobController, ExpireJob
<1>3. TypeOK'
  BY <1>1, <1>2 DEF Inv, TypeOK, States
<1>4. ScriptInv'
  BY <1>1, <1>2 DEF Inv, ScriptInv, Replaced
<1>5. PodInv'
  BY <1>1, <1>2 DEF Inv, PodInv, Started
<1>6. QED
  BY <1>3, <1>4, <1>5 DEF Inv

-----------------------------------------------------------------------------
LEMMA InvInductive == Spec => []Inv
<1>1. Inv /\ [Next]_vars => Inv'
  <2> SUFFICES ASSUME Inv, [Next]_vars PROVE Inv'
    OBVIOUS
  <2>1. CASE UNCHANGED vars
    BY <2>1 DEF vars, cluster, script, Inv, TypeOK, ScriptInv, Replaced, PodInv, Started
  <2>2. QED
    BY <2>1, StartStep, PrepareStep, ApplyStep, EndStep, StartPodStep, EndPodStep,
       CollectStep, JobStep DEF Next, Script, Cluster
<1>2. QED
  BY InitInv, <1>1, PTL DEF Spec

\* A Job in the cluster has its pod, and a pod that runs has a key and a
\* revision.
THEOREM TypeCorrect == Spec => []TypeOK
  BY InvInductive, PTL DEF Inv

\* The condition that ends the wait is that of the Job this run applied, whose
\* pod had this scenario's key and revision, whatever earlier runs left.
THEOREM OwnJobIsJudged == Spec => []JudgesItsOwnJob
<1>1. Inv => JudgesItsOwnJob
  BY DEF Inv, ScriptInv, PodInv, Started, JudgesItsOwnJob
<1>2. QED
  BY InvInductive, <1>1, PTL

\* The happy path reports success only of its own consumer's success.
THEOREM SuccessIsNotMistaken == Spec => []SuccessIsReal
<1>1. Inv => SuccessIsReal
  BY DEF Inv, ScriptInv, PodInv, Started, SuccessIsReal, SecretOf
<1>2. QED
  BY InvInductive, <1>1, PTL

\* Without the Secret no consumer of the run starts.
THEOREM NoSecretNoStart == Spec => []MissingNeverStarts
<1>1. Inv => MissingNeverStarts
  <2> SUFFICES ASSUME Inv, scenario = "missing", own # None, pc # "idle"
               PROVE  pods[own].phase \in {"pending", "gone"}
    BY DEF MissingNeverStarts
  <2>1. own \in Jobs /\ job = own /\ pods[own] \in Pod
    BY DEF Inv, TypeOK, ScriptInv
  <2>2. ~Started(own)
    BY <2>1 DEF Inv, PodInv, SecretOf
  <2>3. pods[own].phase \notin {"none", "gone"}
    BY <2>1 DEF Inv, TypeOK
  <2>4. QED
    BY <2>1, <2>2, <2>3 DEF Started, Pod
<1>2. QED
  BY InvInductive, <1>1, PTL

-----------------------------------------------------------------------------
(* The code of a pod that has ended is the consumer's for what it mounted,  *)
(* or a mishap's, and the script reports only on a Job that failed.         *)
CodeInv ==
  /\ \A j \in Jobs : pods[j].phase = "ended" =>
       pods[j].code \in Mishaps \union {Outcome(pods[j])}
  /\ pc = "report" => state = "failed"

LEMMA CodeInvStep ==
  ASSUME Inv, CodeInv, [Next]_vars
  PROVE  CodeInv'
<1>1. \A j \in Jobs : pods'[j].phase = "ended" =>
        pods'[j].code \in Mishaps \union {Outcome(pods'[j])}
  <2> DEFINE Good(pod) == pod.phase = "ended" => pod.code \in Mishaps \union {Outcome(pod)}
  <2>1. \A j \in Jobs : Good(pods[j])
    BY DEF CodeInv
  <2>2. \A phase : phase # "ended" => Good(NewPod(phase))
    BY DEF NewPod
  <2>3. pods \in [Jobs -> Pod]
    BY DEF Inv, TypeOK
  <2> SUFFICES \A j \in Jobs : Good(pods'[j])
    OBVIOUS
  <2>4. CASE UNCHANGED pods
    BY <2>1, <2>4
  <2>5. ASSUME NEW j \in Jobs, NEW pod, pods' = [pods EXCEPT ![j] = pod], Good(pod)
        PROVE  \A k \in Jobs : Good(pods'[k])
    <3> HIDE DEF Good
    <3> QED BY <2>1, <2>3, <2>5
  <2>6. CASE ApplyJob
    <3>1. UNCHANGED pods \/ pods' = [pods EXCEPT ![runs] = NewPod("pending")]
      BY <2>6 DEF ApplyJob
    <3>2. Good(NewPod("pending"))
      BY <2>2
    <3>3. runs \in Jobs
      BY <2>6 DEF ApplyJob, Goes, Inv, TypeOK, ScriptInv, Jobs
    <3> HIDE DEF Good
    <3> QED BY <2>4, <2>5, <3>1, <3>2, <3>3
  <2>7. ASSUME NEW j \in Jobs, StartPod(j) PROVE \A k \in Jobs : Good(pods'[k])
    <3> DEFINE pod == [NewPod("running") EXCEPT !.secret = secret, !.revision = config]
    <3>1. pods' = [pods EXCEPT ![j] = pod]
      BY <2>7 DEF StartPod
    <3>2. Good(pod)
      BY DEF NewPod
    <3> HIDE DEF pod, Good
    <3> QED BY <2>5, <3>1, <3>2
  <2>8. ASSUME NEW j \in Jobs, EndPod(j) PROVE \A k \in Jobs : Good(pods'[k])
    <3>1. PICK code \in Mishaps \union {Outcome(pods[j])} :
            pods' = [pods EXCEPT ![j].phase = "ended", ![j].code = code]
      BY <2>8 DEF EndPod
    <3> DEFINE pod == [pods[j] EXCEPT !.phase = "ended", !.code = code]
    <3>2. pods' = [pods EXCEPT ![j] = pod]
      BY <2>3, <3>1
    <3>3. pods[j] \in Pod
      BY <2>3
    <3>4. pod.code = code /\ pod.secret = pods[j].secret /\ pod.revision = pods[j].revision
      BY <3>3 DEF Pod
    <3>5. Outcome(pod) = Outcome(pods[j])
      BY <3>4 DEF Outcome
    <3>6. Good(pod)
      BY <3>1, <3>4, <3>5
    <3> HIDE DEF pod, Good
    <3> QED BY <2>5, <3>2, <3>6
  <2>9. ASSUME NEW j \in Jobs, CollectPod(j) PROVE \A k \in Jobs : Good(pods'[k])
    <3>1. pods' = [pods EXCEPT ![j] = NewPod("gone")] /\ Good(NewPod("gone"))
      BY <2>2, <2>9 DEF CollectPod
    <3> HIDE DEF Good
    <3> QED BY <2>5, <3>1
  <2>10. SetSecret \/ ApplyConfig \/ DeleteJob \/ Observe \/ Timeout \/ Report \/ DropJob
           \/ Interrupt \/ JobController \/ ExpireJob \/ (\E s \in Scenarios : Start(s))
           \/ UNCHANGED vars => UNCHANGED pods
    BY DEF SetSecret, ApplyConfig, DeleteJob, Observe, Timeout, Report, DropJob, Interrupt,
           JobController, ExpireJob, Start, cluster, vars
  <2> QED
    BY <2>4, <2>6, <2>7, <2>8, <2>9, <2>10 DEF Next, Script, Cluster
<1>2. pc' = "report" => state' = "failed"
  <2>1. CASE Observe
    BY <2>1 DEF Observe, Goes, Finish, JobState, cluster
  <2>2. CASE SetSecret \/ ApplyConfig \/ DeleteJob \/ ApplyJob \/ Timeout \/ Report \/ DropJob
             \/ Interrupt \/ (\E s \in Scenarios : Start(s))
    <3>1. pc' # "report"
      BY <2>2 DEF SetSecret, ApplyConfig, DeleteJob, ApplyJob, Timeout, Report, DropJob,
                  Interrupt, Start, Goes, Finish
    <3> QED BY <3>1
  <2>3. CASE JobController
    <3>1. pc' = pc /\ state = "running"
      BY <2>3 DEF JobController, script
    <3> QED BY <3>1 DEF CodeInv
  <2>4. ASSUME NEW j \in Jobs, StartPod(j) \/ EndPod(j) \/ CollectPod(j)
        PROVE  pc' = pc /\ state' = state
    BY <2>4 DEF StartPod, EndPod, CollectPod, script
  <2>5. /\ ExpireJob => pc' = pc /\ state' = state
        /\ UNCHANGED vars => pc' = pc /\ state' = state
    BY DEF ExpireJob, cluster, script, vars
  <2>6. CASE pc' = pc /\ state' = state
    BY <2>6 DEF CodeInv
  <2> QED
    BY <2>1, <2>2, <2>3, <2>4, <2>5, <2>6 DEF Next, Script, Cluster
<1> QED BY <1>1, <1>2 DEF CodeInv

\* The exit codes that demo.sh announces for its scenarios (demo.sh:5-7).
Announced(s) == CASE s = "corrupt" -> 5 [] s = "tamper" -> 4 [] OTHER -> 0

\* The code that the script prints is the announced one or a mishap's, as long
\* as the cluster has no pod of an earlier Job (demo.sh:152).
THEOREM ReportsTheScenario ==
  Spec => [][Report /\ (\A j \in Jobs \ {own} : pods[j].phase \in {"none", "gone"}) =>
               reported' \in (Mishaps \union {Announced(scenario)}) \ {0}]_vars
<1> DEFINE A == Report /\ (\A j \in Jobs \ {own} : pods[j].phase \in {"none", "gone"}) =>
                  reported' \in (Mishaps \union {Announced(scenario)}) \ {0}
<1>1. Init => CodeInv
  BY DEF Init, CodeInv, NewPod
<1>2. Inv /\ CodeInv /\ [Next]_vars => CodeInv'
  BY CodeInvStep
<1>3. Inv /\ CodeInv /\ [Next]_vars => [A]_vars
  <2> SUFFICES ASSUME Inv, CodeInv, Report,
                      \A j \in Jobs \ {own} : pods[j].phase \in {"none", "gone"}
               PROVE  reported' \in (Mishaps \union {Announced(scenario)}) \ {0}
    OBVIOUS
  <2>1. pc = "report" /\ reported' = pods[own].code
    BY DEF Report, Goes
  <2>2. job = own /\ own \in Jobs /\ own # None /\ scenario # "happy" /\ state = "failed"
    BY <2>1 DEF Inv, ScriptInv, TypeOK, CodeInv
  <2>3. pods[own].phase = "ended" /\ pods[own].code # 0
    BY <2>2 DEF Inv, PodInv
  <2>4. /\ pods[own].secret = SecretOf(scenario) /\ pods[own].secret # None
        /\ pods[own].revision = RevisionOf(scenario)
    BY <2>2, <2>3 DEF Inv, PodInv, Started
  <2>5. Outcome(pods[own]) = Announced(scenario)
    BY <2>2, <2>4 DEF Outcome, Announced, SecretOf, RevisionOf, Inv, TypeOK, Scenarios
  <2>6. pods[own].code \in Mishaps \union {Outcome(pods[own])}
    BY <2>2, <2>3 DEF CodeInv
  <2> QED BY <2>1, <2>3, <2>5, <2>6
<1> QED BY <1>1, <1>2, <1>3, InvInductive, PTL DEF Spec
=============================================================================
