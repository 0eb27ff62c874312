----------------------------- MODULE Deployment -----------------------------
(***************************************************************************)
(* scripts/demo.sh against a cluster: it sets the Secret and the           *)
(* ConfigMaps, replaces the consumer Job, polls it and reports.  The       *)
(* script may be interrupted anywhere and is started again in the same or  *)
(* another scenario.  The cluster works on its own: pods start, end and    *)
(* are collected after their Job is gone.                                  *)
(***************************************************************************)
EXTENDS Integers

CONSTANTS
  Mishaps,  \* exit codes a consumer may end with in any scenario
  MaxRuns,  \* bound: runs of the script
  None

ASSUME BoundAssumption == MaxRuns \in Nat
ASSUME MishapAssumption == Mishaps \subseteq 1..255

Scenarios == {"happy", "missing", "corrupt", "tamper"}
Secrets == {"real", "random"}
Revisions == {"main", "tampered"}
Jobs == 1..MaxRuns
States == {"running", "complete", "failed"}
Codes == 0..255

ASSUME NoneAssumption ==
  None \notin Secrets /\ None \notin Revisions /\ None \notin Codes /\ None \notin Jobs

VARIABLES
  secret, config,  \* the Secret; the revision in the ConfigMap
  job, state,      \* the Job object, and its condition
  pods,            \* job -> its one pod (backoffLimit 0, restartPolicy Never)
  scenario, pc,    \* the script's argument and its step
  own,             \* the Job it applied
  judged,          \* the Job whose condition ended its wait
  reported,        \* the exit code it prints as that of a Job failed as expected
  result,          \* how it ended
  runs

cluster == <<secret, config, job, state, pods>>
script == <<scenario, pc, own, judged, reported, result, runs>>
vars == <<cluster, script>>

\* phase "none": not created; "gone": collected.
Pod == [phase : {"none", "pending", "running", "ended", "gone"},
        secret : Secrets \union {None}, revision : Revisions \union {None},
        code : Codes \union {None}]
NewPod(phase) == [phase |-> phase, secret |-> None, revision |-> None, code |-> None]

-----------------------------------------------------------------------------
(* The script.  Where an operator has a mutant, a plausible slip in the     *)
(* same code, the mutant stands before it.                                  *)

RevisionOf(s) == IF s = "tamper" THEN "tampered" ELSE "main"

\* apply_secret, or what the variant does to the Secret.
SecretOf(s) ==
  CASE s \in {"happy", "tamper"} -> "real"
    [] s = "corrupt"             -> "random"
    [] s = "missing"             -> None

Start(s) ==
  /\ pc = "idle" /\ runs < MaxRuns
  /\ scenario' = s
  /\ pc' = IF s = "happy" THEN "secret" ELSE "config"
  /\ own' = None /\ judged' = None /\ reported' = None
  /\ result' = "running"
  /\ runs' = runs + 1
  /\ UNCHANGED cluster

Goes(from, to) ==
  /\ pc = from /\ pc' = to
  /\ UNCHANGED <<scenario, runs>>

\* The happy path sets the Secret first, a variant once the old Job is gone.
SetSecret ==
  /\ IF scenario = "happy" THEN Goes("secret", "config") ELSE Goes("secret", "apply")
  /\ secret' = SecretOf(scenario)
  /\ UNCHANGED <<config, job, state, pods, own, judged, reported, result>>

ApplyConfig ==
  /\ Goes("config", "delete")
  /\ config' = RevisionOf(scenario)
  /\ UNCHANGED <<secret, job, state, pods, own, judged, reported, result>>

KeptJob == job
\* delete job --wait: the object is gone, its pod is left to the collector.
Deleted == None

DeleteJob ==
  /\ IF scenario = "happy" THEN Goes("delete", "apply") ELSE Goes("delete", "secret")
  /\ job' = Deleted
  /\ UNCHANGED <<secret, config, state, pods, own, judged, reported, result>>

\* kubectl apply of an unchanged manifest changes nothing.
ApplyJob ==
  /\ Goes("apply", "wait")
  /\ own' = runs
  /\ IF job = None
       THEN /\ job' = runs /\ state' = "running"
            /\ pods' = [pods EXCEPT ![runs] = NewPod("pending")]
       ELSE UNCHANGED <<job, state, pods>>
  /\ UNCHANGED <<secret, config, judged, reported, result>>

-----------------------------------------------------------------------------
\* job_state: no answer counts as running.
JobState == IF job = None THEN "running" ELSE state

Finish(how) == pc' = "idle" /\ result' = how /\ UNCHANGED <<scenario, runs>>

AnyEnd(seen) == "ok"
\* run_happy_path ends with wait_for_job's status.
HappyResult(seen) == IF seen = "complete" THEN "ok" ELSE "failed"

\* wait_for_job sees a terminal condition.
Observe ==
  /\ pc = "wait" /\ JobState # "running"
  /\ judged' = job
  /\ IF scenario = "happy"
       THEN Finish(HappyResult(JobState))
       ELSE /\ Goes("wait", IF JobState = "failed" THEN "report" ELSE "drop")
            /\ UNCHANGED result
  /\ UNCHANGED <<cluster, own, reported>>

NoDeadline == FALSE
\* The deadline passes, 300 s or 90 s: at any time, for all that is known.
Overdue == JobState = "running"

Timeout ==
  /\ pc = "wait" /\ Overdue
  /\ IF scenario = "happy"
       THEN Finish("failed")
       ELSE Goes("wait", "drop") /\ UNCHANGED result
  /\ UNCHANGED <<cluster, own, judged, reported>>

\* The first pod of the list, which is any that the cluster still has; one
\* that has not ended has no exit code.
Report ==
  /\ Goes("report", "drop")
  /\ \E j \in Jobs : /\ pods[j].phase \notin {"none", "gone"}
                     /\ reported' = pods[j].code
  /\ UNCHANGED <<cluster, own, judged, result>>

\* The last delete; a variant then exits 0.
DropJob ==
  /\ pc = "drop"
  /\ job' = Deleted
  /\ Finish("ok")
  /\ UNCHANGED <<secret, config, state, pods, own, judged, reported>>

\* Ctrl-C, a missing key file, an error of kubectl or of the upload (set -e).
Interrupt ==
  /\ pc # "idle"
  /\ Finish("interrupted")
  /\ UNCHANGED <<cluster, own, judged, reported>>

-----------------------------------------------------------------------------
(* The cluster.                                                             *)

OptionalSecret == config # None
\* The volume and the variables are not optional.
Mountable == secret # None /\ config # None

\* Volumes and environment are taken when the container starts; without the
\* Secret or the ConfigMap it waits.
StartPod(j) ==
  /\ pods[j].phase = "pending" /\ Mountable
  /\ pods' = [pods EXCEPT ![j] = [NewPod("running") EXCEPT !.secret = secret, !.revision = config]]
  /\ UNCHANGED <<secret, config, job, state, script>>

\* What the consumer does with what it was given.
Outcome(pod) ==
  CASE pod.revision = "tampered"                         -> 4
    [] pod.revision = "main" /\ pod.secret = "random"    -> 5
    [] OTHER                                             -> 0

EndPod(j) == \E code \in Mishaps \union {Outcome(pods[j])} :
  /\ pods[j].phase = "running"
  /\ pods' = [pods EXCEPT ![j].phase = "ended", ![j].code = code]
  /\ UNCHANGED <<secret, config, job, state, script>>

JobController ==
  /\ job # None /\ state = "running" /\ pods[job].phase = "ended"
  /\ state' = IF pods[job].code = 0 THEN "complete" ELSE "failed"
  /\ UNCHANGED <<secret, config, job, pods, script>>

\* ttlSecondsAfterFinished, long after any wait for this Job.
ExpireJob ==
  /\ job # None /\ state # "running" /\ (pc = "idle" \/ job # own)
  /\ job' = None
  /\ UNCHANGED <<secret, config, state, pods, script>>

CollectPod(j) ==
  /\ pods[j].phase \notin {"none", "gone"} /\ job # j
  /\ pods' = [pods EXCEPT ![j] = NewPod("gone")]
  /\ UNCHANGED <<secret, config, job, state, script>>

-----------------------------------------------------------------------------
Init ==
  /\ secret = None /\ config = None
  /\ job = None /\ state = "running"
  /\ pods = [j \in Jobs |-> NewPod("none")]
  /\ scenario = "happy" /\ pc = "idle"
  /\ own = None /\ judged = None /\ reported = None
  /\ result = "none"
  /\ runs = 0

Script == \/ SetSecret \/ ApplyConfig \/ DeleteJob \/ ApplyJob
          \/ Observe \/ Timeout \/ Report \/ DropJob

Cluster == \/ JobController \/ ExpireJob
           \/ \E j \in Jobs : StartPod(j) \/ EndPod(j) \/ CollectPod(j)

Next == Script \/ Interrupt \/ Cluster \/ \E s \in Scenarios : Start(s)

Spec == Init /\ [][Next]_vars

\* kubectl answers or fails, and the wait has a deadline.
FairSpec == Spec /\ WF_vars(Script)

-----------------------------------------------------------------------------
(* A Job always has its pod; a pod that started has what it mounted.        *)
TypeOK ==
  /\ secret \in Secrets \union {None} /\ config \in Revisions \union {None}
  /\ job \in Jobs \union {None} /\ state \in States
  /\ pods \in [Jobs -> Pod]
  /\ scenario \in Scenarios
  /\ pc \in {"idle", "secret", "config", "delete", "apply", "wait", "report", "drop"}
  /\ own \in Jobs \union {None} /\ judged \in Jobs \union {None}
  /\ reported \in Codes \union {None}
  /\ result \in {"none", "running", "ok", "failed", "interrupted"}
  /\ runs \in 0..MaxRuns
  /\ job # None => pods[job].phase \notin {"none", "gone"}
  /\ \A j \in Jobs : pods[j].phase = "running" => /\ pods[j].secret # None
                                                  /\ pods[j].revision # None

(* The Job whose condition ends the wait is the one this run applied, and   *)
(* the condition shows how a pod ended that had this scenario's key and     *)
(* revision, wherever earlier runs were interrupted and whatever they left  *)
(* in the cluster (apply_config, apply_job, wait_for_job).                  *)
JudgesItsOwnJob ==
  judged # None => /\ judged = own
                   /\ pods[judged].phase = "ended" =>
                        /\ pods[judged].secret = SecretOf(scenario)
                        /\ pods[judged].revision = RevisionOf(scenario)

(* The happy path succeeds only where its own consumer did, with the real   *)
(* key and the published revision.                                          *)
SuccessIsReal ==
  scenario = "happy" /\ result = "ok" =>
    /\ judged = own
    /\ pods[own].phase = "ended" => pods[own].code = 0 /\ pods[own].secret = "real"

(* With the Secret deleted no consumer of this run ever starts, however     *)
(* late the cluster looks (negative missing).                               *)
MissingNeverStarts ==
  scenario = "missing" /\ own # None /\ pc # "idle" => pods[own].phase \in {"pending", "gone"}

(* The script ends, also when the pod is stuck or the Job is gone.          *)
ScriptEnds == pc = "wait" ~> pc = "idle"

(* scripts/demo.sh:152: "job failed as expected (consumer exit code ...)":  *)
(* the code it prints is that of the Job that failed.                       *)
ReportedCodeIsTheJobs ==
  pc = "drop" /\ reported # None => reported = pods[judged].code
=============================================================================
