------------------------------ MODULE KeyFiles ------------------------------
(***************************************************************************)
(* `gen-key` and `gen-signing-keypair`: key files are created exclusively, *)
(* then written; a signing key pair is two files, the private one first.   *)
(* Several commands may run at once and each may fail or be killed at any  *)
(* step, so files may be left empty, or a pair with one half.              *)
(***************************************************************************)
EXTENDS Integers

CONSTANTS
  Processes,  \* generators that may run at once
  Paths,      \* file names
  Requests,   \* what they are asked for: [pair, out, public]
  MaxKeys,    \* bound: keys generated
  None

ASSUME RequestAssumption == Requests \subseteq [pair : BOOLEAN, out : Paths, public : Paths]
ASSUME BoundAssumption == MaxKeys \in Nat

VARIABLES
  file,     \* path -> None or what was created there
  pc, req,  \* process -> its step and its request
  key,      \* process -> the key it generated
  exit,     \* process -> how it ended
  keys      \* keys generated

vars == <<file, pc, req, key, exit, keys>>

Halves == {"secret", "private", "public"}
Key == [key : 0..MaxKeys, half : Halves, whole : BOOLEAN]

ASSUME NoneAssumption == None \notin Key

PublicFirst(p, step) ==
  CASE ~req[p].pair             -> <<req[p].out, "secret">>
    [] req[p].pair /\ step = 1  -> <<req[p].public, "public">>
    [] req[p].pair /\ step = 2  -> <<req[p].out, "private">>
\* Where write_new_key and write_new_signing_keypair put which half.
Target(p, step) ==
  CASE ~req[p].pair             -> <<req[p].out, "secret">>
    [] req[p].pair /\ step = 1  -> <<req[p].out, "private">>
    [] req[p].pair /\ step = 2  -> <<req[p].public, "public">>

Content(p, step, whole) == [key |-> key[p], half |-> Target(p, step)[2], whole |-> whole]

Free(path) == TRUE
\* O_EXCL
Absent(path) == file[path] = None

Stop(p, how) == pc' = [pc EXCEPT ![p] = "idle"] /\ exit' = [exit EXCEPT ![p] = how]

-----------------------------------------------------------------------------
Generate(p, r) ==
  /\ pc[p] = "idle" /\ keys < MaxKeys
  /\ keys' = keys + 1
  /\ key' = [key EXCEPT ![p] = keys']
  /\ req' = [req EXCEPT ![p] = r]
  /\ pc' = [pc EXCEPT ![p] = "create1"]
  /\ exit' = [exit EXCEPT ![p] = "running"]
  /\ UNCHANGED file

\* _write_new: os.open, then the write.
Create(p, step) ==
  /\ pc[p] = IF step = 1 THEN "create1" ELSE "create2"
  /\ IF Absent(Target(p, step)[1])
       THEN /\ file' = [file EXCEPT ![Target(p, step)[1]] = Content(p, step, FALSE)]
            /\ pc' = [pc EXCEPT ![p] = IF step = 1 THEN "write1" ELSE "write2"]
            /\ UNCHANGED exit
       ELSE Stop(p, "refused") /\ UNCHANGED file
  /\ UNCHANGED <<req, key, keys>>

Write(p, step) ==
  /\ pc[p] = IF step = 1 THEN "write1" ELSE "write2"
  /\ file' = [file EXCEPT ![Target(p, step)[1]] = Content(p, step, TRUE)]
  /\ IF step = 1 /\ req[p].pair
       THEN pc' = [pc EXCEPT ![p] = "create2"] /\ UNCHANGED exit
       ELSE Stop(p, "ok")
  /\ UNCHANGED <<req, key, keys>>

\* The file cannot be created, the disk is full, the process is killed.
Break(p) ==
  /\ pc[p] # "idle"
  /\ \E how \in {"error", "killed"} : Stop(p, how)
  /\ UNCHANGED <<file, req, key, keys>>

Init ==
  /\ file = [n \in Paths |-> None]
  /\ pc = [p \in Processes |-> "idle"]
  /\ req \in [Processes -> Requests]
  /\ key = [p \in Processes |-> 0]
  /\ exit = [p \in Processes |-> "none"]
  /\ keys = 0

Next == \E p \in Processes :
  \/ Create(p, 1) \/ Create(p, 2) \/ Write(p, 1) \/ Write(p, 2) \/ Break(p)
  \/ \E r \in Requests : Generate(p, r)

Spec == Init /\ [][Next]_vars

-----------------------------------------------------------------------------
(* A process writes into the very file it created, whatever others do.      *)
TypeOK ==
  /\ file \in [Paths -> Key \union {None}]
  /\ pc \in [Processes -> {"idle", "create1", "write1", "create2", "write2"}]
  /\ req \in [Processes -> Requests]
  /\ key \in [Processes -> 0..MaxKeys]
  /\ exit \in [Processes -> {"none", "running", "ok", "refused", "error", "killed"}]
  /\ keys \in 0..MaxKeys
  /\ \A p \in Processes :
       /\ pc[p] \in {"create2", "write2"} => req[p].pair
       /\ pc[p] = "write1" => file[Target(p, 1)[1]] = Content(p, 1, FALSE)
       /\ pc[p] = "write2" => file[Target(p, 2)[1]] = Content(p, 2, FALSE)

(* "refuses to overwrite": a key file, once written, is never changed, by   *)
(* no later command and none that runs at the same time (infra/keys.py).    *)
NeverOverwritten == [][
  \A n \in Paths : file[n] # None /\ file[n].whole => file'[n] = file[n]]_vars

(* A command that reports success has left what it reports: the whole key,  *)
(* or both halves of one pair, though others wrote at the same time.        *)
ReportedKeysAreThere ==
  \A p \in Processes : exit[p] = "ok" =>
    /\ file[req[p].out] = [key |-> key[p], half |-> IF req[p].pair THEN "private" ELSE "secret",
                           whole |-> TRUE]
    /\ req[p].pair => file[req[p].public] = [key |-> key[p], half |-> "public", whole |-> TRUE]

(* No kill or failure between the two files leaves a public key, the trust  *)
(* anchor of consumers, whose private key does not exist.                   *)
PublicHasPrivate ==
  \A n \in Paths : file[n] # None /\ file[n].half = "public" =>
    \E k \in Paths : file[k] = [key |-> file[n].key, half |-> "private", whole |-> TRUE]
=============================================================================
