-------------------------- MODULE Cli_proofs --------------------------
(***************************************************************************)
(* Exclusive creation keeps every key file what its one writer made it,    *)
(* for any number of generators, requests and keys. First for the          *)
(* generators alone (KeyFiles), then, since every step of Cli is one of    *)
(* theirs or leaves the files alone, for commands and dialogs as well.     *)
(* The rest is about the dialogs: what a process has asked for is settled, *)
(* what it has made is its own and fits, what it has published stays.      *)
(***************************************************************************)
EXTENDS Cli, TLAPS

USE RequestAssumption, BoundAssumption, NoneAssumption

(***************************************************************************)
(* A pair's private file is written before its public one is created, and  *)
(* stays: nothing removes or changes a file that is written.               *)
(***************************************************************************)
Written(p, step) == file[Target(p, step)[1]] = Content(p, step, TRUE)

OrderInv ==
  /\ \A p \in Processes : /\ pc[p] \in {"create2", "write2"} => Written(p, 1)
                          /\ pc[p] # "idle" => exit[p] = "running"
  /\ ReportedKeysAreThere
  /\ PublicHasPrivate

\* No two generators hold one key: the file a generator is about to complete
\* can be told from any other's.
KeysInv ==
  \A p, q \in Processes :
    key[p] <= keys /\ (p # q /\ pc[p] # "idle" => key[p] # key[q])

Inv == TypeOK /\ KeysInv /\ OrderInv

-----------------------------------------------------------------------------
LEMMA TargetFacts ==
  ASSUME TypeOK, NEW p \in Processes, NEW step \in {1, 2}, req[p].pair \/ step = 1
  PROVE  /\ Target(p, step) = IF ~req[p].pair THEN <<req[p].out, "secret">>
                              ELSE IF step = 1 THEN <<req[p].out, "private">>
                              ELSE <<req[p].public, "public">>
         /\ Target(p, step)[1] = IF step = 1 THEN req[p].out ELSE req[p].public
         /\ Target(p, step)[2] = IF ~req[p].pair THEN "secret"
                                 ELSE IF step = 1 THEN "private" ELSE "public"
         /\ Target(p, step)[1] \in Paths
         /\ Target(p, step)[2] \in Halves
         /\ \A w \in BOOLEAN : Content(p, step, w) \in Key
<1>1. /\ req[p] \in [pair : BOOLEAN, out : Paths, public : Paths]
      /\ key[p] \in 0..MaxKeys
  BY DEF TypeOK
<1>2. Target(p, step) = IF ~req[p].pair THEN <<req[p].out, "secret">>
                        ELSE IF step = 1 THEN <<req[p].out, "private">>
                        ELSE <<req[p].public, "public">>
  BY <1>1 DEF Target
<1>3. /\ Target(p, step)[1] = IF step = 1 THEN req[p].out ELSE req[p].public
      /\ Target(p, step)[2] = IF ~req[p].pair THEN "secret"
                              ELSE IF step = 1 THEN "private" ELSE "public"
      /\ Target(p, step)[1] \in Paths /\ Target(p, step)[2] \in Halves
  BY <1>1, <1>2 DEF Halves
<1>4. QED
  BY <1>1, <1>2, <1>3 DEF Content, Key

\* What a step does to the files: it fills an absent place, or completes the
\* file that it created.
LEMMA FileStep ==
  ASSUME TypeOK, [Next]_vars
  PROVE  \/ UNCHANGED file
         \/ \E p \in Processes, step \in {1, 2} :
              /\ Create(p, step) /\ (req[p].pair \/ step = 1)
              /\ file[Target(p, step)[1]] = None
              /\ file' = [file EXCEPT ![Target(p, step)[1]] = Content(p, step, FALSE)]
         \/ \E p \in Processes, step \in {1, 2} :
              /\ Write(p, step) /\ (req[p].pair \/ step = 1)
              /\ file[Target(p, step)[1]] = Content(p, step, FALSE)
              /\ file' = [file EXCEPT ![Target(p, step)[1]] = Content(p, step, TRUE)]
<1>1. ASSUME NEW p \in Processes, NEW step \in {1, 2}, Create(p, step)
      PROVE  /\ req[p].pair \/ step = 1
             /\ \/ UNCHANGED file
                \/ /\ file[Target(p, step)[1]] = None
                   /\ file' = [file EXCEPT ![Target(p, step)[1]] = Content(p, step, FALSE)]
  BY <1>1 DEF Create, TypeOK, Absent
<1>2. ASSUME NEW p \in Processes, NEW step \in {1, 2}, Write(p, step)
      PROVE  /\ req[p].pair \/ step = 1
             /\ file[Target(p, step)[1]] = Content(p, step, FALSE)
             /\ file' = [file EXCEPT ![Target(p, step)[1]] = Content(p, step, TRUE)]
  BY <1>2 DEF Write, TypeOK
<1>3. QED
  BY <1>1, <1>2 DEF Next, vars, Generate, Break

\* Only a process's own actions move it.
LEMMA Moves ==
  ASSUME TypeOK, [Next]_vars, NEW p \in Processes
  PROVE  \/ pc'[p] = pc[p] /\ req'[p] = req[p] /\ key'[p] = key[p] /\ exit'[p] = exit[p]
         \/ \E r \in Requests : Generate(p, r)
         \/ \E step \in {1, 2} : Create(p, step) \/ Write(p, step)
         \/ Break(p)
<1>1. CASE UNCHANGED vars
  BY <1>1 DEF vars
<1>2. ASSUME NEW q \in Processes, q # p,
             \/ \E r \in Requests : Generate(q, r)
             \/ \E step \in {1, 2} : Create(q, step) \/ Write(q, step)
             \/ Break(q)
      PROVE  pc'[p] = pc[p] /\ req'[p] = req[p] /\ key'[p] = key[p] /\ exit'[p] = exit[p]
  <2>1. CASE \E r \in Requests : Generate(q, r)
    BY <1>2, <2>1 DEF TypeOK, Generate
  <2>2. ASSUME NEW step \in {1, 2}, Create(q, step)
        PROVE  pc'[p] = pc[p] /\ req'[p] = req[p] /\ key'[p] = key[p] /\ exit'[p] = exit[p]
    BY <1>2, <2>2 DEF TypeOK, Create, Stop
  <2>3. ASSUME NEW step \in {1, 2}, Write(q, step)
        PROVE  pc'[p] = pc[p] /\ req'[p] = req[p] /\ key'[p] = key[p] /\ exit'[p] = exit[p]
    BY <1>2, <2>3 DEF TypeOK, Write, Stop
  <2>4. CASE Break(q)
    BY <1>2, <2>4 DEF TypeOK, Break, Stop
  <2>5. QED
    BY <1>2, <2>1, <2>2, <2>3, <2>4
<1>3. QED
  BY <1>1, <1>2 DEF Next

\* How one process moves in a step: not at all, to a new request, to its end
\* or one step on.
LEMMA Courses ==
  ASSUME TypeOK, [Next]_vars, NEW p \in Processes
  PROVE  \/ pc'[p] = pc[p] /\ req'[p] = req[p] /\ key'[p] = key[p] /\ exit'[p] = exit[p]
         \/ pc[p] = "idle" /\ pc'[p] = "create1" /\ exit'[p] = "running"
         \/ /\ req'[p] = req[p] /\ key'[p] = key[p] /\ pc[p] # "idle"
            /\ \/ pc'[p] = "idle" /\ exit'[p] \in {"refused", "error", "killed"}
               \/ /\ exit'[p] = exit[p]
                  /\ \/ /\ pc[p] = "create1" /\ pc'[p] = "write1"
                        /\ file' = [file EXCEPT ![Target(p, 1)[1]] = Content(p, 1, FALSE)]
                     \/ /\ pc[p] = "create2" /\ pc'[p] = "write2"
                        /\ file' = [file EXCEPT ![Target(p, 2)[1]] = Content(p, 2, FALSE)]
                     \/ /\ pc[p] = "write1" /\ pc'[p] = "create2" /\ req[p].pair
                        /\ file' = [file EXCEPT ![Target(p, 1)[1]] = Content(p, 1, TRUE)]
               \/ /\ exit'[p] = "ok" /\ pc'[p] = "idle"
                  /\ \/ /\ pc[p] = "write1" /\ ~req[p].pair
                        /\ file' = [file EXCEPT ![Target(p, 1)[1]] = Content(p, 1, TRUE)]
                     \/ /\ pc[p] = "write2"
                        /\ file' = [file EXCEPT ![Target(p, 2)[1]] = Content(p, 2, TRUE)]
<1>1. CASE \E r \in Requests : Generate(p, r)
  BY <1>1 DEF TypeOK, Generate
<1>2. CASE Create(p, 1)
  BY <1>2 DEF TypeOK, Create, Stop
<1>3. CASE Create(p, 2)
  BY <1>3 DEF TypeOK, Create, Stop
<1>4. CASE Write(p, 1)
  BY <1>4 DEF TypeOK, Write, Stop
<1>5. CASE Write(p, 2)
  BY <1>5 DEF TypeOK, Write, Stop
<1>6. CASE Break(p)
  BY <1>6 DEF TypeOK, Break, Stop
<1>7. QED
  BY <1>1, <1>2, <1>3, <1>4, <1>5, <1>6, Moves

\* A key file, once it exists, keeps its key and its half, and once it is
\* whole it keeps everything.
LEMMA FilesStay ==
  ASSUME TypeOK, [Next]_vars, NEW n \in Paths, file[n] # None
  PROVE  /\ file[n].whole => file'[n] = file[n]
         /\ file'[n] # None /\ file'[n].key = file[n].key /\ file'[n].half = file[n].half
<1>1. CASE UNCHANGED file
  BY <1>1
<1>2. CASE \E p \in Processes, step \in {1, 2} :
             /\ Create(p, step) /\ (req[p].pair \/ step = 1)
             /\ file[Target(p, step)[1]] = None
             /\ file' = [file EXCEPT ![Target(p, step)[1]] = Content(p, step, FALSE)]
  BY <1>2, TargetFacts DEF TypeOK
<1>3. ASSUME NEW p \in Processes, NEW step \in {1, 2}, req[p].pair \/ step = 1,
             file[Target(p, step)[1]] = Content(p, step, FALSE),
             file' = [file EXCEPT ![Target(p, step)[1]] = Content(p, step, TRUE)]
      PROVE  /\ file[n].whole => file'[n] = file[n]
             /\ file'[n] # None /\ file'[n].key = file[n].key /\ file'[n].half = file[n].half
  <2>1. file \in [Paths -> Key \union {None}] /\ Target(p, step)[1] \in Paths
    BY <1>3, TargetFacts DEF TypeOK
  <2>2. CASE n # Target(p, step)[1]
    BY <1>3, <2>1, <2>2
  <2>3. CASE n = Target(p, step)[1]
    <3>1. file'[n] = Content(p, step, TRUE) /\ file[n] = Content(p, step, FALSE)
      BY <1>3, <2>1, <2>3
    <3>2. Content(p, step, TRUE) \in Key
      BY <1>3, TargetFacts
    <3>3. file'[n] # None
      BY <3>1, <3>2
    <3>4. QED
      BY <3>1, <3>3 DEF Content
  <2>4. QED
    BY <2>2, <2>3
<1>4. QED
  BY <1>1, <1>2, <1>3, FileStep

\* The file a process created and has not completed is still as it left it
\* after a step of any other process.
LEMMA OthersKeepOff ==
  ASSUME TypeOK, KeysInv, [Next]_vars, NEW p \in Processes, NEW mine \in {1, 2},
         pc[p] = IF mine = 1 THEN "write1" ELSE "write2",
         UNCHANGED <<pc[p], req[p], key[p]>>
  PROVE  file'[Target(p, mine)[1]] = Content(p, mine, FALSE)
<1>1. /\ req[p].pair \/ mine = 1
      /\ file[Target(p, mine)[1]] = Content(p, mine, FALSE)
  BY DEF TypeOK
<1>2. /\ Target(p, mine)[1] \in Paths /\ Content(p, mine, FALSE) \in Key
      /\ file \in [Paths -> Key \union {None}]
  BY <1>1, TargetFacts DEF TypeOK
<1>3. CASE UNCHANGED file
  BY <1>1, <1>3
<1>4. ASSUME NEW q \in Processes, NEW step \in {1, 2}, req[q].pair \/ step = 1,
             file[Target(q, step)[1]] = None,
             file' = [file EXCEPT ![Target(q, step)[1]] = Content(q, step, FALSE)]
      PROVE  file'[Target(p, mine)[1]] = Content(p, mine, FALSE)
  BY <1>1, <1>2, <1>4
<1>5. ASSUME NEW q \in Processes, NEW step \in {1, 2}, Write(q, step), req[q].pair \/ step = 1,
             file[Target(q, step)[1]] = Content(q, step, FALSE),
             file' = [file EXCEPT ![Target(q, step)[1]] = Content(q, step, TRUE)]
      PROVE  file'[Target(p, mine)[1]] = Content(p, mine, FALSE)
  <2>1. q # p
    BY <1>5 DEF Write, Stop, TypeOK
  <2>2. key[q] # key[p]
    BY <2>1 DEF KeysInv
  <2>3. Target(q, step)[1] # Target(p, mine)[1]
    BY <1>1, <1>5, <2>2 DEF Content
  <2>4. QED
    BY <1>1, <1>2, <1>5, <2>3
<1>6. QED
  BY <1>3, <1>4, <1>5, FileStep
-----------------------------------------------------------------------------
LEMMA InitInv == Init => Inv
  BY DEF Init, Inv, TypeOK, KeysInv, OrderInv, ReportedKeysAreThere, PublicHasPrivate

LEMMA TypePreserved == TypeOK /\ KeysInv /\ [Next]_vars => TypeOK'
<1> SUFFICES ASSUME TypeOK, KeysInv, [Next]_vars PROVE TypeOK'
  OBVIOUS
<1>1. file' \in [Paths -> Key \union {None}]
  <2>1. ASSUME NEW p \in Processes, NEW step \in {1, 2}, NEW w \in BOOLEAN,
               req[p].pair \/ step = 1,
               file' = [file EXCEPT ![Target(p, step)[1]] = Content(p, step, w)]
        PROVE  file' \in [Paths -> Key \union {None}]
    BY <2>1, TargetFacts DEF TypeOK
  <2>2. CASE UNCHANGED file
    BY <2>2 DEF TypeOK
  <2>3. QED
    BY <2>1, <2>2, FileStep
<1>2. /\ pc' \in [Processes -> {"idle", "create1", "write1", "create2", "write2"}]
      /\ req' \in [Processes -> Requests] /\ key' \in [Processes -> 0..MaxKeys]
      /\ exit' \in [Processes -> {"none", "running", "ok", "refused", "error", "killed"}]
      /\ keys' \in 0..MaxKeys
  <2>1. CASE UNCHANGED vars
    BY <2>1 DEF TypeOK, vars
  <2>2. ASSUME NEW p \in Processes, NEW r \in Requests, Generate(p, r) PROVE <1>2!:
    BY <2>2 DEF TypeOK, Generate
  <2>3. ASSUME NEW p \in Processes, NEW step \in {1, 2}, Create(p, step) PROVE <1>2!:
    BY <2>3 DEF TypeOK, Create, Stop
  <2>4. ASSUME NEW p \in Processes, NEW step \in {1, 2}, Write(p, step) PROVE <1>2!:
    BY <2>4 DEF TypeOK, Write, Stop
  <2>5. ASSUME NEW p \in Processes, Break(p) PROVE <1>2!:
    BY <2>5 DEF TypeOK, Break, Stop
  <2>6. QED
    BY <2>1, <2>2, <2>3, <2>4, <2>5 DEF Next
<1>3. ASSUME NEW p \in Processes, pc'[p] \in {"create2", "write2"} PROVE req'[p].pair
  BY <1>3, Courses DEF TypeOK
<1>4. ASSUME NEW p \in Processes, NEW mine \in {1, 2},
             pc'[p] = IF mine = 1 THEN "write1" ELSE "write2"
      PROVE  /\ req'[p] = req[p] /\ key'[p] = key[p]
             /\ file'[Target(p, mine)[1]] = Content(p, mine, FALSE)
  <2>1. /\ req'[p] = req[p] /\ key'[p] = key[p]
        /\ \/ /\ pc[p] = IF mine = 1 THEN "create1" ELSE "create2"
              /\ file' = [file EXCEPT ![Target(p, mine)[1]] = Content(p, mine, FALSE)]
           \/ pc[p] = pc'[p]
    BY <1>4, Courses
  <2>2. ASSUME pc[p] = IF mine = 1 THEN "create1" ELSE "create2",
               file' = [file EXCEPT ![Target(p, mine)[1]] = Content(p, mine, FALSE)]
        PROVE  file'[Target(p, mine)[1]] = Content(p, mine, FALSE)
    <3>1. req[p].pair \/ mine = 1
      BY <2>2 DEF TypeOK
    <3>2. Target(p, mine)[1] \in Paths
      BY <3>1, TargetFacts
    <3>3. QED
      BY <2>2, <3>2 DEF TypeOK
  <2>3. pc[p] = pc'[p] => file'[Target(p, mine)[1]] = Content(p, mine, FALSE)
    BY <1>4, <2>1, OthersKeepOff
  <2>4. QED
    BY <2>1, <2>2, <2>3
<1>5. ASSUME NEW p \in Processes
      PROVE  /\ pc'[p] = "write1" => file'[Target(p, 1)'[1]] = Content(p, 1, FALSE)'
             /\ pc'[p] = "write2" => file'[Target(p, 2)'[1]] = Content(p, 2, FALSE)'
  <2>1. ASSUME pc'[p] = "write1" PROVE file'[Target(p, 1)'[1]] = Content(p, 1, FALSE)'
    <3>1. /\ req'[p] = req[p] /\ key'[p] = key[p]
          /\ file'[Target(p, 1)[1]] = Content(p, 1, FALSE)
      BY <1>4, <2>1
    <3>2. QED
      BY <3>1 DEF Target, Content
  <2>2. ASSUME pc'[p] = "write2" PROVE file'[Target(p, 2)'[1]] = Content(p, 2, FALSE)'
    <3>1. /\ req'[p] = req[p] /\ key'[p] = key[p]
          /\ file'[Target(p, 2)[1]] = Content(p, 2, FALSE)
      BY <1>4, <2>2, 2 # 1
    <3>2. QED
      BY <3>1 DEF Target, Content
  <2>3. QED
    BY <2>1, <2>2
<1>6. QED
  BY <1>1, <1>2, <1>3, <1>5 DEF TypeOK

LEMMA KeysPreserved == TypeOK /\ KeysInv /\ [Next]_vars => KeysInv'
<1> SUFFICES ASSUME TypeOK, KeysInv, [Next]_vars PROVE KeysInv'
  OBVIOUS
<1>1. CASE \E q \in Processes, r \in Requests : Generate(q, r)
  BY <1>1 DEF TypeOK, KeysInv, Generate
<1>2. CASE UNCHANGED <<key, keys>> /\ \A p \in Processes : pc'[p] # "idle" => pc[p] # "idle"
  BY <1>2 DEF KeysInv
<1>3. \/ \E q \in Processes, r \in Requests : Generate(q, r)
      \/ UNCHANGED <<key, keys>>
  BY DEF Next, vars, Create, Write, Break
<1>4. ASSUME NEW p \in Processes, pc'[p] # "idle", pc[p] = "idle"
      PROVE  \E r \in Requests : Generate(p, r)
  BY <1>4, Moves DEF Create, Write, Break
<1>5. QED
  BY <1>1, <1>2, <1>3, <1>4

\* A whole file is still there after any step.
LEMMA WrittenStays ==
  ASSUME TypeOK, [Next]_vars, NEW p \in Processes, NEW step \in {1, 2},
         req[p].pair \/ step = 1, Written(p, step)
  PROVE  file'[Target(p, step)[1]] = Content(p, step, TRUE)
<1>1. Target(p, step)[1] \in Paths /\ Content(p, step, TRUE) \in Key
  BY TargetFacts
<1>2. file[Target(p, step)[1]] # None
  BY <1>1 DEF Written
<1>3. file[Target(p, step)[1]].whole
  BY DEF Written, Content
<1>4. QED
  BY <1>1, <1>2, <1>3, FilesStay DEF Written

LEMMA OrderPreserved == TypeOK /\ OrderInv /\ [Next]_vars => OrderInv'
<1> SUFFICES ASSUME TypeOK, OrderInv, [Next]_vars PROVE OrderInv'
  OBVIOUS
<1>1. ASSUME NEW p \in Processes, pc'[p] \in {"create2", "write2"} PROVE Written(p, 1)'
  <2>1. /\ req'[p] = req[p] /\ key'[p] = key[p]
        /\ \/ file' = [file EXCEPT ![Target(p, 1)[1]] = Content(p, 1, TRUE)]
           \/ pc[p] \in {"create2", "write2"}
    BY <1>1, Courses
  <2>2. Target(p, 1)' = Target(p, 1) /\ Content(p, 1, TRUE)' = Content(p, 1, TRUE)
    BY <2>1 DEF Target, Content
  <2>3. Target(p, 1)[1] \in Paths
    BY TargetFacts
  <2>4. file' = [file EXCEPT ![Target(p, 1)[1]] = Content(p, 1, TRUE)]
          => file'[Target(p, 1)[1]] = Content(p, 1, TRUE)
    BY <2>3 DEF TypeOK
  <2>5. pc[p] \in {"create2", "write2"} => file'[Target(p, 1)[1]] = Content(p, 1, TRUE)
    BY WrittenStays DEF OrderInv
  <2>6. QED
    BY <2>1, <2>2, <2>4, <2>5 DEF Written
<1>2. ASSUME NEW p \in Processes PROVE pc'[p] # "idle" => exit'[p] = "running"
  BY Courses DEF OrderInv
<1>3. ASSUME NEW p \in Processes, exit'[p] = "ok"
      PROVE  /\ file'[req'[p].out] = [key |-> key'[p],
                                      half |-> IF req'[p].pair THEN "private" ELSE "secret",
                                      whole |-> TRUE]
             /\ req'[p].pair => file'[req'[p].public] = [key |-> key'[p], half |-> "public", whole |-> TRUE]
  <2>1. /\ req'[p] = req[p] /\ key'[p] = key[p]
        /\ \/ exit[p] = "ok"
           \/ /\ pc[p] = "write1" /\ ~req[p].pair
              /\ file' = [file EXCEPT ![Target(p, 1)[1]] = Content(p, 1, TRUE)]
           \/ /\ pc[p] = "write2"
              /\ file' = [file EXCEPT ![Target(p, 2)[1]] = Content(p, 2, TRUE)]
    BY <1>3, Courses
  <2>2. req[p].out \in Paths /\ req[p].public \in Paths /\ key[p] \in 0..MaxKeys
    BY DEF TypeOK
  <2>3. CASE exit[p] = "ok"
    <3>1. /\ file[req[p].out] = [key |-> key[p], half |-> IF req[p].pair THEN "private" ELSE "secret",
                                 whole |-> TRUE]
          /\ req[p].pair => file[req[p].public] = [key |-> key[p], half |-> "public", whole |-> TRUE]
      BY <2>3 DEF OrderInv, ReportedKeysAreThere
    <3>2. \A h \in Halves : [key |-> key[p], half |-> h, whole |-> TRUE] \in Key
      BY <2>2 DEF Key
    <3>3. file[req[p].out] # None /\ file[req[p].out].whole
      <4>1. (IF req[p].pair THEN "private" ELSE "secret") \in Halves
        BY DEF Halves
      <4>2. QED
        BY <3>1, <3>2, <4>1
    <3>4. req[p].pair => file[req[p].public] # None /\ file[req[p].public].whole
      BY <3>1, <3>2 DEF Halves
    <3>5. QED
      BY <2>1, <2>2, <3>1, <3>3, <3>4, FilesStay
  <2>4. CASE /\ pc[p] = "write1" /\ ~req[p].pair
             /\ file' = [file EXCEPT ![Target(p, 1)[1]] = Content(p, 1, TRUE)]
    <3>1. Target(p, 1)[1] = req[p].out /\ Target(p, 1)[2] = "secret"
      BY <2>4, TargetFacts
    <3>2. file'[req[p].out] = Content(p, 1, TRUE)
      BY <2>2, <2>4, <3>1 DEF TypeOK
    <3>3. QED
      BY <2>1, <2>4, <3>1, <3>2 DEF Content
  <2>5. CASE /\ pc[p] = "write2"
             /\ file' = [file EXCEPT ![Target(p, 2)[1]] = Content(p, 2, TRUE)]
    <3>1. req[p].pair /\ Written(p, 1)
      BY <2>5 DEF OrderInv, TypeOK
    <3>2. /\ Target(p, 1)[1] = req[p].out /\ Target(p, 1)[2] = "private"
          /\ Target(p, 2)[1] = req[p].public /\ Target(p, 2)[2] = "public"
      BY <3>1, TargetFacts
    <3>3. file'[req[p].public] = Content(p, 2, TRUE)
      BY <2>2, <2>5, <3>2 DEF TypeOK
    <3>4. file'[req[p].out] = Content(p, 1, TRUE)
      BY <3>1, <3>2, WrittenStays
    <3>5. QED
      BY <2>1, <3>1, <3>2, <3>3, <3>4 DEF Content
  <2>6. QED
    BY <2>1, <2>3, <2>4, <2>5
<1>4. ASSUME NEW n \in Paths, file'[n] # None, file'[n].half = "public"
      PROVE  \E k \in Paths : file'[k] = [key |-> file'[n].key, half |-> "private", whole |-> TRUE]
  <2>1. CASE file[n] # None
    <3>1. file'[n].key = file[n].key /\ file[n].half = "public"
      BY <1>4, <2>1, FilesStay
    <3>2. PICK k \in Paths : file[k] = [key |-> file[n].key, half |-> "private", whole |-> TRUE]
      BY <2>1, <3>1 DEF OrderInv, PublicHasPrivate
    <3>3. file[n].key \in 0..MaxKeys
      BY <2>1 DEF TypeOK, Key
    <3>4. file[k] # None /\ file[k].whole
      <4>1. [key |-> file[n].key, half |-> "private", whole |-> TRUE] \in Key
        BY <3>3 DEF Key, Halves
      <4>2. file[k] # None
        BY <3>2, <4>1
      <4>3. QED
        BY <3>2, <4>2
    <3>5. file'[k] = [key |-> file'[n].key, half |-> "private", whole |-> TRUE]
      BY <3>1, <3>2, <3>4, FilesStay
    <3>6. QED
      BY <3>5
  <2>2. CASE file[n] = None
    <3>1. PICK p \in Processes, step \in {1, 2} :
            /\ Create(p, step) /\ (req[p].pair \/ step = 1)
            /\ file[Target(p, step)[1]] = None
            /\ file' = [file EXCEPT ![Target(p, step)[1]] = Content(p, step, FALSE)]
      <4>1. ASSUME NEW q \in Processes, NEW step \in {1, 2}, req[q].pair \/ step = 1,
                   file[Target(q, step)[1]] = Content(q, step, FALSE),
                   file' = [file EXCEPT ![Target(q, step)[1]] = Content(q, step, TRUE)]
            PROVE  file'[n] = None
        <5>1. Content(q, step, FALSE) # None /\ Target(q, step)[1] \in Paths
          BY <4>1, TargetFacts
        <5>2. n # Target(q, step)[1]
          BY <2>2, <4>1, <5>1
        <5>3. QED
          BY <2>2, <4>1, <5>1, <5>2 DEF TypeOK
      <4>2. QED
        BY <1>4, <2>2, <4>1, FileStep
    <3>2. n = Target(p, step)[1] /\ file'[n] = Content(p, step, FALSE)
      BY <1>4, <2>2, <3>1, TargetFacts DEF TypeOK
    <3>3. Target(p, step)[2] = "public"
      BY <1>4, <3>2 DEF Content
    <3>4. step = 2 /\ req[p].pair
      BY <3>1, <3>3, TargetFacts
    <3>5. Written(p, 1)
      BY <3>1, <3>4 DEF Create, OrderInv
    <3>6. /\ Target(p, 1)[1] = req[p].out /\ Target(p, 1)[2] = "private"
          /\ req[p].out \in Paths
      BY <3>4, TargetFacts
    <3>7. file'[req[p].out] = Content(p, 1, TRUE)
      BY <3>4, <3>5, <3>6, WrittenStays
    <3>8. file'[n].key = key[p]
      BY <3>2 DEF Content
    <3>9. file'[req[p].out] = [key |-> key[p], half |-> "private", whole |-> TRUE]
      BY <3>6, <3>7 DEF Content
    <3>10. QED
      BY <3>6, <3>8, <3>9
  <2>3. QED
    BY <2>1, <2>2
<1>5. ReportedKeysAreThere' /\ PublicHasPrivate'
  BY <1>3, <1>4 DEF ReportedKeysAreThere, PublicHasPrivate
<1>6. QED
  BY <1>1, <1>2, <1>5 DEF OrderInv

LEMMA InvInductive == Spec => []Inv
<1>1. Inv /\ [Next]_vars => Inv'
  BY TypePreserved, KeysPreserved, OrderPreserved DEF Inv
<1>2. QED
  BY InitInv, <1>1, PTL DEF Spec

\* A key file that is written stays as it is: no command overwrites it.
THEOREM KeysStay == Spec => NeverOverwritten
<1>1. Inv /\ [Next]_vars =>
        [\A n \in Paths : file[n] # None /\ file[n].whole => file'[n] = file[n]]_vars
  BY FilesStay DEF Inv
<1>2. QED
  BY InvInductive, <1>1, PTL DEF Spec, NeverOverwritten

\* Where a generator reports success, its key or its pair is on disk, whole.
THEOREM ReportsAreTrue == Spec => []ReportedKeysAreThere
<1>1. Inv => ReportedKeysAreThere
  BY DEF Inv, OrderInv
<1>2. QED
  BY InvInductive, <1>1, PTL

\* No public key is on disk without its private key, whatever was killed.
THEOREM NoOrphanPublicKey == Spec => []PublicHasPrivate
<1>1. Inv => PublicHasPrivate
  BY DEF Inv, OrderInv
<1>2. QED
  BY InvInductive, <1>1, PTL
-----------------------------------------------------------------------------
(***************************************************************************)
(* Commands and dialogs.                                                   *)
(***************************************************************************)
Provided(g) == {g[f] : f \in DOMAIN g}
AllProvided == UNION {Provided(g) : g \in Environments \union CommandLines}
Values == {Defaults[f] : f \in Fields} \union (UNION {Typed[f] : f \in Fields}) \union AllProvided
Settings == {s \in [Fields -> Values] : \A f \in Fields : Given(f, s[f])}
RunState == [before : Settings, answers : Settings, changed : SUBSET Fields,
             own : SUBSET {"key", "signing"}, secret : 0..MaxKeys]
Stages == {"none", "settle", "run_encrypt", "run_sign"} \union Fields

RunType == run \in [Processes -> RunState] /\ stage \in [Processes -> Stages]

LEMMA PlaceFacts ==
  /\ Place \in [Fields -> 1..8]
  /\ \A f, g \in Fields : Place[f] = Place[g] => f = g
  /\ Place["cipher"] = 1 /\ Place["mode"] = 2 /\ Place["key"] = 4 /\ Place["sign"] = 5 /\ Place["chunk"] = 6
  /\ Place["signer"] = 7 /\ Place["signing"] = 8
  /\ \A f \in Fields : f \notin {"signing", "signer"} => Place[f] < 7
BY DEF Place, Fields

LEMMA FirstOfThem ==
  ASSUME NEW S \in SUBSET Fields, S # {}
  PROVE  \E g \in S : \A h \in S : Place[g] <= Place[h]
<1> SUFFICES ASSUME \A g \in S : \E h \in S : Place[h] < Place[g] PROVE FALSE
  BY PlaceFacts
<1>1. \A g \in S : Place[g] \in 1..8
  BY PlaceFacts
<1>2. \A g \in S : Place[g] > 1
  BY <1>1
<1>3. \A g \in S : Place[g] > 2
  BY <1>1, <1>2
<1>4. \A g \in S : Place[g] > 3
  BY <1>1, <1>3
<1>5. \A g \in S : Place[g] > 4
  BY <1>1, <1>4
<1>6. \A g \in S : Place[g] > 5
  BY <1>1, <1>5
<1>7. \A g \in S : Place[g] > 6
  BY <1>1, <1>6
<1>8. \A g \in S : Place[g] > 7
  BY <1>1, <1>7
<1>9. QED
  BY <1>1, <1>8

\* What the dialog asks for next, and that nothing wanted is skipped.
LEMMA PromptFacts ==
  ASSUME NEW f \in Fields, NEW s
  PROVE  \/ /\ NextPrompt(f, s) = "settle"
            /\ \A g \in Fields : Wanted(g, s) => Place[g] <= Place[f]
         \/ /\ NextPrompt(f, s) \in Fields /\ Place[f] < Place[NextPrompt(f, s)]
            /\ \A g \in Fields : Wanted(g, s) /\ Place[g] < Place[NextPrompt(f, s)] => Place[g] <= Place[f]
<1> DEFINE later == {g \in Fields : Place[g] > Place[f] /\ Wanted(g, s)}
<1>1. CASE later = {}
  <2>1. NextPrompt(f, s) = "settle"
    BY <1>1 DEF NextPrompt
  <2>2. QED
    BY <1>1, <2>1, PlaceFacts
<1>2. CASE later # {}
  <2>1. NextPrompt(f, s) = CHOOSE g \in later : \A h \in later : Place[g] <= Place[h]
    BY <1>2 DEF NextPrompt
  <2>2. \E g \in later : \A h \in later : Place[g] <= Place[h]
    BY <1>2, FirstOfThem
  <2>3. /\ NextPrompt(f, s) \in later
        /\ \A h \in later : Place[NextPrompt(f, s)] <= Place[h]
    BY <2>1, <2>2
  <2>4. QED
    BY <2>3, PlaceFacts
<1>3. QED
  BY <1>1, <1>2

LEMMA SettingsFacts ==
  /\ Defaults \in Settings
  /\ \A base \in Settings, g \in Environments \union CommandLines : Over(base, g) \in Settings
<1>1. Defaults \in Settings
  <2>1. Defaults = [f \in Fields |-> Defaults[f]]
    BY DEF Defaults, Fields
  <2>2. Defaults["key"] = DefaultKey /\ Defaults["signing"] = DefaultSigning
    BY DEF Defaults
  <2>3. \A f \in Fields : Given(f, Defaults[f])
    BY <2>2, CliAssumption DEF Given
  <2>4. QED
    BY <2>1, <2>3 DEF Settings, Values
<1>2. ASSUME NEW base \in Settings, NEW g \in Environments \union CommandLines
      PROVE  Over(base, g) \in Settings
  <2>1. \A f \in DOMAIN g : f \in Fields /\ g[f] \in Values /\ Given(f, g[f])
    <3>1. \A f \in DOMAIN g : f \in Fields /\ Given(f, g[f])
      BY CliAssumption
    <3>2. ASSUME NEW f \in DOMAIN g PROVE g[f] \in Values
      <4>1. g[f] \in Provided(g)
        BY DEF Provided
      <4>2. Provided(g) \in {Provided(h) : h \in Environments \union CommandLines}
        OBVIOUS
      <4>3. g[f] \in AllProvided
        BY <4>1, <4>2 DEF AllProvided
      <4>4. QED
        BY <4>3 DEF Values
    <3>3. QED
      BY <3>1, <3>2
  <2>2. \A f \in Fields : base[f] \in Values /\ Given(f, base[f])
    BY DEF Settings
  <2>3. \A f \in Fields : Over(base, g)[f] \in Values /\ Given(f, Over(base, g)[f])
    BY <2>1, <2>2 DEF Over
  <2>4. Over(base, g) = [f \in Fields |-> Over(base, g)[f]]
    BY DEF Over
  <2>5. QED
    BY <2>3, <2>4 DEF Settings
<1>3. QED
  BY <1>1, <1>2

LEMMA BlankFacts == Blank \in RunState
  BY SettingsFacts DEF Blank, RunState

\* What may be answered to a question.
Possible(p, f, v) == v \in Typed[f] \union {run[p].before[f]}

LEMMA ReplyFacts ==
  ASSUME RunType, NEW p \in Processes, NEW f \in Fields, NEW v, Possible(p, f, v)
  PROVE  /\ Replied(p, f, v) \in RunState /\ Given(f, v)
         /\ Replied(p, f, v).before = run[p].before /\ Replied(p, f, v).own = run[p].own
         /\ Replied(p, f, v).answers = [run[p].answers EXCEPT ![f] = v]
         /\ Replied(p, f, v).changed = IF v = run[p].before[f] THEN run[p].changed
                                       ELSE run[p].changed \union {f}
<1>1. run[p] \in RunState /\ run[p].before \in Settings /\ run[p].answers \in Settings
  BY DEF RunType, RunState
<1>2. v \in Values /\ Given(f, v)
  <2>1. CASE v \in Typed[f]
    BY <2>1, CliAssumption DEF Values
  <2>2. CASE v = run[p].before[f]
    BY <1>1, <2>2 DEF Settings
  <2>3. QED
    BY <2>1, <2>2 DEF Possible
<1>3. [run[p].answers EXCEPT ![f] = v] \in Settings
  BY <1>1, <1>2 DEF Settings
<1>4. QED
  BY <1>1, <1>2, <1>3 DEF Replied, RunState

-----------------------------------------------------------------------------
(***************************************************************************)
(* Every step of a command or a dialog is one of the generators or leaves  *)
(* the key files alone.                                                    *)
(***************************************************************************)
LEMMA CliSteps ==
  ASSUME RunType, [CliNext]_cliVars
  PROVE  [Next]_vars
<1>1. ASSUME NEW p \in Processes, NEW e \in Environments, NEW g \in CommandLines,
             NEW i \in BOOLEAN, Launch(p, e, g, i)
      PROVE  UNCHANGED vars
  BY <1>1 DEF Launch, keyVars
<1>2. ASSUME NEW p \in Processes, NEW f \in Fields, NEW v, Possible(p, f, v), Answer(p, f, v)
      PROVE  UNCHANGED vars
  BY <1>2 DEF Answer, keyVars
<1>3. ASSUME NEW p \in Processes, NEW f \in Fields, NEW v, Possible(p, f, v), Accept(p, f, v)
      PROVE  [Next]_vars
  <2>1. CASE UNCHANGED keyVars
    BY <2>1 DEF keyVars
  <2>2. CASE Generate(p, [pair |-> f = "signing", out |-> v, public |-> PublicOf[v]])
    <3>1. v \in Paths
      BY <1>3, ReplyFacts DEF Accept, Given
    <3>2. [pair |-> f = "signing", out |-> v, public |-> PublicOf[v]] \in Requests
      BY <3>1, CliAssumption
    <3>3. QED
      BY <2>2, <3>2 DEF Next
  <2>3. QED
    BY <1>3, <2>1, <2>2 DEF Accept, Make
<1>4. ASSUME NEW p \in Processes, NEW r \in Requests, NEW a, GenerateCommand(p, r, a)
      PROVE  [Next]_vars
  BY <1>4 DEF GenerateCommand, Make, Next
<1>5. ASSUME NEW p \in Processes, KeyStep(p) PROVE [Next]_vars
  BY <1>5 DEF KeyStep, Next
<1>6. ASSUME NEW p \in Processes, Settle(p) \/ Encrypt(p) \/ Sign(p) \/ Interrupt(p)
      PROVE  UNCHANGED vars
  BY <1>6 DEF Settle, Encrypt, Sign, Interrupt, keyVars
<1>7. CASE UNCHANGED cliVars
  BY <1>7 DEF cliVars, keyVars
<1>8. QED
  BY <1>1, <1>2, <1>3, <1>4, <1>5, <1>6, <1>7 DEF CliNext, Possible

\* The three ways a run can begin, go on or end, apart from the generator's.
Begins(p) == \E e \in Environments, g \in CommandLines :
  LET given == Over(Over(Defaults, e), g)
  IN /\ stage[p] = "none" /\ Valid(given)
     /\ \/ /\ stage'[p] = "cipher"
           /\ run'[p] = [Blank EXCEPT !.before = given, !.answers = Over(Defaults, e)]
        \/ /\ stage'[p] = "run_encrypt"
           /\ run'[p] = [Blank EXCEPT !.before = given, !.answers = given]

Replies(p) == \E f \in Fields : \E v : LET r == Replied(p, f, v) IN
  /\ stage[p] = f /\ Possible(p, f, v)
  /\ stage'[p] = NextPrompt(f, r.answers)
  /\ \/ run'[p] = r /\ UNCHANGED keyVars
     \/ /\ run'[p] = [r EXCEPT !.own = @ \union {f}]
        /\ f \in {"key", "signing"} /\ Named(f = "signing", Chosen(p, f)) # {}
        /\ Make(p, [pair |-> f = "signing", out |-> v, public |-> PublicOf[v]], Chosen(p, f))

Runs(p) ==
  /\ UNCHANGED keyVars
  /\ \/ /\ stage[p] = "settle" /\ stage'[p] = "run_encrypt" /\ run'[p] = run[p]
        /\ Valid(run[p].answers)
     \/ /\ stage[p] = "run_encrypt" /\ stage'[p] = "run_sign"
        /\ \E c \in CipherNamed(run[p].answers.cipher, Installed) : Readable(run[p].answers.key, c)
        /\ run'[p] = [run[p] EXCEPT !.secret = file[run[p].answers.key].key]

LEMMA RunCourses ==
  ASSUME RunType, [CliNext]_cliVars, NEW p \in Processes
  PROVE  \/ stage'[p] = stage[p] /\ run'[p] = run[p]
         \/ stage'[p] = "none" /\ run'[p] = Blank
         \/ Begins(p) /\ UNCHANGED keyVars
         \/ pc[p] = "idle" /\ (Replies(p) \/ Runs(p))
<1> USE DEF RunType
<1>1. ASSUME NEW q \in Processes, NEW e \in Environments, NEW g \in CommandLines,
             NEW i \in BOOLEAN, Launch(q, e, g, i)
      PROVE  \/ stage'[p] = stage[p] /\ run'[p] = run[p]
             \/ stage'[p] = "none" /\ run'[p] = Blank
             \/ Begins(p) /\ UNCHANGED keyVars
  <2> DEFINE given == Over(Over(Defaults, e), g)
             start == [Blank EXCEPT !.before = given,
                         !.answers = IF i THEN Over(Defaults, e) ELSE given]
  <2>1. CASE Ends(q)
    BY <2>1 DEF Ends, Goto
  <2>2. CASE q # p
    BY <1>1, <2>2 DEF Launch, Ends, Goto
  <2>3. CASE q = p /\ ~Ends(q)
    <3>1. /\ stage[p] = "none" /\ Valid(given)
          /\ Goto(p, IF i THEN "cipher" ELSE "run_encrypt", start)
          /\ UNCHANGED keyVars
      BY <1>1, <2>3 DEF Launch
    <3>2. run'[p] = start /\ stage'[p] = IF i THEN "cipher" ELSE "run_encrypt"
      BY <3>1 DEF Goto
    <3>3. QED
      BY <3>1, <3>2 DEF Begins
  <2>4. QED
    BY <2>1, <2>2, <2>3
<1>2. ASSUME NEW q \in Processes, NEW f \in Fields, NEW v, Possible(q, f, v), Answer(q, f, v)
      PROVE  \/ stage'[p] = stage[p] /\ run'[p] = run[p]
             \/ pc[p] = "idle" /\ Replies(p)
  <2>1. CASE q # p
    BY <1>2, <2>1 DEF Answer, Proceed, Goto
  <2>2. CASE q = p
    <3>1. /\ stage[p] = f /\ pc[p] = "idle" /\ Proceed(p, f, Replied(p, f, v))
          /\ UNCHANGED keyVars
      BY <1>2, <2>2 DEF Answer, Asked
    <3>2. run'[p] = Replied(p, f, v) /\ stage'[p] = NextPrompt(f, Replied(p, f, v).answers)
      BY <3>1 DEF Proceed, Goto
    <3>3. QED
      BY <1>2, <2>2, <3>1, <3>2 DEF Replies
  <2>3. QED
    BY <2>1, <2>2
<1>3. ASSUME NEW q \in Processes, NEW f \in Fields, NEW v, Possible(q, f, v), Accept(q, f, v)
      PROVE  \/ stage'[p] = stage[p] /\ run'[p] = run[p]
             \/ stage'[p] = "none" /\ run'[p] = Blank
             \/ pc[p] = "idle" /\ Replies(p)
  <2>1. CASE Ends(q)
    BY <2>1 DEF Ends, Goto
  <2>2. CASE q # p
    BY <1>3, <2>2 DEF Accept, Ends, Goto, Proceed
  <2>3. CASE q = p /\ ~Ends(q)
    <3>1. /\ f \in {"key", "signing"} /\ stage[p] = f /\ pc[p] = "idle"
          /\ Named(f = "signing", Chosen(p, f)) # {}
          /\ Make(p, [pair |-> f = "signing", out |-> v, public |-> PublicOf[v]], Chosen(p, f))
          /\ Proceed(p, f, [Replied(p, f, v) EXCEPT !.own = @ \union {f}])
      BY <1>3, <2>3 DEF Accept, Asked
    <3>2. [Replied(p, f, v) EXCEPT !.own = @ \union {f}].answers = Replied(p, f, v).answers
      BY <1>3, <2>3, ReplyFacts DEF RunState
    <3>3. QED
      BY <1>3, <2>3, <3>1, <3>2 DEF Proceed, Goto, Replies
  <2>4. QED
    BY <2>1, <2>2, <2>3
<1>4. ASSUME NEW q \in Processes, NEW r \in Requests, NEW a, GenerateCommand(q, r, a)
      PROVE  stage'[p] = stage[p] /\ run'[p] = run[p]
  BY <1>4 DEF GenerateCommand
<1>5. ASSUME NEW q \in Processes, KeyStep(q)
      PROVE  \/ stage'[p] = stage[p] /\ run'[p] = run[p]
             \/ stage'[p] = "none" /\ run'[p] = Blank
  <2>1. CASE Ends(q)
    BY <2>1 DEF Ends, Goto
  <2>2. CASE UNCHANGED <<stage, run>>
    BY <2>2
  <2>3. QED
    BY <1>5, <2>1, <2>2 DEF KeyStep
<1>6. ASSUME NEW q \in Processes, Settle(q) \/ Encrypt(q) \/ Sign(q) \/ Interrupt(q)
      PROVE  \/ stage'[p] = stage[p] /\ run'[p] = run[p]
             \/ stage'[p] = "none" /\ run'[p] = Blank
             \/ pc[p] = "idle" /\ Runs(p)
  BY <1>6 DEF Settle, Encrypt, Sign, Interrupt, Ends, Goto, Runs
<1>7. CASE UNCHANGED cliVars
  BY <1>7 DEF cliVars
<1>8. QED
  BY <1>1, <1>2, <1>3, <1>4, <1>5, <1>6, <1>7 DEF CliNext, Possible

LEMMA RunTypePreserved == RunType /\ TypeOK /\ [CliNext]_cliVars => RunType'
<1> SUFFICES ASSUME RunType, TypeOK, [CliNext]_cliVars PROVE RunType'
  OBVIOUS
<1>1. \/ UNCHANGED <<stage, run>>
      \/ \E q \in Processes : \E s, r : Goto(q, s, r)
  <2>1. ASSUME NEW q \in Processes, NEW e, NEW g, NEW i, Launch(q, e, g, i)
        PROVE  \E s, r : Goto(q, s, r)
    BY <2>1 DEF Launch, Ends
  <2>2. ASSUME NEW q \in Processes, NEW f, NEW v, Answer(q, f, v) \/ Accept(q, f, v)
        PROVE  \E s, r : Goto(q, s, r)
    BY <2>2 DEF Answer, Accept, Proceed, Ends
  <2>3. ASSUME NEW q \in Processes, NEW r, NEW a, GenerateCommand(q, r, a)
        PROVE  UNCHANGED <<stage, run>>
    BY <2>3 DEF GenerateCommand
  <2>4. ASSUME NEW q \in Processes,
               KeyStep(q) \/ Settle(q) \/ Encrypt(q) \/ Sign(q) \/ Interrupt(q)
        PROVE  UNCHANGED <<stage, run>> \/ \E s, r : Goto(q, s, r)
    BY <2>4 DEF KeyStep, Settle, Encrypt, Sign, Interrupt, Ends
  <2>5. CASE UNCHANGED cliVars
    BY <2>5 DEF cliVars
  <2>6. QED
    BY <2>1, <2>2, <2>3, <2>4, <2>5 DEF CliNext
<1>2. /\ run' = [p \in Processes |-> run'[p]]
      /\ stage' = [p \in Processes |-> stage'[p]]
  BY <1>1 DEF RunType, Goto
<1>3. ASSUME NEW p \in Processes PROVE run'[p] \in RunState /\ stage'[p] \in Stages
  <2>1. CASE stage'[p] = stage[p] /\ run'[p] = run[p]
    BY <2>1 DEF RunType
  <2>2. CASE stage'[p] = "none" /\ run'[p] = Blank
    BY <2>2, BlankFacts DEF Stages
  <2>3. CASE Begins(p)
    <3>1. PICK e \in Environments, g \in CommandLines :
            /\ stage'[p] \in {"cipher", "run_encrypt"}
            /\ \E a \in {Over(Defaults, e), Over(Over(Defaults, e), g)} :
                 run'[p] = [Blank EXCEPT !.before = Over(Over(Defaults, e), g), !.answers = a]
      BY <2>3 DEF Begins
    <3>2. Over(Defaults, e) \in Settings /\ Over(Over(Defaults, e), g) \in Settings
      BY SettingsFacts
    <3>3. run'[p] \in RunState
      <4>1. PICK a \in Settings :
              run'[p] = [Blank EXCEPT !.before = Over(Over(Defaults, e), g), !.answers = a]
        BY <3>1, <3>2
      <4>2. \A x \in RunState, b \in Settings : [x EXCEPT !.before = b, !.answers = a] \in RunState
        BY DEF RunState
      <4>3. QED
        BY <3>2, <4>1, <4>2, BlankFacts
    <3>4. stage'[p] \in Stages
      BY <3>1 DEF Stages, Fields
    <3>5. QED
      BY <3>3, <3>4
  <2>4. CASE Replies(p)
    <3>1. PICK f, v :
            /\ f \in Fields /\ Possible(p, f, v)
            /\ stage'[p] = NextPrompt(f, Replied(p, f, v).answers)
            /\ \/ run'[p] = Replied(p, f, v)
               \/ /\ f \in {"key", "signing"}
                  /\ run'[p] = [Replied(p, f, v) EXCEPT !.own = @ \union {f}]
      BY <2>4 DEF Replies
    <3>2. Replied(p, f, v) \in RunState
      BY <3>1, ReplyFacts
    <3>3. stage'[p] \in Stages
      BY <3>1, PromptFacts DEF Stages
    <3>4. run'[p] \in RunState
      BY <3>1, <3>2 DEF RunState
    <3>5. QED
      BY <3>3, <3>4
  <2>5. CASE Runs(p)
    <3>1. run[p] \in RunState /\ run[p].answers["key"] \in Paths
      BY DEF RunType, RunState, Settings, Given, Fields
    <3>2. CASE run'[p] = run[p] /\ stage'[p] = "run_encrypt"
      BY <3>1, <3>2 DEF Stages
    <3>3. CASE /\ stage'[p] = "run_sign"
               /\ run'[p] = [run[p] EXCEPT !.secret = file[run[p].answers.key].key]
               /\ \E c \in CipherNamed(run[p].answers.cipher, Installed) :
                    Readable(run[p].answers.key, c)
      <4>1. file[run[p].answers["key"]] \in Key
        BY <3>1, <3>3 DEF Readable, KeyIn, Whole, TypeOK
      <4>2. file[run[p].answers["key"]].key \in 0..MaxKeys
        BY <4>1 DEF Key
      <4>3. QED
        BY <3>1, <3>3, <4>2 DEF RunState, Stages
    <3>4. QED
      BY <2>5, <3>2, <3>3 DEF Runs
  <2>6. QED
    BY <2>1, <2>2, <2>3, <2>4, <2>5, RunCourses
<1>4. QED
  BY <1>3, <1>2 DEF RunType

-----------------------------------------------------------------------------
\* What has been asked for already, in a dialog.
Past(p, f) ==
  \/ stage[p] = "settle"
  \/ stage[p] \in Fields /\ Place[f] < Place[stage[p]]

EnterInv ==
  \A p \in Processes : \A f \in Fields \ run[p].changed :
    Past(p, f) /\ Wanted(f, run[p].answers) => run[p].answers[f] = run[p].before[f]

LEMMA EnterPreserved == RunType /\ EnterInv /\ [CliNext]_cliVars => EnterInv'
<1> SUFFICES ASSUME RunType, EnterInv, [CliNext]_cliVars,
                    NEW p \in Processes, NEW f \in Fields, f \notin run'[p].changed,
                    Past(p, f)', Wanted(f, run'[p].answers)
             PROVE  run'[p].answers[f] = run'[p].before[f]
  BY DEF EnterInv
<1>1. CASE stage'[p] = stage[p] /\ run'[p] = run[p]
  BY <1>1 DEF EnterInv, Past
<1>2. ~(stage'[p] \in {"none", "run_encrypt", "run_sign"})
  BY DEF Past, Fields
<1>3. ~Begins(p)
  <2>1. stage'[p] = "cipher" => Place[f] < Place["cipher"]
    BY DEF Past
  <2>2. Begins(p) => stage'[p] \in {"cipher", "run_encrypt"}
    BY DEF Begins
  <2>3. ~(Place[f] < Place["cipher"])
    BY PlaceFacts
  <2>4. QED
    BY <1>2, <2>1, <2>2, <2>3
<1>4. CASE Replies(p)
  <2>1. PICK g, v :
          /\ g \in Fields /\ stage[p] = g /\ Possible(p, g, v)
          /\ stage'[p] = NextPrompt(g, Replied(p, g, v).answers)
          /\ \/ run'[p] = Replied(p, g, v)
             \/ run'[p] = [Replied(p, g, v) EXCEPT !.own = @ \union {g}]
    BY <1>4 DEF Replies
  <2>2. /\ Replied(p, g, v) \in RunState
        /\ Replied(p, g, v).before = run[p].before
        /\ Replied(p, g, v).answers = [run[p].answers EXCEPT ![g] = v]
        /\ Replied(p, g, v).changed = IF v = run[p].before[g] THEN run[p].changed
                                      ELSE run[p].changed \union {g}
    <3>1. g \in Fields /\ Possible(p, g, v)
      BY <2>1
    <3>2. QED
      BY <3>1, ReplyFacts, SMTT(30)
  <2>3. /\ run'[p].before = run[p].before
        /\ run'[p].answers = [run[p].answers EXCEPT ![g] = v]
        /\ run'[p].changed = IF v = run[p].before[g] THEN run[p].changed
                             ELSE run[p].changed \union {g}
    BY <2>1, <2>2 DEF RunState
  <2>4. run[p].answers \in [Fields -> Values]
    BY DEF RunType, RunState, Settings
  <2>5. CASE f = g
    BY <2>3, <2>4, <2>5
  <2>6. CASE f # g
    <3>1. Place[f] <= Place[g]
      <4>1. stage'[p] = NextPrompt(g, run'[p].answers)
        BY <2>1, <2>2, <2>3
      <4>2. CASE stage'[p] = "settle"
        <5>1. g \in Fields /\ "settle" \notin Fields
          BY <2>1 DEF Fields
        <5>2. \A h \in Fields : Wanted(h, run'[p].answers) => Place[h] <= Place[g]
          BY <4>1, <4>2, <5>1, PromptFacts
        <5>3. QED
          BY <5>2
      <4>3. CASE stage'[p] # "settle"
        BY <2>1, <4>1, <4>3, PromptFacts DEF Past
      <4>4. QED
        BY <4>2, <4>3
    <3>2. Place[f] < Place[g]
      BY <2>1, <2>6, <3>1, PlaceFacts
    <3>3. Wanted(f, run[p].answers)
      <4>1. f = "chunk" => run'[p].answers.mode = run[p].answers.mode
        BY <2>3, <2>4, <3>2, PlaceFacts DEF Fields
      <4>2. f \in {"signer", "signing"} => run'[p].answers.sign = run[p].answers.sign
        BY <2>3, <2>4, <3>2, PlaceFacts DEF Fields
      <4>3. QED
        BY <4>1, <4>2 DEF Wanted
    <3>4. run[p].answers[f] = run[p].before[f]
      BY <2>1, <2>3, <3>2, <3>3 DEF EnterInv, Past
    <3>5. QED
      BY <2>3, <2>4, <2>6, <3>4
  <2>7. QED
    BY <2>5, <2>6
<1>5. QED
  BY <1>1, <1>2, <1>3, <1>4, RunCourses DEF Runs

-----------------------------------------------------------------------------
\* Keys are numbered as they are generated, and the files of a key are of
\* the kind that its one generator was asked for.
KeysMade ==
  /\ \A n \in Paths : file[n] # None => file[n].key \in 1..keys
  /\ \A p \in Processes : pc[p] # "idle" => key[p] \in 1..keys
  /\ \A n \in Paths, p \in Processes :
       pc[p] # "idle" /\ file[n] # None /\ file[n].key = key[p] =>
         (file[n].half = "secret" <=> ~req[p].pair)

LEMMA KeysMadePreserved == TypeOK /\ KeysInv /\ KeysMade /\ [Next]_vars => KeysMade'
<1> SUFFICES ASSUME TypeOK, KeysInv, KeysMade, [Next]_vars PROVE KeysMade'
  OBVIOUS
<1>1. keys \in Nat /\ keys' \in Nat /\ keys <= keys'
  <2>1. keys \in Nat /\ keys' \in Nat
    <3>1. TypeOK'
      BY TypePreserved
    <3>2. QED
      BY <3>1 DEF TypeOK
  <2>2. keys' = keys \/ keys' = keys + 1
    BY DEF Next, vars, Generate, Create, Write, Break
  <2>3. QED
    BY <2>1, <2>2
<1>2. ASSUME NEW p \in Processes, pc'[p] # "idle"
      PROVE  \/ pc[p] # "idle" /\ key'[p] = key[p] /\ req'[p] = req[p]
             \/ key'[p] = keys' /\ keys' = keys + 1 /\ UNCHANGED file
  <2>1. CASE \E r \in Requests : Generate(p, r)
    BY <2>1 DEF Generate, TypeOK
  <2>2. CASE ~\E r \in Requests : Generate(p, r)
    BY <1>2, <2>2, Moves DEF Create, Write, Break
  <2>3. QED
    BY <2>1, <2>2
<1>3. ASSUME NEW n \in Paths, file'[n] # None
      PROVE  \/ file[n] # None /\ file'[n].key = file[n].key /\ file'[n].half = file[n].half
             \/ \E q \in Processes :
                  /\ pc[q] # "idle" /\ pc'[q] # "idle" /\ file'[n].key = key[q]
                  /\ key'[q] = key[q] /\ req'[q] = req[q] /\ UNCHANGED <<key, keys>>
                  /\ file'[n].half = "secret" <=> ~req[q].pair
  <2>1. CASE file[n] # None
    BY <2>1, FilesStay
  <2>2. CASE file[n] = None
    <3>1. PICK q \in Processes, step \in {1, 2} :
            /\ Create(q, step) /\ (req[q].pair \/ step = 1)
            /\ file[Target(q, step)[1]] = None
            /\ file' = [file EXCEPT ![Target(q, step)[1]] = Content(q, step, FALSE)]
      <4>1. ASSUME NEW q \in Processes, NEW step \in {1, 2}, req[q].pair \/ step = 1,
                   file[Target(q, step)[1]] = Content(q, step, FALSE),
                   file' = [file EXCEPT ![Target(q, step)[1]] = Content(q, step, TRUE)]
            PROVE  file'[n] = None
        <5>1. Content(q, step, FALSE) # None /\ Target(q, step)[1] \in Paths
          BY <4>1, TargetFacts
        <5>2. n # Target(q, step)[1]
          BY <2>2, <4>1, <5>1
        <5>3. QED
          BY <2>2, <4>1, <5>1, <5>2 DEF TypeOK
      <4>2. QED
        BY <1>3, <2>2, <4>1, FileStep
    <3>2. n = Target(q, step)[1] /\ file'[n] = Content(q, step, FALSE)
      BY <1>3, <2>2, <3>1, TargetFacts DEF TypeOK
    <3>3. file'[n].key = key[q] /\ file'[n].half = Target(q, step)[2]
      BY <3>2 DEF Content
    <3>4. Target(q, step)[2] = "secret" <=> ~req[q].pair
      BY <3>1, TargetFacts
    <3>5. UNCHANGED <<req, key, keys>> /\ pc[q] # "idle"
      BY <3>1 DEF Create
    <3>6. pc'[q] # "idle"
      <4>1. Absent(Target(q, step)[1])
        BY <3>1 DEF Absent
      <4>2. QED
        BY <3>1, <4>1 DEF Create, TypeOK
    <3>7. QED
      BY <3>3, <3>4, <3>5, <3>6
  <2>3. QED
    BY <2>1, <2>2
<1>4. ASSUME NEW n \in Paths, file'[n] # None PROVE file'[n].key \in 1..keys'
  BY <1>1, <1>3, <1>4 DEF KeysMade
<1>5. ASSUME NEW p \in Processes, pc'[p] # "idle" PROVE key'[p] \in 1..keys'
  BY <1>1, <1>2, <1>5 DEF KeysMade
<1>6. ASSUME NEW n \in Paths, NEW p \in Processes,
             pc'[p] # "idle", file'[n] # None, file'[n].key = key'[p]
      PROVE  file'[n].half = "secret" <=> ~req'[p].pair
  <2>1. CASE key'[p] = keys' /\ keys' = keys + 1 /\ UNCHANGED file
    <3>1. file[n].key \in 1..keys
      BY <1>6, <2>1 DEF KeysMade
    <3>2. QED
      BY <1>1, <1>6, <2>1, <3>1
  <2>2. CASE pc[p] # "idle" /\ key'[p] = key[p] /\ req'[p] = req[p]
    <3>1. CASE file[n] # None /\ file'[n].key = file[n].key /\ file'[n].half = file[n].half
      BY <1>6, <2>2, <3>1 DEF KeysMade
    <3>2. ASSUME NEW q \in Processes, pc[q] # "idle", file'[n].key = key[q],
                 file'[n].half = "secret" <=> ~req[q].pair
          PROVE  file'[n].half = "secret" <=> ~req'[p].pair
      <4>1. q = p
        BY <1>6, <2>2, <3>2 DEF KeysInv
      <4>2. QED
        BY <2>2, <3>2, <4>1
    <3>3. QED
      BY <1>3, <1>6, <3>1, <3>2
  <2>3. QED
    BY <1>2, <1>6, <2>1, <2>2
<1>7. QED
  BY <1>4, <1>5, <1>6 DEF KeysMade

-----------------------------------------------------------------------------
Names == CipherNames(Installed) \union SignerNames(Installed)
AlgType == alg \in [1..MaxKeys -> Names]

\* The algorithm of a key is settled when it is generated.
LEMMA AlgStep ==
  ASSUME AlgType, TypeOK, [CliNext]_cliVars
  PROVE  AlgType' /\ \A k \in 1..keys : alg'[k] = alg[k]
<1>1. ASSUME NEW p \in Processes, NEW r, NEW a, Named(r.pair, a) # {}, Make(p, r, a)
      PROVE  AlgType' /\ \A k \in 1..keys : alg'[k] = alg[k]
  <2>1. a \in Names
    BY <1>1 DEF Named, SignerNamed, CipherNamed, Names, SignerNames, CipherNames
  <2>2. keys + 1 \in 1..MaxKeys /\ alg' = [alg EXCEPT ![keys + 1] = a]
    BY <1>1 DEF Make, Generate, TypeOK
  <2>3. QED
    BY <2>1, <2>2 DEF AlgType, TypeOK
<1>2. CASE UNCHANGED alg
  BY <1>2 DEF AlgType, TypeOK
<1>3. ASSUME NEW p \in Processes, NEW f, NEW v, Accept(p, f, v)
      PROVE  AlgType' /\ \A k \in 1..keys : alg'[k] = alg[k]
  <2>1. CASE UNCHANGED keyVars
    BY <1>2, <2>1 DEF keyVars
  <2>2. CASE /\ Named(f = "signing", Chosen(p, f)) # {}
             /\ Make(p, [pair |-> f = "signing", out |-> v, public |-> PublicOf[v]], Chosen(p, f))
    BY <1>1, <2>2
  <2>3. QED
    BY <1>3, <2>1, <2>2 DEF Accept
<1>4. ASSUME NEW p \in Processes, NEW r, NEW a, GenerateCommand(p, r, a)
      PROVE  AlgType' /\ \A k \in 1..keys : alg'[k] = alg[k]
  BY <1>1, <1>4 DEF GenerateCommand
<1>5. CASE UNCHANGED cliVars
  BY <1>2, <1>5 DEF cliVars, keyVars
<1>6. ASSUME NEW p \in Processes, NEW e, NEW g, NEW i, Launch(p, e, g, i) PROVE UNCHANGED alg
  BY <1>6 DEF Launch, keyVars
<1>7. ASSUME NEW p \in Processes, NEW f, NEW v, Answer(p, f, v) PROVE UNCHANGED alg
  BY <1>7 DEF Answer, keyVars
<1>8. ASSUME NEW p \in Processes, KeyStep(p) \/ Settle(p) \/ Encrypt(p) \/ Sign(p) \/ Interrupt(p)
      PROVE  UNCHANGED alg
  BY <1>8 DEF KeyStep, Settle, Encrypt, Sign, Interrupt, keyVars
<1>9. QED
  BY <1>2, <1>3, <1>4, <1>5, <1>6, <1>7, <1>8 DEF CliNext

-----------------------------------------------------------------------------
(***************************************************************************)
(* What a run relies on: the files it has read are there as they were, and *)
(* so are the algorithms of their keys.                                    *)
(***************************************************************************)
Context == TypeOK /\ KeysInv /\ OrderInv /\ KeysMade /\ AlgType /\ RunType

LEMMA ContextPreserved == Context /\ [CliNext]_cliVars => Context'
  BY CliSteps, TypePreserved, KeysPreserved, OrderPreserved, KeysMadePreserved, AlgStep,
     RunTypePreserved DEF Context

LEMMA FilesKept ==
  ASSUME Context, [CliNext]_cliVars, NEW n \in Paths, NEW half
  PROVE  /\ Whole(n, half) => Whole(n, half)' /\ file'[n] = file[n]
         /\ file[n] # None => alg'[file[n].key] = alg[file[n].key]
         /\ \A c : Readable(n, c) => Readable(n, c)'
         /\ \A c : Signs(n, c) => Signs(n, c)'
<1>1. Context => TypeOK /\ KeysMade /\ AlgType /\ RunType
  BY DEF Context
<1>2. file[n] # None /\ file[n].whole => file'[n] = file[n]
  BY <1>1, CliSteps, FilesStay
<1>3. file[n] # None => alg'[file[n].key] = alg[file[n].key]
  BY <1>1, AlgStep DEF KeysMade
<1>4. \A h : Whole(n, h) => Whole(n, h)' /\ file'[n] = file[n]
  BY <1>2 DEF Whole
<1>5. QED
  BY <1>3, <1>4 DEF Readable, KeyIn, Signs, Whole

Opened(s, secret) ==
  /\ s["key"] \in Paths /\ file[s["key"]].key = secret
  /\ \E c \in CipherNamed(s.cipher, Installed) : Readable(s["key"], c)

StageInv ==
  \A p \in Processes :
    /\ stage[p] = "none" => run[p] = Blank
    /\ stage[p] \in {"run_encrypt", "run_sign"} => Valid(run[p].answers)
    /\ stage[p] = "run_sign" => Opened(run[p].answers, run[p].secret)

LEMMA OpenedStays ==
  ASSUME Context, [CliNext]_cliVars, NEW s, NEW secret, Opened(s, secret)
  PROVE  Opened(s, secret)'
<1>1. PICK c \in CipherNamed(s.cipher, Installed) : Readable(s["key"], c)
  BY DEF Opened
<1>2. Whole(s["key"], "secret") /\ s["key"] \in Paths
  BY <1>1 DEF Opened, Readable, KeyIn
<1>3. file'[s["key"]] = file[s["key"]] /\ Readable(s["key"], c)'
  BY <1>1, <1>2, FilesKept
<1>4. QED
  BY <1>1, <1>2, <1>3 DEF Opened

LEMMA StagePreserved == Context /\ StageInv /\ [CliNext]_cliVars => StageInv'
<1> SUFFICES ASSUME Context, StageInv, [CliNext]_cliVars, NEW p \in Processes
             PROVE  /\ stage'[p] = "none" => run'[p] = Blank
                    /\ stage'[p] \in {"run_encrypt", "run_sign"} => Valid(run'[p].answers)
                    /\ stage'[p] = "run_sign" => Opened(run[p].answers, run[p].secret)'
  BY DEF StageInv
<1>1. RunType
  BY DEF Context
<1>2. CASE stage'[p] = stage[p] /\ run'[p] = run[p]
  <2>1. /\ stage[p] = "none" => run[p] = Blank
        /\ stage[p] \in {"run_encrypt", "run_sign"} => Valid(run[p].answers)
        /\ stage[p] = "run_sign" => Opened(run[p].answers, run[p].secret)
    BY DEF StageInv
  <2>2. ASSUME stage[p] = "run_sign" PROVE Opened(run[p].answers, run[p].secret)'
    <3>1. PICK s, secret : s = run[p].answers /\ secret = run[p].secret
      OBVIOUS
    <3>2. Opened(s, secret)
      BY <2>1, <2>2, <3>1
    <3>3. Opened(s, secret)'
      BY <3>2, OpenedStays
    <3>4. run'[p].answers = s /\ run'[p].secret = secret
      BY <1>2, <3>1
    <3>5. QED
      BY <3>3, <3>4 DEF Opened, Readable, KeyIn, Whole
  <2>3. QED
    BY <1>2, <2>1, <2>2
<1>3. CASE stage'[p] = "none" /\ run'[p] = Blank
  BY <1>3
<1>4. CASE Begins(p)
  <2>1. PICK e \in Environments, g \in CommandLines :
          /\ Valid(Over(Over(Defaults, e), g))
          /\ \/ stage'[p] = "cipher"
             \/ /\ stage'[p] = "run_encrypt"
                /\ run'[p].answers = Over(Over(Defaults, e), g)
    BY <1>4 DEF Begins, Blank
  <2>2. QED
    BY <2>1
<1>5. CASE Replies(p)
  <2>1. \E f \in Fields : \E r : stage'[p] = NextPrompt(f, r)
    BY <1>5 DEF Replies
  <2>2. stage'[p] \in {"settle"} \union Fields
    BY <2>1, PromptFacts
  <2>3. QED
    BY <2>2 DEF Fields
<1>6. CASE Runs(p)
  <2>1. run[p] \in RunState /\ run[p].answers["key"] \in Paths
    BY <1>1 DEF RunType, RunState, Settings, Given, Fields
  <2>2. CASE stage'[p] = "run_encrypt"
    BY <1>6, <2>2 DEF Runs
  <2>3. CASE stage'[p] # "run_encrypt"
    <3>1. /\ stage[p] = "run_encrypt" /\ stage'[p] = "run_sign" /\ UNCHANGED keyVars
          /\ \E c \in CipherNamed(run[p].answers.cipher, Installed) :
               Readable(run[p].answers["key"], c)
          /\ run'[p] = [run[p] EXCEPT !.secret = file[run[p].answers.key].key]
      BY <1>6, <2>3 DEF Runs
    <3>2. run'[p].answers = run[p].answers /\ run'[p].secret = file[run[p].answers["key"]].key
      BY <2>1, <3>1 DEF RunState
    <3>3. Opened(run[p].answers, file[run[p].answers["key"]].key)
      BY <2>1, <3>1 DEF Opened
    <3>4. Valid(run[p].answers)
      BY <3>1 DEF StageInv
    <3>5. Opened(run[p].answers, run[p].secret)'
      BY <3>1, <3>2, <3>3 DEF Opened, keyVars, vars, Readable, KeyIn, Whole
    <3>6. QED
      BY <3>1, <3>2, <3>4, <3>5
  <2>4. QED
    BY <2>2, <2>3
<1>7. QED
  BY <1>1, <1>2, <1>3, <1>4, <1>5, <1>6, RunCourses

-----------------------------------------------------------------------------
\* A generator ends by its own step, and a run without success is noted.
LEMMA BrokenStep ==
  ASSUME Context, [CliNext]_cliVars
  PROVE  /\ broken \subseteq broken'
         /\ \A k \in broken' \ broken : \E p \in Processes : pc[p] # "idle" /\ key[p] = k
         /\ \A p \in Processes : pc[p] # "idle" /\ pc'[p] = "idle" =>
              exit'[p] \in {"running", "ok"} \/ (key[p] \in broken' /\ run'[p] = Blank)
<1>1. ASSUME NEW p \in Processes, KeyStep(p)
      PROVE  /\ broken \subseteq broken'
             /\ \A k \in broken' \ broken : pc[p] # "idle" /\ key[p] = k
             /\ exit'[p] \in {"running", "ok"} \/ (key[p] \in broken' /\ run'[p] = Blank)
  <2>1. pc[p] # "idle"
    BY <1>1 DEF KeyStep, Create, Write, Break
  <2>2. \/ exit'[p] \in {"running", "ok"} /\ broken' = broken
        \/ broken' = broken \union {key[p]} /\ run'[p] = Blank
    BY <1>1 DEF KeyStep, Ends, Goto, Context, RunType
  <2>3. QED
    BY <2>1, <2>2
<1>2. ASSUME NEW q \in Processes, NEW f, NEW v, Accept(q, f, v)
      PROVE  /\ UNCHANGED broken
             /\ \A p \in Processes : pc[p] # "idle" => pc'[p] = pc[p]
  BY <1>2 DEF Accept, Asked, Make, Generate, keyVars, vars, Context, TypeOK
<1>3. ASSUME NEW q \in Processes, NEW r, NEW a, GenerateCommand(q, r, a)
      PROVE  /\ UNCHANGED broken
             /\ \A p \in Processes : pc[p] # "idle" => pc'[p] = pc[p]
  BY <1>3 DEF GenerateCommand, Make, Generate, Context, TypeOK
<1>4. ASSUME NEW q \in Processes, NEW e, NEW g, NEW i, Launch(q, e, g, i)
      PROVE  UNCHANGED <<broken, pc>>
  BY <1>4 DEF Launch, keyVars, vars
<1>5. ASSUME NEW q \in Processes, NEW f, NEW v,
             Answer(q, f, v) \/ Settle(q) \/ Encrypt(q) \/ Sign(q) \/ Interrupt(q)
      PROVE  UNCHANGED <<broken, pc>>
  BY <1>5 DEF Answer, Settle, Encrypt, Sign, Interrupt, keyVars, vars
<1>6. ASSUME NEW p \in Processes, NEW q \in Processes, p # q, KeyStep(q)
      PROVE  pc'[p] = pc[p]
  BY <1>6 DEF KeyStep, Create, Write, Break, Stop, Context, TypeOK
<1>7. ASSUME NEW q \in Processes, KeyStep(q)
      PROVE  /\ broken \subseteq broken'
             /\ \A k \in broken' \ broken : \E p \in Processes : pc[p] # "idle" /\ key[p] = k
             /\ \A p \in Processes : pc[p] # "idle" /\ pc'[p] = "idle" =>
                  exit'[p] \in {"running", "ok"} \/ (key[p] \in broken' /\ run'[p] = Blank)
  BY <1>1, <1>6, <1>7
<1>8. \/ \E q \in Processes : KeyStep(q)
      \/ UNCHANGED broken /\ \A p \in Processes : pc[p] # "idle" => pc'[p] = pc[p]
  <2>1. CASE UNCHANGED <<broken, pc>>
    BY <2>1
  <2>2. CASE UNCHANGED cliVars
    BY <2>2 DEF cliVars, keyVars, vars
  <2>3. ASSUME NEW q \in Processes, NEW f, NEW v, Answer(q, f, v) \/ Accept(q, f, v)
        PROVE  UNCHANGED broken /\ \A p \in Processes : pc[p] # "idle" => pc'[p] = pc[p]
    BY <1>2, <1>5, <2>1, <2>3
  <2>4. ASSUME NEW q \in Processes, Settle(q) \/ Encrypt(q) \/ Sign(q) \/ Interrupt(q)
        PROVE  UNCHANGED <<broken, pc>>
    BY <2>4, <1>5
  <2>5. QED
    BY <1>3, <1>4, <2>1, <2>2, <2>3, <2>4 DEF CliNext
<1>9. QED
  BY <1>7, <1>8

\* The private key of a pair has its public key beside it, whole, or the
\* pair is being made, or could not be.
PairInv ==
  /\ broken \subseteq 1..MaxKeys
  /\ \A n \in Paths : Whole(n, "private") =>
       \/ file[n].key \in broken
       \/ \E p \in Processes : pc[p] # "idle" /\ key[p] = file[n].key
       \/ \E k \in Paths : Whole(k, "public") /\ file[k].key = file[n].key

LEMMA PairPreserved == Context /\ PairInv /\ [CliNext]_cliVars => PairInv'
<1> SUFFICES ASSUME Context, PairInv, [CliNext]_cliVars PROVE PairInv'
  OBVIOUS
<1>1. /\ TypeOK /\ KeysInv /\ OrderInv /\ KeysMade /\ [Next]_vars
      /\ Context' /\ OrderInv' /\ TypeOK'
  BY ContextPreserved, CliSteps DEF Context
<1>2. broken' \subseteq 1..MaxKeys
  <2>1. \A p \in Processes : pc[p] # "idle" => key[p] \in 1..MaxKeys
    BY <1>1 DEF KeysMade, TypeOK
  <2>2. \A k \in broken' : k \in broken \/ \E p \in Processes : pc[p] # "idle" /\ key[p] = k
    BY BrokenStep
  <2>3. QED
    BY <2>1, <2>2 DEF PairInv
<1>3. ASSUME NEW n \in Paths, Whole(n, "private"), file'[n] = file[n]
      PROVE  \/ file'[n].key \in broken'
             \/ \E p \in Processes : pc'[p] # "idle" /\ key'[p] = file'[n].key
             \/ \E k \in Paths : Whole(k, "public")' /\ file'[k].key = file'[n].key
  <2>1. CASE file[n].key \in broken
    BY <1>3, <2>1, BrokenStep
  <2>2. ASSUME NEW p \in Processes, pc[p] # "idle", key[p] = file[n].key
        PROVE  \/ file'[n].key \in broken'
               \/ \E q \in Processes : pc'[q] # "idle" /\ key'[q] = file'[n].key
               \/ \E k \in Paths : Whole(k, "public")' /\ file'[k].key = file'[n].key
    <3>1. CASE pc'[p] # "idle"
      <4>1. key'[p] = key[p]
        BY <1>1, <2>2, Courses
      <4>2. QED
        BY <1>3, <2>2, <3>1, <4>1
    <3>2. CASE pc'[p] = "idle" /\ exit'[p] # "ok"
      <4>1. exit'[p] # "running"
        BY <1>1, <2>2, <3>2, Courses DEF OrderInv
      <4>2. key[p] \in broken'
        BY <2>2, <3>2, <4>1, BrokenStep
      <4>3. QED
        BY <1>3, <2>2, <4>2
    <3>3. CASE pc'[p] = "idle" /\ exit'[p] = "ok"
      <4>1. key'[p] = key[p] /\ req'[p] = req[p]
        BY <1>1, <2>2, <3>3, Courses
      <4>2. req[p].pair
        BY <1>1, <1>3, <2>2 DEF KeysMade, Whole
      <4>3. req[p].public \in Paths
        BY <1>1, RequestAssumption DEF TypeOK
      <4>4. file'[req[p].public] = [key |-> key[p], half |-> "public", whole |-> TRUE]
        BY <1>1, <3>3, <4>1, <4>2 DEF OrderInv, ReportedKeysAreThere
      <4>5. [key |-> key[p], half |-> "public", whole |-> TRUE] \in Key
        BY <1>1 DEF Key, Halves, TypeOK
      <4>6. Whole(req[p].public, "public")' /\ file'[req[p].public].key = key[p]
        <5>1. file'[req[p].public] # None
          BY <4>4, <4>5
        <5>2. file'[req'[p].public] # None /\ file'[req'[p].public].half = "public"
              /\ file'[req'[p].public].whole
          BY <4>1, <4>4, <5>1
        <5>3. QED
          BY <4>4, <5>2 DEF Whole
      <4>7. PICK k \in Paths : k = req[p].public
        BY <4>3
      <4>8. Whole(k, "public")' /\ file'[k].key = file'[n].key
        BY <1>3, <2>2, <4>1, <4>6, <4>7 DEF Whole
      <4>9. QED
        BY <4>8
    <3>4. QED
      BY <3>1, <3>2, <3>3
  <2>3. ASSUME NEW k \in Paths, Whole(k, "public"), file[k].key = file[n].key
        PROVE  Whole(k, "public")' /\ file'[k].key = file'[n].key
    BY <1>3, <2>3, FilesKept
  <2>4. QED
    BY <1>3, <2>1, <2>2, <2>3 DEF PairInv
<1>4. ASSUME NEW n \in Paths, Whole(n, "private")', file'[n] # file[n]
      PROVE  \E p \in Processes : pc'[p] # "idle" /\ key'[p] = file'[n].key
  <2>1. PICK p \in Processes, step \in {1, 2} :
          /\ Write(p, step) /\ (req[p].pair \/ step = 1)
          /\ n = Target(p, step)[1] /\ file'[n] = Content(p, step, TRUE)
    <3>1. ASSUME NEW p \in Processes, NEW step \in {1, 2}, req[p].pair \/ step = 1,
                 file' = [file EXCEPT ![Target(p, step)[1]] = Content(p, step, FALSE)]
          PROVE  FALSE
      <4>1. file'[n] = Content(p, step, FALSE)
        BY <1>1, <1>4, <3>1, TargetFacts DEF TypeOK
      <4>2. QED
        BY <1>4, <4>1 DEF Whole, Content
    <3>2. ASSUME NEW p \in Processes, NEW step \in {1, 2}, req[p].pair \/ step = 1,
                 file' = [file EXCEPT ![Target(p, step)[1]] = Content(p, step, TRUE)]
          PROVE  n = Target(p, step)[1] /\ file'[n] = Content(p, step, TRUE)
      BY <1>1, <1>4, <3>2, TargetFacts DEF TypeOK
    <3>3. QED
      BY <1>1, <1>4, <3>1, <3>2, FileStep
  <2>2. Target(p, step)[2] = "private" /\ file'[n].key = key[p]
    BY <1>4, <2>1 DEF Whole, Content
  <2>3. step = 1 /\ req[p].pair
    BY <1>1, <2>1, <2>2, TargetFacts
  <2>4. pc'[p] = "create2" /\ key'[p] = key[p]
    BY <1>1, <2>1, <2>3 DEF Write, TypeOK
  <2>5. QED
    BY <2>2, <2>4
<1>5. ASSUME NEW n \in Paths, Whole(n, "private")', file'[n] = file[n] PROVE Whole(n, "private")
  BY <1>5 DEF Whole
<1>6. QED
  BY <1>2, <1>3, <1>4, <1>5 DEF PairInv

-----------------------------------------------------------------------------
\* What a published artifact was made with is still there.
Openable(m) ==
  /\ m.name \in GoodNames /\ m.file \in Paths /\ file[m.file].key = m.key
  /\ \E c \in CipherNamed(m.cipher, Installed) : Readable(m.file, c)
  /\ m.sig # 0 => /\ SignerNamed(m.signer, Installed) # {}
                  /\ \E n \in Paths : Whole(n, "private") /\ file[n].key = m.sig

MadeInv == \A m \in made : Openable(m)

LEMMA OpenableStays ==
  ASSUME Context, [CliNext]_cliVars, NEW m, Openable(m)
  PROVE  Openable(m)'
<1>1. PICK c \in CipherNamed(m.cipher, Installed) : Readable(m.file, c)
  BY DEF Openable
<1>2. Whole(m.file, "secret") /\ m.file \in Paths
  BY <1>1 DEF Openable, Readable, KeyIn
<1>3. file'[m.file] = file[m.file] /\ Readable(m.file, c)'
  BY <1>1, <1>2, FilesKept
<1>4. ASSUME NEW n \in Paths, Whole(n, "private"), file[n].key = m.sig
      PROVE  Whole(n, "private")' /\ file'[n].key = m.sig
  BY <1>4, FilesKept
<1>5. QED
  BY <1>1, <1>3, <1>4 DEF Openable

\* A run adds at most what it has made, with the files as they are.
LEMMA MadeStep ==
  ASSUME Context, StageInv, [CliNext]_cliVars
  PROVE  \A m \in made' \ made : Openable(m)
<1>1. ASSUME NEW p \in Processes
      PROVE  /\ run[p].answers["key"] \in Paths /\ run[p].answers["signing"] \in Paths
             /\ run[p].answers = [f \in Fields |-> run[p].answers[f]]
  BY DEF Context, RunType, RunState, Settings, Given, Fields
<1>2. ASSUME NEW p \in Processes, Encrypt(p) PROVE \A m \in made' \ made : Openable(m)
  <2>1. PICK s, secret : s = run[p].answers /\ secret = file[run[p].answers["key"]].key
    OBVIOUS
  <2>2. /\ stage[p] = "run_encrypt"
        /\ \/ UNCHANGED made
           \/ /\ made' = made \union {Result(s, secret, 0)}
              /\ \E c \in CipherNamed(s.cipher, Installed) : Readable(s["key"], c)
    BY <1>2, <2>1 DEF Encrypt
  <2>3. s.name \in GoodNames
    BY <2>1, <2>2 DEF StageInv, Valid
  <2>4. /\ Result(s, secret, 0).name = s.name /\ Result(s, secret, 0).file = s["key"]
        /\ Result(s, secret, 0).cipher = s.cipher /\ Result(s, secret, 0).key = secret
        /\ Result(s, secret, 0).sig = 0
    BY DEF Result
  <2>5. ASSUME \E c \in CipherNamed(s.cipher, Installed) : Readable(s["key"], c)
        PROVE  Openable(Result(s, secret, 0))
    BY <1>1, <2>1, <2>3, <2>4, <2>5 DEF Openable
  <2>6. QED
    BY <2>2, <2>5
<1>3. ASSUME NEW p \in Processes, Sign(p) PROVE \A m \in made' \ made : Openable(m)
  <2>1. PICK s, secret, sig : /\ s = run[p].answers /\ secret = run[p].secret
                              /\ sig = file[run[p].answers["signing"]].key
    OBVIOUS
  <2>2. stage[p] = "run_sign"
    BY <1>3 DEF Sign
  <2>3. \/ UNCHANGED made
        \/ /\ made' = made \union {Result(s, secret, sig)}
           /\ \E scheme \in SignerNamed(s.signer, Installed) : Signs(s["signing"], scheme)
    BY <1>3, <2>1 DEF Sign
  <2>4. s.name \in GoodNames /\ Opened(s, secret)
    BY <2>1, <2>2 DEF StageInv, Valid
  <2>5. /\ Result(s, secret, sig).name = s.name /\ Result(s, secret, sig).file = s["key"]
        /\ Result(s, secret, sig).cipher = s.cipher /\ Result(s, secret, sig).key = secret
        /\ Result(s, secret, sig).sig = sig /\ Result(s, secret, sig).signer = s.signer
    BY DEF Result
  <2>6. ASSUME \E scheme \in SignerNamed(s.signer, Installed) : Signs(s["signing"], scheme)
        PROVE  Openable(Result(s, secret, sig))
    <3>1. SignerNamed(s.signer, Installed) # {} /\ Whole(s["signing"], "private")
      BY <2>6 DEF Signs
    <3>2. s["signing"] \in Paths
      BY <1>1, <2>1
    <3>3. \E n \in Paths : Whole(n, "private") /\ file[n].key = sig
      BY <2>1, <3>1, <3>2
    <3>4. QED
      BY <2>4, <2>5, <3>1, <3>3 DEF Openable, Opened
  <2>7. QED
    BY <2>3, <2>6
<1>4. ASSUME NEW q \in Processes, NEW r, NEW e, NEW a, NEW i,
             \/ Launch(q, r, e, i) \/ Answer(q, r, a) \/ Accept(q, r, a)
             \/ GenerateCommand(q, r, a) \/ KeyStep(q) \/ Settle(q) \/ Interrupt(q)
      PROVE  UNCHANGED made
  BY <1>4 DEF Launch, Answer, Accept, GenerateCommand, KeyStep, Settle, Interrupt
<1>5. CASE UNCHANGED cliVars
  BY <1>5 DEF cliVars
<1>6. QED
  BY <1>2, <1>3, <1>4, <1>5 DEF CliNext

LEMMA MadePreserved == Context /\ StageInv /\ MadeInv /\ [CliNext]_cliVars => MadeInv'
<1> SUFFICES ASSUME Context, StageInv, MadeInv, [CliNext]_cliVars, NEW m \in made'
             PROVE  Openable(m)'
  BY DEF MadeInv
<1>1. Openable(m)
  BY MadeStep DEF MadeInv
<1>2. QED
  BY <1>1, OpenableStays

-----------------------------------------------------------------------------
\* All ciphers take keys of one length, which is read back as it is written.
LEMMA TableFacts ==
  /\ \A c \in CipherTable : c.bytes = 32
  /\ \A t \in Handed : Decodes(Text(32, t.form, t.newline), 32)
<1>1. \A c \in CipherTable : c.bytes = 32
  BY DEF CipherTable, OpenSslCiphers, XChaCha, CbcHmac
<1>2. \A t \in Handed : Decodes(Text(32, t.form, t.newline), 32)
  BY DEF Handed, Decodes, Text, Length, Stripped
<1>3. QED
  BY <1>1, <1>2

LEMMA AllPass ==
  ASSUME NEW c, NEW m, c.name \in GoodNames, c.name = m.name, c.text \in Handed,
         c.verify => /\ m.sig # 0 /\ SignerNamed(c.signer, ConsumerInstalled) # {}
                     /\ Pem(c.public) /\ Verifies(c, m),
         m.cipher \in ConsumerInstalled,
         NEW e \in CipherNamed(m.cipher, Installed), Readable(c.key, e),
         file[c.key].key = m.key
  PROVE  ConsumerExit(c, m) = 0
<1> DEFINE named == {b \in CipherTable : b.name = m.cipher}
           ciphers == UNION {CipherNumbered(a.id, ConsumerInstalled) : a \in named}
<1>1. e \in named /\ e \in CipherNumbered(e.id, ConsumerInstalled)
  BY DEF CipherNamed, CipherNumbered
<1>2. ciphers # {}
  BY <1>1
<1>3. ASSUME NEW a \in ciphers PROVE KeyIn(c.key, a, c.text.form, c.text.newline)
  <2>1. PICK b \in named : a \in CipherNumbered(b.id, ConsumerInstalled)
    OBVIOUS
  <2>2. a.bytes = 32 /\ e.bytes = 32
    BY <2>1, TableFacts DEF CipherNumbered, CipherNamed
  <2>3. QED
    BY <2>2, TableFacts DEF Readable, KeyIn
<1>4. Checks(c, m)[1].holds /\ Checks(c, m)[2].holds
  BY DEF Checks
<1>5. Checks(c, m)[3].holds /\ Checks(c, m)[4].holds
  BY DEF Checks
<1>6. Checks(c, m)[5].holds
  BY <1>2 DEF Checks
<1>7. Checks(c, m)[6].holds
  BY <1>3 DEF Checks
<1>8. Checks(c, m)[7].holds
  BY DEF Checks
<1>9. DOMAIN Checks(c, m) = 1..7
  BY DEF Checks
<1>10. \A i \in DOMAIN Checks(c, m) : Checks(c, m)[i].holds
  BY <1>4, <1>5, <1>6, <1>7, <1>8, <1>9
<1>11. QED
  BY <1>10 DEF ConsumerExit

LEMMA MadeOpens == Context /\ PairInv /\ MadeInv => PublishedCanBeOpened
<1> SUFFICES ASSUME Context, PairInv, MadeInv, NEW m \in made,
                    m.cipher \in ConsumerInstalled, m.signer \in ConsumerInstalled,
                    m.sig \notin broken,
                    ~\E p \in Processes : pc[p] # "idle" /\ key[p] = m.sig
             PROVE  \E n \in Paths : \A t \in Handed :
                      ConsumerExit([name |-> m.name, verify |-> m.sig # 0, signer |-> m.signer,
                                    public |-> n, key |-> m.file, text |-> t], m) = 0
  BY DEF PublishedCanBeOpened
<1>1. Openable(m)
  BY DEF MadeInv
<1>2. PICK e \in CipherNamed(m.cipher, Installed) : Readable(m.file, e)
  BY <1>1 DEF Openable
<1>3. PICK n \in Paths :
        m.sig # 0 => /\ Whole(n, "public") /\ file[n].key = m.sig
                     /\ SignerNamed(m.signer, ConsumerInstalled) # {}
  <2>1. CASE m.sig = 0
    BY <1>1, <2>1 DEF Openable
  <2>2. CASE m.sig # 0
    <3>1. SignerNamed(m.signer, ConsumerInstalled) # {}
      BY <1>1, <2>2 DEF Openable, SignerNamed
    <3>2. PICK k \in Paths : Whole(k, "private") /\ file[k].key = m.sig
      BY <1>1, <2>2 DEF Openable
    <3>3. \E n \in Paths : Whole(n, "public") /\ file[n].key = m.sig
      BY <3>2 DEF PairInv
    <3>4. QED
      BY <3>1, <3>3
  <2>3. QED
    BY <2>1, <2>2
<1>4. SUFFICES ASSUME NEW t \in Handed
               PROVE  ConsumerExit([name |-> m.name, verify |-> m.sig # 0, signer |-> m.signer,
                                    public |-> n, key |-> m.file, text |-> t], m) = 0
  OBVIOUS
<1>5. PICK c : c = [name |-> m.name, verify |-> m.sig # 0, signer |-> m.signer,
                    public |-> n, key |-> m.file, text |-> t]
  OBVIOUS
<1>6. /\ c.name = m.name /\ c.signer = m.signer /\ c.public = n /\ c.key = m.file
      /\ c.text \in Handed
      /\ c.verify => m.sig # 0
  BY <1>5
<1>7. c.verify => Pem(c.public) /\ Verifies(c, m)
  BY <1>3, <1>6 DEF Pem, Verifies
<1>8. ConsumerExit(c, m) = 0
  BY <1>1, <1>2, <1>3, <1>6, <1>7, AllPass DEF Openable
<1>9. QED
  BY <1>5, <1>8

LEMMA TypeFollows == Context /\ StageInv /\ PairInv /\ MadeInv => CliTypeOK
<1> SUFFICES ASSUME Context, StageInv, PairInv, MadeInv PROVE CliTypeOK
  OBVIOUS
<1>1. TypeOK /\ KeysMade /\ RunType /\ AlgType
  BY DEF Context
<1>2. ASSUME NEW n \in Paths, NEW half, Whole(n, half) PROVE file[n].key \in 1..MaxKeys
  BY <1>1, <1>2 DEF Whole, KeysMade, TypeOK
<1>3. ASSUME NEW p \in Processes, stage[p] = "run_sign" PROVE run[p].secret \in 1..MaxKeys
  <2>1. Opened(run[p].answers, run[p].secret)
    BY <1>3 DEF StageInv
  <2>2. QED
    BY <1>2, <2>1 DEF Opened, Readable, KeyIn
<1>4. ASSUME NEW m \in made PROVE m.key \in 1..MaxKeys /\ m.sig \in 0..MaxKeys
  <2>1. Openable(m)
    BY DEF MadeInv
  <2>2. m.key \in 1..MaxKeys
    BY <1>2, <2>1 DEF Openable, Readable, KeyIn
  <2>3. m.sig # 0 => m.sig \in 1..MaxKeys
    BY <1>2, <2>1 DEF Openable
  <2>4. QED
    BY <2>2, <2>3
<1>5. /\ stage \in [Processes -> {"none", "settle", "run_encrypt", "run_sign"} \union Fields]
      /\ alg \in [1..MaxKeys -> CipherNames(Installed) \union SignerNames(Installed)]
      /\ DOMAIN run = Processes
  BY <1>1 DEF RunType, Stages, AlgType, Names
<1>6. QED
  BY <1>1, <1>3, <1>4, <1>5 DEF CliTypeOK, StageInv, PairInv

-----------------------------------------------------------------------------
(***************************************************************************)
(* A key file that a dialog makes is either still being made by the very   *)
(* process that asked for it, or whole, and of the kind that is asked for. *)
(***************************************************************************)
OwnSecret(p) ==
  \/ /\ pc[p] # "idle" /\ ~req[p].pair /\ req[p].out = run[p].answers["key"]
     /\ alg[key[p]] \in CipherNames(Installed)
  \/ /\ Whole(run[p].answers["key"], "secret")
     /\ alg[file[run[p].answers["key"]].key] \in CipherNames(Installed)

OwnPrivate(p) ==
  \/ /\ pc[p] # "idle" /\ req[p].pair /\ req[p].out = run[p].answers["signing"]
     /\ alg[key[p]] = run[p].answers["signer"]
  \/ /\ Whole(run[p].answers["signing"], "private")
     /\ alg[file[run[p].answers["signing"]].key] = run[p].answers["signer"]

OwnInv ==
  \A p \in Processes :
    /\ "key" \in run[p].own =>
         (stage[p] \in Fields => Place[stage[p]] > 4) /\ OwnSecret(p)
    /\ "signing" \in run[p].own => stage[p] \notin Fields /\ OwnPrivate(p)

\* A generator that is at work goes on, has made its file, or ends the run.
LEMMA MakingStep ==
  ASSUME Context, [CliNext]_cliVars, NEW p \in Processes, pc[p] # "idle", run'[p].own # {}
  PROVE  /\ req'[p] = req[p] /\ key'[p] = key[p] /\ alg'[key[p]] = alg[key[p]]
         /\ \/ pc'[p] # "idle"
            \/ file'[req[p].out] = [key |-> key[p],
                 half |-> IF req[p].pair THEN "private" ELSE "secret", whole |-> TRUE]
<1>1. /\ TypeOK /\ KeysMade /\ AlgType /\ OrderInv /\ [Next]_vars /\ OrderInv'
  BY ContextPreserved, CliSteps DEF Context
<1>2. req'[p] = req[p] /\ key'[p] = key[p]
  BY <1>1, Courses
<1>3. alg'[key[p]] = alg[key[p]]
  BY <1>1, AlgStep DEF KeysMade
<1>4. CASE pc'[p] = "idle"
  <2>1. exit'[p] \in {"running", "ok"}
    BY <1>4, BrokenStep DEF Blank
  <2>2. exit'[p] = "ok"
    BY <1>1, <1>4, <2>1, Courses DEF OrderInv
  <2>3. QED
    BY <1>1, <1>2, <1>3, <2>2 DEF OrderInv, ReportedKeysAreThere
<1>5. QED
  BY <1>2, <1>3, <1>4

LEMMA OwnStays ==
  ASSUME Context, [CliNext]_cliVars, NEW p \in Processes, run'[p].own # {}
  PROVE  /\ OwnSecret(p) /\ run'[p].answers["key"] = run[p].answers["key"] => OwnSecret(p)'
         /\ /\ OwnPrivate(p)
            /\ run'[p].answers["signing"] = run[p].answers["signing"]
            /\ run'[p].answers["signer"] = run[p].answers["signer"]
            => OwnPrivate(p)'
<1>1. /\ run[p].answers["key"] \in Paths /\ run[p].answers["signing"] \in Paths
      /\ TypeOK
  BY DEF Context, RunType, RunState, Settings, Given, Fields
<1>2. ASSUME OwnSecret(p), run'[p].answers["key"] = run[p].answers["key"]
      PROVE  OwnSecret(p)'
  <2>1. CASE /\ pc[p] # "idle" /\ ~req[p].pair /\ req[p].out = run[p].answers["key"]
             /\ alg[key[p]] \in CipherNames(Installed)
    <3>1. CASE pc'[p] # "idle"
      BY <1>2, <2>1, <3>1, MakingStep DEF OwnSecret
    <3>2. CASE file'[req[p].out] = [key |-> key[p],
                 half |-> IF req[p].pair THEN "private" ELSE "secret", whole |-> TRUE]
      <4>1. [key |-> key[p], half |-> "secret", whole |-> TRUE] \in Key
        BY <1>1 DEF Key, Halves, TypeOK
      <4>2. PICK n \in Paths : n = run[p].answers["key"]
        BY <1>1
      <4>3. file'[n] = [key |-> key[p], half |-> "secret", whole |-> TRUE] /\ file'[n] # None
        BY <2>1, <3>2, <4>1, <4>2
      <4>4. alg'[file'[n].key] \in CipherNames(Installed)
        BY <2>1, <4>3, MakingStep
      <4>5. QED
        BY <1>2, <4>2, <4>3, <4>4 DEF OwnSecret, Whole
    <3>3. QED
      BY <2>1, <3>1, <3>2, MakingStep
  <2>2. CASE /\ Whole(run[p].answers["key"], "secret")
             /\ alg[file[run[p].answers["key"]].key] \in CipherNames(Installed)
    <3>1. PICK n \in Paths : n = run[p].answers["key"]
      BY <1>1
    <3>2. Whole(n, "secret")' /\ file'[n] = file[n] /\ file[n] # None
      BY <2>2, <3>1, FilesKept DEF Whole
    <3>3. alg'[file'[n].key] \in CipherNames(Installed)
      BY <2>2, <3>1, <3>2, FilesKept
    <3>4. QED
      BY <1>2, <3>1, <3>2, <3>3 DEF OwnSecret, Whole
  <2>3. QED
    BY <1>2, <2>1, <2>2 DEF OwnSecret
<1>3. ASSUME OwnPrivate(p),
             run'[p].answers["signing"] = run[p].answers["signing"],
             run'[p].answers["signer"] = run[p].answers["signer"]
      PROVE  OwnPrivate(p)'
  <2>1. CASE /\ pc[p] # "idle" /\ req[p].pair /\ req[p].out = run[p].answers["signing"]
             /\ alg[key[p]] = run[p].answers["signer"]
    <3>1. CASE pc'[p] # "idle"
      BY <1>3, <2>1, <3>1, MakingStep DEF OwnPrivate
    <3>2. CASE file'[req[p].out] = [key |-> key[p],
                 half |-> IF req[p].pair THEN "private" ELSE "secret", whole |-> TRUE]
      <4>1. [key |-> key[p], half |-> "private", whole |-> TRUE] \in Key
        BY <1>1 DEF Key, Halves, TypeOK
      <4>2. PICK n \in Paths : n = run[p].answers["signing"]
        BY <1>1
      <4>3. file'[n] = [key |-> key[p], half |-> "private", whole |-> TRUE] /\ file'[n] # None
        BY <2>1, <3>2, <4>1, <4>2
      <4>4. alg'[file'[n].key] = run'[p].answers["signer"]
        BY <1>3, <2>1, <4>3, MakingStep
      <4>5. QED
        BY <1>3, <4>2, <4>3, <4>4 DEF OwnPrivate, Whole
    <3>3. QED
      BY <2>1, <3>1, <3>2, MakingStep
  <2>2. CASE /\ Whole(run[p].answers["signing"], "private")
             /\ alg[file[run[p].answers["signing"]].key] = run[p].answers["signer"]
    <3>1. PICK n \in Paths : n = run[p].answers["signing"]
      BY <1>1
    <3>2. Whole(n, "private")' /\ file'[n] = file[n] /\ file[n] # None
      BY <2>2, <3>1, FilesKept DEF Whole
    <3>3. alg'[file'[n].key] = run'[p].answers["signer"]
      BY <1>3, <2>2, <3>1, <3>2, FilesKept
    <3>4. QED
      BY <1>3, <3>1, <3>2, <3>3 DEF OwnPrivate, Whole
  <2>3. QED
    BY <1>3, <2>1, <2>2 DEF OwnPrivate
<1>4. QED
  BY <1>2, <1>3

\* What an answer leaves as it was, and what an offer that is taken makes.
LEMMA ReplyOwn ==
  ASSUME Context, OwnInv, [CliNext]_cliVars, NEW p \in Processes, pc[p] = "idle", Replies(p)
  PROVE  /\ "key" \in run'[p].own =>
              (stage'[p] \in Fields => Place[stage'[p]] > 4) /\ OwnSecret(p)'
         /\ "signing" \in run'[p].own => stage'[p] \notin Fields /\ OwnPrivate(p)'
<1>1. PICK f, v :
        /\ f \in Fields
        /\ stage[p] = f /\ Possible(p, f, v)
        /\ stage'[p] = NextPrompt(f, Replied(p, f, v).answers)
        /\ \/ run'[p] = Replied(p, f, v)
           \/ /\ run'[p] = [Replied(p, f, v) EXCEPT !.own = @ \union {f}]
              /\ f \in {"key", "signing"} /\ Named(f = "signing", Chosen(p, f)) # {}
              /\ Make(p, [pair |-> f = "signing", out |-> v, public |-> PublicOf[v]], Chosen(p, f))
  BY DEF Replies
<1>2. RunType /\ TypeOK /\ AlgType /\ TypeOK'
  BY ContextPreserved DEF Context
<1>3. /\ Replied(p, f, v) \in RunState /\ Replied(p, f, v).own = run[p].own
      /\ Replied(p, f, v).before = run[p].before
      /\ Replied(p, f, v).answers = [run[p].answers EXCEPT ![f] = v]
  <2>1. Possible(p, f, v)
    BY <1>1
  <2>2. RunType
    BY <1>2
  <2>3. Replied(p, f, v) \in RunState
    BY <1>1, <2>1, <2>2, ReplyFacts
  <2>4. run[p] \in RunState
    BY <2>2 DEF RunType
  <2>5. /\ Replied(p, f, v).own = run[p].own /\ Replied(p, f, v).before = run[p].before
        /\ Replied(p, f, v).answers = [run[p].answers EXCEPT ![f] = v]
    BY <2>4 DEF Replied, RunState
  <2>6. QED
    BY <2>3, <2>5
<1>4. run[p].answers \in [Fields -> Values] /\ run[p].own \subseteq {"key", "signing"}
  BY <1>2 DEF RunType, RunState, Settings
<1>5. /\ run'[p].answers = [run[p].answers EXCEPT ![f] = v]
      /\ run'[p].own = run[p].own \/ run'[p].own = run[p].own \union {f}
      /\ run'[p].own # run[p].own =>
           /\ f \in {"key", "signing"} /\ Named(f = "signing", Chosen(p, f)) # {}
           /\ Make(p, [pair |-> f = "signing", out |-> v, public |-> PublicOf[v]], Chosen(p, f))
  BY <1>1, <1>3 DEF RunState
<1>6. /\ run'[p].answers[f] = v
      /\ \A g \in Fields \ {f} : run'[p].answers[g] = run[p].answers[g]
  BY <1>1, <1>4, <1>5
<1>7. stage'[p] \in Fields => Place[f] < Place[stage'[p]]
  <2>1. "settle" \notin Fields
    BY DEF Fields
  <2>2. QED
    BY <1>1, <2>1, PromptFacts
<1>8. ASSUME f \in {"key", "signing"}, Named(f = "signing", Chosen(p, f)) # {},
             Make(p, [pair |-> f = "signing", out |-> v, public |-> PublicOf[v]], Chosen(p, f))
      PROVE  /\ pc'[p] # "idle" /\ req'[p].pair = (f = "signing") /\ req'[p].out = v
             /\ alg'[key'[p]] = Chosen(p, f)
             /\ f = "key" => Chosen(p, f) \in CipherNames(Installed)
  <2>1. /\ pc'[p] = "create1" /\ key'[p] = keys + 1
        /\ req'[p] = [pair |-> f = "signing", out |-> v, public |-> PublicOf[v]]
        /\ keys + 1 \in 1..MaxKeys /\ alg' = [alg EXCEPT ![keys + 1] = Chosen(p, f)]
    BY <1>2, <1>8 DEF Make, Generate, TypeOK
  <2>2. alg'[key'[p]] = Chosen(p, f)
    BY <1>2, <2>1 DEF AlgType
  <2>3. f = "key" => CipherNamed(Chosen(p, f), Installed) # {}
    BY <1>8 DEF Named
  <2>4. f = "key" => Chosen(p, f) \in CipherNames(Installed)
    BY <2>3 DEF CipherNamed, CipherNames
  <2>5. QED
    BY <2>1, <2>2, <2>4
<1>9. ASSUME "key" \in run'[p].own
      PROVE  (stage'[p] \in Fields => Place[stage'[p]] > 4) /\ OwnSecret(p)'
  <2>1. CASE "key" \in run[p].own
    <3>1. Place[f] > 4 /\ OwnSecret(p)
      BY <1>1, <2>1 DEF OwnInv
    <3>2. f # "key"
      BY <3>1, PlaceFacts
    <3>3. run'[p].answers["key"] = run[p].answers["key"]
      BY <1>6, <3>2 DEF Fields
    <3>4. OwnSecret(p)'
      BY <1>9, <3>1, <3>3, OwnStays
    <3>5. stage'[p] \in Fields => Place[stage'[p]] > 4
      BY <1>1, <1>7, <3>1, PlaceFacts
    <3>6. QED
      BY <3>4, <3>5
  <2>2. CASE "key" \notin run[p].own
    <3>1. f = "key" /\ run'[p].own # run[p].own
      BY <1>5, <1>9, <2>2
    <3>2. /\ pc'[p] # "idle" /\ ~req'[p].pair /\ req'[p].out = run'[p].answers["key"]
          /\ alg'[key'[p]] \in CipherNames(Installed)
      BY <1>5, <1>6, <1>8, <3>1
    <3>3. QED
      BY <1>7, <3>1, <3>2, PlaceFacts DEF OwnSecret
  <2>3. QED
    BY <2>1, <2>2
<1>10. ASSUME "signing" \in run'[p].own
       PROVE  stage'[p] \notin Fields /\ OwnPrivate(p)'
  <2>1. "signing" \notin run[p].own
    BY <1>1 DEF OwnInv
  <2>2. f = "signing" /\ run'[p].own # run[p].own
    BY <1>5, <1>10, <2>1
  <2>3. /\ pc'[p] # "idle" /\ req'[p].pair /\ req'[p].out = run'[p].answers["signing"]
        /\ alg'[key'[p]] = Chosen(p, f)
    BY <1>5, <1>6, <1>8, <2>2
  <2>4. Chosen(p, f) = run'[p].answers["signer"]
    BY <1>6, <2>2 DEF Chosen, Fields
  <2>5. stage'[p] \notin Fields
    <3>1. Place["signing"] = 8 /\ \A g \in Fields : Place[g] \in 1..8
      BY PlaceFacts
    <3>2. stage'[p] \in Fields => 8 < Place[stage'[p]]
      BY <1>7, <2>2, <3>1
    <3>3. QED
      BY <3>1, <3>2
  <2>6. QED
    BY <2>3, <2>4, <2>5 DEF OwnPrivate
<1>11. QED
  BY <1>9, <1>10

LEMMA OwnPreserved == Context /\ OwnInv /\ [CliNext]_cliVars => OwnInv'
<1> SUFFICES ASSUME Context, OwnInv, [CliNext]_cliVars, NEW p \in Processes
             PROVE  /\ "key" \in run'[p].own =>
                         (stage'[p] \in Fields => Place[stage'[p]] > 4) /\ OwnSecret(p)'
                    /\ "signing" \in run'[p].own => stage'[p] \notin Fields /\ OwnPrivate(p)'
  BY DEF OwnInv
<1>1. RunType
  BY DEF Context
<1>2. ASSUME run'[p].own = run[p].own, run'[p].answers = run[p].answers,
             stage'[p] \in Fields => stage'[p] = stage[p]
      PROVE  /\ "key" \in run'[p].own =>
                  (stage'[p] \in Fields => Place[stage'[p]] > 4) /\ OwnSecret(p)'
             /\ "signing" \in run'[p].own => stage'[p] \notin Fields /\ OwnPrivate(p)'
  BY <1>2, OwnStays DEF OwnInv
<1>3. CASE Begins(p) \/ run'[p] = Blank
  <2>1. Blank.own = {}
    BY DEF Blank
  <2>2. ASSUME NEW b, NEW a, run'[p] = [Blank EXCEPT !.before = b, !.answers = a]
        PROVE  run'[p].own = {}
    BY <2>2 DEF Blank
  <2>3. Begins(p) => run'[p].own = {}
    BY <2>2 DEF Begins
  <2>4. QED
    BY <1>3, <2>1, <2>3
<1>4. CASE Runs(p)
  <2>1. stage'[p] \notin Fields
    BY <1>4 DEF Runs, Fields
  <2>2. run'[p].own = run[p].own /\ run'[p].answers = run[p].answers
    BY <1>1, <1>4 DEF Runs, RunType, RunState
  <2>3. QED
    BY <1>2, <2>1, <2>2
<1>5. QED
  BY <1>1, <1>2, <1>3, <1>4, RunCourses, ReplyOwn

LEMMA SchemeFacts == \A s \in SignerTable : Fits(s, s)
<1>1. \A s \in SignerTable : s.bits >= s.least
  BY DEF SignerTable
<1>2. QED
  BY <1>1 DEF Fits

LEMMA OwnFits == Context /\ OwnInv => OfferedKeysFit
<1> SUFFICES ASSUME Context, OwnInv, NEW p \in Processes, pc[p] = "idle"
             PROVE  /\ stage[p] = "run_encrypt" /\ "key" \in run[p].own =>
                         \A c \in CipherNamed(run[p].answers.cipher, Installed) :
                           Readable(run[p].answers["key"], c)
                    /\ stage[p] = "run_sign" /\ "signing" \in run[p].own =>
                         \A c \in SignerNamed(run[p].answers.signer, Installed) :
                           Signs(run[p].answers["signing"], c)
  BY DEF OfferedKeysFit
<1>1. ASSUME "key" \in run[p].own, NEW c \in CipherNamed(run[p].answers.cipher, Installed)
      PROVE  Readable(run[p].answers["key"], c)
  <2>1. /\ Whole(run[p].answers["key"], "secret")
        /\ alg[file[run[p].answers["key"]].key] \in CipherNames(Installed)
    BY <1>1 DEF OwnInv, OwnSecret
  <2>2. PICK d \in CipherTable : d.name = alg[file[run[p].answers["key"]].key]
    BY <2>1 DEF CipherNames
  <2>3. c.bytes = 32 /\ d.bytes = 32
    BY TableFacts DEF CipherNamed
  <2>4. [form |-> "raw", newline |-> FALSE] \in Handed
    BY DEF Handed
  <2>5. QED
    BY <2>1, <2>2, <2>3, <2>4, TableFacts DEF Readable, KeyIn
<1>2. ASSUME "signing" \in run[p].own, NEW c \in SignerNamed(run[p].answers.signer, Installed)
      PROVE  Signs(run[p].answers["signing"], c)
  <2>1. /\ Whole(run[p].answers["signing"], "private")
        /\ alg[file[run[p].answers["signing"]].key] = run[p].answers["signer"]
    BY <1>2 DEF OwnInv, OwnPrivate
  <2>2. c \in SignerTable /\ c.name = run[p].answers.signer
    BY DEF SignerNamed
  <2>3. QED
    BY <2>1, <2>2, SchemeFacts DEF Signs
<1>3. QED
  BY <1>1, <1>2

-----------------------------------------------------------------------------
CliInv == Context /\ EnterInv /\ StageInv /\ PairInv /\ MadeInv /\ OwnInv

LEMMA CliInitInv == CliInit => CliInv
<1> SUFFICES ASSUME CliInit PROVE CliInv
  OBVIOUS
<1>1. TypeOK /\ KeysInv /\ OrderInv
  BY InitInv DEF CliInit, Inv
<1>2. KeysMade
  BY DEF CliInit, Init, KeysMade
<1>3. AlgType
  <2>1. "aes-256-gcm" \in CipherNames(Installed)
    <3>1. "aes-256-gcm" \in Installed
      BY CliAssumption
    <3>2. \E d \in CipherTable : d.safe /\ d.name = "aes-256-gcm"
      BY DEF CipherTable, OpenSslCiphers, XChaCha, CbcHmac
    <3>3. QED
      BY <3>1, <3>2 DEF CipherNames
  <2>2. QED
    BY <2>1 DEF CliInit, AlgType, Names
<1>4. RunType /\ \A p \in Processes : stage[p] = "none" /\ run[p] = Blank
  BY BlankFacts DEF CliInit, RunType, Stages
<1>5. EnterInv /\ StageInv
  BY <1>4 DEF EnterInv, Past, StageInv, Fields
<1>6. \A n \in Paths : file[n] = None
  BY DEF CliInit, Init
<1>7. PairInv /\ MadeInv
  BY <1>6 DEF CliInit, PairInv, MadeInv, Whole
<1>8. OwnInv
  <2>1. Blank.own = {}
    BY DEF Blank
  <2>2. QED
    BY <1>4, <2>1 DEF OwnInv
<1>9. QED
  BY <1>1, <1>2, <1>3, <1>4, <1>5, <1>7, <1>8 DEF CliInv, Context

LEMMA CliInvInductive == CliSpec => []CliInv
<1>1. CliInv /\ [CliNext]_cliVars => CliInv'
  <2> SUFFICES ASSUME CliInv, [CliNext]_cliVars PROVE CliInv'
    OBVIOUS
  <2>1. Context /\ RunType /\ EnterInv /\ StageInv /\ PairInv /\ MadeInv /\ OwnInv
    BY DEF CliInv, Context
  <2>2. QED
    BY <2>1, ContextPreserved, EnterPreserved, StagePreserved, PairPreserved, MadePreserved,
       OwnPreserved DEF CliInv
<1>2. QED
  BY CliInitInv, <1>1, PTL DEF CliSpec

\* Commands and dialogs do nothing to key files but what the generators do.
THEOREM OnlyGenerators == CliSpec => Spec
<1>1. CliInit => Init
  BY DEF CliInit
<1>2. CliInv /\ [CliNext]_cliVars => [Next]_vars
  BY CliSteps DEF CliInv, Context
<1>3. QED
  BY CliInvInductive, <1>1, <1>2, PTL DEF CliSpec, Spec

\* A key file that is written stays as it is, whatever is run or answered.
THEOREM KeysStayThere == CliSpec => NeverOverwritten
BY OnlyGenerators, KeysStay, PTL

\* Where a generator reports success, its key or its pair is on disk, whole.
THEOREM KeysAreThere == CliSpec => []ReportedKeysAreThere
BY OnlyGenerators, ReportsAreTrue, PTL

\* No public key is on disk without its private key, whatever was killed.
THEOREM PrivateKeyFirst == CliSpec => []PublicHasPrivate
BY OnlyGenerators, NoOrphanPublicKey, PTL

\* Files, algorithms, settings and what was published have their types.
THEOREM CliTypeCorrect == CliSpec => []CliTypeOK
<1>1. CliInv => CliTypeOK
  BY TypeFollows DEF CliInv
<1>2. QED
  BY CliInvInductive, <1>1, PTL

\* Enter keeps what was given before, for every wanted field and any order
\* of answers to the others.
THEOREM FlagsSurvive == CliSpec => []EnterKeepsFlags
<1>1. CliInv => EnterKeepsFlags
  <2>1. CliInv => EnterInv
    BY DEF CliInv
  <2>2. EnterInv => EnterKeepsFlags
    <3> SUFFICES ASSUME EnterInv, NEW p \in Processes, stage[p] = "settle",
                        NEW f \in Fields \ run[p].changed, Wanted(f, run[p].answers)
                 PROVE  run[p].answers[f] = run[p].before[f]
      BY DEF EnterKeepsFlags
    <3>1. Past(p, f)
      BY DEF Past
    <3>2. QED
      BY <3>1 DEF EnterInv
  <2>3. QED
    BY <2>1, <2>2
<1>2. QED
  BY CliInvInductive, <1>1, PTL

\* A key file that a dialog made is one its run can use.
THEOREM OffersAreGood == CliSpec => []OfferedKeysFit
<1>1. CliInv => OfferedKeysFit
  BY OwnFits DEF CliInv
<1>2. QED
  BY CliInvInductive, <1>1, PTL

\* What a run published can be opened later, with keys that are there.
THEOREM ConsumersCanOpen == CliSpec => []PublishedCanBeOpened
<1>1. CliInv => PublishedCanBeOpened
  BY MadeOpens DEF CliInv
<1>2. QED
  BY CliInvInductive, <1>1, PTL
=============================================================================
