------------------------- MODULE AtomicFile_proofs -------------------------
(***************************************************************************)
(* A file published by a process that wrote alone is whole and stays so,   *)
(* for any number of processes, attempts and pieces.                       *)
(***************************************************************************)
EXTENDS AtomicFile, TLAPS

USE AtomicAssumption

(***************************************************************************)
(* No two busy writers have one number, and inodes have numbers that no    *)
(* attempt had before: what is open or named was named by an earlier one.  *)
(***************************************************************************)
NumbersInv ==
  \A v, w \in Writers : v # w /\ Busy(v) /\ Busy(w) => me[v] # me[w]

\* A writer that has been alone since it opened the file.
Sole(w) == Busy(w) /\ me[w] \in alone

(***************************************************************************)
(* A sole writer is the only busy one, its inode holds what it has written *)
(* and nothing else, and the name .tmp is its inode's or nobody's.         *)
(***************************************************************************)
SoleInv ==
  \A w \in Writers : Sole(w) =>
    /\ \A v \in Writers : Busy(v) => v = w
    /\ tmp \in {0, fd[w]} /\ out # fd[w]
    /\ data[fd[w]] = [i \in 1..(at[w] - 1) |-> me[w]]
    /\ pc[w] = "replace" => at[w] = Pieces[me[w]] + 1

(***************************************************************************)
(* What a sole writer has published is nobody's to write to any more.      *)
(***************************************************************************)
OutInv ==
  /\ tmp # 0 => tmp # out
  /\ out # 0 => publisher # 0
  /\ out # 0 /\ publisher \in alone => \A w \in Writers : Busy(w) => fd[w] # out /\ me[w] # publisher

LitterInv == tmp # 0 => litter \/ \E w \in Writers : Busy(w) \/ pc[w] = "finally"

Inv == TypeOK /\ NumbersInv /\ SoleInv /\ OutInv /\ UndisturbedIsWhole /\ LitterInv

-----------------------------------------------------------------------------
LEMMA PutFacts ==
  ASSUME NEW m \in Nat, NEW s \in Seq(0..m), NEW i \in Nat, i # 0, NEW piece \in 0..m
  PROVE  /\ Put(s, i, piece) \in Seq(0..m)
         /\ Len(Put(s, i, piece)) = IF i > Len(s) THEN i ELSE Len(s)
<1> DEFINE n == IF i > Len(s) THEN i ELSE Len(s)
<1>1. Len(s) \in Nat /\ n \in Nat
  OBVIOUS
<1>2. Put(s, i, piece) \in [1..n -> 0..m]
  BY <1>1 DEF Put
<1>3. QED
  BY <1>1, <1>2

\* Writing the next piece to a file that holds all the ones before it.
LEMMA PutNext ==
  ASSUME NEW i \in Nat \ {0}, NEW x
  PROVE  Put([j \in 1..(i - 1) |-> x], i, x) = [j \in 1..i |-> x]
<1> DEFINE s == [j \in 1..(i - 1) |-> x]
<1>1. s \in Seq({x}) /\ Len(s) = i - 1
  OBVIOUS
<1>2. Put(s, i, x) = [j \in 1..i |-> IF j = i THEN x ELSE IF j <= i - 1 THEN s[j] ELSE 0]
  BY <1>1 DEF Put
<1>3. \A j \in 1..i : (IF j = i THEN x ELSE IF j <= i - 1 THEN s[j] ELSE 0) = x
  OBVIOUS
<1>4. QED
  BY <1>2, <1>3

LEMMA InitInv == Init => Inv
<1> SUFFICES ASSUME Init PROVE Inv
  OBVIOUS
<1>1. TypeOK
  <2>1. data \in [Attempts -> Seq(0..attempts)] /\ \A i \in Attempts : data[i] = <<>>
    BY DEF Init
  <2>2. /\ pc = [w \in Writers |-> "idle"] /\ me = [w \in Writers |-> 0]
        /\ fd = [w \in Writers |-> 0] /\ at = [w \in Writers |-> 1] /\ attempts = 0
    BY DEF Init
  <2>3. /\ tmp = 0 /\ out = 0 /\ publisher = 0 /\ alone = {} /\ litter = FALSE
        /\ \A w \in Writers : ~Busy(w) /\ pc[w] # "write"
    BY <2>2 DEF Init, Busy
  <2>4. /\ pc \in [Writers -> {"idle", "open", "write", "replace", "finally"}]
        /\ me \in [Writers -> 0..attempts] /\ fd \in [Writers -> 0..attempts]
        /\ at \in [Writers -> Nat \ {0}] /\ attempts \in 0..MaxAttempts
    BY <2>2
  <2>5. tmp \in 0..attempts /\ out \in 0..attempts /\ publisher \in 0..attempts
    BY <2>2, <2>3
  <2>6. QED
    BY <2>1, <2>3, <2>4, <2>5 DEF TypeOK, Init
<1>2. QED
  BY <1>1 DEF Init, Inv, NumbersInv, SoleInv, OutInv, UndisturbedIsWhole, LitterInv, Sole, Busy

-----------------------------------------------------------------------------
(* One lemma for each kind of step.                                         *)

\* Begin, Fail, Finally and Kill: the files stay, nobody gets busy.
LEMMA QuietKeeps ==
  ASSUME Inv, UNCHANGED <<files, out, publisher, alone>>,
         tmp' \in {0, tmp}, litter' \in BOOLEAN,
         pc' \in [Writers -> {"idle", "open", "write", "replace", "finally"}],
         \A w \in Writers : Busy(w)' => Busy(w) /\ pc'[w] = pc[w]
  PROVE  /\ TypeOK' /\ NumbersInv' /\ SoleInv' /\ OutInv' /\ UndisturbedIsWhole'
<1>1. TypeOK'
  BY DEF Inv, TypeOK, files, Busy
<1>2. NumbersInv'
  BY DEF Inv, NumbersInv, files
<1>3. SoleInv'
  <2> SUFFICES ASSUME NEW w \in Writers, Sole(w)'
               PROVE  /\ \A v \in Writers : Busy(v)' => v = w
                      /\ tmp' \in {0, fd'[w]} /\ out' # fd'[w]
                      /\ data'[fd'[w]] = [i \in 1..(at'[w] - 1) |-> me'[w]]
                      /\ pc'[w] = "replace" => at'[w] = Pieces[me'[w]] + 1
    BY DEF SoleInv
  <2>1. Sole(w) /\ pc'[w] = pc[w]
    BY DEF Sole, files
  <2>2. QED
    BY <2>1 DEF Inv, SoleInv, files
<1>4. OutInv' /\ UndisturbedIsWhole'
  BY DEF Inv, OutInv, UndisturbedIsWhole, files
<1>5. QED
  BY <1>1, <1>2, <1>3, <1>4

LEMMA OpenKeeps ==
  ASSUME Inv, NEW w \in Writers, Open(w)
  PROVE  Inv'
<1> DEFINE n == attempts + 1
<1>1. /\ n \in Attempts /\ attempts' = n /\ attempts \in Nat
      /\ tmp' \in 1..n /\ tmp' = (IF tmp = 0 THEN n ELSE tmp)
      /\ fd' = [fd EXCEPT ![w] = tmp'] /\ me' = [me EXCEPT ![w] = n]
      /\ at' = [at EXCEPT ![w] = 1] /\ pc' = [pc EXCEPT ![w] = "write"]
      /\ data' = [data EXCEPT ![tmp'] = <<>>]
      /\ UNCHANGED <<out, publisher, litter>>
  BY DEF Inv, TypeOK, Open, Truncate, Goto, Attempts
<1>2. /\ Busy(w)' /\ pc'[w] = "write" /\ ~Busy(w)
      /\ \A v \in Writers : v # w => (Busy(v)' <=> Busy(v)) /\ pc'[v] = pc[v]
                                     /\ me'[v] = me[v] /\ fd'[v] = fd[v] /\ at'[v] = at[v]
  BY <1>1 DEF Inv, TypeOK, Busy, Open
<1>3. /\ me'[w] = n /\ fd'[w] = tmp' /\ at'[w] = 1
      /\ \A v \in Writers : me[v] \in 0..attempts
  BY <1>1 DEF Inv, TypeOK
<1>4. tmp' # out /\ tmp' # 0
  BY <1>1 DEF Inv, TypeOK, OutInv
<1>5. /\ alone' \subseteq alone \union {n}
      /\ n \in alone' => \A v \in Writers : ~Busy(v)
      /\ \A v \in Writers : Busy(v) => me[v] \notin alone'
  <2>1. CASE {v \in Writers : Busy(v)} = {}
    BY <2>1 DEF Open
  <2>2. CASE {v \in Writers : Busy(v)} # {}
    <3>1. alone' = alone \ {me[v] : v \in {u \in Writers : Busy(u)}}
      BY <2>2 DEF Open
    <3>2. n \notin alone
      BY <1>1 DEF Inv, TypeOK
    <3>3. QED
      BY <3>1, <3>2
  <2>3. QED
    BY <2>1, <2>2
<1>6. TypeOK'
  <2>1. \A i \in Attempts : data'[i] = data[i] \/ data'[i] = <<>>
    BY <1>1 DEF Inv, TypeOK
  <2>2. data' \in [Attempts -> Seq(0..n)]
    <3>1. /\ Seq(0..attempts) \subseteq Seq(0..n) /\ <<>> \in Seq(0..n)
          /\ data \in [Attempts -> Seq(0..attempts)]
      BY <1>1 DEF Inv, TypeOK
    <3>2. QED
      BY <1>1, <3>1
  <2>3. /\ tmp' \in 0..n /\ out' \in 0..n /\ publisher' \in 0..n
        /\ me' \in [Writers -> 0..n] /\ fd' \in [Writers -> 0..n]
        /\ at' \in [Writers -> Nat \ {0}]
        /\ pc' \in [Writers -> {"idle", "open", "write", "replace", "finally"}]
        /\ n \in 0..MaxAttempts /\ litter' \in BOOLEAN
    <3>1. /\ out' \in 0..n /\ publisher' \in 0..n /\ tmp' \in 0..n
          /\ n \in 0..MaxAttempts /\ litter' \in BOOLEAN
      BY <1>1 DEF Inv, TypeOK, Attempts
    <3>2. me \in [Writers -> 0..n] /\ fd \in [Writers -> 0..n] /\ n \in 0..n
      BY <1>1 DEF Inv, TypeOK
    <3>3. /\ at' \in [Writers -> Nat \ {0}]
          /\ pc' \in [Writers -> {"idle", "open", "write", "replace", "finally"}]
      BY <1>1 DEF Inv, TypeOK
    <3>4. QED
      BY <1>1, <3>1, <3>2, <3>3
  <2>4. alone' \subseteq 1..n
    BY <1>1, <1>5 DEF Inv, TypeOK
  <2>5. ASSUME NEW v \in Writers
        PROVE  /\ Busy(v)' => fd'[v] # 0 /\ me'[v] # 0
               /\ pc'[v] = "write" => at'[v] <= Pieces[me'[v]]
    <3>1. CASE v = w
      BY <1>1, <1>3, <1>4, <3>1
    <3>2. CASE v # w
      BY <1>2, <3>2 DEF Inv, TypeOK
    <3>3. QED
      BY <3>1, <3>2
  <2>6. \A i \in Attempts : data'[i] # <<>> => \E a \in Attempts : Len(data'[i]) <= Pieces[a]
    BY <2>1 DEF Inv, TypeOK
  <2>7. QED
    BY <1>1, <2>2, <2>3, <2>4, <2>5, <2>6 DEF TypeOK
<1>7. NumbersInv'
  BY <1>1, <1>2, <1>3 DEF Inv, NumbersInv
<1>8. SoleInv'
  <2> SUFFICES ASSUME NEW v \in Writers, Sole(v)'
               PROVE  /\ \A u \in Writers : Busy(u)' => u = v
                      /\ tmp' \in {0, fd'[v]} /\ out' # fd'[v]
                      /\ data'[fd'[v]] = [i \in 1..(at'[v] - 1) |-> me'[v]]
                      /\ pc'[v] = "replace" => at'[v] = Pieces[me'[v]] + 1
    BY DEF SoleInv
  <2>1. v = w
    BY <1>2, <1>5 DEF Sole
  <2>2. \A u \in Writers : Busy(u)' => u = v
    BY <1>2, <1>3, <1>5, <2>1 DEF Sole
  <2>3. data'[fd'[v]] = <<>> /\ at'[v] - 1 = 0
    <3>1. MaxAttempts \in Nat /\ n \in 1..MaxAttempts /\ tmp' \in 1..n
      BY <1>1, AtomicAssumption DEF Attempts
    <3>2. tmp' \in Attempts
      BY <3>1 DEF Attempts
    <3>3. data \in [Attempts -> Seq(0..attempts)]
      BY DEF Inv, TypeOK
    <3>4. QED
      BY <1>1, <1>3, <2>1, <3>2, <3>3
  <2>4. [i \in 1..0 |-> me'[v]] = <<>>
    OBVIOUS
  <2>5. QED
    BY <1>1, <1>2, <1>3, <1>4, <2>1, <2>2, <2>3, <2>4
<1>9. OutInv'
  <2>1. publisher' # n /\ publisher' = publisher /\ out' = out
    BY <1>1 DEF Inv, TypeOK
  <2>2. publisher' \in alone' => publisher \in alone
    BY <1>5, <2>1
  <2>3. QED
    BY <1>1, <1>2, <1>3, <1>4, <2>1, <2>2 DEF Inv, OutInv
<1>10. UndisturbedIsWhole'
  <2>1. publisher' # n /\ publisher' = publisher /\ out' = out
    BY <1>1 DEF Inv, TypeOK
  <2>2. publisher' \in alone' => publisher \in alone
    BY <1>5, <2>1
  <2>3. out # 0 => data'[out] = data[out]
    BY <1>1, <1>4 DEF Inv, TypeOK, Attempts
  <2>4. QED
    BY <2>1, <2>2, <2>3 DEF Inv, UndisturbedIsWhole
<1>11. LitterInv'
  BY <1>2 DEF LitterInv
<1>12. QED
  BY <1>6, <1>7, <1>8, <1>9, <1>10, <1>11 DEF Inv

LEMMA WriteKeeps ==
  ASSUME Inv, NEW w \in Writers, Write(w)
  PROVE  Inv'
<1>1. /\ Busy(w) /\ pc[w] = "write" /\ fd[w] \in Attempts /\ me[w] \in Attempts
      /\ at[w] \in Nat \ {0} /\ at[w] <= Pieces[me[w]] /\ Pieces[me[w]] \in Nat
      /\ data' = [data EXCEPT ![fd[w]] = Put(data[fd[w]], at[w], me[w])]
      /\ at' = [at EXCEPT ![w] = at[w] + 1]
      /\ UNCHANGED <<tmp, out, publisher, fd, me, attempts, alone, litter>>
  <2>1. /\ Busy(w) /\ pc[w] = "write"
        /\ data' = [data EXCEPT ![fd[w]] = Put(data[fd[w]], at[w], me[w])]
        /\ at' = [at EXCEPT ![w] = at[w] + 1]
        /\ UNCHANGED <<tmp, out, publisher, fd, me, attempts, alone, litter>>
    BY DEF Write, names, Busy
  <2>2. /\ fd[w] \in 0..attempts /\ me[w] \in 0..attempts /\ fd[w] # 0 /\ me[w] # 0
        /\ attempts \in 0..MaxAttempts
        /\ at[w] \in Nat \ {0} /\ at[w] <= Pieces[me[w]]
    BY <2>1 DEF Inv, TypeOK
  <2>3. fd[w] \in Attempts /\ me[w] \in Attempts
    BY <2>2 DEF Attempts
  <2>4. QED
    BY <2>1, <2>2, <2>3
<1>2. /\ pc'[w] = (IF at[w] = Pieces[me[w]] THEN "replace" ELSE "write")
      /\ pc' \in [Writers -> {"idle", "open", "write", "replace", "finally"}]
      /\ \A v \in Writers : v # w => pc'[v] = pc[v] /\ at'[v] = at[v]
      /\ at'[w] = at[w] + 1 /\ at' \in [Writers -> Nat \ {0}]
  <2>1. pc \in [Writers -> {"idle", "open", "write", "replace", "finally"}]
    BY DEF Inv, TypeOK
  <2>2. \/ at[w] = Pieces[me[w]] /\ pc' = [pc EXCEPT ![w] = "replace"]
        \/ at[w] # Pieces[me[w]] /\ pc' = pc
    BY DEF Write, Goto
  <2>3. at \in [Writers -> Nat \ {0}] /\ at[w] + 1 \in Nat \ {0}
    BY <1>1 DEF Inv, TypeOK
  <2>4. QED
    BY <1>1, <2>1, <2>2, <2>3
<1>3. \A v \in Writers : Busy(v)' <=> Busy(v)
  BY <1>1, <1>2 DEF Busy
<1>4. /\ data \in [Attempts -> Seq(0..attempts)] /\ data[fd[w]] \in Seq(0..attempts)
      /\ 0 \in 0..attempts /\ me[w] \in 0..attempts
  BY <1>1 DEF Inv, TypeOK
<1>5. /\ Put(data[fd[w]], at[w], me[w]) \in Seq(0..attempts)
      /\ Len(Put(data[fd[w]], at[w], me[w])) =
           IF at[w] > Len(data[fd[w]]) THEN at[w] ELSE Len(data[fd[w]])
  <2>1. attempts \in Nat /\ at[w] \in Nat /\ at[w] # 0
    BY <1>1 DEF Inv, TypeOK
  <2>2. QED
    BY <1>4, <2>1, PutFacts
<1>6. /\ data'[fd[w]] = Put(data[fd[w]], at[w], me[w])
      /\ \A i \in Attempts : i # fd[w] => data'[i] = data[i]
      /\ data' \in [Attempts -> Seq(0..attempts)]
  BY <1>1, <1>4, <1>5
<1>7. TypeOK'
  <2>1. \E a \in Attempts : Len(data'[fd[w]]) <= Pieces[a]
    <3>1. CASE at[w] > Len(data[fd[w]])
      BY <1>1, <1>5, <1>6, <3>1
    <3>2. CASE ~(at[w] > Len(data[fd[w]]))
      <4>1. data[fd[w]] # <<>> /\ Len(data'[fd[w]]) = Len(data[fd[w]])
        BY <1>1, <1>4, <1>5, <1>6, <3>2
      <4>2. QED
        BY <1>1, <4>1 DEF Inv, TypeOK
    <3>3. QED
      BY <3>1, <3>2
  <2>2. \A i \in Attempts : data'[i] # <<>> => \E a \in Attempts : Len(data'[i]) <= Pieces[a]
    BY <1>6, <2>1 DEF Inv, TypeOK
  <2>3. ASSUME NEW v \in Writers
        PROVE  /\ Busy(v)' => fd[v] # 0 /\ me[v] # 0
               /\ pc'[v] = "write" => at'[v] <= Pieces[me[v]]
    BY <1>1, <1>2, <1>3 DEF Inv, TypeOK
  <2>4. QED
    BY <1>1, <1>2, <1>6, <2>2, <2>3 DEF Inv, TypeOK
<1>8. NumbersInv'
  BY <1>1, <1>3 DEF Inv, NumbersInv
<1>9. SoleInv'
  <2> SUFFICES ASSUME NEW v \in Writers, Sole(v)'
               PROVE  /\ \A u \in Writers : Busy(u)' => u = v
                      /\ tmp' \in {0, fd'[v]} /\ out' # fd'[v]
                      /\ data'[fd'[v]] = [i \in 1..(at'[v] - 1) |-> me'[v]]
                      /\ pc'[v] = "replace" => at'[v] = Pieces[me'[v]] + 1
    BY DEF SoleInv
  <2>1. Sole(v)
    BY <1>1, <1>3 DEF Sole
  <2>2. v = w
    BY <1>1, <2>1 DEF Inv, SoleInv
  <2>3. /\ \A u \in Writers : Busy(u) => u = v
        /\ tmp \in {0, fd[v]} /\ out # fd[v]
        /\ data[fd[w]] = [i \in 1..(at[w] - 1) |-> me[w]]
    BY <2>1, <2>2 DEF Inv, SoleInv
  <2>4. data'[fd[w]] = [i \in 1..at[w] |-> me[w]]
    <3>1. Put([i \in 1..(at[w] - 1) |-> me[w]], at[w], me[w]) = [i \in 1..at[w] |-> me[w]]
      BY <1>1, PutNext
    <3>2. QED
      BY <1>6, <2>3, <3>1
  <2>5. at'[w] - 1 = at[w]
    BY <1>1, <1>2
  <2>6. QED
    BY <1>1, <1>2, <1>3, <2>2, <2>3, <2>4, <2>5
<1>10. OutInv'
  BY <1>1, <1>3 DEF Inv, OutInv
<1>11. UndisturbedIsWhole'
  <2>1. out # 0 /\ publisher \in alone => fd[w] # out /\ out \in Attempts
    BY <1>1 DEF Inv, OutInv, TypeOK, Attempts
  <2>2. QED
    BY <1>1, <1>6, <2>1 DEF Inv, UndisturbedIsWhole
<1>12. LitterInv'
  BY <1>1, <1>2, <1>3 DEF Inv, LitterInv, Busy
<1>13. QED
  BY <1>7, <1>8, <1>9, <1>10, <1>11, <1>12 DEF Inv

LEMMA ReplaceKeeps ==
  ASSUME Inv, NEW w \in Writers, Replace(w)
  PROVE  Inv'
<1>1. /\ Busy(w) /\ pc[w] = "replace" /\ UNCHANGED <<data, fd, at, me, attempts, alone, litter>>
      /\ pc' = [pc EXCEPT ![w] = "finally"]
      /\ me[w] # 0 /\ me[w] \in 0..attempts /\ tmp \in 0..attempts
  BY DEF Inv, TypeOK, Replace, files, Busy, Goto
<1>2. /\ ~Busy(w)' /\ pc'[w] = "finally"
      /\ pc' \in [Writers -> {"idle", "open", "write", "replace", "finally"}]
      /\ \A v \in Writers : v # w => pc'[v] = pc[v] /\ (Busy(v)' <=> Busy(v))
  BY <1>1 DEF Inv, TypeOK, Busy
<1>3. LitterInv'
  BY <1>2 DEF LitterInv
<1>4. CASE UNCHANGED names
  <2>1. TypeOK' /\ NumbersInv' /\ SoleInv' /\ OutInv' /\ UndisturbedIsWhole'
    BY <1>1, <1>2, <1>4, QuietKeeps DEF files, names, Inv, TypeOK, Busy
  <2>2. QED
    BY <1>3, <2>1 DEF Inv
<1>5. CASE tmp # 0 /\ out' = tmp /\ tmp' = 0 /\ publisher' = me[w]
  <2>1. TypeOK'
    BY <1>1, <1>2, <1>5 DEF Inv, TypeOK, Busy
  <2>2. NumbersInv'
    BY <1>1, <1>2 DEF Inv, NumbersInv
  <2>3. Sole(w) => \A v \in Writers : ~Busy(v)'
    BY <1>2 DEF Inv, SoleInv
  <2>4. SoleInv'
    <3> SUFFICES ASSUME NEW v \in Writers, Sole(v)' PROVE FALSE
      BY DEF SoleInv
    <3>1. v # w /\ Sole(v)
      BY <1>1, <1>2 DEF Sole
    <3>2. QED
      BY <1>1, <3>1 DEF Inv, SoleInv
  <2>5. publisher' \in alone' => Sole(w)
    BY <1>1, <1>5 DEF Sole
  <2>6. OutInv'
    BY <1>1, <1>5, <2>3, <2>5 DEF OutInv
  <2>7. UndisturbedIsWhole'
    <3> SUFFICES ASSUME Sole(w) PROVE data[tmp] = [i \in 1..Pieces[me[w]] |-> me[w]]
      BY <1>1, <1>5, <2>5 DEF UndisturbedIsWhole
    <3>1. /\ tmp = fd[w] /\ data[fd[w]] = [i \in 1..(at[w] - 1) |-> me[w]]
          /\ at[w] = Pieces[me[w]] + 1
      BY <1>1, <1>5 DEF Inv, SoleInv
    <3>2. Pieces[me[w]] \in Nat
      BY <1>1 DEF Attempts, Inv, TypeOK
    <3>3. at[w] - 1 = Pieces[me[w]]
      BY <3>1, <3>2
    <3>4. QED
      BY <3>1, <3>3
  <2>8. QED
    BY <1>3, <2>1, <2>2, <2>4, <2>6, <2>7 DEF Inv
<1>6. QED
  BY <1>4, <1>5 DEF Replace

LEMMA InvPreserved == Inv /\ [Next]_vars => Inv'
<1> SUFFICES ASSUME Inv, [Next]_vars PROVE Inv'
  OBVIOUS
<1>1. ASSUME NEW w \in Writers, Open(w) \/ Write(w) \/ Replace(w) PROVE Inv'
  BY <1>1, OpenKeeps, WriteKeeps, ReplaceKeeps
<1>2. ASSUME NEW w \in Writers, Begin(w) \/ Fail(w) \/ Finally(w) \/ Kill(w) PROVE Inv'
  <2>1. /\ UNCHANGED <<files, out, publisher, alone>>
        /\ tmp' \in {0, tmp} /\ litter' \in BOOLEAN
        /\ pc' \in [Writers -> {"idle", "open", "write", "replace", "finally"}]
        /\ pc'[w] \in {"idle", "open", "finally"}
        /\ \A v \in Writers : v # w => pc'[v] = pc[v]
    BY <1>2 DEF Inv, TypeOK, Begin, Fail, Finally, Kill, names, Goto
  <2>2. \A v \in Writers : Busy(v)' => Busy(v) /\ pc'[v] = pc[v]
    BY <2>1 DEF Busy
  <2>3. TypeOK' /\ NumbersInv' /\ SoleInv' /\ OutInv' /\ UndisturbedIsWhole'
    BY <2>1, <2>2, QuietKeeps
  <2>4. LitterInv'
    <3>1. CASE Begin(w)
      BY <3>1, <2>1 DEF Begin, names, Inv, LitterInv, Busy
    <3>2. CASE Fail(w)
      BY <3>2 DEF Fail, Goto, names, Inv, TypeOK, LitterInv
    <3>3. CASE Finally(w) \/ Kill(w)
      BY <3>3 DEF Finally, Kill, LitterInv
    <3>4. QED
      BY <1>2, <3>1, <3>2, <3>3
  <2>5. QED
    BY <2>3, <2>4 DEF Inv
<1>3. CASE UNCHANGED vars
  BY <1>3 DEF vars, files, names, Inv, TypeOK, NumbersInv, SoleInv, Sole, OutInv,
              UndisturbedIsWhole, LitterInv, Busy
<1>4. QED
  BY <1>1, <1>2, <1>3 DEF Next

-----------------------------------------------------------------------------
LEMMA InvHolds == Spec => []Inv
  BY InitInv, InvPreserved, PTL DEF Spec

(* Files do not grow beyond what somebody writes, however they are shared.  *)
THEOREM TypeCorrect == Spec => []TypeOK
<1>1. Inv => TypeOK
  BY DEF Inv
<1>2. QED
  BY <1>1, InvHolds, PTL

(* What a process that wrote alone has published is whole, and stays so     *)
(* though others write the same name later (core/packaging.py:71).          *)
THEOREM WholeIfUndisturbed == Spec => []UndisturbedIsWhole
<1>1. Inv => UndisturbedIsWhole
  BY DEF Inv
<1>2. QED
  BY <1>1, InvHolds, PTL

(* The `finally` blocks leave no temporary file, in whatever order they run.*)
THEOREM NoLitter == Spec => []NothingLeft
<1>1. Inv => NothingLeft
  BY DEF Inv, LitterInv, NothingLeft, Busy
<1>2. QED
  BY <1>1, InvHolds, PTL
=============================================================================
