----------------------------- MODULE AtomicFile -----------------------------
(***************************************************************************)
(* How model.tar, artifact and signature are written: to `<name>.tmp`, then*)
(* os.replace, and in the `finally` unlink. Nothing keeps two processes    *)
(* from writing one name at once, and opening a .tmp that is there already *)
(* gives the same file: both write to it, also after one has renamed it.   *)
(* A file is an inode here: `tmp` and `out` are names for inodes.          *)
(***************************************************************************)
EXTENDS Integers, Sequences

CONSTANTS
  Writers,      \* processes
  MaxAttempts,  \* bound: times that the temporary file is opened
  Pieces        \* attempt -> the writes that make its file whole

Attempts == 1..MaxAttempts
ASSUME AtomicAssumption == MaxAttempts \in Nat /\ Pieces \in [Attempts -> Nat \ {0}]

VARIABLES
  data,       \* inode -> its pieces, each the attempt that wrote it, 0 a hole
  tmp, out,   \* the inode that bears the name, 0 if there is none
  pc,         \* writer -> its step
  me,         \* writer -> the number of its attempt
  fd, at,     \* writer -> the inode it has open, the piece it writes next
  attempts,
  publisher,  \* history: the attempt that renamed last
  alone,      \* history: attempts that wrote while no other did
  litter      \* history: a process was killed and no `finally` has run since

names == <<tmp, out, publisher>>
files == <<data, fd, at, me, attempts>>
vars == <<files, names, pc, alone, litter>>

Goto(w, step) == pc' = [pc EXCEPT ![w] = step]
Busy(w) == pc[w] \in {"write", "replace"}

PutLast(s, i, piece) == Append(s, piece)
\* A write at a position: what is missing before it becomes a hole.
Put(s, i, piece) ==
  [j \in 1..(IF i > Len(s) THEN i ELSE Len(s)) |->
     IF j = i THEN piece ELSE IF j <= Len(s) THEN s[j] ELSE 0]

-----------------------------------------------------------------------------
Begin(w) ==
  /\ pc[w] = "idle"
  /\ Goto(w, "open")
  /\ UNCHANGED <<files, names, alone, litter>>

Keep(s) == s
\* Mode "w" or "wb".
Truncate(s) == <<>>

Open(w) ==
  /\ pc[w] = "open" /\ attempts < MaxAttempts
  /\ attempts' = attempts + 1
  /\ me' = [me EXCEPT ![w] = attempts']
  /\ tmp' = IF tmp = 0 THEN attempts' ELSE tmp
  /\ fd' = [fd EXCEPT ![w] = tmp']
  /\ data' = [data EXCEPT ![tmp'] = Truncate(@)]
  /\ at' = [at EXCEPT ![w] = 1]
  /\ alone' = LET others == {v \in Writers : Busy(v)}
              IN IF others = {} THEN alone \union {attempts'} ELSE alone \ {me[v] : v \in others}
  /\ Goto(w, "write")
  /\ UNCHANGED <<out, publisher, litter>>

Write(w) ==
  /\ pc[w] = "write"
  /\ data' = [data EXCEPT ![fd[w]] = Put(@, at[w], me[w])]
  /\ at' = [at EXCEPT ![w] = @ + 1]
  /\ IF at[w] = Pieces[me[w]] THEN Goto(w, "replace") ELSE UNCHANGED pc
  /\ UNCHANGED <<names, fd, me, attempts, alone, litter>>

\* os.replace renames what bears the name now.
Replace(w) ==
  /\ pc[w] = "replace"
  /\ IF tmp # 0 THEN out' = tmp /\ tmp' = 0 /\ publisher' = me[w] ELSE UNCHANGED names
  /\ Goto(w, "finally")
  /\ UNCHANGED <<files, alone, litter>>

FailAndReturn(w) ==
  /\ pc[w] = "open" \/ Busy(w)
  /\ Goto(w, "idle")
  /\ UNCHANGED <<files, names, alone, litter>>

\* The cipher, the key, the source or the disk raises.
Fail(w) ==
  /\ pc[w] = "open" \/ Busy(w)
  /\ Goto(w, "finally")
  /\ UNCHANGED <<files, names, alone, litter>>

\* unlink(missing_ok=True): whatever bears the name now.
Finally(w) ==
  /\ pc[w] = "finally"
  /\ tmp' = 0 /\ litter' = FALSE
  /\ Goto(w, "idle")
  /\ UNCHANGED <<files, out, publisher, alone>>

Kill(w) ==
  /\ pc[w] # "idle"
  /\ Goto(w, "idle") /\ litter' = TRUE
  /\ UNCHANGED <<files, names, alone>>

Init ==
  /\ data = [i \in Attempts |-> <<>>]
  /\ tmp = 0 /\ out = 0 /\ publisher = 0
  /\ pc = [w \in Writers |-> "idle"]
  /\ me = [w \in Writers |-> 0] /\ fd = me /\ at = [w \in Writers |-> 1]
  /\ attempts = 0 /\ alone = {} /\ litter = FALSE

Next == \E w \in Writers :
  Begin(w) \/ Open(w) \/ Write(w) \/ Replace(w) \/ Fail(w) \/ Finally(w) \/ Kill(w)

Spec == Init /\ [][Next]_vars

-----------------------------------------------------------------------------
(* A busy writer has a file open. No file gets longer than the longest that *)
(* anybody writes, whoever shares it and whatever it was before.            *)
TypeOK ==
  /\ data \in [Attempts -> Seq(0..attempts)]
  /\ tmp \in 0..attempts /\ out \in 0..attempts /\ publisher \in 0..attempts
  /\ pc \in [Writers -> {"idle", "open", "write", "replace", "finally"}]
  /\ me \in [Writers -> 0..attempts] /\ fd \in [Writers -> 0..attempts]
  /\ at \in [Writers -> Nat \ {0}]
  /\ attempts \in 0..MaxAttempts /\ alone \subseteq 1..attempts /\ litter \in BOOLEAN
  /\ \A w \in Writers : /\ Busy(w) => fd[w] # 0 /\ me[w] # 0
                        /\ pc[w] = "write" => at[w] <= Pieces[me[w]]
  /\ \A i \in Attempts : data[i] # <<>> => \E a \in Attempts : Len(data[i]) <= Pieces[a]

(* core/packaging.py:71: "a partial file never sits at `out_path`". This    *)
(* holds of what a process has published that wrote alone, whatever earlier *)
(* ones have left, and for as long as it stays published, whatever later    *)
(* ones do: it is whole and all its own.                                    *)
UndisturbedIsWhole ==
  out # 0 /\ publisher \in alone => data[out] = [i \in 1..Pieces[publisher] |-> publisher]

(* No temporary file, of plaintext perhaps, is left when no process is at   *)
(* work, but by a kill that no later command has cleaned up after; and this *)
(* though processes rename and remove each other's.                         *)
NothingLeft ==
  (\A w \in Writers : pc[w] \in {"idle", "open"}) /\ tmp # 0 => litter
=============================================================================
