----------------------- MODULE ChunkedArtifact_proofs -----------------------
(***************************************************************************)
(* What ChunkedArtifact guarantees for any number of artifacts, any chunk  *)
(* sizes and plaintext lengths, and any alteration of the stored file.     *)
(***************************************************************************)
EXTENDS ChunkedArtifact, SequenceTheorems, TLAPS

USE SizesAssumption, ChunkAssumption, FormatAssumption, BoundAssumption

EncActions(a) == BeginStream(a) \/ SealChunk(a) \/ SealWhole(a)

(***************************************************************************)
(* The chunk a streaming encryption holds is the next one of its plaintext *)
(* and its size is within limits.                                          *)
(***************************************************************************)
Streaming(a) ==
  /\ a \notin OneShot
  /\ ChunkSize[a] > 0
  /\ chunk[a] = ReadPlain(a, encCtr[a] * ChunkSize[a])
  /\ chunk[a].lo <= size[a]

(***************************************************************************)
(* Where in the plaintext a sealed box stands follows from its artifact    *)
(* and its counter, and it is flagged last exactly at the end.             *)
(***************************************************************************)
WellSealed(b) ==
  IF b.art \in OneShot
    THEN /\ b.ctr = 0 /\ b.last
         /\ b.lo = 0 /\ b.hi = size[b.art]
    ELSE /\ b.lo = b.ctr * ChunkSize[b.art]
         /\ b.hi = Least(b.lo + ChunkSize[b.art], size[b.art])
         /\ b.last <=> b.hi = size[b.art]

EncInv ==
  /\ \A a \in Artifacts : /\ encPc[a] = "idle" => encCtr[a] = 0
                          /\ encPc[a] = "sealing" => Streaming(a)
  /\ \A b \in sealed : WellSealed(b)

(***************************************************************************)
(* The released boxes were sealed for the decoded header under the         *)
(* counters 0, 1, 2, ...; only the final one is flagged last, and it is    *)
(* there exactly when the reader returned.                                 *)
(***************************************************************************)
DecInv ==
  /\ pc \in {"none", "stored"} => out = <<>> /\ ctr = 0
  /\ pc = "opening" => /\ hdr \notin OneShot
                       /\ Len(out) = ctr
                       /\ \A k \in 1..Len(out) : ~out[k].last
  /\ \A k \in 1..Len(out) :
       /\ out[k] \in sealed
       /\ out[k].art = hdr
       /\ out[k].ctr = k - 1
       /\ k < Len(out) => ~out[k].last
  /\ pc = "ok" => out # <<>> /\ out[Len(out)].last

(***************************************************************************)
(* Where the cells are.  Chunk n of a version 2 artifact starts after      *)
(* Offset(h, n) cells, and so does the one box of version 1, for n = 0.    *)
(***************************************************************************)
Cell == (Headers \union Box \union {Junk}) \X Nat

Offset(h, n) == HeaderSize + n * FullChunk(h)

HeaderIn(h, s) == HeaderSize <= Len(s) /\ \A i \in 1..HeaderSize : s[i] = <<h, i>>

BoxIn(b, s) ==
  /\ Offset(b.art, b.ctr) + BoxSize(b) <= Len(s)
  /\ \A i \in 1..BoxSize(b) : s[Offset(b.art, b.ctr) + i] = <<b, i>>

\* The first n chunks of a are sealed.
Filled(a, n) == \A k \in 0..(n - 1) : \E b \in sealed : b.art = a /\ b.ctr = k /\ ~b.last

(***************************************************************************)
(* What an encryption has written is its header and its boxes, each at its *)
(* place, and when it is done, nothing else.                               *)
(***************************************************************************)
Kept(b) ==
  /\ encPc[b.art] # "idle" /\ (b.last => encPc[b.art] = "done")
  /\ b.lo <= b.hi
  /\ HeaderIn(b.art, written[b.art]) /\ BoxIn(b, written[b.art])

Stands(a) ==
  /\ encPc[a] \in {"sealing", "done"} =>
       HeaderIn(a, written[a]) /\ (a \notin OneShot => ChunkSize[a] >= MinChunk)
  /\ encPc[a] = "sealing" => Len(written[a]) = Offset(a, encCtr[a]) /\ Filled(a, encCtr[a])
  /\ encPc[a] = "done" => \E z \in sealed : /\ z.art = a /\ z.last
                                           /\ Len(written[a]) = Offset(a, z.ctr) + BoxSize(z)
                                           /\ Filled(a, z.ctr)

WrittenInv ==
  /\ written \in [Artifacts -> Seq(Cell)]
  /\ \A b \in sealed : Kept(b)
  /\ \A a \in Artifacts : Stands(a)

(***************************************************************************)
(* A reader has compared everything before the pending chunk with what was *)
(* written under the header that the file carries.                         *)
(***************************************************************************)
Reading ==
  /\ hdr \in Headers \ OneShot /\ ChunkSize[hdr] >= MinChunk
  /\ HeaderIn(hdr, file)
  /\ Offset(hdr, ctr) < Len(file)
  /\ pos = Least(Offset(hdr, ctr) + FullChunk(hdr), Len(file))
  /\ pending = SubSeq(file, Offset(hdr, ctr) + 1, pos)
  /\ \A j \in (HeaderSize + 1)..Offset(hdr, ctr) : file[j] = written[hdr][j]

FileInv ==
  /\ file \in Seq(Cell)
  /\ pc # "none" => \A a \in Artifacts : encPc[a] \in {"done", "failed"}
  /\ pc = "opening" => Reading
  /\ OnlyIntactDecrypts /\ IntactDecrypts

-----------------------------------------------------------------------------
\* A read never passes the end of the plaintext and is empty exactly there.
LEMMA ReadPlainFacts ==
  ASSUME TypeOK, NEW a \in Artifacts, NEW at \in Nat
  PROVE  /\ ReadPlain(a, at) \in Interval
         /\ ReadPlain(a, at).lo = at
         /\ ReadPlain(a, at).hi <= size[a]
         /\ at <= size[a] /\ ChunkSize[a] > 0 =>
              (at >= ReadPlain(a, at).hi <=> at = size[a])
<1>1. size[a] \in Nat /\ ChunkSize[a] \in Nat
  BY DEF TypeOK, Headers
<1>2. QED
  BY <1>1 DEF ReadPlain, Least, Interval

LEMMA EncTypeOK ==
  ASSUME TypeOK, NEW a \in Artifacts, EncActions(a)
  PROVE  TypeOK'
<1>1. CASE BeginStream(a)
  <2>1. ReadPlain(a, 0) \in Interval
    BY ReadPlainFacts
  <2>2. CASE ChunkSize[a] < MinChunk
    BY <1>1, <2>2 DEF BeginStream, TypeOK, decVars
  <2>3. CASE ~(ChunkSize[a] < MinChunk)
    BY <1>1, <2>1, <2>3 DEF BeginStream, TypeOK, decVars
  <2>4. QED
    BY <2>2, <2>3
<1>2. CASE SealChunk(a)
  <2> DEFINE following == ReadPlain(a, chunk[a].hi)
             last == following.lo >= following.hi
             box == Sealing(a, encCtr[a], last, chunk[a])
  <2>1. chunk[a] \in Interval /\ encCtr[a] \in 0..MaxChunks
    BY DEF TypeOK
  <2>2. following \in Interval
    BY <2>1, ReadPlainFacts DEF Interval
  <2>3. CASE Exhausted(encCtr[a])
    BY <1>2, <2>3 DEF SealChunk, TypeOK, decVars
  <2>4. CASE ~Exhausted(encCtr[a])
    <3>1. box \in Box
      BY <2>1, <2>4 DEF Box, Sealing, Exhausted, Interval
    <3>2. sealed' = sealed \union {box}
      BY <1>2, <2>4 DEF SealChunk
    <3>3. encCtr' \in [Artifacts -> 0..MaxChunks]
      <4>1. encCtr[a] + 1 \in 0..MaxChunks
        BY <2>1, <2>4 DEF Exhausted
      <4>2. encCtr' = encCtr \/ encCtr' = [encCtr EXCEPT ![a] = encCtr[a] + 1]
        BY <1>2, <2>4 DEF SealChunk, NextCounter
      <4>3. QED
        BY <4>1, <4>2 DEF TypeOK
    <3>4. encPc' \in [Artifacts -> {"idle", "sealing", "done", "failed"}]
      BY <1>2, <2>4 DEF SealChunk, TypeOK
    <3>5. chunk' \in [Artifacts -> Interval]
      BY <1>2, <2>2, <2>4 DEF SealChunk, TypeOK
    <3>6. QED
      <4>1. UNCHANGED <<size, file, faults, decVars>>
        BY <1>2 DEF SealChunk
      <4>2. QED
        BY <3>1, <3>2, <3>3, <3>4, <3>5, <4>1 DEF TypeOK, decVars
  <2>5. QED
    BY <2>3, <2>4
<1>3. CASE SealWhole(a)
  <2>1. Sealing(a, 0, TRUE, [lo |-> 0, hi |-> size[a]]) \in Box
    <3>1. size[a] \in Nat
      BY DEF TypeOK
    <3>2. 0 \in 0..(MaxChunks - 1)
      OBVIOUS
    <3>3. QED
      BY <3>1, <3>2 DEF Sealing, Box
  <2>2. sealed' \subseteq Box
    BY <1>3, <2>1 DEF SealWhole, TypeOK
  <2>3. encPc' \in [Artifacts -> {"idle", "sealing", "done", "failed"}]
    BY <1>3 DEF SealWhole, TypeOK
  <2>4. UNCHANGED <<size, chunk, encCtr, file, faults, decVars>>
    BY <1>3 DEF SealWhole
  <2>5. QED
    BY <2>2, <2>3, <2>4 DEF TypeOK, decVars
<1>4. QED
  BY <1>1, <1>2, <1>3 DEF EncActions

LEMMA OtherTypeOK ==
  ASSUME TypeOK, Keep \/ Decrypt
  PROVE  TypeOK'
<1>1. CASE \E a \in Artifacts : Store(a)
  BY <1>1 DEF Store, TypeOK, encVars
<1>2. ASSUME NEW cells, Alter(cells)
      PROVE  TypeOK'
  BY <1>2 DEF Alter, TypeOK, encVars, decVars
<1>3. CASE RejectHeader
  BY <1>3 DEF RejectHeader, TypeOK, encVars
<1>4. ASSUME NEW h \in Headers, OpenWhole(h)
      PROVE  TypeOK'
  <2>1. out' \in Seq(Box)
    <3>1. \A b \in Box : <<b>> \in Seq(Box)
      OBVIOUS
    <3>2. QED
      BY <1>4, <3>1 DEF OpenWhole, Opened, TypeOK
  <2>2. pc' \in {"error", "ok"} /\ hdr' = h
    BY <1>4 DEF OpenWhole
  <2>3. UNCHANGED <<size, encVars, faults, ctr>>
    BY <1>4 DEF OpenWhole
  <2>4. QED
    BY <2>1, <2>2, <2>3 DEF TypeOK, encVars
<1>5. ASSUME NEW h \in Headers, BeginDecrypt(h)
      PROVE  TypeOK'
  BY <1>5 DEF BeginDecrypt, TypeOK, encVars
<1>6. CASE RejectChunk
  BY <1>6 DEF RejectChunk, TypeOK, encVars
<1>7. CASE ReleaseChunk
  <2>1. out' \in Seq(Box)
    BY <1>7 DEF ReleaseChunk, Opening, Opened, TypeOK
  <2>2. pc' \in {"opening", "ok"}
    BY <1>7 DEF ReleaseChunk
  <2>3. ctr' \in 0..MaxChunks
    <3>1. ctr < MaxChunks
      BY <1>7 DEF ReleaseChunk, Opening, Opened, TypeOK, Box
    <3>2. QED
      BY <1>7, <3>1 DEF ReleaseChunk, TypeOK
  <2>4. UNCHANGED <<size, encVars, file, faults, hdr>>
    BY <1>7 DEF ReleaseChunk
  <2>5. QED
    BY <2>1, <2>2, <2>3, <2>4 DEF TypeOK, encVars
<1>8. QED
  BY <1>1, <1>2, <1>3, <1>4, <1>5, <1>6, <1>7
     DEF Keep, Decrypt, Truncate, Corrupt, Splice, Exchange, SwapHeader

(***************************************************************************)
(* Counters fit their field and releases are sealed boxes, whatever the    *)
(* store does (TypeOK).                                                    *)
(***************************************************************************)
THEOREM TypeCorrect == Spec => []TypeOK
<1>1. Init => TypeOK
  BY DEF Init, TypeOK, Interval
<1>2. TypeOK /\ [Next]_vars => TypeOK'
  <2>1. CASE UNCHANGED vars
    BY <2>1 DEF vars, encVars, decVars, TypeOK
  <2>2. QED
    BY <2>1, EncTypeOK, OtherTypeOK DEF Next, Encrypt, EncActions
<1>3. QED
  BY <1>1, <1>2, PTL DEF Spec

-----------------------------------------------------------------------------
(* The encryptions.                                                         *)

LEMMA BeginStreamEncInv ==
  ASSUME TypeOK, EncInv, NEW a \in Artifacts, BeginStream(a)
  PROVE  EncInv'
<1>1. UNCHANGED <<size, encCtr, sealed>>
  BY DEF BeginStream
<1>2. \A b \in sealed : WellSealed(b)'
  BY <1>1 DEF EncInv, WellSealed, Least
<1>3. ASSUME NEW x \in Artifacts, encPc'[x] = "idle"
      PROVE  encCtr'[x] = 0
  BY <1>1, <1>3 DEF BeginStream, EncInv, TypeOK
<1>4. ASSUME NEW x \in Artifacts, encPc'[x] = "sealing"
      PROVE  Streaming(x)'
  <2>1. CASE x = a
    <3>1. ~(ChunkSize[a] < MinChunk)
      BY <1>4, <2>1 DEF BeginStream, TypeOK
    <3>2. ChunkSize[a] \in Nat /\ size[a] \in Nat
      BY DEF TypeOK, Headers
    <3>3. chunk'[a] = ReadPlain(a, 0)
      BY <3>1 DEF BeginStream, TypeOK
    <3>4. encCtr[a] * ChunkSize[a] = 0
      <4>1. encCtr[a] = 0
        BY DEF BeginStream, EncInv
      <4>2. QED
        BY <3>2, <4>1
    <3>5. ReadPlain(a, 0)' = ReadPlain(a, 0)
      BY <1>1 DEF ReadPlain, Least
    <3>6. a \notin OneShot
      BY DEF BeginStream
    <3>7. ReadPlain(a, 0).lo = 0
      BY ReadPlainFacts
    <3>8. QED
      BY <1>1, <2>1, <3>1, <3>2, <3>3, <3>4, <3>5, <3>6, <3>7 DEF Streaming, ReadPlain, Least
  <2>2. CASE x # a
    <3>1. encPc[x] = "sealing" /\ chunk'[x] = chunk[x]
      BY <1>4, <2>2 DEF BeginStream, TypeOK
    <3>2. Streaming(x)
      BY <3>1 DEF EncInv
    <3>3. QED
      BY <1>1, <3>1, <3>2 DEF Streaming, ReadPlain, Least
  <2>3. QED
    BY <2>1, <2>2
<1>5. QED
  BY <1>1, <1>2, <1>3, <1>4 DEF EncInv

LEMMA SealChunkEncInv ==
  ASSUME TypeOK, EncInv, NEW a \in Artifacts, SealChunk(a)
  PROVE  EncInv'
<1> DEFINE following == ReadPlain(a, chunk[a].hi)
           last == following.lo >= following.hi
           box == Sealing(a, encCtr[a], last, chunk[a])
           start == encCtr[a] * ChunkSize[a]
<1>1. ChunkSize[a] \in Nat /\ size[a] \in Nat /\ encCtr[a] \in Nat
  <2>1. ChunkSize[a] \in Nat
    BY DEF Headers
  <2>2. size[a] \in Nat
    BY DEF TypeOK
  <2>3. encCtr[a] \in Nat
    BY DEF TypeOK
  <2>4. QED
    BY <2>1, <2>2, <2>3
<1>2. Streaming(a)
  <2>1. encPc[a] = "sealing"
    BY DEF SealChunk
  <2>2. QED
    BY <2>1 DEF EncInv
<1>3. /\ chunk[a].lo = start
      /\ chunk[a].hi = Least(start + ChunkSize[a], size[a])
      /\ start <= size[a] /\ ChunkSize[a] > 0
  BY <1>2 DEF Streaming, ReadPlain
<1>4. start \in Nat
  BY <1>1
<1>5. chunk[a].hi \in Nat /\ chunk[a].hi <= size[a]
  BY <1>1, <1>3, <1>4 DEF Least
<1>6. last <=> chunk[a].hi = size[a]
  <2> HIDE DEF start
  <2>1. following.lo = chunk[a].hi
    BY <1>5, ReadPlainFacts
  <2>2. chunk[a].hi >= following.hi <=> chunk[a].hi = size[a]
    BY <1>3, <1>5, ReadPlainFacts
  <2>3. QED
    BY <2>1, <2>2
<1>7. UNCHANGED size
  BY DEF SealChunk
<1>8. \A b \in sealed : WellSealed(b)'
  BY <1>7 DEF EncInv, WellSealed, Least
<1>9. ASSUME NEW x \in Artifacts, x # a
      PROVE  /\ encPc'[x] = "idle" => encCtr'[x] = 0
             /\ encPc'[x] = "sealing" => Streaming(x)'
  <2>1. encPc'[x] = encPc[x] /\ encCtr'[x] = encCtr[x] /\ chunk'[x] = chunk[x]
    BY <1>9 DEF SealChunk, TypeOK
  <2>2. QED
    BY <1>7, <2>1 DEF EncInv, Streaming, ReadPlain, Least
<1>newbox. ASSUME NEW b, b = box
        PROVE  WellSealed(b)'
  <2>1. a \notin OneShot
    BY <1>2 DEF Streaming
  <2>2. b.art = a /\ b.ctr = encCtr[a] /\ b.last = last
    BY <1>newbox DEF Sealing
  <2>3. b.lo = chunk[a].lo /\ b.hi = chunk[a].hi
    BY <1>newbox DEF Sealing
  <2>4. QED
    BY <1>3, <1>6, <1>7, <2>1, <2>2, <2>3 DEF WellSealed, Least
<1>10. CASE Exhausted(encCtr[a])
  <2>1. encPc'[a] = "failed" /\ sealed' = sealed
    BY <1>10 DEF SealChunk, TypeOK
  <2>2. QED
    BY <1>8, <1>9, <2>1 DEF EncInv
<1>11. CASE ~Exhausted(encCtr[a]) /\ last
  <2>1. encPc'[a] = "done" /\ sealed' = sealed \union {box}
    BY <1>11 DEF SealChunk, TypeOK
  <2>3. QED
    BY <1>8, <1>9, <1>newbox, <2>1 DEF EncInv
<1>12. CASE ~Exhausted(encCtr[a]) /\ ~last
  <2>1. /\ encPc'[a] = "sealing"
        /\ sealed' = sealed \union {box}
        /\ chunk'[a] = following
        /\ encCtr'[a] = encCtr[a] + 1
    BY <1>12 DEF SealChunk, TypeOK, NextCounter
  <2>3. chunk[a].hi = start + ChunkSize[a]
    BY <1>1, <1>3, <1>4, <1>6, <1>12 DEF Least
  <2>4. (encCtr[a] + 1) * ChunkSize[a] = start + ChunkSize[a]
    BY <1>1
  <2>5. Streaming(a)'
    <3> HIDE DEF start
    <3>1. following = ReadPlain(a, (encCtr[a] + 1) * ChunkSize[a])
      BY <2>3, <2>4
    <3>2. following.lo <= size[a]
      BY <1>5, ReadPlainFacts
    <3>3. QED
      BY <1>2, <1>7, <2>1, <3>1, <3>2 DEF Streaming, ReadPlain, Least
  <2>6. QED
    BY <1>8, <1>9, <1>newbox, <2>1, <2>5 DEF EncInv
<1>13. QED
  BY <1>10, <1>11, <1>12

LEMMA SealWholeEncInv ==
  ASSUME TypeOK, EncInv, NEW a \in Artifacts, SealWhole(a)
  PROVE  EncInv'
<1> DEFINE box == Sealing(a, 0, TRUE, [lo |-> 0, hi |-> size[a]])
<1>1. UNCHANGED <<size, encCtr, chunk>> /\ sealed' = sealed \union {box}
  BY DEF SealWhole
<1>2. \A b \in sealed : WellSealed(b)'
  BY <1>1 DEF EncInv, WellSealed, Least
<1>3. ASSUME NEW b, b = box
      PROVE  WellSealed(b)'
  <2>1. a \in OneShot
    BY DEF SealWhole
  <2>2. b.art = a /\ b.ctr = 0 /\ b.last /\ b.lo = 0 /\ b.hi = size[a]
    BY <1>3 DEF Sealing
  <2>3. QED
    BY <1>1, <2>1, <2>2 DEF WellSealed
<1>4. \A x \in Artifacts : encPc'[x] \in {"idle", "sealing"} => encPc'[x] = encPc[x]
  BY DEF SealWhole, TypeOK
<1>5. \A x \in Artifacts : Streaming(x) => Streaming(x)'
  BY <1>1 DEF Streaming, ReadPlain, Least
<1>6. QED
  BY <1>1, <1>2, <1>3, <1>4, <1>5 DEF EncInv

(***************************************************************************)
(* Neither the store nor a reader touches what the encryptions keep.       *)
(***************************************************************************)
LEMMA OthersKeepEncryption ==
  ASSUME Keep \/ Decrypt \/ UNCHANGED vars
  PROVE  UNCHANGED <<size, encPc, chunk, encCtr, written, sealed>>
<1>1. ASSUME NEW cells, Alter(cells)
      PROVE  UNCHANGED <<size, encPc, chunk, encCtr, written, sealed>>
  BY <1>1 DEF Alter, encVars
<1>2. CASE Keep
  BY <1>1, <1>2 DEF Keep, Store, Truncate, Corrupt, Splice, Exchange, SwapHeader, encVars
<1>3. CASE Decrypt
  BY <1>3 DEF Decrypt, RejectHeader, RejectChunk, ReleaseChunk,
              OpenWhole, BeginDecrypt, encVars
<1>4. CASE UNCHANGED vars
  BY <1>4 DEF vars, encVars
<1>5. QED
  BY <1>2, <1>3, <1>4

LEMMA EncInvStep ==
  ASSUME TypeOK, EncInv, [Next]_vars
  PROVE  EncInv'
<1>1. CASE Keep \/ Decrypt \/ UNCHANGED vars
  BY <1>1, OthersKeepEncryption DEF EncInv, Streaming, WellSealed, ReadPlain, Least
<1>2. ASSUME NEW a \in Artifacts, EncActions(a)
      PROVE  EncInv'
  BY <1>2, BeginStreamEncInv, SealChunkEncInv, SealWholeEncInv DEF EncActions
<1>3. QED
  BY <1>1, <1>2 DEF Next, Encrypt, EncActions

-----------------------------------------------------------------------------
(* The reader.                                                              *)

LEMMA EncryptDecInv ==
  ASSUME TypeOK, DecInv, NEW a \in Artifacts, EncActions(a)
  PROVE  DecInv'
<1>1. UNCHANGED <<pc, hdr, ctr, out>>
  BY DEF EncActions, BeginStream, SealChunk, SealWhole, decVars
<1>2. sealed \subseteq sealed'
  BY DEF EncActions, BeginStream, SealChunk, SealWhole
<1>3. QED
  BY <1>1, <1>2 DEF DecInv

LEMMA ReleaseChunkDecInv ==
  ASSUME TypeOK, DecInv, ReleaseChunk
  PROVE  DecInv'
<1>1. /\ pc = "opening" /\ hdr \notin OneShot
      /\ Len(out) = ctr
      /\ \A k \in 1..Len(out) : ~out[k].last
  BY DEF ReleaseChunk, DecInv
<1>2. PICK b \in Opening : out' = Append(out, b)
  BY DEF ReleaseChunk
<1>3. b \in sealed /\ b.art = hdr /\ b.ctr = ctr /\ b.last = AtEnd
  BY <1>2 DEF Opening, Opened
<1>4. UNCHANGED <<hdr, sealed>>
  BY DEF ReleaseChunk, encVars
<1>5. /\ Len(out') = Len(out) + 1
      /\ \A k \in 1..Len(out) : out'[k] = out[k]
      /\ out'[Len(out) + 1] = b
  BY <1>2 DEF TypeOK
<1>6. ASSUME NEW k \in 1..Len(out')
      PROVE  /\ out'[k] \in sealed'
             /\ out'[k].art = hdr'
             /\ out'[k].ctr = k - 1
             /\ k < Len(out') => ~out'[k].last
  <2>1. CASE k = Len(out) + 1
    BY <1>1, <1>3, <1>4, <1>5, <2>1 DEF TypeOK
  <2>2. CASE k # Len(out) + 1
    <3>1. k \in 1..Len(out)
      BY <1>5, <2>2 DEF TypeOK
    <3>2. QED
      BY <1>1, <1>4, <1>5, <3>1 DEF DecInv
  <2>3. QED
    BY <2>1, <2>2
<1>7. CASE AtEnd
  <2>1. pc' = "ok"
    BY <1>7 DEF ReleaseChunk
  <2>2. out' # <<>> /\ out'[Len(out')].last
    <3>1. b.last
      BY <1>3, <1>7
    <3>2. out'[Len(out')] = b
      BY <1>5 DEF TypeOK
    <3>3. out' # <<>>
      BY <1>2 DEF TypeOK
    <3>4. QED
      BY <3>1, <3>2, <3>3
  <2>3. QED
    BY <1>6, <2>1, <2>2 DEF DecInv
<1>8. CASE ~AtEnd
  <2>1. pc' = "opening" /\ ctr' = ctr + 1
    BY <1>1, <1>8 DEF ReleaseChunk
  <2>2. \A k \in 1..Len(out') : ~out'[k].last
    BY <1>1, <1>3, <1>5, <1>8 DEF TypeOK
  <2>3. QED
    BY <1>1, <1>4, <1>5, <1>6, <2>1, <2>2 DEF DecInv
<1>9. QED
  BY <1>7, <1>8

LEMMA DecInvStep ==
  ASSUME TypeOK, DecInv, [Next]_vars
  PROVE  DecInv'
<1>1. CASE Keep
  <2>1. ASSUME NEW cells, Alter(cells)
        PROVE  UNCHANGED <<pc, hdr, ctr, out, sealed>>
    BY <2>1 DEF Alter, encVars, decVars
  <2>2. CASE \E a \in Artifacts : Store(a)
    BY <2>2 DEF Store, DecInv, encVars
  <2>3. CASE UNCHANGED <<pc, hdr, ctr, out, sealed>>
    BY <2>3 DEF DecInv
  <2>4. QED
    BY <1>1, <2>1, <2>2, <2>3 DEF Keep, Truncate, Corrupt, Splice, Exchange, SwapHeader
<1>2. CASE RejectHeader
  BY <1>2 DEF RejectHeader, DecInv, encVars
<1>3. CASE RejectChunk
  BY <1>3 DEF RejectChunk, DecInv, encVars
<1>4. CASE ReleaseChunk
  BY <1>4, ReleaseChunkDecInv
<1>5. ASSUME NEW h \in Headers, OpenWhole(h)
      PROVE  DecInv'
  <2> DEFINE boxes == Opened(SubSeq(file, HeaderSize + 1, Len(file)), h, 0, TRUE)
  <2>1. out = <<>> /\ hdr' = h /\ sealed' = sealed
    BY <1>5 DEF OpenWhole, DecInv, encVars
  <2>2. CASE boxes = {}
    <3>1. pc' = "error" /\ out' = out
      BY <1>5, <2>2 DEF OpenWhole
    <3>2. QED
      BY <2>1, <3>1 DEF DecInv
  <2>3. CASE boxes # {}
    <3>1. PICK b \in boxes : out' = <<b>>
      BY <1>5, <2>3 DEF OpenWhole
    <3>2. b \in sealed /\ b.art = h /\ b.ctr = 0 /\ b.last
      BY <3>1 DEF Opened
    <3>3. pc' = "ok"
      BY <1>5, <2>3 DEF OpenWhole
    <3>4. QED
      BY <2>1, <3>1, <3>2, <3>3 DEF DecInv
  <2>4. QED
    BY <2>2, <2>3
<1>6. ASSUME NEW h \in Headers, BeginDecrypt(h)
      PROVE  DecInv'
  BY <1>6 DEF BeginDecrypt, DecInv, encVars
<1>7. CASE UNCHANGED vars
  BY <1>7 DEF vars, encVars, decVars, DecInv
<1>8. QED
  BY <1>1, <1>2, <1>3, <1>4, <1>5, <1>6, <1>7, EncryptDecInv
     DEF Next, Encrypt, Decrypt, EncActions

-----------------------------------------------------------------------------
(* The cells of a file.                                                     *)

LEMMA OffsetFacts ==
  ASSUME NEW h \in Headers, NEW n \in Nat
  PROVE  /\ FullChunk(h) \in Nat \ {0}
         /\ Offset(h, n) \in Nat /\ Offset(h, n) >= HeaderSize
         /\ Offset(h, 0) = HeaderSize
         /\ Offset(h, n + 1) = Offset(h, n) + FullChunk(h)
         /\ \A m \in Nat : n < m => Offset(h, n) + FullChunk(h) <= Offset(h, m)
<1>1. FullChunk(h) \in Nat \ {0}
  BY DEF FullChunk
<1> DEFINE F == FullChunk(h)
<1> HIDE DEF F
<1>2. n * F \in Nat /\ 0 * F = 0 /\ (n + 1) * F = n * F + F
  BY <1>1 DEF F
<1>3. ASSUME NEW m \in Nat, n < m PROVE n * F + F <= m * F
  <2>1. PICK d \in Nat : m = (n + 1) + d
    <3>1. m - (n + 1) \in Nat /\ m = (n + 1) + (m - (n + 1))
      BY <1>3
    <3> QED BY <3>1
  <2>2. d * F \in Nat /\ ((n + 1) + d) * F = (n + 1) * F + d * F
    BY <1>1 DEF F
  <2> QED BY <1>1, <1>2, <2>1, <2>2 DEF F
<1>4. \A m \in Nat : m * F \in Nat
  BY <1>1 DEF F
<1> QED BY <1>1, <1>2, <1>3, <1>4 DEF Offset, F

LEMMA HeaderCellsFacts ==
  ASSUME NEW h \in Headers
  PROVE  /\ HeaderCells(h) \in Seq(Cell) /\ Len(HeaderCells(h)) = HeaderSize
         /\ \A i \in 1..HeaderSize : HeaderCells(h)[i] = <<h, i>>
<1>1. HeaderCells(h) \in [1..HeaderSize -> Cell]
  BY DEF HeaderCells, Cell
<1>2. HeaderCells(h) \in Seq(Cell)
  BY <1>1, SeqDef
<1> QED BY <1>1, <1>2 DEF HeaderCells

LEMMA BoxCellsFacts ==
  ASSUME NEW b \in Box, b.lo <= b.hi
  PROVE  /\ BoxSize(b) \in Nat \ {0}
         /\ BoxCells(b) \in Seq(Cell) /\ Len(BoxCells(b)) = BoxSize(b)
         /\ \A i \in 1..BoxSize(b) : BoxCells(b)[i] = <<b, i>>
<1>1. BoxSize(b) \in Nat \ {0}
  BY DEF BoxSize, Box
<1>2. BoxCells(b) \in [1..BoxSize(b) -> Cell]
  BY <1>1 DEF BoxCells, Cell
<1>3. BoxCells(b) \in Seq(Cell)
  BY <1>1, <1>2, SeqDef
<1> QED BY <1>1, <1>2, <1>3 DEF BoxCells

\* All chunks but the last are full.
LEMMA SizeOfBox ==
  ASSUME TypeOK, EncInv, NEW b \in sealed, b.art \notin OneShot, b.lo <= b.hi
  PROVE  /\ BoxSize(b) <= FullChunk(b.art)
         /\ ~b.last => BoxSize(b) = FullChunk(b.art)
<1>1. b \in Box /\ WellSealed(b)
  BY DEF TypeOK, EncInv
<1>2. b.art \in Artifacts /\ b.lo \in Nat /\ b.hi \in Nat
  BY <1>1 DEF Box
<1>3. ChunkSize[b.art] \in Nat /\ size[b.art] \in Nat
  BY <1>2 DEF Headers, TypeOK
<1> QED BY <1>1, <1>2, <1>3 DEF WellSealed, Least, BoxSize, FullChunk

\* What is in a sequence stays there when more is appended to it.
LEMMA StaysIn ==
  ASSUME NEW s \in Seq(Cell), NEW t \in Seq(Cell)
  PROVE  /\ \A h \in Headers : HeaderIn(h, s) => HeaderIn(h, s \o t)
         /\ \A b \in Box : b.lo <= b.hi /\ BoxIn(b, s) => BoxIn(b, s \o t)
<1>1. /\ Len(s \o t) = Len(s) + Len(t) /\ Len(s) \in Nat /\ Len(t) \in Nat
      /\ \A i \in 1..Len(s) : (s \o t)[i] = s[i]
  BY ConcatProperties
<1>2. ASSUME NEW h \in Headers, HeaderIn(h, s) PROVE HeaderIn(h, s \o t)
  BY <1>1, <1>2 DEF HeaderIn
<1>3. ASSUME NEW b \in Box, b.lo <= b.hi, BoxIn(b, s) PROVE BoxIn(b, s \o t)
  <2>1. Offset(b.art, b.ctr) \in Nat
    BY OffsetFacts DEF Box, Headers
  <2>2. BoxSize(b) \in Nat
    BY <1>3, BoxCellsFacts
  <2> QED BY <1>1, <1>3, <2>1, <2>2 DEF BoxIn
<1> QED BY <1>2, <1>3

-----------------------------------------------------------------------------
(* What the encryptions write.                                              *)

LEMMA KeptFrame ==
  ASSUME NEW b, Kept(b), encPc'[b.art] = encPc[b.art], written'[b.art] = written[b.art]
  PROVE  Kept(b)'
BY DEF Kept, HeaderIn, BoxIn

LEMMA StandsFrame ==
  ASSUME NEW a, Stands(a), sealed \subseteq sealed',
         encPc'[a] = encPc[a], written'[a] = written[a], encCtr'[a] = encCtr[a]
  PROVE  Stands(a)'
<1>1. \A n : Filled(a, n) => Filled(a, n)'
  BY DEF Filled
<1> QED BY <1>1 DEF Stands, HeaderIn

LEMMA BeginStreamWritten ==
  ASSUME TypeOK, EncInv, WrittenInv, NEW a \in Artifacts, BeginStream(a)
  PROVE  WrittenInv'
<1>1. UNCHANGED <<encCtr, sealed>> /\ encPc[a] = "idle" /\ a \notin OneShot
  BY DEF BeginStream
<1>2. HeaderCells(a) \in Seq(Cell)
  BY HeaderCellsFacts DEF Headers
<1>3. written' \in [Artifacts -> Seq(Cell)]
  BY <1>2 DEF BeginStream, WrittenInv
<1>4. \A x \in Artifacts \ {a} : encPc'[x] = encPc[x] /\ written'[x] = written[x]
  BY DEF BeginStream, TypeOK, WrittenInv
<1>5. ASSUME NEW b \in sealed PROVE Kept(b)'
  <2>1. Kept(b) /\ b.art \in Artifacts
    BY DEF WrittenInv, TypeOK, Box
  <2>2. b.art # a
    BY <1>1, <2>1 DEF Kept
  <2> QED BY <1>4, <2>1, <2>2, KeptFrame
<1>6. Stands(a)'
  <2>1. CASE ChunkSize[a] < MinChunk
    BY <2>1 DEF BeginStream, TypeOK, Stands
  <2>2. CASE ~(ChunkSize[a] < MinChunk)
    <3>1. encPc'[a] = "sealing" /\ written'[a] = HeaderCells(a)
      BY <2>2 DEF BeginStream, TypeOK, WrittenInv
    <3>2. ChunkSize[a] >= MinChunk
      BY <2>2 DEF Headers
    <3>3. HeaderIn(a, HeaderCells(a)) /\ Len(HeaderCells(a)) = HeaderSize
      BY HeaderCellsFacts DEF HeaderIn, Headers
    <3>4. encCtr'[a] = 0
      BY <1>1 DEF EncInv
    <3>5. Offset(a, 0) = HeaderSize
      BY OffsetFacts DEF Headers
    <3>6. Filled(a, 0)'
      BY DEF Filled
    <3> QED BY <1>1, <3>1, <3>2, <3>3, <3>4, <3>5, <3>6 DEF Stands, HeaderIn
  <2> QED BY <2>1, <2>2
<1>7. \A x \in Artifacts : Stands(x)'
  BY <1>1, <1>4, <1>6, StandsFrame DEF WrittenInv
<1> QED BY <1>1, <1>3, <1>5, <1>7 DEF WrittenInv

\* A box is appended where it belongs.
LEMMA BoxAppended ==
  ASSUME NEW s \in Seq(Cell), NEW b \in Box, b.lo <= b.hi,
         HeaderIn(b.art, s), Len(s) = Offset(b.art, b.ctr)
  PROVE  LET t == s \o BoxCells(b)
         IN /\ t \in Seq(Cell) /\ Len(t) = Offset(b.art, b.ctr) + BoxSize(b)
            /\ HeaderIn(b.art, t) /\ BoxIn(b, t)
            /\ \A c \in Box : c.lo <= c.hi /\ BoxIn(c, s) => BoxIn(c, t)
<1> DEFINE t == s \o BoxCells(b)
           o == Offset(b.art, b.ctr)
<1>1. /\ BoxCells(b) \in Seq(Cell) /\ Len(BoxCells(b)) = BoxSize(b) /\ BoxSize(b) \in Nat
      /\ \A i \in 1..BoxSize(b) : BoxCells(b)[i] = <<b, i>>
  BY BoxCellsFacts
<1>2. b.art \in Headers /\ o \in Nat
  BY OffsetFacts DEF Box, Headers
<1>3. /\ t \in Seq(Cell) /\ Len(t) = o + BoxSize(b)
      /\ \A i \in 1..(o + BoxSize(b)) : t[i] = IF i <= o THEN s[i] ELSE BoxCells(b)[i - o]
  <2>1. /\ t \in Seq(Cell) /\ Len(t) = Len(s) + Len(BoxCells(b))
        /\ \A i \in 1..(Len(s) + Len(BoxCells(b))) :
             t[i] = IF i <= Len(s) THEN s[i] ELSE BoxCells(b)[i - Len(s)]
    BY <1>1, ConcatProperties
  <2> QED BY <1>1, <2>1
<1>4. ASSUME NEW i \in 1..BoxSize(b) PROVE t[o + i] = <<b, i>>
  <2>1. o + i \in 1..(o + BoxSize(b)) /\ ~(o + i <= o) /\ (o + i) - o = i
    BY <1>1, <1>2
  <2> QED BY <1>1, <1>3, <2>1
<1>5. BoxIn(b, t)
  BY <1>1, <1>2, <1>3, <1>4 DEF BoxIn
<1> QED BY <1>1, <1>2, <1>3, <1>5, StaysIn

LEMMA MoreFilled ==
  ASSUME NEW a, NEW n \in Nat, Filled(a, n), sealed \subseteq sealed'
  PROVE  /\ Filled(a, n)'
         /\ \A b \in sealed' : b.art = a /\ b.ctr = n /\ ~b.last => Filled(a, n + 1)'
<1>1. Filled(a, n)'
  BY DEF Filled
<1>2. ASSUME NEW b \in sealed', b.art = a, b.ctr = n, ~b.last PROVE Filled(a, n + 1)'
  <2>1. ASSUME NEW k \in 0..((n + 1) - 1)
        PROVE  \E c \in sealed' : c.art = a /\ c.ctr = k /\ ~c.last
    <3>1. CASE k = n
      BY <1>2, <3>1
    <3>2. CASE k # n
      <4>1. k \in 0..(n - 1)
        BY <2>1, <3>2
      <4> QED BY <4>1 DEF Filled
    <3> QED BY <3>1, <3>2
  <2> QED BY <2>1 DEF Filled
<1> QED BY <1>1, <1>2

\* The chunk that waits to be sealed: full unless it is the last one.
LEMMA WaitingChunk ==
  ASSUME TypeOK, EncInv, NEW a \in Artifacts, encPc[a] = "sealing"
  PROVE  /\ a \notin OneShot
         /\ chunk[a].lo \in Nat /\ chunk[a].hi \in Nat /\ chunk[a].lo <= chunk[a].hi
         /\ \/ ReadPlain(a, chunk[a].hi).lo >= ReadPlain(a, chunk[a].hi).hi
            \/ chunk[a].hi - chunk[a].lo = ChunkSize[a]
<1> DEFINE start == encCtr[a] * ChunkSize[a]
<1>1. ChunkSize[a] \in Nat /\ size[a] \in Nat /\ encCtr[a] \in Nat
  <2>1. ChunkSize[a] \in Nat
    BY DEF Headers
  <2>2. size[a] \in Nat
    BY DEF TypeOK
  <2>3. encCtr[a] \in Nat
    BY DEF TypeOK
  <2> QED BY <2>1, <2>2, <2>3
<1>2. Streaming(a)
  BY DEF EncInv
<1>3. /\ chunk[a].lo = start
      /\ chunk[a].hi = Least(start + ChunkSize[a], size[a])
      /\ start <= size[a] /\ ChunkSize[a] > 0
  BY <1>2 DEF Streaming, ReadPlain
<1>4. start \in Nat
  BY <1>1
<1> HIDE DEF start
<1>5. chunk[a].hi \in Nat /\ chunk[a].hi <= size[a] /\ chunk[a].lo <= chunk[a].hi
  BY <1>1, <1>3, <1>4 DEF Least
<1>6. chunk[a].hi # size[a] => chunk[a].hi - chunk[a].lo = ChunkSize[a]
  BY <1>1, <1>3, <1>4 DEF Least
<1>7. ReadPlain(a, chunk[a].hi).lo = chunk[a].hi
  BY <1>5, ReadPlainFacts
<1>8. chunk[a].hi = size[a] => chunk[a].hi >= ReadPlain(a, chunk[a].hi).hi
  BY <1>3, <1>5, ReadPlainFacts
<1> QED BY <1>2, <1>3, <1>4, <1>5, <1>6, <1>7, <1>8 DEF Streaming

LEMMA SealChunkWritten ==
  ASSUME TypeOK, EncInv, WrittenInv, NEW a \in Artifacts, SealChunk(a)
  PROVE  WrittenInv'
<1> DEFINE following == ReadPlain(a, chunk[a].hi)
           last == following.lo >= following.hi
           box == Sealing(a, encCtr[a], last, chunk[a])
<1>1. encPc[a] = "sealing" /\ Stands(a)
  BY DEF SealChunk, WrittenInv
<1>2. /\ HeaderIn(a, written[a]) /\ Len(written[a]) = Offset(a, encCtr[a])
      /\ Filled(a, encCtr[a]) /\ encCtr[a] \in Nat
      /\ a \notin OneShot /\ ChunkSize[a] >= MinChunk
  BY <1>1, WaitingChunk DEF Stands, TypeOK
<1>3. \A x \in Artifacts \ {a} : /\ encPc'[x] = encPc[x] /\ written'[x] = written[x]
                                 /\ encCtr'[x] = encCtr[x]
  BY DEF SealChunk, TypeOK, WrittenInv
<1>4. sealed \subseteq sealed'
  BY DEF SealChunk
<1>5. ASSUME NEW b \in sealed, b.art # a PROVE Kept(b)'
  <2>1. Kept(b) /\ b.art \in Artifacts
    BY DEF WrittenInv, TypeOK, Box
  <2> QED BY <1>3, <1>5, <2>1, KeptFrame
<1>6. ASSUME NEW b \in sealed, b.art = a PROVE Kept(b) /\ ~b.last
  BY <1>1, <1>6 DEF WrittenInv, Kept
<1>7. ASSUME NEW x \in Artifacts, x # a PROVE Stands(x)'
  BY <1>3, <1>4, <1>7, StandsFrame DEF WrittenInv
<1>8. CASE Exhausted(encCtr[a])
  <2>1. encPc'[a] = "failed" /\ UNCHANGED <<written, sealed>>
    BY <1>8 DEF SealChunk, TypeOK
  <2>2. \A b \in sealed : Kept(b)'
    BY <1>5, <1>6, <2>1 DEF Kept, HeaderIn, BoxIn
  <2>3. Stands(a)'
    BY <2>1 DEF Stands
  <2> QED BY <1>7, <2>1, <2>2, <2>3 DEF WrittenInv
<1>9. CASE ~Exhausted(encCtr[a])
  <2>1. /\ box.art = a /\ box.ctr = encCtr[a] /\ box.last = last
        /\ box.lo = chunk[a].lo /\ box.hi = chunk[a].hi
    BY DEF Sealing
  <2>2. box \in Box /\ box.lo <= box.hi
    <3>1. encCtr[a] \in 0..(MaxChunks - 1)
      BY <1>2, <1>9 DEF Exhausted
    <3> QED BY <1>1, <3>1, WaitingChunk DEF Box, Sealing
  <2>3. /\ sealed' = sealed \union {box}
        /\ written' = [written EXCEPT ![a] = @ \o BoxCells(box)]
    BY <1>9 DEF SealChunk
  <2>4. ~last => BoxSize(box) = FullChunk(a)
    BY <1>1, <2>1, WaitingChunk DEF BoxSize, FullChunk
  <2> HIDE DEF box
  <2>5. /\ written' \in [Artifacts -> Seq(Cell)]
        /\ HeaderIn(a, written'[a]) /\ BoxIn(box, written'[a])
        /\ Len(written'[a]) = Offset(a, encCtr[a]) + BoxSize(box)
        /\ \A c \in sealed : c.art = a => HeaderIn(a, written'[a]) /\ BoxIn(c, written'[a])
    <3>1. written[a] \in Seq(Cell) /\ written'[a] = written[a] \o BoxCells(box)
      BY <2>3 DEF WrittenInv
    <3>2. /\ written'[a] \in Seq(Cell)
          /\ Len(written'[a]) = Offset(a, encCtr[a]) + BoxSize(box)
          /\ HeaderIn(a, written'[a]) /\ BoxIn(box, written'[a])
          /\ \A c \in Box : c.lo <= c.hi /\ BoxIn(c, written[a]) => BoxIn(c, written'[a])
      BY <1>2, <2>1, <2>2, <3>1, BoxAppended
    <3>3. \A c \in sealed : c.art = a => c \in Box /\ c.lo <= c.hi /\ BoxIn(c, written[a])
      BY <1>6 DEF TypeOK, Kept
    <3> QED BY <2>3, <3>2, <3>3 DEF WrittenInv
  <2>6. encPc'[a] = IF last THEN "done" ELSE "sealing"
    BY <1>9 DEF SealChunk, TypeOK
  <2>7. ASSUME NEW b \in sealed' PROVE Kept(b)'
    <3>1. CASE b = box
      BY <2>1, <2>2, <2>5, <2>6, <3>1 DEF Kept, HeaderIn, BoxIn
    <3>2. CASE b \in sealed /\ b.art = a
      BY <1>6, <2>5, <2>6, <3>2 DEF Kept, HeaderIn, BoxIn
    <3> QED BY <1>5, <2>3, <3>1, <3>2
  <2>8. Stands(a)'
    <3>1. PICK n \in Nat : n = encCtr[a]
      BY <1>2
    <3>2. Filled(a, n)' /\ (~last => Filled(a, n + 1)')
      BY <1>2, <1>4, <2>1, <2>3, <3>1, MoreFilled
    <3>3. CASE last
      <4>1. box \in sealed' /\ box.art = a /\ box.last
        BY <2>1, <2>3, <3>3
      <4>2. box.ctr = n /\ Len(written'[a]) = Offset(a, n) + BoxSize(box)
        BY <2>1, <2>5, <3>1
      <4> QED BY <1>2, <2>5, <2>6, <3>2, <3>3, <4>1, <4>2 DEF Stands, HeaderIn
    <3>4. CASE ~last
      <4>1. encCtr'[a] = n + 1
        BY <1>9, <3>1, <3>4 DEF SealChunk, NextCounter, TypeOK
      <4>2. Len(written'[a]) = Offset(a, n + 1)
        BY <2>4, <2>5, <3>1, <3>4, OffsetFacts DEF Headers
      <4> QED BY <1>2, <2>5, <2>6, <3>2, <3>4, <4>1, <4>2 DEF Stands, HeaderIn
    <3> QED BY <3>3, <3>4
  <2> QED BY <1>7, <2>5, <2>7, <2>8 DEF WrittenInv
<1> QED BY <1>8, <1>9

LEMMA SealWholeWritten ==
  ASSUME TypeOK, WrittenInv, NEW a \in Artifacts, SealWhole(a)
  PROVE  WrittenInv'
<1> DEFINE box == Sealing(a, 0, TRUE, [lo |-> 0, hi |-> size[a]])
<1>1. encPc[a] = "idle" /\ a \in OneShot /\ encPc' = [encPc EXCEPT ![a] = "done"]
  BY DEF SealWhole
<1>2. /\ sealed' = sealed \union {box} /\ UNCHANGED encCtr
      /\ written' = [written EXCEPT ![a] = HeaderCells(a) \o BoxCells(box)]
  BY DEF SealWhole
<1>3. /\ box.art = a /\ box.ctr = 0 /\ box.last
      /\ box.lo = 0 /\ box.hi = size[a]
  BY DEF Sealing
<1>4. box \in Box /\ box.lo <= box.hi
  <2>1. size[a] \in Nat
    BY DEF TypeOK
  <2>2. 0 \in 0..(MaxChunks - 1)
    OBVIOUS
  <2> QED BY <2>1, <2>2 DEF Sealing, Box
<1> HIDE DEF box
<1>5. /\ HeaderCells(a) \in Seq(Cell) /\ HeaderIn(a, HeaderCells(a))
      /\ Len(HeaderCells(a)) = Offset(a, 0)
  <2>1. a \in Headers
    BY DEF Headers
  <2>2. Offset(a, 0) = HeaderSize
    BY <2>1, OffsetFacts
  <2> QED BY <2>1, <2>2, HeaderCellsFacts DEF HeaderIn
<1>6. written'[a] = HeaderCells(a) \o BoxCells(box)
  BY <1>2 DEF WrittenInv
<1>7. /\ written'[a] \in Seq(Cell) /\ Len(written'[a]) = Offset(a, 0) + BoxSize(box)
      /\ HeaderIn(a, written'[a]) /\ BoxIn(box, written'[a])
  BY <1>3, <1>4, <1>5, <1>6, BoxAppended
<1>8. \A x \in Artifacts \ {a} : encPc'[x] = encPc[x] /\ written'[x] = written[x]
  BY <1>1, <1>2 DEF TypeOK, WrittenInv
<1>9. ASSUME NEW b \in sealed' PROVE Kept(b)'
  <2>1. CASE b = box
    BY <1>1, <1>3, <1>4, <1>7, <2>1 DEF Kept, HeaderIn, BoxIn, TypeOK
  <2>2. CASE b \in sealed
    <3>1. Kept(b) /\ b.art \in Artifacts
      BY <2>2 DEF WrittenInv, TypeOK, Box
    <3>2. b.art # a
      BY <1>1, <3>1 DEF Kept
    <3> QED BY <1>8, <3>1, <3>2, KeptFrame
  <2> QED BY <1>2, <1>9, <2>1, <2>2
<1>10. Stands(a)'
  <2>1. Filled(a, 0)'
    BY DEF Filled
  <2>2. encPc'[a] = "done" /\ box \in sealed'
    BY <1>1, <1>2 DEF TypeOK
  <2> QED BY <1>1, <1>3, <1>7, <2>1, <2>2 DEF Stands, HeaderIn
<1>11. \A x \in Artifacts : Stands(x)'
  BY <1>2, <1>8, <1>10, StandsFrame DEF WrittenInv
<1>12. written' \in [Artifacts -> Seq(Cell)]
  BY <1>2, <1>6, <1>7 DEF WrittenInv
<1> QED BY <1>9, <1>11, <1>12 DEF WrittenInv

LEMMA WrittenStep ==
  ASSUME TypeOK, EncInv, WrittenInv, [Next]_vars
  PROVE  WrittenInv'
<1>1. ASSUME NEW a \in Artifacts, EncActions(a) PROVE WrittenInv'
  BY <1>1, BeginStreamWritten, SealChunkWritten, SealWholeWritten DEF EncActions
<1>2. ASSUME UNCHANGED encVars PROVE WrittenInv'
  <2>1. UNCHANGED <<encPc, encCtr, written, sealed>>
    BY <1>2 DEF encVars
  <2>2. \A b \in sealed : Kept(b)'
    BY <2>1, KeptFrame DEF WrittenInv
  <2>3. \A a \in Artifacts : Stands(a)'
    BY <2>1, StandsFrame DEF WrittenInv
  <2> QED BY <2>1, <2>2, <2>3 DEF WrittenInv
<1>3. Keep \/ Decrypt \/ UNCHANGED vars => UNCHANGED encVars
  BY OthersKeepEncryption DEF vars, encVars
<1> QED BY <1>1, <1>2, <1>3 DEF Next, Encrypt, EncActions

-----------------------------------------------------------------------------
(* What a reader finds in the stored file.                                  *)

\* A stretch of a sequence, cell by cell.
LEMMA Stretch ==
  ASSUME NEW s \in Seq(Cell), NEW m \in Nat, NEW n \in Nat, n <= Len(s)
  PROVE  /\ SubSeq(s, m + 1, n) \in Seq(Cell)
         /\ Len(SubSeq(s, m + 1, n)) = IF m < n THEN n - m ELSE 0
         /\ \A i \in 1..(n - m) : SubSeq(s, m + 1, n)[i] = s[m + i]
         /\ SubSeq(s, m + 1, n) = <<>> <=> n <= m
<1>1. Len(s) \in Nat /\ \A i \in 1..Len(s) : s[i] \in Cell
  BY LenProperties, ElementOfSeq
<1>2. \A i \in (m + 1)..n : s[i] \in Cell
  BY <1>1
<1>3. /\ SubSeq(s, m + 1, n) \in Seq(Cell)
      /\ Len(SubSeq(s, m + 1, n)) = IF m + 1 <= n THEN n - (m + 1) + 1 ELSE 0
      /\ \A i \in 1..(n - (m + 1) + 1) : SubSeq(s, m + 1, n)[i] = s[(m + 1) + i - 1]
  BY <1>2, SubSeqProperties
<1>4. Len(SubSeq(s, m + 1, n)) = IF m < n THEN n - m ELSE 0
  BY <1>3
<1>5. \A i \in 1..(n - m) : SubSeq(s, m + 1, n)[i] = s[m + i]
  BY <1>3
<1>6. SubSeq(s, m + 1, n) = <<>> <=> n <= m
  BY <1>3, <1>4, EmptySeq
<1> QED BY <1>3, <1>4, <1>5, <1>6

\* A box in its place is the whole stretch it takes up.
LEMMA BoxThere ==
  ASSUME NEW s \in Seq(Cell), NEW b \in Box, b.lo <= b.hi, BoxIn(b, s)
  PROVE  SubSeq(s, Offset(b.art, b.ctr) + 1, Offset(b.art, b.ctr) + BoxSize(b)) = BoxCells(b)
<1> DEFINE o == Offset(b.art, b.ctr)
           t == SubSeq(s, o + 1, o + BoxSize(b))
<1>1. o \in Nat
  BY OffsetFacts DEF Box, Headers
<1>2. /\ BoxCells(b) \in Seq(Cell) /\ Len(BoxCells(b)) = BoxSize(b) /\ BoxSize(b) \in Nat \ {0}
      /\ \A i \in 1..BoxSize(b) : BoxCells(b)[i] = <<b, i>>
  BY BoxCellsFacts
<1>3. o + BoxSize(b) \in Nat /\ o + BoxSize(b) <= Len(s)
  BY <1>1, <1>2 DEF BoxIn
<1>4. /\ t \in Seq(Cell) /\ Len(t) = BoxSize(b)
      /\ \A i \in 1..BoxSize(b) : t[i] = s[o + i]
  <2> HIDE DEF o
  <2>1. (o + BoxSize(b)) - o = BoxSize(b) /\ o < o + BoxSize(b)
    BY <1>1, <1>2
  <2> QED BY <1>1, <1>3, <2>1, Stretch
<1>5. \A i \in 1..BoxSize(b) : t[i] = BoxCells(b)[i]
  BY <1>2, <1>4 DEF BoxIn
<1> QED BY <1>2, <1>4, <1>5, SeqEqual

\* A file carries the header of at most one artifact, which is what is decoded.
LEMMA HeadFacts ==
  ASSUME file \in Seq(Cell)
  PROVE  /\ FileHead = SubSeq(file, 1, Least(HeaderMax, Len(file)))
         /\ FileHead \in Seq(Cell) /\ Len(FileHead) = Least(HeaderMax, Len(file))
         /\ \A h \in Headers : h \in Decoded <=>
              HeaderIn(h, file) /\ (h \in OneShot \/ ChunkSize[h] >= MinChunk)
         /\ \A g, h : HeaderIn(g, file) /\ HeaderIn(h, file) => g = h
<1>1. Len(file) \in Nat
  BY LenProperties
<1> DEFINE n == Least(HeaderMax, Len(file))
<1>2. n \in Nat /\ n <= Len(file) /\ n <= HeaderMax /\ (HeaderSize <= Len(file) <=> HeaderSize <= n)
  BY <1>1 DEF Least
<1>3. FileHead = SubSeq(file, 1, n)
  <2>1. ~(HeaderMax < 0) /\ 0 + HeaderMax = HeaderMax /\ 0 + 1 = 1
    OBVIOUS
  <2> QED BY <2>1 DEF FileHead, ReadFile
<1> HIDE DEF n
<1>4. /\ FileHead \in Seq(Cell) /\ Len(FileHead) = n
      /\ \A i \in 1..n : FileHead[i] = file[i]
  <2>1. /\ SubSeq(file, 0 + 1, n) \in Seq(Cell)
        /\ Len(SubSeq(file, 0 + 1, n)) = IF 0 < n THEN n - 0 ELSE 0
        /\ \A i \in 1..(n - 0) : SubSeq(file, 0 + 1, n)[i] = file[0 + i]
    BY <1>2, Stretch
  <2> QED BY <1>2, <1>3, <2>1
<1>5. ASSUME NEW h \in Headers, HeaderSize <= n
      PROVE  SubSeq(FileHead, 1, HeaderSize) = HeaderCells(h) <=> HeaderIn(h, file)
  <2> DEFINE t == SubSeq(FileHead, 1, HeaderSize)
  <2>1. /\ t \in Seq(Cell) /\ Len(t) = HeaderSize
        /\ \A i \in 1..HeaderSize : t[i] = file[i]
    <3>1. /\ SubSeq(FileHead, 0 + 1, HeaderSize) \in Seq(Cell)
          /\ Len(SubSeq(FileHead, 0 + 1, HeaderSize)) = IF 0 < HeaderSize THEN HeaderSize - 0 ELSE 0
          /\ \A i \in 1..(HeaderSize - 0) :
               SubSeq(FileHead, 0 + 1, HeaderSize)[i] = FileHead[0 + i]
      BY <1>4, <1>5, Stretch
    <3> QED BY <1>2, <1>4, <1>5, <3>1
  <2>2. /\ HeaderCells(h) \in Seq(Cell) /\ Len(HeaderCells(h)) = HeaderSize
        /\ \A i \in 1..HeaderSize : HeaderCells(h)[i] = <<h, i>>
    BY HeaderCellsFacts
  <2> HIDE DEF t
  <2>3. ASSUME t = HeaderCells(h) PROVE HeaderIn(h, file)
    BY <1>2, <1>5, <2>1, <2>2, <2>3 DEF HeaderIn
  <2>4. ASSUME HeaderIn(h, file) PROVE t = HeaderCells(h)
    <3>1. \A i \in 1..HeaderSize : t[i] = HeaderCells(h)[i]
      BY <2>1, <2>2, <2>4 DEF HeaderIn
    <3> QED BY <2>1, <2>2, <3>1, SeqEqual
  <2> QED BY <2>3, <2>4 DEF t
<1>6. ASSUME NEW h \in Headers
      PROVE  h \in Decoded <=> HeaderIn(h, file) /\ (h \in OneShot \/ ChunkSize[h] >= MinChunk)
  BY <1>2, <1>4, <1>5 DEF Decoded, HeaderIn
<1>7. ASSUME NEW g, NEW h, HeaderIn(g, file), HeaderIn(h, file) PROVE g = h
  <2>1. file[1] = <<g, 1>> /\ file[1] = <<h, 1>>
    BY <1>7 DEF HeaderIn
  <2> QED BY <2>1
<1> QED BY <1>3, <1>4, <1>6, <1>7 DEF n

\* The rest of the header read and the first read of the loop join without a gap.
LEMMA FirstChunkIs ==
  ASSUME file \in Seq(Cell), NEW h \in Decoded \ OneShot
  PROVE  /\ HeaderSize <= Len(file)
         /\ FirstChunk(h) =
              SubSeq(file, HeaderSize + 1, Least(HeaderSize + FullChunk(h), Len(file)))
<1>1. Len(file) \in Nat
  BY LenProperties
<1>2. h \in Headers /\ HeaderIn(h, file) /\ ChunkSize[h] >= MinChunk /\ HeaderSize <= Len(file)
  BY HeadFacts DEF Decoded, HeaderIn
<1> DEFINE n == Least(HeaderMax, Len(file))
           m == Least(HeaderSize + FullChunk(h), Len(file))
<1>3. n \in HeaderSize..Len(file) /\ n - HeaderSize <= MinChunk
  BY <1>1, <1>2 DEF Least
<1>4. FullChunk(h) \in Nat /\ FullChunk(h) > MinChunk
  BY <1>2 DEF FullChunk
<1>5. n + (FullChunk(h) - (n - HeaderSize)) = HeaderSize + FullChunk(h)
      /\ FullChunk(h) - (n - HeaderSize) \in Nat
  BY <1>3, <1>4
<1>6. m \in n..Len(file)
  <2> HIDE DEF n
  <2>1. n <= HeaderSize + FullChunk(h)
    BY <1>3, <1>4
  <2> QED BY <1>1, <1>3, <1>4, <2>1 DEF Least
<1>7. Len(FileHead) = n /\ FileHead = SubSeq(file, 1, n)
  BY HeadFacts
<1>8. ReadFile(Len(FileHead), FirstRead(h)) = SubSeq(file, n + 1, m)
  <2> HIDE DEF n
  <2>1. FirstRead(h) = FullChunk(h) - (n - HeaderSize)
    BY <1>7 DEF FirstRead
  <2>2. ~(FirstRead(h) < 0)
    BY <1>5, <2>1
  <2>3. Len(FileHead) + FirstRead(h) = HeaderSize + FullChunk(h)
    BY <1>5, <1>7, <2>1
  <2> QED BY <1>7, <2>2, <2>3 DEF ReadFile
<1>9. SubSeq(FileHead, HeaderSize + 1, Len(FileHead)) = SubSeq(file, HeaderSize + 1, n)
  <2> HIDE DEF n
  <2>1. CASE n = HeaderSize
    BY <1>7, <2>1, SubSeqEmpty
  <2>2. CASE n > HeaderSize
    <3>1. /\ 1 \in 1..Len(file) /\ n \in 1..Len(file)
          /\ HeaderSize + 1 \in 1..(n - 1 + 1) /\ n \in 1..(n - 1 + 1)
      BY <1>1, <1>3, <2>2
    <3>2. SubSeq(SubSeq(file, 1, n), HeaderSize + 1, n) = SubSeq(file, 1 + (HeaderSize + 1) - 1, 1 + n - 1)
      BY <3>1, SubSeqOfSubSeq
    <3> QED BY <1>7, <3>1, <3>2
  <2> QED BY <1>3, <2>1, <2>2
<1>10. SubSeq(file, HeaderSize + 1, n) \o SubSeq(file, n + 1, m) = SubSeq(file, HeaderSize + 1, m)
  <2> HIDE DEF n, m
  <2>1. /\ HeaderSize + 1 \in 1..(Len(file) + 1) /\ n \in ((HeaderSize + 1) - 1)..Len(file)
    BY <1>1, <1>2, <1>3
  <2> QED BY <1>6, <2>1, ConcatAdjacentSubSeq
<1> QED BY <1>2, <1>8, <1>9, <1>10 DEF FirstChunk


\* A nonce seals one box.
LEMMA OneBox ==
  ASSUME TypeOK, EncInv
  PROVE  SealedOnce
<1> SUFFICES ASSUME NEW b \in sealed, NEW c \in sealed, b.art = c.art, b.ctr = c.ctr
             PROVE  b = c
  BY DEF SealedOnce
<1>1. b \in Box /\ c \in Box
  BY DEF TypeOK
<1>2. WellSealed(b) /\ WellSealed(c)
  BY DEF EncInv
<1>3. b.lo = c.lo /\ b.hi = c.hi
  BY <1>2 DEF WellSealed
<1>4. b.last = c.last
  BY <1>1, <1>2, <1>3 DEF WellSealed, Box
<1> QED BY <1>1, <1>3, <1>4 DEF Box

\* An artifact ends with the box that is flagged last.
LEMMA LastBox ==
  ASSUME TypeOK, EncInv, WrittenInv, NEW b \in sealed, b.last
  PROVE  /\ encPc[b.art] = "done"
         /\ Len(written[b.art]) = Offset(b.art, b.ctr) + BoxSize(b)
<1> DEFINE a == b.art
<1>1. b \in Box /\ a \in Artifacts /\ Kept(b) /\ WellSealed(b)
  BY DEF TypeOK, Box, WrittenInv, EncInv
<1>2. encPc[a] = "done" /\ Stands(a)
  BY <1>1 DEF Kept, WrittenInv
<1>3. PICK z \in sealed : /\ z.art = a /\ z.last
                          /\ Len(written[a]) = Offset(a, z.ctr) + BoxSize(z)
                          /\ Filled(a, z.ctr)
  BY <1>2 DEF Stands
<1>4. z \in Box /\ Kept(z) /\ WellSealed(z)
  BY DEF TypeOK, WrittenInv, EncInv
<1>5. z.ctr \in Nat /\ b.ctr \in Nat /\ a \in Headers
  BY <1>1, <1>4 DEF Box, Headers
<1>6. ~(b.ctr < z.ctr)
  <2> SUFFICES ASSUME b.ctr < z.ctr PROVE FALSE
    OBVIOUS
  <2>1. b.ctr \in 0..(z.ctr - 1)
    BY <1>5
  <2>2. PICK c \in sealed : c.art = a /\ c.ctr = b.ctr /\ ~c.last
    BY <1>3, <2>1 DEF Filled
  <2> QED BY <2>2, OneBox DEF SealedOnce
<1>7. ~(z.ctr < b.ctr)
  <2> SUFFICES ASSUME z.ctr < b.ctr PROVE FALSE
    OBVIOUS
  <2>1. a \notin OneShot
    BY <1>1, <1>3, <1>4, <1>5 DEF WellSealed
  <2>2. BoxSize(z) <= FullChunk(a) /\ BoxSize(z) \in Nat /\ BoxSize(b) \in Nat \ {0}
    BY <1>1, <1>3, <1>4, <2>1, SizeOfBox, BoxCellsFacts DEF Kept
  <2>3. Offset(a, z.ctr) + FullChunk(a) <= Offset(a, b.ctr)
    BY <1>5, OffsetFacts
  <2>4. Offset(a, b.ctr) + BoxSize(b) <= Len(written[a])
    BY <1>1 DEF Kept, BoxIn
  <2>5. Offset(a, z.ctr) \in Nat /\ Offset(a, b.ctr) \in Nat /\ FullChunk(a) \in Nat
    BY <1>5, OffsetFacts
  <2> QED BY <1>3, <2>2, <2>3, <2>4, <2>5
<1>8. z = b
  <2>1. z.ctr = b.ctr
    BY <1>5, <1>6, <1>7
  <2> QED BY <1>3, <2>1, OneBox DEF SealedOnce
<1> QED BY <1>2, <1>3, <1>8

\* A file that ends with an artifact's last box, and agrees with the artifact
\* up to there, is the artifact.
LEMMA SameFile ==
  ASSUME TypeOK, EncInv, WrittenInv, file \in Seq(Cell), NEW b \in sealed, b.last,
         HeaderIn(b.art, file), Offset(b.art, b.ctr) <= Len(file),
         SubSeq(file, Offset(b.art, b.ctr) + 1, Len(file)) = BoxCells(b),
         \A j \in (HeaderSize + 1)..Offset(b.art, b.ctr) : file[j] = written[b.art][j]
  PROVE  encPc[b.art] = "done" /\ file = written[b.art]
<1> DEFINE a == b.art
           o == Offset(a, b.ctr)
<1>1. b \in Box /\ a \in Artifacts /\ b.ctr \in Nat /\ a \in Headers /\ Kept(b)
  BY DEF TypeOK, Box, WrittenInv, Headers
<1>2. encPc[a] = "done" /\ Len(written[a]) = o + BoxSize(b)
  BY LastBox
<1>3. Len(file) \in Nat /\ o \in Nat /\ o >= HeaderSize
  BY <1>1, LenProperties, OffsetFacts
<1>4. /\ BoxSize(b) \in Nat \ {0} /\ Len(BoxCells(b)) = BoxSize(b)
      /\ \A i \in 1..BoxSize(b) : BoxCells(b)[i] = <<b, i>>
  BY <1>1, BoxCellsFacts DEF Kept
<1> HIDE DEF o
<1>5. /\ Len(SubSeq(file, o + 1, Len(file))) = IF o < Len(file) THEN Len(file) - o ELSE 0
      /\ \A i \in 1..(Len(file) - o) : SubSeq(file, o + 1, Len(file))[i] = file[o + i]
  BY <1>3, Stretch
<1>6. Len(file) = o + BoxSize(b)
  BY <1>3, <1>4, <1>5 DEF o
<1>7. ASSUME NEW j \in 1..Len(file) PROVE file[j] = written[a][j]
  <2>1. CASE j <= HeaderSize
    <3>1. j \in 1..HeaderSize
      BY <1>3, <2>1
    <3> QED BY <1>1, <3>1 DEF Kept, HeaderIn
  <2>2. CASE HeaderSize < j /\ j <= o
    BY <2>2 DEF o
  <2>3. CASE o < j
    <3>1. j - o \in 1..BoxSize(b) /\ o + (j - o) = j
      BY <1>3, <1>4, <1>6, <2>3
    <3>2. file[o + (j - o)] = <<b, j - o>>
      BY <1>4, <1>5, <1>6, <3>1, <1>3 DEF o
    <3>3. written[a][o + (j - o)] = <<b, j - o>>
      BY <1>1, <3>1 DEF Kept, BoxIn, o
    <3> QED BY <3>1, <3>2, <3>3
  <2> QED BY <1>3, <2>1, <2>2, <2>3
<1>8. written[a] \in Seq(Cell)
  BY <1>1 DEF WrittenInv
<1> QED BY <1>2, <1>6, <1>7, <1>8, SeqEqual


-----------------------------------------------------------------------------
(* The reader compares the file with what was written.                      *)

FileSetting == TypeOK /\ EncInv /\ DecInv /\ WrittenInv /\ FileInv

\* A place behind o, counted from there.
LEMMA Beyond ==
  ASSUME NEW o \in Nat, NEW n \in Nat, NEW j \in Nat, j > o, j <= o + n
  PROVE  j - o \in 1..n /\ o + (j - o) = j
OBVIOUS

LEMMA ReadingFacts ==
  ASSUME FileSetting, Reading
  PROVE  /\ hdr \in Headers /\ ctr \in Nat /\ FullChunk(hdr) \in Nat \ {0}
         /\ Offset(hdr, ctr) \in Nat /\ Offset(hdr, ctr) >= HeaderSize /\ Len(file) \in Nat
         /\ pos \in Nat /\ pos <= Len(file) /\ Offset(hdr, ctr) < pos
         /\ pos <= Offset(hdr, ctr) + FullChunk(hdr)
         /\ AtEnd <=> pos = Len(file)
         /\ ~AtEnd => pos = Offset(hdr, ctr) + FullChunk(hdr)
         /\ Following = SubSeq(file, pos + 1, Least(pos + FullChunk(hdr), Len(file)))
         /\ Len(pending) = pos - Offset(hdr, ctr)
         /\ \A i \in 1..(pos - Offset(hdr, ctr)) : pending[i] = file[Offset(hdr, ctr) + i]
<1>1. hdr \in Headers /\ ctr \in Nat /\ file \in Seq(Cell)
  BY DEF FileSetting, TypeOK, FileInv, Reading
<1>2. /\ FullChunk(hdr) \in Nat \ {0} /\ Len(file) \in Nat
      /\ Offset(hdr, ctr) \in Nat /\ Offset(hdr, ctr) >= HeaderSize
  BY <1>1, OffsetFacts, LenProperties
<1>3. /\ pos \in Nat /\ pos <= Len(file) /\ Offset(hdr, ctr) < pos
      /\ pos <= Offset(hdr, ctr) + FullChunk(hdr)
      /\ pos < Len(file) => pos = Offset(hdr, ctr) + FullChunk(hdr)
  BY <1>2 DEF Reading, Least
<1>4. Following = SubSeq(file, pos + 1, Least(pos + FullChunk(hdr), Len(file)))
  <2>1. ~(FullChunk(hdr) < 0)
    BY <1>2
  <2> QED BY <2>1 DEF Following, ReadFile
<1>5. AtEnd <=> pos = Len(file)
  <2> DEFINE n == Least(pos + FullChunk(hdr), Len(file))
  <2>1. n \in Nat /\ n <= Len(file) /\ (n <= pos <=> pos = Len(file))
    BY <1>2, <1>3 DEF Least
  <2> HIDE DEF n
  <2>2. SubSeq(file, pos + 1, n) = <<>> <=> n <= pos
    <3>1. file \in Seq(Cell) /\ pos \in Nat /\ n \in Nat /\ n <= Len(file)
      BY <1>1, <1>3, <2>1
    <3> QED BY <3>1, Stretch
  <2> QED BY <1>4, <2>1, <2>2 DEF AtEnd, n
<1>6. /\ Len(pending) = pos - Offset(hdr, ctr)
      /\ \A i \in 1..(pos - Offset(hdr, ctr)) : pending[i] = file[Offset(hdr, ctr) + i]
  <2>1. pending = SubSeq(file, Offset(hdr, ctr) + 1, pos)
    BY DEF Reading
  <2> QED BY <1>1, <1>2, <1>3, <2>1, Stretch
<1> QED BY <1>1, <1>2, <1>3, <1>4, <1>5, <1>6

LEMMA BeginDecryptFile ==
  ASSUME FileSetting, NEW h \in Headers, BeginDecrypt(h)
  PROVE  FileInv'
<1>1. /\ pc = "stored" /\ h \in Decoded \ OneShot /\ FirstChunk(h) # <<>>
      /\ pc' = "opening" /\ hdr' = h /\ pending' = FirstChunk(h)
      /\ pos' = HeaderSize + Len(FirstChunk(h))
      /\ UNCHANGED <<encPc, written, file, ctr>>
  BY DEF BeginDecrypt, encVars
<1>2. ctr = 0 /\ file \in Seq(Cell) /\ Len(file) \in Nat
  BY <1>1, LenProperties DEF FileSetting, DecInv, FileInv
<1> DEFINE n == Least(HeaderSize + FullChunk(h), Len(file))
<1>3. HeaderSize <= Len(file) /\ FirstChunk(h) = SubSeq(file, HeaderSize + 1, n)
  BY <1>1, <1>2, FirstChunkIs
<1>4. HeaderIn(h, file) /\ ChunkSize[h] >= MinChunk
  BY <1>1, <1>2, HeadFacts
<1>5. Offset(h, 0) = HeaderSize /\ FullChunk(h) \in Nat \ {0}
  BY OffsetFacts
<1>6. n \in Nat /\ n <= Len(file)
  BY <1>2, <1>5 DEF Least
<1>7. /\ Len(FirstChunk(h)) = IF HeaderSize < n THEN n - HeaderSize ELSE 0
      /\ HeaderSize < n
  <2> HIDE DEF n
  <2>1. SubSeq(file, HeaderSize + 1, n) # <<>>
    BY <1>1, <1>3
  <2>2. /\ Len(SubSeq(file, HeaderSize + 1, n)) = IF HeaderSize < n THEN n - HeaderSize ELSE 0
        /\ SubSeq(file, HeaderSize + 1, n) = <<>> <=> n <= HeaderSize
    BY <1>2, <1>6, Stretch
  <2> QED BY <1>3, <1>6, <2>1, <2>2
<1>8. pos' = n
  BY <1>1, <1>6, <1>7
<1>9. Reading'
  <2>1. Offset(h, 0) < Len(file)
    BY <1>2, <1>5, <1>6, <1>7
  <2>2. HeaderIn(h, file)'
    BY <1>1, <1>4 DEF HeaderIn
  <2>3. \A j \in (HeaderSize + 1)..HeaderSize : file[j] = written[h][j]
    OBVIOUS
  <2>4. hdr' \in Headers \ OneShot /\ ChunkSize[hdr'] >= MinChunk
    BY <1>1, <1>4
  <2>5. HeaderIn(hdr, file)'
    BY <1>1, <2>2 DEF HeaderIn
  <2>6. Offset(hdr, ctr)' = HeaderSize
    BY <1>1, <1>2, <1>5 DEF Offset, FullChunk
  <2>7. FullChunk(hdr)' = FullChunk(h)
    BY <1>1 DEF FullChunk
  <2> HIDE DEF n
  <2>8. pending' = SubSeq(file, HeaderSize + 1, n)
    BY <1>1, <1>3
  <2> QED BY <1>1, <1>5, <1>8, <2>1, <2>3, <2>4, <2>5, <2>6, <2>7, <2>8 DEF Reading, n, Least
<1> QED BY <1>1, <1>2, <1>9 DEF FileSetting, FileInv, OnlyIntactDecrypts, IntactDecrypts


LEMMA ReleaseChunkFile ==
  ASSUME FileSetting, ReleaseChunk
  PROVE  FileInv'
<1> DEFINE o == Offset(hdr, ctr)
<1>1. /\ pc = "opening" /\ Reading /\ InPlace
      /\ UNCHANGED <<encPc, written, file, hdr>>
  BY DEF ReleaseChunk, FileSetting, FileInv, encVars
<1>2. PICK b \in Opening : TRUE
  BY DEF ReleaseChunk
<1>3. /\ b \in sealed /\ b.art = hdr /\ b.ctr = ctr /\ (b.last <=> AtEnd)
      /\ pending = BoxCells(b)
  BY <1>2 DEF Opening, Opened
<1>4. b \in Box /\ Kept(b)
  BY <1>3 DEF FileSetting, TypeOK, WrittenInv
<1>5. /\ BoxSize(b) \in Nat \ {0} /\ Len(BoxCells(b)) = BoxSize(b)
      /\ \A i \in 1..BoxSize(b) : BoxCells(b)[i] = <<b, i>>
  BY <1>4, BoxCellsFacts DEF Kept
<1>6. file \in Seq(Cell) /\ HeaderIn(hdr, file)
  BY <1>1 DEF FileSetting, FileInv, Reading
<1>7. CASE AtEnd
  <2>1. pos = Len(file) /\ o <= Len(file)
    BY <1>1, <1>7, ReadingFacts
  <2>2. SubSeq(file, o + 1, Len(file)) = BoxCells(b)
    BY <1>1, <1>3, <2>1 DEF Reading
  <2>3. \A j \in (HeaderSize + 1)..o : file[j] = written[hdr][j]
    BY <1>1 DEF Reading
  <2>4. encPc[hdr] = "done" /\ file = written[hdr]
    BY <1>3, <1>6, <1>7, <2>1, <2>2, <2>3, SameFile DEF FileSetting
  <2>5. pc' = "ok" /\ hdr \in Artifacts
    BY <1>3, <1>4, <1>7 DEF ReleaseChunk, Box
  <2> QED BY <1>1, <2>4, <2>5 DEF FileSetting, FileInv, OnlyIntactDecrypts, IntactDecrypts
<1>8. CASE ~AtEnd
  <2>1. /\ pc' = "opening" /\ ctr' = ctr + 1
        /\ pending' = Following /\ pos' = pos + Len(Following)
    BY <1>8 DEF ReleaseChunk
  <2>2. /\ hdr \in Headers /\ ctr \in Nat /\ FullChunk(hdr) \in Nat \ {0}
        /\ o \in Nat /\ o >= HeaderSize /\ Len(file) \in Nat
        /\ pos = o + FullChunk(hdr) /\ pos < Len(file)
        /\ Following = SubSeq(file, pos + 1, Least(pos + FullChunk(hdr), Len(file)))
        /\ Len(pending) = FullChunk(hdr)
        /\ \A i \in 1..FullChunk(hdr) : pending[i] = file[o + i]
    <3> HIDE DEF o
    <3>1. /\ hdr \in Headers /\ ctr \in Nat /\ FullChunk(hdr) \in Nat \ {0}
          /\ o \in Nat /\ o >= HeaderSize /\ Len(file) \in Nat
          /\ pos <= Len(file) /\ (AtEnd <=> pos = Len(file)) /\ pos \in Nat
          /\ ~AtEnd => pos = o + FullChunk(hdr)
          /\ Following = SubSeq(file, pos + 1, Least(pos + FullChunk(hdr), Len(file)))
          /\ Len(pending) = pos - o
          /\ \A i \in 1..(pos - o) : pending[i] = file[o + i]
      BY <1>1, ReadingFacts DEF o
    <3>2. pos - o = FullChunk(hdr) /\ pos < Len(file)
      BY <1>8, <3>1
    <3> QED BY <1>8, <3>1, <3>2
  <2>3. Offset(hdr, ctr + 1) = pos
    BY <2>2, OffsetFacts
  <2> DEFINE n == Least(pos + FullChunk(hdr), Len(file))
  <2>4. n \in Nat /\ n <= Len(file) /\ pos < n /\ pos \in Nat
    BY <2>2 DEF Least
  <2>5. pos' = n
    <3> HIDE DEF n, o
    <3>1. Len(SubSeq(file, pos + 1, n)) = IF pos < n THEN n - pos ELSE 0
      BY <1>6, <2>4, Stretch
    <3>2. pos' = pos + Len(SubSeq(file, pos + 1, n))
      BY <2>1, <2>2 DEF n
    <3>3. pos + (n - pos) = n
      BY <2>4
    <3> QED BY <2>4, <3>1, <3>2, <3>3
  <2>6. ASSUME NEW j \in (HeaderSize + 1)..pos PROVE file[j] = written[hdr][j]
    <3>1. CASE j <= o
      <4>1. j \in (HeaderSize + 1)..o
        BY <2>2, <3>1
      <4> QED BY <1>1, <4>1 DEF Reading
    <3>2. CASE j > o
      <4> HIDE DEF o
      <4>0. o \in Nat /\ FullChunk(hdr) \in Nat /\ pos = o + FullChunk(hdr)
        BY <2>2
      <4>1. j - o \in 1..FullChunk(hdr) /\ o + (j - o) = j
        <5>1. j \in Nat /\ j > o /\ j <= o + FullChunk(hdr)
          BY <2>2, <3>2, <4>0
        <5> QED BY <4>0, <5>1, Beyond
      <4>2. BoxSize(b) = FullChunk(hdr)
        BY <1>3, <1>5, <2>2
      <4>3. file[o + (j - o)] = <<b, j - o>>
        BY <1>3, <1>5, <2>2, <4>1, <4>2
      <4>4. written[hdr][o + (j - o)] = <<b, j - o>>
        BY <1>3, <1>4, <4>1, <4>2 DEF Kept, BoxIn, o
      <4> QED BY <4>1, <4>3, <4>4
    <3> QED BY <2>2, <3>1, <3>2
  <2>7. Reading'
    <3>1. hdr' = hdr /\ file' = file /\ written' = written
      BY <1>1
    <3>2. Offset(hdr, ctr)' = pos
      BY <2>1, <2>3, <3>1 DEF Offset, FullChunk
    <3>3. FullChunk(hdr)' = FullChunk(hdr)
      BY <3>1 DEF FullChunk
    <3>4. hdr' \in Headers \ OneShot /\ ChunkSize[hdr'] >= MinChunk /\ HeaderIn(hdr, file)'
      BY <1>1, <3>1 DEF Reading, HeaderIn
    <3>5. pending' = SubSeq(file, pos + 1, n)
      BY <2>1, <2>2
    <3> QED BY <2>2, <2>5, <2>6, <3>1, <3>2, <3>3, <3>4, <3>5 DEF Reading, Least
  <2> QED BY <1>1, <2>1, <2>7 DEF FileSetting, FileInv, OnlyIntactDecrypts, IntactDecrypts
<1> QED BY <1>7, <1>8

LEMMA OpenWholeFile ==
  ASSUME FileSetting, NEW h \in Headers, OpenWhole(h)
  PROVE  FileInv'
<1> DEFINE rest == SubSeq(file, HeaderSize + 1, Len(file))
           boxes == Opened(rest, h, 0, TRUE)
<1>1. /\ pc = "stored" /\ h \in Decoded \intersect OneShot
      /\ pc' = (IF boxes = {} THEN "error" ELSE "ok")
      /\ UNCHANGED <<encPc, written, file>>
  BY DEF OpenWhole, encVars
<1>2. file \in Seq(Cell) /\ \A a \in Artifacts : encPc[a] \in {"done", "failed"}
  BY <1>1 DEF FileSetting, FileInv
<1>3. HeaderIn(h, file) /\ Offset(h, 0) = HeaderSize
  BY <1>1, <1>2, HeadFacts, OffsetFacts
<1>4. ASSUME boxes # {} PROVE h \in Artifacts /\ encPc[h] = "done" /\ file = written[h]
  <2>1. PICK b \in sealed : b.art = h /\ b.ctr = 0 /\ b.last /\ rest = BoxCells(b)
    BY <1>4 DEF Opened
  <2>2. \A j \in (HeaderSize + 1)..HeaderSize : file[j] = written[h][j]
    OBVIOUS
  <2>3. Offset(b.art, b.ctr) = HeaderSize /\ HeaderSize <= Len(file)
    BY <1>3, <2>1 DEF HeaderIn
  <2>4. encPc[b.art] = "done" /\ file = written[b.art]
    BY <1>2, <1>3, <2>1, <2>2, <2>3, SameFile DEF FileSetting
  <2>5. h \in Artifacts
    BY <2>1 DEF FileSetting, TypeOK, Box
  <2> QED BY <2>1, <2>4, <2>5
<1>5. ASSUME boxes = {}, NEW a \in Artifacts, encPc[a] = "done", file = written[a] PROVE FALSE
  <2>1. PICK z \in sealed : /\ z.art = a /\ z.last
                            /\ Len(written[a]) = Offset(a, z.ctr) + BoxSize(z)
    BY <1>5 DEF FileSetting, WrittenInv, Stands
  <2>2. z \in Box /\ Kept(z) /\ WellSealed(z)
    BY DEF FileSetting, TypeOK, WrittenInv, EncInv
  <2>3. a = h
    BY <1>2, <1>3, <1>5, <2>1, <2>2, HeadFacts DEF Kept
  <2>4. z.ctr = 0
    BY <1>1, <2>1, <2>2, <2>3 DEF WellSealed
  <2>5. SubSeq(file, Offset(z.art, z.ctr) + 1, Offset(z.art, z.ctr) + BoxSize(z)) = BoxCells(z)
    BY <1>2, <1>5, <2>1, <2>2, BoxThere DEF Kept
  <2>6. rest = BoxCells(z)
    BY <1>3, <1>5, <2>1, <2>3, <2>4, <2>5
  <2>7. z \in boxes
    BY <2>1, <2>3, <2>4, <2>6 DEF Opened
  <2> QED BY <1>5, <2>7
<1>6. OnlyIntactDecrypts' /\ IntactDecrypts' /\ pc' # "opening"
  <2>1. CASE boxes = {}
    BY <1>1, <1>5, <2>1 DEF OnlyIntactDecrypts, IntactDecrypts
  <2>2. CASE boxes # {}
    BY <1>1, <1>4, <2>2 DEF OnlyIntactDecrypts, IntactDecrypts
  <2> QED BY <2>1, <2>2
<1> QED BY <1>1, <1>2, <1>6 DEF FileInv


LEMMA RejectHeaderFile ==
  ASSUME FileSetting, RejectHeader
  PROVE  FileInv'
<1>1. /\ pc = "stored" /\ pc' = "error" /\ UNCHANGED <<encPc, written, file>>
      /\ \A h \in Decoded : h \notin OneShot /\ FirstChunk(h) = <<>>
  BY DEF RejectHeader, encVars
<1>2. file \in Seq(Cell) /\ \A a \in Artifacts : encPc[a] \in {"done", "failed"}
  BY <1>1 DEF FileSetting, FileInv
<1>3. ASSUME NEW a \in Artifacts, encPc[a] = "done", file = written[a] PROVE FALSE
  <2>1. /\ HeaderIn(a, file) /\ (a \notin OneShot => ChunkSize[a] >= MinChunk)
        /\ \E z \in sealed : z.art = a /\ Len(file) = Offset(a, z.ctr) + BoxSize(z)
    BY <1>3 DEF FileSetting, WrittenInv, Stands
  <2>2. PICK z \in sealed : z.art = a /\ Len(file) = Offset(a, z.ctr) + BoxSize(z)
    BY <2>1
  <2>3. a \in Headers
    BY DEF Headers
  <2>4. a \in Decoded \ OneShot /\ FirstChunk(a) = <<>>
    BY <1>1, <1>2, <2>1, <2>3, HeadFacts
  <2> DEFINE n == Least(HeaderSize + FullChunk(a), Len(file))
  <2>5. FirstChunk(a) = SubSeq(file, HeaderSize + 1, n)
    BY <1>2, <2>4, FirstChunkIs
  <2>6. Len(file) \in Nat /\ HeaderSize < Len(file) /\ FullChunk(a) \in Nat \ {0}
    <3>1. z \in Box /\ z.lo <= z.hi
      BY DEF FileSetting, TypeOK, WrittenInv, Kept
    <3>2. BoxSize(z) \in Nat \ {0} /\ z.ctr \in Nat
      BY <3>1, BoxCellsFacts DEF Box
    <3>3. /\ Offset(a, z.ctr) \in Nat /\ Offset(a, z.ctr) >= HeaderSize
          /\ FullChunk(a) \in Nat \ {0}
      BY <2>3, <3>2, OffsetFacts
    <3> QED BY <2>2, <3>2, <3>3
  <2>7. n \in Nat /\ n <= Len(file) /\ HeaderSize < n
    BY <2>6 DEF Least
  <2> HIDE DEF n
  <2>8. SubSeq(file, HeaderSize + 1, n) = <<>> <=> n <= HeaderSize
    BY <1>2, <2>7, Stretch
  <2> QED BY <2>4, <2>5, <2>7, <2>8
<1> QED BY <1>1, <1>2, <1>3 DEF FileInv, OnlyIntactDecrypts, IntactDecrypts

LEMMA RejectChunkFile ==
  ASSUME FileSetting, RejectChunk
  PROVE  FileInv'
<1> DEFINE o == Offset(hdr, ctr)
<1>1. /\ pc = "opening" /\ pc' = "error" /\ UNCHANGED <<encPc, written, file>>
      /\ ~InPlace \/ Opening = {}
  BY DEF RejectChunk, encVars
<1>2. file \in Seq(Cell) /\ Reading /\ \A a \in Artifacts : encPc[a] \in {"done", "failed"}
  BY <1>1 DEF FileSetting, FileInv
<1>3. ASSUME NEW a \in Artifacts, encPc[a] = "done", file = written[a] PROVE FALSE
  <2>1. PICK z \in sealed : /\ z.art = a /\ z.last
                            /\ Len(file) = Offset(a, z.ctr) + BoxSize(z)
                            /\ Filled(a, z.ctr)
    BY <1>3 DEF FileSetting, WrittenInv, Stands
  <2>2. HeaderIn(a, file) /\ HeaderIn(hdr, file) /\ hdr \notin OneShot
    BY <1>2, <1>3 DEF FileSetting, WrittenInv, Stands, Reading
  <2>3. hdr = a
    BY <1>2, <2>2, HeadFacts
  <2>4. /\ ctr \in Nat /\ FullChunk(hdr) \in Nat \ {0} /\ o \in Nat /\ Len(file) \in Nat
        /\ pos \in Nat /\ pos <= Len(file) /\ pos <= o + FullChunk(hdr)
        /\ AtEnd <=> pos = Len(file)
        /\ ~AtEnd => pos = o + FullChunk(hdr)
        /\ Len(pending) = pos - o
    BY <1>2, ReadingFacts
  <2>5. pending = SubSeq(file, o + 1, pos) /\ o < Len(file)
    BY <1>2 DEF Reading
  <2>6. ASSUME NEW c \in sealed, c.art = hdr
        PROVE  /\ c \in Box /\ c.lo <= c.hi /\ c.ctr \in Nat /\ BoxSize(c) \in Nat \ {0}
               /\ BoxSize(c) <= FullChunk(hdr) /\ (~c.last => BoxSize(c) = FullChunk(hdr))
               /\ SubSeq(file, Offset(hdr, c.ctr) + 1, Offset(hdr, c.ctr) + BoxSize(c)) = BoxCells(c)
    <3>1. c \in Box /\ Kept(c) /\ c.ctr \in Nat
      BY DEF FileSetting, TypeOK, WrittenInv, Box
    <3>2. BoxSize(c) \in Nat \ {0}
      BY <3>1, BoxCellsFacts DEF Kept
    <3>3. BoxSize(c) <= FullChunk(hdr) /\ (~c.last => BoxSize(c) = FullChunk(hdr))
      BY <2>2, <2>6, <3>1, SizeOfBox DEF FileSetting, Kept
    <3>4. BoxIn(c, file) /\ c.lo <= c.hi
      BY <1>3, <2>3, <2>6, <3>1 DEF Kept
    <3>5. SubSeq(file, Offset(c.art, c.ctr) + 1, Offset(c.art, c.ctr) + BoxSize(c)) = BoxCells(c)
      BY <1>2, <3>1, <3>4, BoxThere
    <3> QED BY <2>6, <3>1, <3>2, <3>3, <3>4, <3>5
  <2>7. ASSUME NEW c \in sealed, c.art = hdr, c.ctr = ctr, o + BoxSize(c) = pos, c.last <=> AtEnd,
               AtEnd \/ BoxSize(c) = FullChunk(hdr)
        PROVE  FALSE
    <3>1. pending = BoxCells(c)
      BY <2>5, <2>6, <2>7
    <3>2. c \in Opening
      <4>1. c.last = AtEnd
        BY <2>7 DEF FileSetting, TypeOK, Box, AtEnd
      <4> QED BY <2>7, <3>1, <4>1 DEF Opening, Opened
    <3>3. InPlace
      <4>1. BoxSize(c) \in Nat
        BY <2>6, <2>7
      <4>2. Len(pending) = BoxSize(c)
        BY <2>4, <2>7, <4>1
      <4> QED BY <2>7, <4>2 DEF InPlace
    <3> QED BY <1>1, <3>2, <3>3
  <2>8. z.ctr \in Nat /\ BoxSize(z) \in Nat \ {0} /\ BoxSize(z) <= FullChunk(hdr)
    BY <2>1, <2>3, <2>6
  <2>9. CASE ctr = z.ctr
    <3>1. Len(file) = o + BoxSize(z)
      BY <2>1, <2>3, <2>9
    <3> HIDE DEF o
    <3>2. pos = Len(file)
      BY <2>4, <2>8, <3>1
    <3> QED BY <2>1, <2>3, <2>4, <2>7, <2>9, <3>1, <3>2 DEF o
  <2>10. CASE ctr < z.ctr
    <3>1. ctr \in 0..(z.ctr - 1)
      BY <2>4, <2>8, <2>10
    <3>2. PICK c \in sealed : c.art = hdr /\ c.ctr = ctr /\ ~c.last
      BY <2>1, <2>3, <3>1 DEF Filled
    <3>3. BoxSize(c) = FullChunk(hdr)
      BY <2>6, <3>2
    <3>4. o + FullChunk(hdr) <= Offset(hdr, z.ctr) /\ Offset(hdr, z.ctr) \in Nat
      BY <2>3, <2>4, <2>8, <2>10, OffsetFacts DEF Headers
    <3>5. o + FullChunk(hdr) < Len(file)
      BY <2>1, <2>3, <2>4, <2>8, <3>4
    <3>6. ~AtEnd /\ pos = o + FullChunk(hdr)
      BY <2>4, <3>5
    <3> QED BY <2>7, <3>2, <3>3, <3>6
  <2>11. CASE z.ctr < ctr
    <3>1. Offset(hdr, z.ctr) + FullChunk(hdr) <= o /\ Offset(hdr, z.ctr) \in Nat
      BY <2>3, <2>4, <2>8, <2>11, OffsetFacts DEF Headers
    <3> QED BY <2>1, <2>3, <2>4, <2>5, <2>8, <3>1
  <2> QED BY <2>4, <2>8, <2>9, <2>10, <2>11
<1> QED BY <1>1, <1>2, <1>3 DEF FileInv, OnlyIntactDecrypts, IntactDecrypts


LEMMA KeepFile ==
  ASSUME FileSetting, Keep
  PROVE  FileInv'
<1>1. ASSUME NEW cells, Alter(cells), cells \in Seq(Cell) PROVE FileInv'
  BY <1>1 DEF Alter, FileSetting, FileInv, encVars, decVars, OnlyIntactDecrypts, IntactDecrypts
<1>2. CASE \E a \in Artifacts : Store(a)
  <2>1. PICK a \in Artifacts : Store(a)
    BY <1>2
  <2>2. file' \in Seq(Cell)
    BY <2>1 DEF Store, FileSetting, WrittenInv
  <2> QED BY <2>1, <2>2 DEF Store, FileInv, encVars, OnlyIntactDecrypts, IntactDecrypts
<1>3. file \in Seq(Cell) /\ Len(file) \in Nat /\ \A n \in 1..Len(file) : file[n] \in Cell
  BY LenProperties, ElementOfSeq DEF FileSetting, FileInv
<1>4. \A m \in Nat, n \in 0..Len(file) : SubSeq(file, m + 1, n) \in Seq(Cell)
  BY <1>3, Stretch
<1>5. Len(file) \in 0..Len(file)
  BY <1>3
<1>head. \A n \in 0..Len(file) : SubSeq(file, 1, n) \in Seq(Cell)
  <2>1. ASSUME NEW n \in 0..Len(file) PROVE \A i \in 1..n : file[i] \in Cell
    BY <1>3
  <2> QED BY <1>3, <2>1, SubSeqProperties
<1>6. CASE Truncate
  <2>1. PICK n \in 0..(Len(file) - 1) : Alter(SubSeq(file, 1, n))
    BY <1>6 DEF Truncate
  <2>2. n \in 0..Len(file)
    BY <1>3
  <2> QED BY <1>1, <1>head, <2>1, <2>2
<1>7. CASE Corrupt
  <2>1. PICK n \in 1..(Len(file) + 1) :
          Alter([i \in 1..(IF n > Len(file) THEN n ELSE Len(file)) |->
                   IF i = n THEN <<Junk, 0>> ELSE file[i]])
    BY <1>7 DEF Corrupt
  <2> DEFINE m == IF n > Len(file) THEN n ELSE Len(file)
             cells == [i \in 1..m |-> IF i = n THEN <<Junk, 0>> ELSE file[i]]
  <2>2. m \in Nat /\ (m = Len(file) \/ (m = Len(file) + 1 /\ n = m))
    BY <1>3
  <2>3. \A i \in 1..m : i # n => i \in 1..Len(file)
    BY <1>3, <2>2
  <2>4. <<Junk, 0>> \in Cell
    BY DEF Cell
  <2> HIDE DEF m
  <2>5. cells \in [1..m -> Cell]
    BY <1>3, <2>3, <2>4
  <2>6. cells \in Seq(Cell)
    BY <2>2, <2>5, SeqDef
  <2> QED BY <1>1, <2>1, <2>6 DEF m
<1>8. CASE Splice
  <2>1. PICK b \in Artifacts, n \in 0..Len(file) : \E m \in 0..Len(written[b]) :
          Alter(SubSeq(file, 1, n) \o SubSeq(written[b], m + 1, Len(written[b])))
    BY <1>8 DEF Splice
  <2>2. PICK m \in 0..Len(written[b]) :
          Alter(SubSeq(file, 1, n) \o SubSeq(written[b], m + 1, Len(written[b])))
    BY <2>1
  <2>3. SubSeq(file, 1, n) \in Seq(Cell)
    BY <1>head
  <2>4. written[b] \in Seq(Cell)
    BY DEF FileSetting, WrittenInv
  <2>5. Len(written[b]) \in Nat /\ Len(written[b]) <= Len(written[b]) /\ m \in Nat
    BY <2>4, LenProperties
  <2>6. SubSeq(written[b], m + 1, Len(written[b])) \in Seq(Cell)
    BY <2>4, <2>5, Stretch
  <2>7. SubSeq(file, 1, n) \o SubSeq(written[b], m + 1, Len(written[b])) \in Seq(Cell)
    BY <2>3, <2>6, ConcatProperties
  <2> QED BY <1>1, <2>2, <2>7
<1>9. CASE Exchange
  <2>1. PICK i \in 0..Len(file), j \in 0..Len(file), k \in 0..Len(file) :
          Alter(SubSeq(file, 1, i) \o SubSeq(file, j + 1, k)
                  \o SubSeq(file, i + 1, j) \o SubSeq(file, k + 1, Len(file)))
    BY <1>9 DEF Exchange
  <2> DEFINE s1 == SubSeq(file, 1, i)
             s2 == SubSeq(file, j + 1, k)
             s3 == SubSeq(file, i + 1, j)
             s4 == SubSeq(file, k + 1, Len(file))
  <2>2. s1 \in Seq(Cell)
    BY <1>head
  <2>3. s2 \in Seq(Cell) /\ s3 \in Seq(Cell) /\ s4 \in Seq(Cell)
    <3>1. i \in Nat /\ j \in Nat /\ k \in Nat
      OBVIOUS
    <3> QED BY <1>4, <1>5, <3>1
  <2>4. Alter(s1 \o s2 \o s3 \o s4)
    BY <2>1
  <2> HIDE DEF s1, s2, s3, s4
  <2>5. s1 \o s2 \in Seq(Cell)
    BY <2>2, <2>3, ConcatProperties
  <2>6. s1 \o s2 \o s3 \in Seq(Cell)
    BY <2>3, <2>5, ConcatProperties
  <2>7. s1 \o s2 \o s3 \o s4 \in Seq(Cell)
    BY <2>3, <2>6, ConcatProperties
  <2> QED BY <1>1, <2>4, <2>7
<1>10. CASE SwapHeader
  <2>1. PICK h \in Headers : Alter(HeaderCells(h) \o SubSeq(file, HeaderSize + 1, Len(file)))
    BY <1>10 DEF SwapHeader
  <2>2. HeaderCells(h) \in Seq(Cell) /\ SubSeq(file, HeaderSize + 1, Len(file)) \in Seq(Cell)
    BY <1>4, <1>5, HeaderCellsFacts
  <2>3. HeaderCells(h) \o SubSeq(file, HeaderSize + 1, Len(file)) \in Seq(Cell)
    BY <2>2, ConcatProperties
  <2> QED BY <1>1, <2>1, <2>3
<1> QED BY <1>2, <1>6, <1>7, <1>8, <1>9, <1>10 DEF Keep

LEMMA FileStep ==
  ASSUME FileSetting, [Next]_vars
  PROVE  FileInv'
<1>1. ASSUME NEW a \in Artifacts, EncActions(a) PROVE FileInv'
  <2>1. encPc[a] \in {"idle", "sealing"} /\ UNCHANGED <<file, pc>>
    BY <1>1 DEF EncActions, BeginStream, SealChunk, SealWhole, decVars
  <2>2. pc = "none"
    BY <2>1 DEF FileSetting, FileInv
  <2> QED BY <2>1, <2>2 DEF FileSetting, FileInv, OnlyIntactDecrypts, IntactDecrypts
<1>2. CASE UNCHANGED vars
  <2>1. Reading => Reading'
    BY <1>2 DEF vars, encVars, decVars, Reading, HeaderIn, Offset, FullChunk, Least
  <2> QED BY <1>2, <2>1 DEF vars, encVars, decVars, FileSetting, FileInv,
                            OnlyIntactDecrypts, IntactDecrypts
<1> QED
  BY <1>1, <1>2, KeepFile, RejectHeaderFile, RejectChunkFile, ReleaseChunkFile,
     OpenWholeFile, BeginDecryptFile DEF Next, Encrypt, Decrypt, EncActions


-----------------------------------------------------------------------------
(* The theorems.                                                            *)

LEMMA InvInductive == Spec => [](EncInv /\ DecInv)
<1>1. Init => EncInv /\ DecInv
  BY DEF Init, EncInv, DecInv
<1>2. TypeOK /\ EncInv /\ DecInv /\ [Next]_vars => EncInv' /\ DecInv'
  BY EncInvStep, DecInvStep
<1>3. QED
  BY <1>1, <1>2, TypeCorrect, PTL DEF Spec

(***************************************************************************)
(* The nonce of a box, which is its artifact's prefix and its counter, is  *)
(* never used for a second box (SealedOnce).                               *)
(***************************************************************************)
THEOREM NonceUnique == Spec => []SealedOnce
<1>1. TypeOK /\ EncInv => SealedOnce
  BY OneBox
<1>2. QED
  BY <1>1, TypeCorrect, InvInductive, PTL

(***************************************************************************)
(* What decrypt_stream has written is a prefix of one artifact's           *)
(* plaintext, whatever became of the stored file (ReleasedInOrder).        *)
(***************************************************************************)
THEOREM ReleasesPrefix == Spec => []ReleasedInOrder
<1>1. TypeOK /\ EncInv /\ DecInv => ReleasedInOrder
  <2> SUFFICES ASSUME TypeOK, EncInv, DecInv, NEW k \in 1..Len(out)
               PROVE  /\ out[k].art = hdr
                      /\ out[k].lo = IF k = 1 THEN 0 ELSE out[k - 1].hi
    BY DEF ReleasedInOrder
  <2>1. out[k] \in sealed /\ out[k].art = hdr /\ out[k].ctr = k - 1
    BY DEF DecInv
  <2>2. WellSealed(out[k])
    BY <2>1 DEF EncInv
  <2>3. hdr \in Artifacts /\ out[k] \in Box
    BY <2>1 DEF TypeOK, Box
  <2>4. ChunkSize[hdr] \in Nat
    BY <2>3 DEF Headers
  <2>5. size[hdr] \in Nat
    BY <2>3 DEF TypeOK
  <2>6. CASE k = 1
    BY <2>1, <2>2, <2>4, <2>6 DEF WellSealed
  <2>7. CASE k # 1
    <3>1. k - 1 \in 1..Len(out) /\ k - 1 < Len(out)
      BY <2>7 DEF TypeOK
    <3>2. /\ out[k - 1] \in sealed
          /\ out[k - 1].art = hdr
          /\ out[k - 1].ctr = k - 2
          /\ ~out[k - 1].last
      BY <3>1 DEF DecInv
    <3>3. WellSealed(out[k - 1])
      BY <3>2 DEF EncInv
    <3>4. hdr \notin OneShot
      BY <3>2, <3>3 DEF WellSealed
    <3>5. /\ out[k - 1].lo = (k - 2) * ChunkSize[hdr]
          /\ out[k - 1].hi = Least(out[k - 1].lo + ChunkSize[hdr], size[hdr])
          /\ out[k - 1].hi # size[hdr]
      BY <3>2, <3>3, <3>4 DEF WellSealed
    <3>6. out[k - 1].hi = out[k - 1].lo + ChunkSize[hdr]
      BY <3>5 DEF Least
    <3>7. out[k].lo = (k - 1) * ChunkSize[hdr]
      BY <2>1, <2>2, <3>4 DEF WellSealed
    <3>8. (k - 1) * ChunkSize[hdr] = (k - 2) * ChunkSize[hdr] + ChunkSize[hdr]
      BY <2>4
    <3>9. QED
      BY <2>1, <2>7, <3>5, <3>6, <3>7, <3>8
  <2>8. QED
    BY <2>1, <2>6, <2>7
<1>2. QED
  BY <1>1, TypeCorrect, InvInductive, PTL

(***************************************************************************)
(* A reader that returns has released the plaintext to its end             *)
(* (WholeOnSuccess); with ReleasesPrefix, exactly the plaintext.           *)
(***************************************************************************)
THEOREM ReleasesWhole == Spec => []WholeOnSuccess
<1>1. TypeOK /\ EncInv /\ DecInv => WholeOnSuccess
  <2> SUFFICES ASSUME TypeOK, EncInv, DecInv, pc = "ok"
               PROVE  out # <<>> /\ out[Len(out)].hi = size[hdr]
    BY DEF WholeOnSuccess
  <2>1. out # <<>> /\ out[Len(out)].last
    BY DEF DecInv
  <2>2. Len(out) \in 1..Len(out)
    BY <2>1 DEF TypeOK
  <2>3. out[Len(out)] \in sealed /\ out[Len(out)].art = hdr
    BY <2>2 DEF DecInv
  <2>4. WellSealed(out[Len(out)])
    BY <2>3 DEF EncInv
  <2>5. QED
    BY <2>1, <2>3, <2>4 DEF WellSealed
<1>2. QED
  BY <1>1, TypeCorrect, InvInductive, PTL

LEMMA FileInvariant == Spec => [](WrittenInv /\ FileInv)
<1>1. Init => WrittenInv /\ FileInv
  <2>1. ASSUME Init PROVE WrittenInv
    <3>1. <<>> \in Seq(Cell)
      BY EmptySeq
    <3> QED BY <2>1, <3>1 DEF Init, WrittenInv, Kept, Stands
  <2>2. ASSUME Init PROVE FileInv
    BY <2>2, EmptySeq DEF Init, FileInv, OnlyIntactDecrypts, IntactDecrypts
  <2> QED BY <2>1, <2>2
<1>2. TypeOK /\ EncInv /\ DecInv /\ WrittenInv /\ FileInv /\ [Next]_vars
        => WrittenInv' /\ FileInv'
  BY WrittenStep, FileStep DEF FileSetting
<1>3. QED
  BY <1>1, <1>2, TypeCorrect, InvInductive, PTL DEF Spec

(***************************************************************************)
(* No file decrypts but one that an encryption finished, cell by cell: an  *)
(* altered store cannot make a reader return (OnlyIntactDecrypts).         *)
(***************************************************************************)
THEOREM DecryptsOnlyIntact == Spec => []OnlyIntactDecrypts
<1>1. FileInv => OnlyIntactDecrypts
  BY DEF FileInv
<1>2. QED
  BY <1>1, FileInvariant, PTL

(***************************************************************************)
(* A file that is as it was written is never refused, whatever its length, *)
(* chunk size and version (IntactDecrypts).                                *)
(***************************************************************************)
THEOREM DecryptsIntact == Spec => []IntactDecrypts
<1>1. FileInv => IntactDecrypts
  BY DEF FileInv
<1>2. QED
  BY <1>1, FileInvariant, PTL
=============================================================================
