-------------------------- MODULE ChunkedArtifact --------------------------
(***************************************************************************)
(* The encrypted artifact of confidential_crypto: encrypt_stream and       *)
(* encrypt_parts write it, a store keeps it, decrypt_stream and decrypt    *)
(* read it back.  The module answers what a reader gets from a stored file *)
(* that lost, repeated, moved or mixed up some of its bytes.               *)
(*                                                                         *)
(* A file is a sequence of cells, one per byte.  A cell names what wrote   *)
(* it and its place in it: <<h, i>> is byte i of the header h, <<b, i>>    *)
(* byte i of the AEAD output ("box") b.  The AEAD is ideal: bytes open     *)
(* under a header, a counter and a last flag only when they are, in full   *)
(* and in order, a box sealed under exactly these.  Plaintext is never     *)
(* spelled out: a chunk is the interval lo..hi-1 of its source.            *)
(***************************************************************************)
EXTENDS Integers, Sequences

CONSTANTS
  Artifacts,   \* the encryptions that happen; each stands for the header it
               \* writes, whose nonce or nonce prefix is fresh and random
  Foreign,     \* well-formed headers that no encryption wrote
  OneShot,     \* the headers of version 1; the others are version 2
  ChunkSize,   \* header -> its chunk size
  Sizes,       \* the lengths a plaintext may have
  MinChunk,    \* MIN_CHUNK_SIZE
  HeaderSize,  \* length of an encoded header
  HeaderMax,   \* ArtifactHeader.max_size(), how much a reader asks for
  Tag,         \* ciphertext_size(n) - n
  MaxChunks,   \* 2^32, what the chunk counter can hold
  MaxFaults,   \* bound: alterations of the stored file
  Junk         \* a byte nobody wrote

Headers == Artifacts \union Foreign

ASSUME SizesAssumption == Sizes \subseteq Nat
ASSUME ChunkAssumption == ChunkSize \in [Headers -> Nat]
ASSUME FormatAssumption ==
  /\ MinChunk \in Nat \ {0} /\ Tag \in Nat \ {0} /\ MaxChunks \in Nat \ {0}
  /\ HeaderSize \in Nat \ {0} /\ HeaderMax \in Nat \ {0}
  /\ HeaderSize <= HeaderMax
  /\ HeaderMax - HeaderSize <= MinChunk   \* 4096 is more than 266
ASSUME BoundAssumption == MaxFaults \in Nat

VARIABLES
  size,     \* artifact -> length of its plaintext
  encPc,    \* artifact -> where its encryption stands
  chunk,    \* artifact -> `pending` of encrypt_stream, as an interval
  encCtr,   \* artifact -> `counter` of encrypt_stream
  written,  \* artifact -> the cells written so far
  sealed,   \* the boxes sealed so far under the one key
  file,     \* the stored file
  faults,   \* how often it was altered
  pc,       \* where the reader stands
  hdr,      \* the header it decoded
  ctr,      \* `counter` of decrypt_stream
  pos,      \* how far it has read
  pending,  \* `pending` of decrypt_stream
  out       \* the boxes whose plaintext it wrote to dst

encVars == <<encPc, chunk, encCtr, written, sealed>>
decVars == <<pc, hdr, ctr, pos, pending, out>>
vars == <<size, encVars, file, faults, decVars>>

Least(m, n) == IF m <= n THEN m ELSE n

\* src.read(chunk_size) at offset `at` of the plaintext of a; empty at its end.
ReadPlain(a, at) == [lo |-> at, hi |-> Least(at + ChunkSize[a], size[a])]

Interval == [lo : Nat, hi : Nat]
Box == [art : Artifacts, ctr : 0..(MaxChunks - 1), last : BOOLEAN, lo : Nat, hi : Nat]

BoxSize(b) == b.hi - b.lo + Tag
BoxCells(b) == [i \in 1..BoxSize(b) |-> <<b, i>>]
HeaderCells(h) == [i \in 1..HeaderSize |-> <<h, i>>]

\* cipher.encrypt under the nonce and the associated data of (a, n, last).
Sealing(a, n, last, c) == [art |-> a, ctr |-> n, last |-> last, lo |-> c.lo, hi |-> c.hi]

AnyPlace(cells, h, n, last) ==
  {b \in sealed : b.art = h /\ b.last = last /\ cells = BoxCells(b)}
AnyFlag(cells, h, n, last) ==
  {b \in sealed : b.art = h /\ b.ctr = n /\ cells = BoxCells(b)}
AnyHeader(cells, h, n, last) ==
  {b \in sealed : b.ctr = n /\ b.last = last /\ cells = BoxCells(b)}

\* cipher.decrypt under (h, n, last): the boxes that `cells` opens to.
Opened(cells, h, n, last) ==
  {b \in sealed : /\ b.art = h
                  /\ b.ctr = n
                  /\ b.last = last
                  /\ cells = BoxCells(b)}

-----------------------------------------------------------------------------
(* Encryption.  Where an operator has a mutant, a plausible slip in the     *)
(* same code that a property must notice, the mutant stands before it.      *)

LateGuard(n) == n > MaxChunks
Exhausted(n) == n >= MaxChunks

WrappedCounter(n) == (n + 1) % MaxChunks
NextCounter(n) == n + 1

\* encrypt_stream up to its loop: the header is written, the first chunk read.
BeginStream(a) ==
  /\ encPc[a] = "idle"
  /\ a \notin OneShot
  /\ IF ChunkSize[a] < MinChunk
       THEN /\ encPc' = [encPc EXCEPT ![a] = "failed"]
            /\ UNCHANGED <<chunk, written>>
       ELSE /\ encPc' = [encPc EXCEPT ![a] = "sealing"]
            /\ chunk' = [chunk EXCEPT ![a] = ReadPlain(a, 0)]
            /\ written' = [written EXCEPT ![a] = HeaderCells(a)]
  /\ UNCHANGED <<size, encCtr, sealed, file, faults, decVars>>

\* One turn of the loop: read ahead, then seal the pending chunk, flagged last
\* when nothing follows.
SealChunk(a) ==
  LET following == ReadPlain(a, chunk[a].hi)
      last == following.lo >= following.hi
      box == Sealing(a, encCtr[a], last, chunk[a])
  IN /\ encPc[a] = "sealing"
     /\ IF Exhausted(encCtr[a])
          THEN /\ encPc' = [encPc EXCEPT ![a] = "failed"]
               /\ UNCHANGED <<chunk, encCtr, written, sealed>>
          ELSE /\ sealed' = sealed \union {box}
               /\ written' = [written EXCEPT ![a] = @ \o BoxCells(box)]
               /\ IF last
                    THEN /\ encPc' = [encPc EXCEPT ![a] = "done"]
                         /\ UNCHANGED <<chunk, encCtr>>
                    ELSE /\ chunk' = [chunk EXCEPT ![a] = following]
                         /\ encCtr' = [encCtr EXCEPT ![a] = NextCounter(@)]
                         /\ UNCHANGED encPc
     /\ UNCHANGED <<size, file, faults, decVars>>

\* encrypt_parts: the whole plaintext in one box.
SealWhole(a) ==
  LET box == Sealing(a, 0, TRUE, [lo |-> 0, hi |-> size[a]])
  IN /\ encPc[a] = "idle"
     /\ a \in OneShot
     /\ encPc' = [encPc EXCEPT ![a] = "done"]
     /\ sealed' = sealed \union {box}
     /\ written' = [written EXCEPT ![a] = HeaderCells(a) \o BoxCells(box)]
     /\ UNCHANGED <<size, chunk, encCtr, file, faults, decVars>>

-----------------------------------------------------------------------------
(* The store.  A file is stored only when its encryption is done, since     *)
(* encrypt_file renames it into place then.                                 *)

Store(a) ==
  /\ pc = "none"
  /\ \A b \in Artifacts : encPc[b] \in {"done", "failed"}
  /\ encPc[a] = "done"
  /\ pc' = "stored"
  /\ file' = written[a]
  /\ UNCHANGED <<size, encVars, faults, hdr, ctr, pos, pending, out>>

Alter(cells) ==
  /\ pc = "stored"
  /\ faults < MaxFaults
  /\ faults' = faults + 1
  /\ file' = cells
  /\ UNCHANGED <<size, encVars, decVars>>

Truncate == \E n \in 0..(Len(file) - 1) : Alter(SubSeq(file, 1, n))

\* A byte changes, or one is added at the end.
Corrupt == \E n \in 1..(Len(file) + 1) :
  Alter([i \in 1..(IF n > Len(file) THEN n ELSE Len(file)) |->
           IF i = n THEN <<Junk, 0>> ELSE file[i]])

\* The rest of the file after n cells becomes the rest of b's after m cells:
\* cells are dropped, repeated, or come from another artifact.
Splice == \E b \in Artifacts : \E n \in 0..Len(file), m \in 0..Len(written[b]) :
  /\ encPc[b] = "done"
  /\ Alter(SubSeq(file, 1, n) \o SubSeq(written[b], m + 1, Len(written[b])))

\* Two neighbouring stretches of the file trade places.
Exchange == \E i, j, k \in 0..Len(file) :
  /\ i < j /\ j < k
  /\ Alter(SubSeq(file, 1, i) \o SubSeq(file, j + 1, k)
             \o SubSeq(file, i + 1, j) \o SubSeq(file, k + 1, Len(file)))

\* The header alone is exchanged for another well-formed one.
SwapHeader == \E h \in Headers :
  Alter(HeaderCells(h) \o SubSeq(file, HeaderSize + 1, Len(file)))

-----------------------------------------------------------------------------
(* Decryption.                                                              *)

\* src.read(n) at offset `at` of the file; a negative n reads to its end.
ReadFile(at, n) ==
  SubSeq(file, at + 1, IF n < 0 THEN Len(file) ELSE Least(at + n, Len(file)))

FileHead == ReadFile(0, HeaderMax)

\* ArtifactHeader.decode: the headers `head` starts with (at most one).
Decoded == {h \in Headers : /\ Len(FileHead) >= HeaderSize
                            /\ SubSeq(FileHead, 1, HeaderSize) = HeaderCells(h)
                            /\ h \in OneShot \/ ChunkSize[h] >= MinChunk}

FullChunk(h) == ChunkSize[h] + Tag

WholeRead(h) == FullChunk(h) - Len(FileHead)
\* What the first read of a chunk asks for beyond the part of it in `head`.
FirstRead(h) == FullChunk(h) - (Len(FileHead) - HeaderSize)

\* head[offset:] and the rest of the first chunk.
FirstChunk(h) ==
  SubSeq(FileHead, HeaderSize + 1, Len(FileHead)) \o ReadFile(Len(FileHead), FirstRead(h))

\* No header, or a chunked artifact with no chunk: FormatError.
RejectHeader ==
  /\ pc = "stored"
  /\ \A h \in Decoded : h \notin OneShot /\ FirstChunk(h) = <<>>
  /\ pc' = "error"
  /\ UNCHANGED <<size, encVars, file, faults, hdr, ctr, pos, pending, out>>

\* decrypt of a version 1 artifact, which reads the whole file.
OpenWhole(h) ==
  LET boxes == Opened(SubSeq(file, HeaderSize + 1, Len(file)), h, 0, TRUE)
  IN /\ pc = "stored"
     /\ h \in Decoded \intersect OneShot
     /\ pc' = IF boxes = {} THEN "error" ELSE "ok"
     /\ out' \in IF boxes = {} THEN {out} ELSE {<<b>> : b \in boxes}
     /\ hdr' = h
     /\ UNCHANGED <<size, encVars, file, faults, ctr, pos, pending>>

\* decrypt_stream up to its loop.
BeginDecrypt(h) ==
  /\ pc = "stored"
  /\ h \in Decoded \ OneShot
  /\ FirstChunk(h) # <<>>
  /\ pc' = "opening"
  /\ hdr' = h
  /\ pending' = FirstChunk(h)
  /\ pos' = HeaderSize + Len(FirstChunk(h))
  /\ UNCHANGED <<size, encVars, file, faults, ctr, out>>

\* The loop reads ahead and takes the pending chunk for the last one when
\* nothing follows.
Following == ReadFile(pos, FullChunk(hdr))
AtEnd == Following = <<>>
InPlace == AtEnd \/ Len(pending) = FullChunk(hdr)
Opening == Opened(pending, hdr, ctr, AtEnd)

\* A short chunk before the end (FormatError) or one that does not
\* authenticate (DecryptionError).
RejectChunk ==
  /\ pc = "opening"
  /\ ~InPlace \/ Opening = {}
  /\ pc' = "error"
  /\ UNCHANGED <<size, encVars, file, faults, hdr, ctr, pos, pending, out>>

\* The chunk authenticates, only then its plaintext is written.
ReleaseChunk ==
  /\ pc = "opening"
  /\ InPlace
  /\ \E b \in Opening : out' = Append(out, b)
  /\ IF AtEnd
       THEN /\ pc' = "ok"
            /\ UNCHANGED <<ctr, pos, pending>>
       ELSE /\ pending' = Following
            /\ pos' = pos + Len(Following)
            /\ ctr' = ctr + 1
            /\ UNCHANGED pc
  /\ UNCHANGED <<size, encVars, file, faults, hdr>>

-----------------------------------------------------------------------------
Init ==
  /\ size \in [Artifacts -> Sizes]
  /\ encPc = [a \in Artifacts |-> "idle"]
  /\ chunk = [a \in Artifacts |-> [lo |-> 0, hi |-> 0]]
  /\ encCtr = [a \in Artifacts |-> 0]
  /\ written = [a \in Artifacts |-> <<>>]
  /\ sealed = {}
  /\ file = <<>>
  /\ faults = 0
  /\ pc = "none"
  /\ hdr = Junk
  /\ ctr = 0
  /\ pos = 0
  /\ pending = <<>>
  /\ out = <<>>

Encrypt == \E a \in Artifacts : BeginStream(a) \/ SealChunk(a) \/ SealWhole(a)
Keep == \/ \E a \in Artifacts : Store(a)
        \/ Truncate \/ Corrupt \/ Splice \/ Exchange \/ SwapHeader
Decrypt == \/ RejectHeader \/ RejectChunk \/ ReleaseChunk
           \/ \E h \in Headers : OpenWhole(h) \/ BeginDecrypt(h)

Next == Encrypt \/ Keep \/ Decrypt

Spec == Init /\ [][Next]_vars

-----------------------------------------------------------------------------
(* Every chunk counter that reaches a nonce fits its field, every released  *)
(* piece is a sealed box: encrypt_stream's guard on _MAX_CHUNKS.            *)
TypeOK ==
  /\ size \in [Artifacts -> Sizes]
  /\ encPc \in [Artifacts -> {"idle", "sealing", "done", "failed"}]
  /\ chunk \in [Artifacts -> Interval]
  /\ encCtr \in [Artifacts -> 0..MaxChunks]
  /\ sealed \subseteq Box
  /\ faults \in 0..MaxFaults
  /\ pc \in {"none", "stored", "opening", "ok", "error"}
  /\ hdr \in Headers \union {Junk}
  /\ ctr \in 0..MaxChunks
  /\ out \in Seq(Box)

(* No (nonce, key) pair seals two boxes, over all encryptions and both      *)
(* values of the last flag: at most one box per artifact and counter.       *)
SealedOnce ==
  \A b, c \in sealed : b.art = c.art /\ b.ctr = c.ctr => b = c

(* Whatever happened to the stored file, the plaintext decrypt_stream has   *)
(* written so far is a prefix of the plaintext of the one artifact whose    *)
(* header the file carries: no gap, no repetition, nothing out of order and *)
(* nothing from another artifact.                                           *)
ReleasedInOrder ==
  \A k \in 1..Len(out) :
    /\ out[k].art = hdr
    /\ out[k].lo = IF k = 1 THEN 0 ELSE out[k - 1].hi

(* decrypt and decrypt_stream return only after the whole plaintext: a file *)
(* cut at a chunk boundary fails instead of yielding a shorter package.     *)
WholeOnSuccess ==
  pc = "ok" => /\ out # <<>>
               /\ out[Len(out)].hi = size[hdr]

(* The only files that decrypt are those an encryption wrote, cell by cell: *)
(* no other header, no trailing bytes, no other order.                      *)
OnlyIntactDecrypts ==
  pc = "ok" => \E a \in Artifacts : encPc[a] = "done" /\ file = written[a]

(* A file as it was written decrypts, for every plaintext length around the *)
(* chunk boundaries and however the first chunk straddles the header read.  *)
IntactDecrypts ==
  pc = "error" => \A a \in Artifacts : encPc[a] = "done" => file # written[a]
=============================================================================
