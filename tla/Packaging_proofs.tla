-------------------------- MODULE Packaging_proofs --------------------------
(***************************************************************************)
(* model.tar is never partial, an undisturbed run makes it of exactly the  *)
(* wanted files, what a package was made of is what it restores to, and a  *)
(* disturbed run makes none of torn files that the consumer would restore, *)
(* for any directory of two levels, any contents and any number of runs.   *)
(***************************************************************************)
EXTENDS Packaging, TLAPS

\* The members of t are the first of its manifest.
Begins(t) ==
  /\ Len(t.members) <= Len(t.manifest)
  /\ \A i \in 1..Len(t.members) : /\ t.members[i].path = t.manifest[i].path
                                  /\ Len(t.members[i].data) = t.manifest[i].size

TarInv ==
  /\ NeverPartial
  /\ pc = "tar" => Begins(tmp) /\ tmp.manifest = entries
  /\ pc = "replace" => Complete(tmp)

IInv == TypeOK /\ TarInv

(***************************************************************************)
(* While nobody changes the directory, a file that is wanted and not yet   *)
(* found is in a directory that is still to be walked, or below one.       *)
(***************************************************************************)
Above(p) == {Root, ParentOf[DirOf[p]], DirOf[p]}

WalkInv ==
  pc = "walk" =>
    /\ entries = <<>> /\ size = None
    /\ steady =>
         /\ \A d \in found : Walked(d)
         /\ listing \union selected \subseteq Candidates
         /\ \A p \in Candidates \ (listing \union selected) : Above(p) \intersect found # {}

(***************************************************************************)
(* What is wanted is in the manifest, in order, or comes after it.         *)
(***************************************************************************)
Made == steady /\ (pc \in {"manifest", "tar", "replace"} \/ result = "ok")

\* e describes the file as it is.
Describes(e) == files[e.path] = e.sha256 /\ Len(e.sha256) = e.size

ManifestInv ==
  Made =>
    /\ Named(entries) \union selected = Wanted
    /\ InOrder(entries)
    /\ \A i \in 1..Len(entries) : /\ Describes(entries[i])
                                  /\ \A p \in selected : Rank[entries[i].path] < Rank[p]
    /\ pc = "manifest" /\ size # None =>
         \A p \in Paths : Least(p, selected) => size = Len(files[p])
    /\ pc # "manifest" => selected = {}

(***************************************************************************)
(* The tar under construction, and then the package, has the files as they *)
(* are.                                                                    *)
(***************************************************************************)
Copies(t) == \A i \in 1..Len(t.members) : t.members[i].data = files[t.members[i].path]

CopyInv ==
  /\ pc # "idle" => result = "running"
  /\ pc = "replace" => tmp.manifest = entries
  /\ steady /\ pc \in {"tar", "replace"} => Copies(tmp)
  /\ steady /\ result = "ok" => package # None /\ package.manifest = entries /\ Copies(package)

SteadyInv == WalkInv /\ ManifestInv /\ CopyInv

(***************************************************************************)
(* Whoever changes the directory: what is there now, and what was hashed,  *)
(* was there during the run.                                               *)
(***************************************************************************)
HadInv ==
  /\ pc # "idle" => \A p \in Paths : Now(files[p]) \subseteq had[p]
  /\ pc # "idle" \/ result = "ok" =>
       \A i \in 1..Len(entries) : entries[i].sha256 \in had[entries[i].path]
  /\ result = "ok" => package # None /\ package.manifest = entries

USE DirAssumption, PathAssumption, ContentAssumption, BoundAssumption, NoneAssumption

\* A copy of enough bytes is a sequence as long as it was to be.
LEMMA CopyLength ==
  ASSUME NEW c, NEW n \in Nat, Enough(c, n)
  PROVE  Copied(c, n) \in Seq(Nat) /\ Len(Copied(c, n)) = n
<1>1. c \in Seq(Nat) /\ Len(c) >= n
  BY DEF Enough
<1> QED BY <1>1 DEF Copied

\* A tar that has begun goes on with the next entry of its manifest.
LEMMA NextMember ==
  ASSUME NEW t \in Tar, Begins(t), Len(t.members) < Len(t.manifest),
         NEW m \in Member,
         m.path = t.manifest[Len(t.members) + 1].path,
         Len(m.data) = t.manifest[Len(t.members) + 1].size,
         NEW u, u = [t EXCEPT !.members = Append(@, m)]
  PROVE  u \in Tar /\ Begins(u) /\ u.manifest = t.manifest
<1>1. t.members \in Seq(Member) /\ t.manifest \in Seq(Entry)
  BY DEF Tar
<1>2. u.members = Append(t.members, m) /\ u.manifest = t.manifest /\ u.closed = t.closed
  BY DEF Tar
<1>3. u \in Tar
  <2>1. u = [manifest |-> t.manifest, members |-> Append(t.members, m), closed |-> t.closed]
    BY DEF Tar
  <2>2. Append(t.members, m) \in Seq(Member) /\ t.closed \in BOOLEAN
    BY <1>1 DEF Tar
  <2> QED BY <1>1, <2>1, <2>2 DEF Tar
<1>4. /\ Len(u.members) = Len(t.members) + 1
      /\ u.members[Len(t.members) + 1] = m
      /\ \A i \in 1..Len(t.members) : u.members[i] = t.members[i]
  BY <1>1, <1>2
<1>5. Len(t.members) \in Nat /\ Len(t.manifest) \in Nat
  BY <1>1
<1>6. ASSUME NEW i \in 1..Len(u.members)
      PROVE  u.members[i].path = u.manifest[i].path /\ Len(u.members[i].data) = u.manifest[i].size
  <2>1. CASE i = Len(t.members) + 1
    BY <2>1, <1>2, <1>4
  <2>2. CASE i \in 1..Len(t.members)
    BY <2>2, <1>2, <1>4 DEF Begins
  <2> QED BY <2>1, <2>2, <1>4, <1>5
<1> QED BY <1>2, <1>3, <1>4, <1>5, <1>6 DEF Begins

LEMMA Initially == Init => IInv
BY DEF Init, IInv, TypeOK, TarInv, NeverPartial

\* Each step of the walk, of the manifest and of the tar.
LEMMA Preserved == IInv /\ [Next]_vars => IInv'
<1> SUFFICES ASSUME IInv, [Next]_vars PROVE IInv'
  OBVIOUS
<1> USE DEF IInv, bounds, walk, plan
<1>1. CASE Start
  <2>1. had' \in [Paths -> SUBSET Contents]
    BY <1>1 DEF Start, Now
  <2> QED BY <1>1, <2>1 DEF Start, TypeOK, TarInv, NeverPartial, Complete
<1>2. CASE Select
  BY <1>2 DEF Select, Ends, Preferred, TypeOK, TarInv, NeverPartial, Complete
<1>3. ASSUME NEW p \in Paths, Stat(p)
      PROVE  IInv'
  <2>2. files[p] \in Contents => Len(files[p]) \in Nat
    OBVIOUS
  <2> QED BY <1>3, <2>2 DEF Stat, Ends, TypeOK, TarInv, NeverPartial, Complete
<1>4. ASSUME NEW p \in Paths, Hash(p)
      PROVE  IInv'
  <2>2. CASE files[p] \in Contents
    <3>1. [path |-> p, size |-> size, sha256 |-> files[p]] \in Entry
      BY <1>4, <2>2 DEF Hash, TypeOK, Entry
    <3>2. entries' \in Seq(Entry)
      <4>1. entries' = Append(entries, [path |-> p, size |-> size, sha256 |-> files[p]])
        BY <1>4, <2>2 DEF Hash
      <4>2. entries \in Seq(Entry)
        BY DEF TypeOK
      <4> QED BY <3>1, <4>1, <4>2
    <3> QED BY <1>4, <2>2, <3>2 DEF Hash, TypeOK, TarInv, NeverPartial, Complete
  <2>3. CASE files[p] \notin Contents
    BY <1>4, <2>3 DEF Hash, Ends, TypeOK, TarInv, NeverPartial, Complete
  <2> QED BY <2>2, <2>3
<1>5. CASE OpenTar
  <2>1. Created(entries) \in Tar /\ Begins(Created(entries))
    BY DEF TypeOK, Created, Tar, Begins
  <2>2. Created(entries) # None /\ Created(entries).manifest = entries
    BY <2>1 DEF Created
  <2> QED BY <1>5, <2>1, <2>2 DEF OpenTar, TypeOK, TarInv, NeverPartial, Complete, Begins
<1>6. CASE AddMember
  <2> DEFINE k == Len(tmp.members) + 1
             e == entries[k]
             m == [path |-> e.path, data |-> Copied(files[e.path], e.size)]
  <2>1. pc = "tar" /\ Len(tmp.members) < Len(entries) /\ tmp \in Tar
    BY <1>6 DEF AddMember, TypeOK
  <2>2. tmp.manifest = entries /\ Begins(tmp)
    BY <2>1 DEF TarInv
  <2>3. e \in Entry
    <3>1. Len(tmp.members) \in Nat /\ Len(entries) \in Nat
      BY <2>1 DEF Tar, TypeOK
    <3>2. k \in 1..Len(entries)
      BY <2>1, <3>1
    <3> QED BY <3>2 DEF TypeOK
  <2>4. CASE Enough(files[e.path], e.size)
    <3>1. tmp' = [tmp EXCEPT !.members = Append(@, m)] /\ pc' = pc
      BY <1>6, <2>4 DEF AddMember
    <3>2. m.path = e.path /\ m.data \in Seq(Nat) /\ Len(m.data) = e.size /\ m \in Member
      BY <2>3, <2>4, CopyLength DEF Entry, Member
    <3>3. tmp' \in Tar /\ Begins(tmp') /\ tmp'.manifest = tmp.manifest
      BY <2>1, <2>2, <3>1, <3>2, NextMember
    <3>4. tmp' # None
      BY <3>3
    <3>5. UNCHANGED <<files, package, walk, plan, bounds, steady, had, result>>
      BY <1>6, <2>4 DEF AddMember
    <3>6. TypeOK'
      BY <3>1, <3>3, <3>4, <3>5 DEF TypeOK
    <3>7. Begins(tmp)' /\ (tmp.manifest = entries)'
      BY <2>2, <3>3, <3>5 DEF Begins
    <3>8. NeverPartial'
      BY <3>5 DEF TarInv, NeverPartial, Complete
    <3> QED BY <2>1, <3>1, <3>6, <3>7, <3>8 DEF TarInv
  <2>5. CASE ~Enough(files[e.path], e.size)
    BY <1>6, <2>5 DEF AddMember, Ends, TypeOK, TarInv, NeverPartial, Complete
  <2> QED BY <2>4, <2>5
<1>7. CASE CloseTar
  <2>1. tmp \in Tar /\ Begins(tmp) /\ tmp.manifest = entries /\ Len(tmp.members) = Len(entries)
    BY <1>7 DEF CloseTar, Finished, TypeOK, TarInv
  <2>2. tmp' \in Tar /\ tmp' # None /\ tmp'.closed
        /\ tmp'.members = tmp.members /\ tmp'.manifest = tmp.manifest
    BY <1>7, <2>1 DEF CloseTar, Tar
  <2>3. Complete(tmp)'
    BY <2>1, <2>2 DEF Complete, Begins
  <2>4. UNCHANGED <<files, package, walk, plan, result, bounds, steady, had>> /\ pc' = "replace"
    BY <1>7 DEF CloseTar
  <2>5. NeverPartial'
    BY <2>4 DEF TarInv, NeverPartial, Complete
  <2> QED BY <2>2, <2>3, <2>4, <2>5 DEF TypeOK, TarInv
<1>8. CASE Replace
  BY <1>8 DEF Replace, Ends, TypeOK, TarInv, NeverPartial, Complete
<1>9. CASE DiskError
  BY <1>9 DEF DiskError, Ends, TypeOK, TarInv, NeverPartial, Complete
<1>10. CASE Kill
  BY <1>10 DEF Kill, Ends, TypeOK, TarInv, NeverPartial, Complete
<1>11. CASE Change
  <2>1. /\ files' \in [Paths -> Contents \union {Link, None}]
        /\ had' \in [Paths -> SUBSET Contents] /\ changes' \in 0..MaxChanges
    BY <1>11 DEF Change, Now, TypeOK
  <2>2. UNCHANGED <<package, tmp, pc, walk, plan, result, runs>>
    BY <1>11 DEF Change
  <2> QED BY <2>1, <2>2 DEF TypeOK, TarInv, NeverPartial, Complete, Begins
<1>12. CASE \E d \in Dirs : ListDir(d)
  BY <1>12 DEF ListDir, Subdirs, TypeOK, TarInv, NeverPartial, Complete
<1>13. CASE \E p \in Paths : Visit(p)
  BY <1>13 DEF Visit, Ends, TypeOK, TarInv, NeverPartial, Complete
<1>14. CASE UNCHANGED vars
  BY <1>14 DEF vars, TypeOK, TarInv, NeverPartial, Complete, Begins
<1> QED BY <1>1, <1>2, <1>3, <1>4, <1>5, <1>6, <1>7, <1>8, <1>9, <1>10, <1>11, <1>12, <1>13, <1>14 DEF Next

-----------------------------------------------------------------------------
(***************************************************************************)
(* A directory that nobody changes.                                        *)
(***************************************************************************)
LEMMA RootOfRoot == ParentOf[Root] = Root
<1>1. ParentOf[Root] \in Dirs
  OBVIOUS
<1>2. /\ ParentOf[ParentOf[Root]] = Root
      /\ ParentOf[ParentOf[ParentOf[Root]]] = Root
  BY <1>1
<1> QED BY <1>2

LEMMA SameFiles ==
  ASSUME files' = files
  PROVE  Candidates' = Candidates /\ Wanted' = Wanted
BY DEF Candidates, Wanted

\* Walking into a directory brings every file of it, and what is below.
LEMMA DirWalked ==
  ASSUME TypeOK, WalkInv, NEW d \in Dirs, ListDir(d), steady
  PROVE  /\ \A c \in found' : Walked(c)
         /\ listing' \subseteq Candidates
         /\ \A p \in Candidates \ (listing' \union selected) : Above(p) \intersect found' # {}
<1>1. /\ pc = "walk" /\ listing = {} /\ d \in found
      /\ found' = (found \ {d}) \union Subdirs(d)
      /\ listing' = {p \in Allowed : DirOf[p] = d /\ files[p] # None}
  BY DEF ListDir
<1>2. \A c \in found : Walked(c)
  BY <1>1 DEF WalkInv
<1>3. \A c \in Subdirs(d) : Walked(c)
  <2> SUFFICES ASSUME NEW c \in Subdirs(d) PROVE Walked(c)
    OBVIOUS
  <2>1. c \notin Excluded /\ ParentOf[c] = d
    BY DEF Subdirs
  <2>2. d \notin Excluded
    BY <1>1, <1>2 DEF Walked
  <2> QED BY <2>1, <2>2 DEF Walked
<1>4. listing' \subseteq Candidates
  BY <1>1, <1>2 DEF Candidates
<1>5. ASSUME NEW p \in Candidates \ (listing' \union selected)
      PROVE  Above(p) \intersect found' # {}
  <2>1. p \in Paths /\ p \in Allowed /\ files[p] # None /\ Walked(DirOf[p]) /\ DirOf[p] # d
    BY <1>1, <1>5 DEF Candidates
  <2>2. DirOf[p] \in Dirs /\ ParentOf[DirOf[p]] \in Dirs /\ ParentOf[ParentOf[DirOf[p]]] = Root
    BY <2>1
  <2>3. PICK c \in Above(p) : c \in found
    BY <1>1, <1>5 DEF WalkInv
  <2>4. CASE c # d
    BY <1>1, <2>3, <2>4
  <2>5. CASE ParentOf[DirOf[p]] = d
    <3>1. DirOf[p] # Root
      BY <2>1, <2>5, RootOfRoot
    <3>2. Exists(DirOf[p])
      BY <2>1 DEF Exists
    <3>3. DirOf[p] \in Subdirs(d)
      BY <2>1, <2>2, <2>5, <3>1, <3>2 DEF Subdirs, Walked
    <3> QED BY <1>1, <3>3 DEF Above
  <2>6. CASE d = Root /\ ParentOf[DirOf[p]] # d
    <3>1. ParentOf[DirOf[p]] \notin Excluded
      BY <2>1, <2>6 DEF Walked
    <3>2. Exists(ParentOf[DirOf[p]])
      BY <2>1 DEF Exists
    <3>3. ParentOf[DirOf[p]] \in Subdirs(d)
      BY <2>2, <2>6, <3>1, <3>2 DEF Subdirs
    <3> QED BY <1>1, <3>3 DEF Above
  <2> QED BY <2>1, <2>3, <2>4, <2>5, <2>6 DEF Above
<1> QED BY <1>2, <1>3, <1>4, <1>5, <1>1

LEMMA WalkStep ==
  ASSUME TypeOK, WalkInv, [Next]_vars
  PROVE  WalkInv'
<1> USE DEF bounds, walk, plan
<1>1. CASE Start
  <2>1. /\ found' = {Root} /\ listing' = {} /\ selected' = {} /\ entries' = <<>> /\ size' = None
        /\ files' = files
    BY <1>1 DEF Start
  <2>2. \A p \in Candidates' : Above(p) \intersect {Root} # {}
    BY DEF Above
  <2>3. Walked(Root)
    BY DEF Walked
  <2> QED BY <2>1, <2>2, <2>3 DEF WalkInv, Above
<1>2. ASSUME NEW d \in Dirs, ListDir(d) PROVE WalkInv'
  <2>1. UNCHANGED <<files, steady, entries, size, selected>> /\ pc = "walk"
    BY <1>2 DEF ListDir
  <2>2. steady => selected \subseteq Candidates
    BY <2>1 DEF WalkInv
  <2> QED BY <1>2, <2>1, <2>2, DirWalked, SameFiles DEF WalkInv, Above
<1>3. ASSUME NEW p \in Paths, Visit(p) PROVE WalkInv'
  <2> SUFFICES ASSUME pc' = "walk" PROVE WalkInv'
    BY DEF WalkInv
  <2>1. /\ UNCHANGED <<files, steady, entries, size, found>> /\ pc = "walk" /\ p \in listing
        /\ listing' = listing \ {p} /\ selected' = selected \union {p}
    BY <1>3 DEF Visit, Ends
  <2>2. listing' \union selected' = listing \union selected
    BY <2>1
  <2> QED BY <2>1, <2>2, SameFiles DEF WalkInv, Above
<1>4. CASE Change
  BY <1>4 DEF Change, WalkInv
<1>5. CASE UNCHANGED vars
  BY <1>5, SameFiles DEF vars, WalkInv, Above
<1>6. CASE pc' # "walk"
  BY <1>6 DEF WalkInv
<1>7. CASE Select \/ OpenTar \/ CloseTar \/ Replace
  BY <1>6, <1>7 DEF Select, OpenTar, CloseTar, Replace, Ends
<1>8. CASE AddMember \/ DiskError \/ Kill
  BY <1>6, <1>8 DEF AddMember, DiskError, Kill, Ends
<1>9. CASE \E p \in Paths : Stat(p) \/ Hash(p)
  BY <1>6, <1>9 DEF Stat, Hash, Ends
<1> QED BY <1>1, <1>2, <1>3, <1>4, <1>5, <1>7, <1>8, <1>9 DEF Next

\* The next entry comes after all that are there and before all that follow.
LEMMA EntryAdded ==
  ASSUME TypeOK, ManifestInv, NEW p \in Paths, Hash(p), pc = "manifest", steady, files[p] \in Contents
  PROVE  /\ Named(entries') \union selected' = Wanted
         /\ InOrder(entries')
         /\ \A i \in 1..Len(entries') : /\ Describes(entries'[i])
                                        /\ \A q \in selected' : Rank[entries'[i].path] < Rank[q]
<1> DEFINE e == [path |-> p, size |-> size, sha256 |-> files[p]]
           n == Len(entries)
<1>1. /\ entries' = Append(entries, e) /\ selected' = selected \ {p} /\ size # None
      /\ Least(p, selected)
  BY DEF Hash
<1>2. entries \in Seq(Entry) /\ n \in Nat /\ selected \subseteq Paths
  BY DEF TypeOK
<1>3. /\ Len(entries') = n + 1 /\ entries'[n + 1] = e
      /\ \A i \in 1..n : entries'[i] = entries[i]
  BY <1>1, <1>2
<1>4. e.path = p /\ e.sha256 = files[p] /\ e.size = Len(files[p])
  BY <1>1 DEF ManifestInv, Made
<1>5. p \in selected /\ \A q \in selected \ {p} : Rank[p] < Rank[q]
  BY <1>1, <1>2 DEF Least
<1>6. /\ Named(entries) \union selected = Wanted /\ InOrder(entries)
      /\ \A i \in 1..n : Describes(entries[i]) /\ \A q \in selected : Rank[entries[i].path] < Rank[q]
  BY DEF ManifestInv, Made
<1> HIDE DEF e, n
<1>7. Named(entries') = Named(entries) \union {p}
  <2>1. 1..(n + 1) = (1..n) \union {n + 1}
    BY <1>2
  <2>2. Named(entries') = {entries'[i].path : i \in 1..(n + 1)}
    BY <1>3 DEF Named
  <2>3. Named(entries) = {entries[i].path : i \in 1..n}
    BY DEF Named, n
  <2>4. \A i \in 1..n : entries'[i].path = entries[i].path
    BY <1>3
  <2>5. entries'[n + 1].path = p
    BY <1>3, <1>4
  <2>6. \A x : x \in Named(entries') <=> x = p \/ \E i \in 1..n : x = entries'[i].path
    <3>1. \A x : x \in Named(entries') <=> \E i \in (1..n) \union {n + 1} : x = entries'[i].path
      BY <2>1, <2>2
    <3> QED BY <2>5, <3>1
  <2>7. \A x : x \in Named(entries) <=> \E i \in 1..n : x = entries'[i].path
    <3>1. \A x : x \in Named(entries) <=> \E i \in 1..n : x = entries[i].path
      BY <2>3
    <3>2. ASSUME NEW x \in Named(entries) PROVE \E i \in 1..n : x = entries'[i].path
      <4>1. PICK i \in 1..n : x = entries[i].path
        BY <3>1
      <4>2. x = entries'[i].path
        BY <2>4, <4>1
      <4> QED BY <4>2
    <3>3. ASSUME NEW x, NEW i \in 1..n, x = entries'[i].path PROVE x \in Named(entries)
      <4>1. x = entries[i].path
        BY <2>4, <3>3
      <4> QED BY <3>1, <4>1
    <3> QED BY <3>2, <3>3
  <2>8. \A x : x \in Named(entries') <=> x \in Named(entries) \union {p}
    BY <2>6, <2>7
  <2> QED BY <2>8
<1>8. ASSUME NEW i \in 1..(n + 1)
      PROVE  Describes(entries'[i]) /\ \A q \in selected' : Rank[entries'[i].path] < Rank[q]
  <2>1. CASE i = n + 1
    BY <1>1, <1>3, <1>4, <1>5, <2>1 DEF Describes
  <2>2. CASE i \in 1..n
    BY <1>1, <1>3, <1>6, <2>2
  <2> QED BY <1>2, <1>8, <2>1, <2>2
<1>9. InOrder(entries')
  <2> SUFFICES ASSUME NEW i \in 1..(n + 1), NEW j \in 1..(n + 1), i < j
               PROVE  Rank[entries'[i].path] < Rank[entries'[j].path]
    BY <1>3 DEF InOrder
  <2>1. i \in 1..n /\ (j \in 1..n \/ j = n + 1)
    BY <1>2
  <2>2. CASE j \in 1..n
    BY <1>3, <1>6, <2>1, <2>2 DEF InOrder, n
  <2>3. CASE j = n + 1
    BY <1>3, <1>4, <1>5, <1>6, <2>1, <2>3
  <2> QED BY <2>1, <2>2, <2>3
<1> QED BY <1>1, <1>3, <1>5, <1>6, <1>7, <1>8, <1>9

LEMMA ManifestKept ==
  ASSUME ManifestInv, UNCHANGED <<files, entries, selected, size>>,
         steady' => steady, Made' => Made, Made' => (pc' = "manifest" => pc = "manifest"),
         Made' /\ pc' # "manifest" => selected = {}
  PROVE  ManifestInv'
<1>1. Wanted' = Wanted
  BY SameFiles
<1>2. \A i \in 1..Len(entries) : Describes(entries[i])' <=> Describes(entries[i])
  BY DEF Describes
<1> QED BY <1>1, <1>2 DEF ManifestInv, Named, InOrder, Least, Describes

LEMMA ManifestStep ==
  ASSUME TypeOK, WalkInv, ManifestInv, CopyInv, [Next]_vars
  PROVE  ManifestInv'
<1> USE DEF bounds, walk, plan
<1>1. CASE Select
  <2> SUFFICES ASSUME pc' = "manifest", steady PROVE ManifestInv'
    BY <1>1 DEF Select, Ends, ManifestInv, Made, CopyInv
  <2>1. /\ pc = "walk" /\ found = {} /\ listing = {} /\ selected' = Preferred(selected)
        /\ UNCHANGED <<files, entries, size, steady>>
    BY <1>1 DEF Select
  <2>2. selected = Candidates /\ entries = <<>> /\ size = None
    BY <2>1 DEF WalkInv
  <2>3. selected' = Wanted
    BY <2>1, <2>2 DEF Preferred, Wanted
  <2> QED BY <2>1, <2>2, <2>3, SameFiles DEF ManifestInv, Named, InOrder
<1>2. ASSUME NEW p \in Paths, Stat(p) PROVE ManifestInv'
  <2> SUFFICES ASSUME Made', files[p] \in Contents PROVE ManifestInv'
    BY <1>2 DEF Stat, Ends, ManifestInv, Made, CopyInv
  <2>1. /\ UNCHANGED <<files, entries, selected, steady, pc, result>> /\ size' = Len(files[p])
        /\ pc = "manifest" /\ Least(p, selected)
    BY <1>2 DEF Stat
  <2>2. \A q \in Paths : Least(q, selected) => q = p
    BY <2>1 DEF Least
  <2>3. Made /\ Wanted' = Wanted
    BY <2>1, SameFiles DEF Made
  <2> QED BY <2>1, <2>2, <2>3 DEF ManifestInv, Named, InOrder, Describes, Least
<1>3. ASSUME NEW p \in Paths, Hash(p) PROVE ManifestInv'
  <2> SUFFICES ASSUME Made', files[p] \in Contents PROVE ManifestInv'
    BY <1>3 DEF Hash, Ends, ManifestInv, Made, CopyInv
  <2>1. /\ UNCHANGED <<files, steady, pc, result>> /\ pc = "manifest" /\ size' = None /\ steady
    BY <1>3 DEF Hash, Made
  <2>2. /\ Named(entries') \union selected' = Wanted
        /\ InOrder(entries')
        /\ \A i \in 1..Len(entries') : /\ Describes(entries'[i])
                                       /\ \A q \in selected' : Rank[entries'[i].path] < Rank[q]
    BY <1>3, <2>1, EntryAdded
  <2>3. Wanted' = Wanted
    BY <2>1, SameFiles
  <2> QED BY <2>1, <2>2, <2>3 DEF ManifestInv, Named, InOrder, Describes
<1>4. CASE OpenTar
  BY <1>4, ManifestKept DEF OpenTar, Made, ManifestInv
<1>5. CASE AddMember
  <2>1. UNCHANGED <<files, entries, selected, size, steady>> /\ pc = "tar"
    BY <1>5 DEF AddMember
  <2>2. UNCHANGED <<pc, result>> \/ (pc' = "idle" /\ result' = "error")
    BY <1>5 DEF AddMember, Ends
  <2> QED BY <2>1, <2>2, ManifestKept DEF Made, ManifestInv
<1>6. CASE CloseTar
  BY <1>6, ManifestKept DEF CloseTar, Made, ManifestInv
<1>7. CASE Replace
  BY <1>7, ManifestKept DEF Replace, Ends, Made, ManifestInv
<1>8. CASE ~Made'
  BY <1>8 DEF ManifestInv
<1>9. CASE DiskError \/ Kill \/ Change
  BY <1>8, <1>9 DEF DiskError, Kill, Ends, Change, Made
<1>10. CASE Start \/ (\E d \in Dirs : ListDir(d)) \/ (\E p \in Paths : Visit(p))
  BY <1>8, <1>10 DEF Start, ListDir, Visit, Ends, Made, CopyInv
<1>11. CASE UNCHANGED vars
  BY <1>11, ManifestKept DEF vars, Made, ManifestInv
<1> QED BY <1>1, <1>2, <1>3, <1>4, <1>5, <1>6, <1>7, <1>9, <1>10, <1>11 DEF Next

\* The next member has the bytes of its file, all of them.
LEMMA MemberAdded ==
  ASSUME IInv, ManifestInv, CopyInv, AddMember, steady, tmp' # None
  PROVE  Copies(tmp')
<1> DEFINE n == Len(tmp.members)
           e == entries[n + 1]
           m == [path |-> e.path, data |-> Copied(files[e.path], e.size)]
<1>1. /\ pc = "tar" /\ n < Len(entries) /\ Enough(files[e.path], e.size) /\ files' = files
      /\ tmp' = [tmp EXCEPT !.members = Append(@, m)]
  BY DEF AddMember
<1>2. tmp \in Tar /\ entries \in Seq(Entry) /\ Copies(tmp)
  BY <1>1 DEF IInv, TypeOK, CopyInv
<1>3. tmp.members \in Seq(Member) /\ n \in Nat /\ n + 1 \in 1..Len(entries)
  BY <1>1, <1>2 DEF Tar
<1>4. Describes(e)
  BY <1>1, <1>3 DEF ManifestInv, Made
<1>5. m.path = e.path /\ m.data = files[m.path]
  <2>1. files[e.path] \in Seq(Nat) /\ e.size = Len(files[e.path])
    BY <1>1, <1>4 DEF Enough, Describes
  <2> QED BY <2>1 DEF Copied
<1> HIDE DEF m
<1>6. tmp'.members = Append(tmp.members, m)
  BY <1>1, <1>2 DEF Tar
<1>7. /\ Len(tmp'.members) = n + 1 /\ tmp'.members[n + 1] = m
      /\ \A i \in 1..n : tmp'.members[i] = tmp.members[i]
  <2>1. \A i \in 1..n : Append(tmp.members, m)[i] = tmp.members[i]
    BY <1>3
  <2> QED BY <1>3, <1>6, <2>1
<1>8. ASSUME NEW i \in 1..(n + 1)
      PROVE  tmp'.members[i].data = files[tmp'.members[i].path]
  <2>1. CASE i = n + 1
    BY <1>5, <1>7, <2>1
  <2>2. CASE i \in 1..n
    BY <1>2, <1>7, <2>2 DEF Copies
  <2> QED BY <1>3, <1>8, <2>1, <2>2
<1> QED BY <1>1, <1>7, <1>8 DEF Copies

LEMMA CopyStep ==
  ASSUME IInv, WalkInv, ManifestInv, CopyInv, [Next]_vars
  PROVE  CopyInv'
<1> USE DEF bounds, walk, plan
<1>1. CASE Start
  BY <1>1 DEF Start, CopyInv
<1>2. CASE (\E d \in Dirs : ListDir(d)) \/ Select \/ (\E p \in Paths : Visit(p) \/ Stat(p) \/ Hash(p))
  BY <1>2 DEF ListDir, Select, Visit, Stat, Hash, Ends, CopyInv
<1>3. CASE OpenTar
  BY <1>3 DEF OpenTar, Created, Copies, CopyInv
<1>4. CASE AddMember
  <2>1. pc = "tar" /\ UNCHANGED <<files, package, entries, steady>>
    BY <1>4 DEF AddMember
  <2>2. CASE pc' = "idle"
    BY <1>4, <2>1, <2>2 DEF AddMember, Ends, CopyInv
  <2>3. CASE pc' # "idle"
    <3>1. UNCHANGED <<pc, result>>
      BY <1>4, <2>3 DEF AddMember, Ends
    <3>2. tmp' # None
      BY <2>1, <3>1, Preserved DEF IInv, TypeOK
    <3> QED BY <1>4, <2>1, <3>1, <3>2, MemberAdded DEF CopyInv, Copies
  <2> QED BY <2>2, <2>3
<1>5. CASE CloseTar
  <2>1. /\ pc = "tar" /\ pc' = "replace" /\ tmp \in Tar
        /\ UNCHANGED <<files, entries, steady, result>> /\ tmp' = [tmp EXCEPT !.closed = TRUE]
    BY <1>5 DEF CloseTar, IInv, TypeOK
  <2>2. tmp'.members = tmp.members /\ tmp'.manifest = tmp.manifest
    BY <2>1 DEF Tar
  <2> QED BY <2>1, <2>2 DEF CopyInv, Copies, IInv, TarInv
<1>6. CASE Replace
  BY <1>6 DEF Replace, Ends, CopyInv, Copies, IInv, TypeOK
<1>7. CASE DiskError \/ Kill
  BY <1>7 DEF DiskError, Kill, Ends, CopyInv
<1>8. CASE Change
  BY <1>8 DEF Change, CopyInv
<1>9. CASE UNCHANGED vars
  BY <1>9 DEF vars, CopyInv, Copies
<1> QED BY <1>1, <1>2, <1>3, <1>4, <1>5, <1>6, <1>7, <1>8, <1>9 DEF Next

LEMMA SteadyInvariant == Spec => [](IInv /\ SteadyInv)
<1>1. Init => IInv /\ SteadyInv
  BY Initially DEF Init, SteadyInv, WalkInv, ManifestInv, Made, CopyInv
<1>2. IInv /\ SteadyInv /\ [Next]_vars => IInv' /\ SteadyInv'
  BY Preserved, WalkStep, ManifestStep, CopyStep DEF IInv, SteadyInv
<1> QED BY <1>1, <1>2, PTL DEF Spec

-----------------------------------------------------------------------------
(***************************************************************************)
(* A directory that anybody may change.                                    *)
(***************************************************************************)
\* A step that leaves the manifest, the package and the directory alone.
LEMMA HadKept ==
  ASSUME HadInv, UNCHANGED <<files, package, entries, had>>,
         pc' # "idle" => pc # "idle", result' = "ok" => result = "ok"
  PROVE  HadInv'
BY DEF HadInv

LEMMA HadStep ==
  ASSUME IInv, CopyInv, HadInv, [Next]_vars
  PROVE  HadInv'
<1> USE DEF bounds, walk, plan
<1>1. CASE Start
  BY <1>1 DEF Start, HadInv, IInv, TypeOK
<1>2. ASSUME NEW p \in Paths, Hash(p) PROVE HadInv'
  <2>1. UNCHANGED <<files, package, had>> /\ pc = "manifest"
    BY <1>2 DEF Hash
  <2>2. CASE files[p] \in Contents
    <3> DEFINE e == [path |-> p, size |-> size, sha256 |-> files[p]]
    <3>1. entries' = Append(entries, e) /\ UNCHANGED <<pc, result>>
      BY <1>2, <2>2 DEF Hash
    <3>2. e.path = p /\ e.sha256 \in had[p]
      BY <2>1, <2>2 DEF HadInv, Now
    <3>3. entries \in Seq(Entry) /\ result # "ok"
      BY <2>1 DEF IInv, TypeOK, CopyInv
    <3> HIDE DEF e
    <3>4. ASSUME NEW i \in 1..Len(entries')
          PROVE  entries'[i].sha256 \in had[entries'[i].path]
      <4>1. CASE i \in 1..Len(entries)
        <5>1. entries'[i] = entries[i]
          BY <3>1, <3>3, <4>1
        <5> QED BY <2>1, <4>1, <5>1 DEF HadInv
      <4>2. CASE i = Len(entries) + 1
        BY <3>1, <3>2, <3>3, <4>2
      <4> QED BY <3>1, <3>3, <4>1, <4>2
    <3> QED BY <2>1, <3>1, <3>3, <3>4 DEF HadInv
  <2>3. CASE files[p] \notin Contents
    BY <1>2, <2>1, <2>3, HadKept DEF Hash, Ends
  <2> QED BY <2>2, <2>3
<1>3. CASE Replace
  <2>1. pc = "replace" /\ tmp # None /\ tmp.manifest = entries /\ package' = tmp
        /\ UNCHANGED <<files, entries, had>> /\ pc' = "idle"
    BY <1>3 DEF Replace, Ends, CopyInv, IInv, TypeOK
  <2> QED BY <2>1 DEF HadInv
<1>4. CASE Change
  <2>1. UNCHANGED <<package, pc, entries, result>>
    BY <1>4 DEF Change
  <2>2. PICK p \in Changing, c \in Contents \union {None} :
          files' = [files EXCEPT ![p] = c] /\ had' = [had EXCEPT ![p] = @ \union Now(c)]
    BY <1>4 DEF Change
  <2>3. ASSUME NEW q \in Paths
        PROVE  had[q] \subseteq had'[q] /\ (Now(files[q]) \subseteq had[q] => Now(files'[q]) \subseteq had'[q])
    BY <2>2 DEF IInv, TypeOK
  <2>4. entries \in Seq(Entry)
    BY DEF IInv, TypeOK
  <2>5. \A i \in 1..Len(entries) : had[entries[i].path] \subseteq had'[entries[i].path]
    <3> SUFFICES ASSUME NEW i \in 1..Len(entries)
                 PROVE  had[entries[i].path] \subseteq had'[entries[i].path]
      OBVIOUS
    <3>1. entries[i] \in Entry
      BY <2>4
    <3> QED BY <2>3, <3>1 DEF Entry
  <2> QED BY <2>1, <2>3, <2>5 DEF HadInv
<1>5. CASE \/ Select \/ \E d \in Dirs : ListDir(d)
           \/ \E p \in Paths : Visit(p) \/ Stat(p)
  BY <1>5, HadKept DEF Select, ListDir, Visit, Stat, Ends
<1>6. CASE OpenTar \/ AddMember \/ CloseTar \/ DiskError \/ Kill
  BY <1>6, HadKept DEF OpenTar, AddMember, CloseTar, DiskError, Kill, Ends
<1>7. CASE UNCHANGED vars
  BY <1>7, HadKept DEF vars
<1> QED BY <1>1, <1>2, <1>3, <1>4, <1>5, <1>6, <1>7 DEF Next

LEMMA HadInvariant == Spec => [](IInv /\ HadInv)
<1>1. Init => HadInv
  BY DEF Init, HadInv
<1>2. SteadyInv => CopyInv
  BY DEF SteadyInv
<1>3. IInv /\ CopyInv /\ HadInv /\ [Next]_vars => HadInv'
  BY HadStep
<1> QED BY <1>1, <1>2, <1>3, SteadyInvariant, PTL DEF Spec

-----------------------------------------------------------------------------
(* Packaging is type correct, and write_package never works without a file. *)
THEOREM TypeCorrect == Spec => []TypeOK
<1>1. IInv => TypeOK
  BY DEF IInv
<1> QED BY <1>1, Initially, Preserved, PTL DEF Spec

(* A model.tar is complete, whatever failed, was killed or changed while it *)
(* was written (write_package).                                             *)
THEOREM PackageIsComplete == Spec => []NeverPartial
<1>1. IInv => NeverPartial
  BY DEF IInv, TarInv
<1> QED BY <1>1, Initially, Preserved, PTL DEF Spec

(* Over a directory that nobody changes, the package is of exactly the      *)
(* files that are wanted, each once and in order (collect_files,            *)
(* build_manifest), for any tree, contents and order of the file system.    *)
THEOREM SteadyPackageIsExact == Spec => []SteadyIsExact
<1>1. IInv /\ SteadyInv => SteadyIsExact
  BY DEF IInv, TypeOK, SteadyInv, CopyInv, ManifestInv, Made, SteadyIsExact
<1> QED BY <1>1, SteadyInvariant, PTL

(* and restore_package gets from it the files as they are (write_package).  *)
THEOREM PackageRestores == Spec => []RoundTrip
<1>1. IInv /\ SteadyInv => RoundTrip
  <2> SUFFICES ASSUME IInv, SteadyInv, result = "ok", steady
               PROVE  /\ Restores(package)
                      /\ \A i \in 1..Len(package.members) :
                           package.members[i].data = files[package.members[i].path]
    BY DEF RoundTrip
  <2>1. package # None /\ package.manifest = entries /\ Copies(package) /\ Complete(package)
    BY DEF SteadyInv, CopyInv, IInv, TarInv, NeverPartial
  <2>2. /\ InOrder(entries) /\ entries \in Seq(Entry)
        /\ \A i \in 1..Len(entries) : Describes(entries[i])
    BY DEF IInv, TypeOK, SteadyInv, ManifestInv, Made
  <2>3. Named(package.members) = Named(entries)
    BY <2>1 DEF Complete, Named
  <2>4. ASSUME NEW i \in 1..Len(package.members), NEW j \in 1..Len(entries),
               package.members[i].path = entries[j].path
        PROVE  /\ Len(package.members[i].data) = entries[j].size
               /\ package.members[i].data = entries[j].sha256
    <3>1. i \in 1..Len(entries) /\ entries[i].path = entries[j].path
      BY <2>1, <2>4 DEF Complete
    <3>2. entries[j].path \in Paths /\ i \in Nat /\ j \in Nat
      <4>1. entries[j] \in Entry /\ j \in Nat
        BY <2>2
      <4> QED BY <3>1, <4>1 DEF Entry
    <3>3. Rank[entries[j].path] \in Nat /\ ~(i < j) /\ ~(j < i)
      BY <2>2, <3>1, <3>2 DEF InOrder
    <3>4. i = j
      BY <3>2, <3>3
    <3>5. package.members[i].data = files[entries[j].path] /\ Describes(entries[j])
      BY <2>1, <2>2, <2>4 DEF Copies
    <3> QED BY <3>5 DEF Describes
  <2> QED BY <2>1, <2>3, <2>4 DEF Restores, Copies
<1> QED BY <1>1, SteadyInvariant, PTL

(* Whoever changes the directory meanwhile, what the consumer restores from *)
(* a package are files that were there, whole, during the run: a package of *)
(* torn ones is refused (build_manifest, write_package, _extract_verified). *)
THEOREM TornIsRefused == Spec => []NothingTorn
<1>1. IInv /\ HadInv => NothingTorn
  <2> SUFFICES ASSUME IInv, HadInv, result = "ok", Restores(package),
                      NEW i \in 1..Len(package.members)
               PROVE  package.members[i].data \in had[package.members[i].path]
    BY DEF NothingTorn
  <2>1. package.manifest = entries /\ Complete(package)
    BY DEF HadInv, IInv, TarInv, NeverPartial
  <2>2. i \in 1..Len(entries) /\ package.members[i].path = entries[i].path
    BY <2>1 DEF Complete
  <2>3. package.members[i].data = entries[i].sha256
    BY <2>1, <2>2 DEF Restores
  <2>4. entries[i].sha256 \in had[entries[i].path]
    BY <2>2 DEF HadInv
  <2> QED BY <2>2, <2>3, <2>4
<1> QED BY <1>1, HadInvariant, PTL
=============================================================================
