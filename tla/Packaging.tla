----------------------------- MODULE Packaging -----------------------------
(***************************************************************************)
(* `package_model`: walk the model directory, list and hash the files that *)
(* are allowed, write them into model.tar.tmp, rename it onto model.tar.   *)
(* The directory may change meanwhile, a step may fail, the process may be *)
(* killed and is started again over what it left.  The consumer's          *)
(* `restore_package` gives the package its meaning.                        *)
(*                                                                         *)
(* A file's content is a sequence of bytes, so that a prefix of one        *)
(* content may be another; a hash is the content it is of.                 *)
(***************************************************************************)
EXTENDS Integers, Sequences

CONSTANTS
  Dirs, Root,   \* directories, Root is the model directory
  ParentOf,     \* directory -> the one that holds it
  Excluded,     \* directories named `.cache`
  Paths,        \* files
  DirOf,        \* file -> its directory
  Rank,         \* file -> its place in the order of paths
  Allowed,      \* files whose name is on the allow-list
  Safetensors,  \* of these, the ones with that suffix
  Legacy,       \* and the ones named pytorch_model.bin
  Contents,     \* contents a file may have
  Link,         \* a symbolic link, or no regular file
  Changing,     \* files that may change while the packager runs
  MaxChanges, MaxRuns,  \* bounds
  None

ASSUME DirAssumption ==
  /\ Root \in Dirs /\ Excluded \subseteq Dirs \ {Root}
  /\ ParentOf \in [Dirs -> Dirs] /\ DirOf \in [Paths -> Dirs]
  /\ \A d \in Dirs : ParentOf[ParentOf[d]] = Root
ASSUME PathAssumption ==
  /\ Rank \in [Paths -> Nat]
  /\ \A p, q \in Paths : Rank[p] = Rank[q] => p = q
  /\ Allowed \subseteq Paths /\ Changing \subseteq Paths
  /\ Safetensors \subseteq Allowed /\ Legacy \subseteq Allowed
ASSUME ContentAssumption ==
  /\ Contents \subseteq Seq(Nat)
  /\ Link \notin Contents /\ None \notin Contents /\ Link # None
ASSUME BoundAssumption == MaxChanges \in Nat /\ MaxRuns \in Nat

VARIABLES
  files,     \* the model directory: path -> content, Link, or None
  package,   \* model.tar
  tmp,       \* model.tar.tmp
  pc,
  found,     \* directories to walk
  listing,   \* names of the directory being walked, not yet looked at
  selected,  \* files to package, and then those not in the manifest yet
  size,      \* the size of the next file, once it is taken
  entries,   \* the manifest so far
  result,    \* how the last run ended
  changes, runs,
  (* history *)
  steady,    \* no file has changed since the run began
  had        \* file -> the contents it has had since then

walk == <<found, listing>>
plan == <<selected, size, entries>>
bounds == <<changes, runs>>
vars == <<files, package, tmp, pc, walk, plan, result, bounds, steady, had>>

\* sha256 is the content hashed; no tar is complete before it is closed.
Entry == [path : Paths, size : Nat, sha256 : Contents]
Member == [path : Paths, data : Seq(Nat)]
Tar == [manifest : Seq(Entry), members : Seq(Member), closed : BOOLEAN]
ASSUME NoneAssumption == None \notin Tar
Created(manifest) == [manifest |-> manifest, members |-> <<>>, closed |-> FALSE]

\* Where an operator has a mutant, a plausible slip in the same code, the
\* mutant stands before it.
GoesOn(how) == result' = how /\ UNCHANGED pc
\* An exception leaves package_model.
Ends(how) == pc' = "idle" /\ result' = how

-----------------------------------------------------------------------------
(* collect_files.                                                           *)

Now(c) == {c} \intersect Contents

Start ==
  /\ pc = "idle" /\ runs < MaxRuns
  /\ pc' = "walk" /\ result' = "running" /\ runs' = runs + 1
  /\ found' = {Root} /\ listing' = {}
  /\ selected' = {} /\ size' = None /\ entries' = <<>>
  /\ steady' = TRUE
  /\ had' = [p \in Paths |-> Now(files[p])]
  /\ UNCHANGED <<files, package, tmp, changes>>

\* d or a directory in it is the directory of some file.
Exists(d) == \E p \in Paths : /\ files[p] # None
                              /\ DirOf[p] = d \/ ParentOf[DirOf[p]] = d
Subdirs(d) == {c \in Dirs \ Excluded : c # Root /\ ParentOf[c] = d /\ Exists(c)}

\* os.walk lists a directory when it gets there.
ListDir(d) ==
  /\ pc = "walk" /\ listing = {} /\ d \in found
  /\ found' = (found \ {d}) \union Subdirs(d)
  /\ listing' = {p \in Allowed : DirOf[p] = d /\ files[p] # None}
  /\ UNCHANGED <<files, package, tmp, pc, plan, result, bounds, steady, had>>

Visit(p) ==
  /\ pc = "walk" /\ p \in listing
  /\ listing' = listing \ {p}
  /\ IF files[p] \in Contents
       THEN selected' = selected \union {p} /\ UNCHANGED <<pc, result>>
       ELSE Ends("refused") /\ UNCHANGED selected
  /\ UNCHANGED <<files, package, tmp, found, size, entries, bounds, steady, had>>

\* _prefer_safetensors
Preferred(s) == IF s \intersect Safetensors # {} THEN s \ Legacy ELSE s

Select ==
  /\ pc = "walk" /\ found = {} /\ listing = {}
  /\ selected' = Preferred(selected)
  /\ IF selected' = {} THEN Ends("refused") ELSE pc' = "manifest" /\ UNCHANGED result
  /\ UNCHANGED <<files, package, tmp, walk, size, entries, bounds, steady, had>>

-----------------------------------------------------------------------------
(* build_manifest                                                           *)

AnyOrder(p, s) == p \in s
\* The list is sorted.
Least(p, s) == p \in s /\ \A q \in s : Rank[p] <= Rank[q]

Stat(p) ==
  /\ pc = "manifest" /\ size = None /\ Least(p, selected)
  /\ IF files[p] \in Contents
       THEN size' = Len(files[p]) /\ UNCHANGED <<pc, result>>
       ELSE Ends("error") /\ UNCHANGED size
  /\ UNCHANGED <<files, package, tmp, walk, selected, entries, bounds, steady, had>>

Hash(p) ==
  /\ pc = "manifest" /\ size # None /\ Least(p, selected)
  /\ IF files[p] \in Contents
       THEN /\ entries' = Append(entries, [path |-> p, size |-> size, sha256 |-> files[p]])
            /\ selected' = selected \ {p}
            /\ UNCHANGED <<pc, result>>
       ELSE Ends("error") /\ UNCHANGED <<selected, entries>>
  /\ size' = None
  /\ UNCHANGED <<files, package, tmp, walk, bounds, steady, had>>

-----------------------------------------------------------------------------
(* write_package                                                            *)

\* Opening for writing truncates what a killed run left.
OpenTar ==
  /\ pc = "manifest" /\ selected = {}
  /\ pc' = "tar"
  /\ tmp' = Created(entries)
  /\ UNCHANGED <<files, package, walk, plan, result, bounds, steady, had>>

ShortCopy(c, n) == SubSeq(c, 1, n - 1)
\* addfile copies as many bytes as the manifest says.
Copied(c, n) == SubSeq(c, 1, n)
Enough(c, n) == c \in Contents /\ Len(c) >= n

AddMember ==
  LET e == entries[Len(tmp.members) + 1] IN
  /\ pc = "tar" /\ Len(tmp.members) < Len(entries)
  /\ IF Enough(files[e.path], e.size)
       THEN /\ tmp' = [tmp EXCEPT !.members =
                         Append(@, [path |-> e.path, data |-> Copied(files[e.path], e.size)])]
            /\ UNCHANGED <<pc, result>>
       ELSE Ends("error") /\ tmp' = None
  /\ UNCHANGED <<files, package, walk, plan, bounds, steady, had>>

AnyNumber == TRUE
Finished == Len(tmp.members) = Len(entries)

CloseTar ==
  /\ pc = "tar" /\ Finished
  /\ pc' = "replace"
  /\ tmp' = [tmp EXCEPT !.closed = TRUE]
  /\ UNCHANGED <<files, package, walk, plan, result, bounds, steady, had>>

\* os.replace; the unlink in `finally` finds nothing.
Replace ==
  /\ pc = "replace"
  /\ package' = tmp
  /\ tmp' = None
  /\ Ends("ok")
  /\ UNCHANGED <<files, walk, plan, bounds, steady, had>>

\* An OSError of the disk; `finally` removes what write_package has begun.
DiskError ==
  /\ pc \in {"manifest", "tar", "replace"}
  /\ Ends("error")
  /\ tmp' = IF pc = "manifest" /\ selected # {} THEN tmp ELSE None
  /\ UNCHANGED <<files, package, walk, plan, bounds, steady, had>>

Kill ==
  /\ pc # "idle"
  /\ Ends("killed")
  /\ UNCHANGED <<files, package, tmp, walk, plan, bounds, steady, had>>

\* Another command on the same work directory, or the operator.
Change == \E p \in Changing, c \in Contents \union {None} :
  /\ changes < MaxChanges
  /\ changes' = changes + 1
  /\ files' = [files EXCEPT ![p] = c]
  /\ steady' = FALSE
  /\ had' = [had EXCEPT ![p] = @ \union Now(c)]
  /\ UNCHANGED <<package, tmp, pc, walk, plan, result, runs>>

-----------------------------------------------------------------------------
Init ==
  /\ files \in [Paths -> Contents \union {Link, None}]
  /\ package = None /\ tmp = None
  /\ pc = "idle" /\ result = "none"
  /\ found = {} /\ listing = {}
  /\ selected = {} /\ size = None /\ entries = <<>>
  /\ changes = 0 /\ runs = 0
  /\ steady = FALSE /\ had = [p \in Paths |-> {}]

Next == \/ Start \/ Select \/ OpenTar \/ AddMember \/ CloseTar
        \/ Replace \/ DiskError \/ Kill \/ Change
        \/ \E d \in Dirs : ListDir(d)
        \/ \E p \in Paths : Visit(p) \/ Stat(p) \/ Hash(p)

Spec == Init /\ [][Next]_vars

-----------------------------------------------------------------------------
(* restore_package, of a package that is complete.                          *)

Named(s) == {s[i].path : i \in 1..Len(s)}

SizesOnly(t) ==
  \A i \in 1..Len(t.members), j \in 1..Len(t.manifest) :
    t.members[i].path = t.manifest[j].path => Len(t.members[i].data) = t.manifest[j].size
Restores(t) ==
  /\ Named(t.members) = Named(t.manifest)
  /\ \A i \in 1..Len(t.members), j \in 1..Len(t.manifest) :
       t.members[i].path = t.manifest[j].path =>
         /\ Len(t.members[i].data) = t.manifest[j].size
         /\ t.members[i].data = t.manifest[j].sha256

(* A name that is not walked into is not there for the packager.            *)
Walked(d) == d = Root \/ (d \notin Excluded /\ ParentOf[d] \notin Excluded)
Candidates == {p \in Allowed : Walked(DirOf[p]) /\ files[p] # None}
Wanted == IF Candidates \intersect Safetensors # {} THEN Candidates \ Legacy ELSE Candidates

-----------------------------------------------------------------------------
\* Sorted by path, and no path twice.
InOrder(s) == \A i, j \in 1..Len(s) : i < j => Rank[s[i].path] < Rank[s[j].path]

(* What write_package works on is the manifest's, file by file.             *)
TypeOK ==
  /\ files \in [Paths -> Contents \union {Link, None}]
  /\ package \in Tar \union {None} /\ tmp \in Tar \union {None}
  /\ pc \in {"idle", "walk", "manifest", "tar", "replace"}
  /\ found \subseteq Dirs /\ listing \subseteq Allowed /\ selected \subseteq Allowed
  /\ size \in Nat \union {None} /\ entries \in Seq(Entry)
  /\ result \in {"none", "running", "ok", "refused", "error", "killed"}
  /\ changes \in 0..MaxChanges /\ runs \in 0..MaxRuns
  /\ pc \in {"tar", "replace"} => tmp # None
  /\ had \in [Paths -> SUBSET Contents]

Complete(t) ==
  /\ t.closed
  /\ Len(t.members) = Len(t.manifest)
  /\ \A i \in 1..Len(t.members) : /\ t.members[i].path = t.manifest[i].path
                                  /\ Len(t.members[i].data) = t.manifest[i].size

(* core/packaging.py:71: "a partial file never sits at `out_path`".  A      *)
(* model.tar has every file of its manifest, in order and in the listed     *)
(* size, whichever runs failed or were killed and whatever .tmp file and    *)
(* changed model files they met.                                            *)
NeverPartial == package # None => Complete(package)

(* A run over a directory that nobody changed packages exactly the files    *)
(* that are wanted, in the order of their paths whatever order the file     *)
(* system lists them in (collect_files, build_manifest).                    *)
SteadyIsExact ==
  result = "ok" /\ steady =>
    /\ Named(package.manifest) = Wanted
    /\ InOrder(package.manifest)
    /\ package.manifest = entries

(* and the consumer restores from it these files as they are.               *)
RoundTrip ==
  result = "ok" /\ steady =>
    /\ Restores(package)
    /\ \A i \in 1..Len(package.members) :
         package.members[i].data = files[package.members[i].path]

(* Where files did change, size, hash and bytes may be of three different   *)
(* moments.  The package is made all the same, but the consumer restores it *)
(* only if every file in it is one that was there, whole, at some moment of *)
(* the run: never a part of one, or a file from before (build_manifest,     *)
(* write_package, _extract_verified).                                       *)
NothingTorn ==
  result = "ok" /\ Restores(package) =>
    \A i \in 1..Len(package.members) :
      package.members[i].data \in had[package.members[i].path]
=============================================================================
