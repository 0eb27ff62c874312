----------------------------- MODULE MCConsumer -----------------------------
(***************************************************************************)
(* Two sound packages with different files, one with a file the manifest   *)
(* does not list, one with a file of the wrong hash and one with an unsafe *)
(* name, all signed; an altered artifact, one with no header, a mismatched *)
(* pair, a pair signed by somebody else and an unsigned publish.           *)
(***************************************************************************)
EXTENDS Consumer, TLC

CONSTANTS config, safetensors, bin,  p, q, extra, wrong, odd,
          ap, aq, aextra, awrong, aodd, altered, junk,  trusted, other

MCMembers == p :> {config, safetensors} @@ q :> {config, bin}
             @@ extra :> {config, bin} @@ wrong :> {config, bin}
             @@ odd :> {config, bin}
MCListed == [MCMembers EXCEPT ![extra] = {config}]
MCMatching == [MCMembers EXCEPT ![wrong] = {config}]
MCOpens == ap :> p @@ aq :> q @@ aextra :> extra @@ awrong :> wrong
           @@ aodd :> odd @@ altered :> None @@ junk :> None

Signed(a, s) == [art |-> a, sig |-> [of |-> a, by |-> s]]

MCCommits == {Signed(a, trusted) : a \in {ap, aq, aextra, awrong, aodd, junk}}
  \union {Signed(ap, other),
          [art |-> altered, sig |-> [of |-> ap, by |-> trusted]],
          [art |-> aq, sig |-> [of |-> ap, by |-> trusted]],
          [art |-> ap, sig |-> None], [art |-> None, sig |-> None]}
Unsigned == {[art |-> ap, sig |-> None]}
Sound == {Signed(a, trusted) : a \in {ap, aq}}
=============================================================================
