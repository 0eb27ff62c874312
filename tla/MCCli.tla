------------------------------- MODULE MCCli -------------------------------
(***************************************************************************)
(* Two processes; a secret key, a private key and a public key file. Every *)
(* private key file has the same default public key file.                  *)
(***************************************************************************)
EXTENDS Cli, TLC

CONSTANTS model, signing, pub, p1, p2

Nothing == [f \in {} |-> 0]
MCPublicOf == [n \in Paths |-> pub]
MCRequests == [pair : BOOLEAN, out : Paths, public : {pub}]
MCInstalled == {"aes-256-gcm", "xchacha20-poly1305", "ed25519", "rsa-pss-3072", "rsa-pss-4096"}
MCConsumerInstalled == MCInstalled \ {"xchacha20-poly1305"}
MCEnvironments == {Nothing, [cipher |-> "rot13"]}
MCCommandLines == {Nothing, [chunk |-> 8192, signing |-> model],
                   [name |-> "model.sig"], [cipher |-> "rot13"]}
MCTyped ==
  [cipher |-> {"xchacha20-poly1305"}, mode |-> {"one-shot"}, name |-> {}, key |-> {},
   sign |-> {FALSE}, chunk |-> {100}, signer |-> {"rsa-pss-4096"}, signing |-> {signing}]
Symmetry == Permutations(Processes)
=============================================================================
