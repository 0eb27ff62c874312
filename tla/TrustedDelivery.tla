--------------------------- MODULE TrustedDelivery ---------------------------
(***************************************************************************)
(* What the two services promise together: a consumer that verifies serves *)
(* only models that the producer has released, each as a whole.  It does   *)
(* not promise the latest: an old release is served as well as a new one.  *)
(***************************************************************************)
CONSTANTS Models, None

VARIABLES
  released,  \* the models of which a package was encrypted and signed
  served     \* the model in memory of a verifying consumer, or None

vars == <<released, served>>

Init == released = {} /\ served = None

Release == \E m \in Models :
  /\ released' = released \union {m}
  /\ UNCHANGED served

Serve == \E m \in released :
  /\ served' = m
  /\ UNCHANGED released

Withdraw ==
  /\ served' = None
  /\ UNCHANGED released

Next == Release \/ Serve \/ Withdraw

Spec == Init /\ [][Next]_vars
=============================================================================
