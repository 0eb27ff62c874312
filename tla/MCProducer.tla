----------------------------- MODULE MCProducer -----------------------------
(***************************************************************************)
(* Two models and three artifact names, two of which share one signature   *)
(* file, as `model.v1` and `model.v2` share `model.sig`.                   *)
(***************************************************************************)
EXTENDS Producer, TLC

CONSTANTS v1, v2, enc, vsig, encsig

MCStemOf == v1 :> vsig @@ v2 :> vsig @@ enc :> encsig

AllCommands == [op : {"package", "encrypt", "sign", "publish", "run"},
                name : Names, model : Models, sign : BOOLEAN]

\* An option that a command does not have is given one value only.
Distinct(c) == /\ c.op = "package" => c.name = enc
               /\ c.op \in {"package", "encrypt", "sign"} => c.sign
               /\ c.op \in {"encrypt", "sign", "publish"} => c.model = CHOOSE m \in Models : TRUE

Every == {c \in AllCommands : Distinct(c)}
SignedOne == {c \in Every : c.sign /\ c.name = enc}
SignedRuns == {c \in Every : c.sign /\ c.op = "run" /\ c.name # enc}
=============================================================================
