---------------------------- MODULE MCDelivery ----------------------------
(***************************************************************************)
(* Two models with one file name in common; the producer signs only one.   *)
(***************************************************************************)
EXTENDS Delivery, TLC

CONSTANTS m1, m2, enc, encsig,  config, bin

MCStemOf == enc :> encsig
MCFilesOf == m1 :> {config} @@ m2 :> {config, bin}

Command(op, m, s) == [op |-> op, name |-> enc, model |-> m, sign |-> s]
MCCommands == {Command("run", m1, TRUE), Command("run", m2, FALSE), Command("publish", m1, TRUE)}
=============================================================================
