---------------------------- MODULE MCPackaging ----------------------------
(***************************************************************************)
(* A configuration file and legacy weights beside safetensors in a         *)
(* directory of their own and a file in `.cache`; of the contents, one is  *)
(* a prefix of another and one is of its size.                             *)
(***************************************************************************)
EXTENDS Packaging, TLC

CONSTANTS root, sub, cache,  config, bin, safetensors, cached

MCParentOf == root :> root @@ sub :> root @@ cache :> root
MCDirOf == config :> root @@ bin :> root @@ safetensors :> sub
           @@ cached :> cache
MCRank == cached :> 0 @@ config :> 2 @@ bin :> 3 @@ safetensors :> 4
MCContents == {<<1>>, <<2>>, <<1, 1>>}
=============================================================================
