-------------------------------- MODULE MCMapTrie --------------------------------
(* Keys that share digits of their hashes, or all of them. *)
EXTENDS MapTrie

CONSTANTS k1, k2, k3, k4

\* Keys whose hashes differ at once, late, and not at all.
HashesOf == k1 :> <<0, 0, 0>> @@ k2 :> <<0, 1, 0>> @@ k3 :> <<0, 0, 0>> @@ k4 :> <<1, 0, 0>>
==================================================================================
