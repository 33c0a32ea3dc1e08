---------------------------- MODULE MCRegistry ----------------------------
(***************************************************************************)
(* A chain of four blocks with two keys of two operators, registered in    *)
(* the blocks 1 and 3.                                                     *)
(***************************************************************************)
EXTENDS Registry, TLC

MCNonce == (0 :> 0) @@ (1 :> 1) @@ (2 :> 1) @@ (3 :> 2)
MCOwner == <<"a", "b">>
MCDeployments == {<<"keysapi", 1>>, <<"keysapi", 2>>, <<"lido", 1>>, <<"file", 1>>}
=============================================================================
