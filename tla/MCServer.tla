------------------------------ MODULE MCServer ------------------------------
EXTENDS ServerWorld, TLC

CONSTANTS c1, c2, c3, d1, d2

MCConns == {c1, c2}
ThreeConns == {c1, c2, c3}
OneConn == {c1}
MCAddrs == {d1, d2}
OneAddr == {d1}

(* Two clients at different addresses, or one that reconnects twice from    *)
(* the same address.                                                        *)
Apart   == (c1 :> d1) @@ (c2 :> d2)
Same    == (c1 :> d1) @@ (c2 :> d1) @@ (c3 :> d1)
Single  == (c1 :> d1)

Symmetry == Permutations(Apps)
=============================================================================
