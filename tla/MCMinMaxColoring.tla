--------------------------- MODULE MCMinMaxColoring ---------------------------
(* Instances of MinMaxColoring: graphs of five rows with several hashes.    *)
EXTENDS MinMaxColoring, TLC

MCRows == 0..4
MCMin == -8

Both(pairs) == pairs \cup {<<e[2], e[1]>> : e \in pairs}
Path == Both({<<0, 1>>, <<1, 2>>, <<2, 3>>, <<3, 4>>})
Ring == Path \cup {<<0, 4>>, <<4, 0>>}
\* A triangle with a tail and a diagonal, and entries of one direction.
Tailed == Both({<<0, 1>>, <<1, 2>>, <<0, 2>>, <<2, 3>>, <<3, 4>>})
            \cup {<<i, i>> : i \in MCRows}
OneSidedRing == {<<0, 1>>, <<1, 2>>, <<2, 3>>, <<3, 4>>, <<4, 0>>, <<1, 0>>}

\* Distinct hashes, and hashes of which two or more collide.
Distinct == Permutations(MCRows)
Colliding == {[i \in MCRows |-> (3 * i + c) % 4] : c \in 0..3}

MCInputs ==
    [edges : {Path, Ring, Tailed, OneSidedRing}, hash : Distinct \cup Colliding,
     level : {1, 2}, max_uncolored : {0, 1}]
=============================================================================
