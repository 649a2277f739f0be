--------------------------- MODULE MCSize2Selector ---------------------------
(* Instances of Size2Selector: graphs of a few rows with several weights.   *)
EXTENDS Size2Selector, TLC

MCRows == 1..6

Both(pairs) == pairs \cup {<<e[2], e[1]>> : e \in pairs}
\* A path, a ring with a chord, and a path with entries of one direction.
Path == Both({<<1, 2>>, <<2, 3>>, <<3, 4>>, <<4, 5>>, <<5, 6>>})
Ring == Both({<<1, 2>>, <<2, 3>>, <<3, 4>>, <<4, 5>>, <<5, 1>>, <<2, 4>>})
OneSided == Both({<<1, 3>>, <<3, 4>>, <<2, 5>>}) \cup {<<1, 2>>, <<4, 2>>, <<4, 1>>}

Lower(e) == IF e[1] < e[2] THEN e ELSE <<e[2], e[1]>>
\* All weights of the entries that are there both ways, among these.
Weights(edges, values) ==
    {[e \in edges |-> IF <<e[2], e[1]>> \in edges THEN f[Lower(e)] ELSE 0] :
       f \in [{Lower(e) : e \in edges} -> values]}

\* Ratios of multiples of the indices: one function of two rows.
MCRand == [e \in MCRows \X MCRows |-> (7 * Lower(e)[1] + 3 * Lower(e)[2]) % 11]

InputsOf(edges, values, phases, limits) ==
    [edges : {edges}, weight : Weights(edges, values), rand : {MCRand},
     two_phase : phases, merge_singletons : BOOLEAN, deterministic : BOOLEAN,
     max_iterations : limits, tolerance : {5}]

\* Weights that grow along the path: few pairs in each round.
Slope == [e \in Path |-> Lower(e)[1]]

MCInputs ==
    {in \in InputsOf(Path, 1..5, {FALSE}, {0, 15}) : in.weight = Slope}
      \cup InputsOf(Path, {1, 2}, BOOLEAN, {0})
      \cup InputsOf(Ring, {1, 2}, {FALSE}, {15})
      \cup InputsOf(OneSided, -1..2, {FALSE}, {0, 15})
=============================================================================
