------------------------------- MODULE MCPmis -------------------------------
(* Instances of Pmis: points on a path, a few partitions over the ranks,    *)
(* every set of strong connections.                                         *)
EXTENDS Pmis

MCPoints == 1..5
MCRanks == 1..3
MCUnit == 10

MCAdjacent == {e \in MCPoints \X MCPoints : e[1] - e[2] \in {-1, 1}}
MCOwners == {<<1, 1, 2, 2, 3>>, <<1, 2, 1, 3, 3>>, <<1, 2, 2, 1, 1>>}

\* All different in a pass, as those of most rows are.
MCHashes == {<< <<5, 1, 4, 2, 3>>, <<1, 2, 3, 4, 5>> >>,
             << <<1, 2, 3, 4, 5>>, <<3, 5, 1, 4, 2>> >>}

MCAllInputs == [owner : MCOwners, strong : SUBSET MCAdjacent,
                hash : MCHashes, aggressive : BOOLEAN]

\* The aggressive selector where every rank keeps a coarse point, or none.
MCInputs ==
    {in \in MCAllInputs :
       in.aggressive =>
         LET marks == FirstPassOf(in)
             withCoarse == {in.owner[i] : i \in {j \in MCPoints : marks[j] = COARSE}}
         IN withCoarse \in {{}, MCRanks}}

\* The aggressive selector anywhere.
MCAggressiveInputs == {in \in MCAllInputs : in.aggressive}
=============================================================================
