------------------------ MODULE MCMetricsCollectors ------------------------
EXTENDS MetricsCollectors

CONSTANTS d1, d2, t, size

Names == [d \in Databases |-> d]
Query(metric, dimensions, values) == [metric |-> metric, dims |-> dimensions, values |-> values]
Declaration(estimates, nextIDs, queries) ==
    [estimates |-> estimates, nextIDs |-> nextIDs, queries |-> queries]

Nothing == Declaration(<<>>, <<>>, {})
Sizes == Declaration(<<t, t>>, <<t>>, {Query(size, "help", "all")})
FewerSizes == Declaration(<<t>>, <<>>, {Query(size, "help", "all")})
OtherHelp == Declaration(<<t>>, <<t, t>>, {Query(size, "other help", "all")})

Symmetry == Permutations(Databases)
Usual == {Nothing, Sizes, OtherHelp}
Compatible == {Nothing, Sizes, FewerSizes, OtherHelp}
=============================================================================
