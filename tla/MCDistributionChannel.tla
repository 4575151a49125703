----------------------- MODULE MCDistributionChannel -----------------------
EXTENDS DistributionChannel
CONSTANTS t1, t2
MCRuns == {t1, t2}
Symmetry == Permutations(MCRuns)
=============================================================================
