----------------------- MODULE MCRemediationPipeline -----------------------
\* Small instances of RemediationPipeline for TLC.
EXTENDS RemediationPipeline, TLC

Symmetry == Permutations(Task)
=============================================================================
