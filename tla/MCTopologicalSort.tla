------------------------- MODULE MCTopologicalSort -------------------------
\* Every graph over three URNs, 512 of them, with and without cycles.
EXTENDS TopologicalSort
=============================================================================
