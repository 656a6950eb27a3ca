------------------------- MODULE MCCollectorClient -------------------------
\* Model-checking instances of CollectorClient.
EXTENDS CollectorClient

CONSTANTS s1, s2

TwoSources == <<s1, s2>>
=============================================================================
