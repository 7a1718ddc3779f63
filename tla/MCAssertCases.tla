--------------------------- MODULE MCAssertCases ---------------------------
EXTENDS AssertCases
\* Below zero and zero (both read as the default), and two retries.
MCRetryCounts == {-1, 0, 2}
=============================================================================
