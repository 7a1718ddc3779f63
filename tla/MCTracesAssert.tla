--------------------------- MODULE MCTracesAssert ---------------------------
EXTENDS TracesAssert
\* Distinct ids, and two actual spans that share one.
MCIdChoices == {<<1, 2, 3>>, <<1, 1, 2>>}
\* Distinct ids only.
MCDistinct == {<<1, 2, 3>>}
=============================================================================
