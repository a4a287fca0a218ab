------------------------------- MODULE MCWeb -------------------------------
EXTENDS App

\* No player; one too old for Express Install; one that only it can replace; one
\* that suffices, whose second and third part are less than those required
MCVersion == {<<0, 0, 0>>, <<6, 0, 47>>, <<9, 0, 115>>, <<11, 1, 0>>}

MCRequired == <<10, 2, 153>>
=============================================================================
