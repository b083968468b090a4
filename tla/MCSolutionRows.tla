--------------------------- MODULE MCSolutionRows ---------------------------
EXTENDS SolutionRows

Heads == {<<0, NoStop>>, <<0, 2>>, <<1, 3>>, <<1, 1>>}
=============================================================================
