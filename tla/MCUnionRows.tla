---------------------------- MODULE MCUnionRows -----------------------------
EXTENDS UnionRows
=============================================================================
