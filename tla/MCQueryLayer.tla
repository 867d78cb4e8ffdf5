---------------------------- MODULE MCQueryLayer ----------------------------
\* Three blocks, and a query that begins and times out anywhere between.  Words of
\* three bits: some of the flags overflow, as an offset or as an int.
EXTENDS QueryLayer, TLC

SomeFlags == [page : 0..3, offset : 0..2, limit : {0, 1, 2, 3, 5}]
=============================================================================
