--------------------------- MODULE MCModelServer ---------------------------
EXTENDS ModelServer

CONSTANTS s1, s2, s3, c1, c2, right, wrong

SameModels == [s \in Servers |-> right]
OneOther == [s \in Servers |-> IF s = s2 THEN wrong ELSE right]
=============================================================================
