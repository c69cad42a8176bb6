------------------------------- MODULE MCRefit -------------------------------
\* An instance of Refit: models whose tensors fit a buffer exactly, leave it
\* half full, are too large for it, or are none at all.
EXTENDS Refit

Sizes == {<<>>, <<1>>, <<5>>, <<2, 1, 2>>, <<1, 1, 1, 2>>, <<1, 2, 3, 1, 1>>}
=============================================================================
