---------------------------- MODULE MCBatchPlane ----------------------------
EXTENDS BatchPlane

\* All batches of four short rows, and eight rows of which the modified
\* first-fit decreasing packer finds all of its classes at 12 tokens.
SmallBatches == [1..4 -> {1, 3, 5, 12}]
LargeBatches == {<<7, 2, 3, 5, 8, 4, 1, 3>>, <<12, 1, 1, 7, 6, 2, 2, 9>>,
                 <<3, 3, 3, 7, 7, 4, 4, 4>>, <<8, 1, 2, 2, 2, 2, 12, 12>>}
MCBatches == SmallBatches \cup LargeBatches
SomeOrders == {<<3, 1, 4, 2, 8, 5, 7, 6>>, <<8, 7, 6, 5, 4, 3, 2, 1>>}
=============================================================================
