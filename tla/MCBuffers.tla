----------------------------- MODULE MCBuffers -----------------------------
EXTENDS Buffers, TLC
CONSTANTS left, right, lent
MCNames  == {left, right}
MCVectors == {<<>>, <<0>>, <<0, 1>>}
MCAllocs == 1 .. 5
MCJoins  == 1 .. 2
=============================================================================
