------------------------- MODULE MCControlChannel --------------------------
EXTENDS ControlChannel, TLC

CONSTANTS c1, c2, c3

\* The clients are interchangeable.
ClientSymmetry == Permutations(Ids)

\* One client list the host shares a codec with, and one it does not.
SomeCodecs == {{"H264"}, {"AV1"}}
OnlyH264 == {{"H264"}}
=============================================================================
