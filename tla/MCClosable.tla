----------------------------- MODULE MCClosable -----------------------------
EXTENDS Closable

CONSTANTS s1, s2, s3, c1, c2

ThreeSenders == {s1, s2, s3}
TwoClosers == {c1, c2}
\* Unbuffered, and with one place.
SmallCapacities == {0, 1}
=============================================================================
