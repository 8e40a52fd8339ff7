---------------------------- MODULE MCRegisters ----------------------------
EXTENDS Registers

\* A position of the input and the one of a negated tag.
MCPositions == {-1, 3}
=============================================================================
