------------------------------- MODULE MCFnd -------------------------------
EXTENDS Fnd

\* Their figures differ in every digit, between themselves and between the radices.
SomeNumbers == {0, 5, 7}
=============================================================================
