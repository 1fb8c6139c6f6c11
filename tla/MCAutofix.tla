----------------------------- MODULE MCAutofix -----------------------------
EXTENDS Autofix
CONSTANTS a, b
MCFiles == {a, b}
=============================================================================
