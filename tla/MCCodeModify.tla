---------------------------- MODULE MCCodeModify ----------------------------
EXTENDS CodeModify
CONSTANTS a, b
MCFiles == {a, b}
=============================================================================
