---------------------------- MODULE MCProperties ----------------------------
EXTENDS Properties
=============================================================================
