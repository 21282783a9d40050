----------------------------- MODULE MCStartUp -----------------------------
EXTENDS StartUp, TLC
=============================================================================
