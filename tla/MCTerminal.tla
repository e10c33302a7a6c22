----------------------------- MODULE MCTerminal -----------------------------
EXTENDS Terminal
CONSTANT s1

Typing == s1 :> 2
Printing == s1 :> 1
=============================================================================
