------------------------------- MODULE MCGate -------------------------------
(* Changes of four percent: one passes, two in a row are outside the threshold.  A drift that a
   session can bear, and one that it cannot.                                                      *)
EXTENDS Gate

MCChanges == {-40, 40}
MCSlopes == {-8, 0, 2}
MCArms == <<"unique", "shared">>
=============================================================================
