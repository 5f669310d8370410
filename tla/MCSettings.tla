----------------------------- MODULE MCSettings -----------------------------
(* TLC instances of Settings.                                               *)
EXTENDS Settings

CONSTANTS h1, h2, main, f1, f2

MCOneHandler == {h1}
MCTwoHandlers == {h1, h2}
MCForms == {f1, f2}
MCHiddens == {0, 5}
=============================================================================
