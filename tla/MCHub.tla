------------------------------- MODULE MCHub -------------------------------
(* TLC instances of Hub.                                                    *)
EXTENDS Hub

CONSTANTS d1

MCOneDevice == {d1}
=============================================================================
