--------------------------- MODULE MCResilientChat -------------------------
(* Instances of ResilientChat: a chain of two models.                      *)
EXTENDS ResilientChat

CONSTANTS first, second

MCModels == {first, second}
MCChain == <<first, second>>
=============================================================================
