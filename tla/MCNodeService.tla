---------------------------- MODULE MCNodeService ----------------------------
(***************************************************************************)
(* Two nodes and one caller.  The first program stores an object or tests  *)
(* the network; the second is any program.                                 *)
(***************************************************************************)
EXTENDS NodeService

CONSTANTS na, nb

MCEndpoints == <<na, nb>>
MCPrograms == <<{"put", "smoke"}, Program>>
=============================================================================
