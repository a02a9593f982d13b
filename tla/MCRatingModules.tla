--------------------------- MODULE MCRatingModules ---------------------------
(***************************************************************************)
(* Small instances of RatingModules.                                       *)
(***************************************************************************)
EXTENDS RatingModules, TLC

CONSTANTS v1, v2

MCEntryPoints == <<Noop, PyScripts, HashMap>>
MCFirstEnabled == {{}, {HashMap, PyScripts}}
=============================================================================
