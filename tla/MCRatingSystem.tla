---------------------------- MODULE MCRatingSystem ----------------------------
(***************************************************************************)
(* Small instances of RatingSystem.                                        *)
(***************************************************************************)
EXTENDS RatingSystem

CONSTANTS s1

OneMonth == [n \in Times |-> 0]

OneReset == [reset |-> 1, toggle |-> 0, crash |-> 1, error |-> 0,
             pushError |-> 0, resetFault |-> 1]
OnePost == [post |-> 1, toggle |-> 0, crash |-> 1, error |-> 0, pushError |-> 1]
=============================================================================
