------------------------------ MODULE Grammar ------------------------------
(***************************************************************************)
(* What the modules of the front door share of the username grammar:       *)
(* parseUsername of utils/username_grammar.js gives a uid and a target, or  *)
(* no target.                                                              *)
(***************************************************************************)
CONSTANTS
    Targets,  \* targets of the grammar
    None      \* no target, and whatever else may be absent

ASSUME NoneIsNoTarget == None \notin Targets

=============================================================================
