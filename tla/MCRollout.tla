------------------------------ MODULE MCRollout ------------------------------
(* Rollout for TLC: an attempt is removed from the files, another stays; in  *)
(* between the files have an error.                                          *)
EXTENDS Rollout

Removal == << {"kept", "removed"}, {"kept"}, {"kept"} >>
=============================================================================
