---------------------------- MODULE MCEnrollment ----------------------------
(* Enrollment on one or two machines; the cfg files give their names.        *)
EXTENDS Enrollment
=============================================================================
