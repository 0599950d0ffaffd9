----------------------------- MODULE MCJobRunner -----------------------------
(* JobRunner for TLC: five creations of two organizations, one more than    *)
(* the limits admit in the organization acme and in the whole process. No   *)
(* symmetry: the run checks liveness too.                                   *)
EXTENDS JobRunner

CONSTANTS j1, j2, j3, j4, s1, s2, s3, s4, s5, acme, beta

MCSubjects == {s1, s2, s3, s4, s5}
MCOrgs == {acme, beta}
MCOrgOf == [s \in MCSubjects |-> IF s \in {s4, s5} THEN beta ELSE acme]
=============================================================================
