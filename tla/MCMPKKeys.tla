----------------------------- MODULE MCMPKKeys -----------------------------
(* MPKKeys on small instances.                                              *)
EXTENDS MPKKeys

MCSandboxes == {-10, -11}
MCRights == {{}, {"R"}, {"R", "X"}, {"R", "W", "X"}}
=============================================================================
