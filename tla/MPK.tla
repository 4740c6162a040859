------------------------------- MODULE MPK -------------------------------
(***************************************************************************)
(* What the two halves of the MPK backend share.  MPKKeys computes sbPKRU,  *)
(* a PKRU value per enclosure, before the program runs and keys the heap    *)
(* afterwards; MPKSwitch writes these values to the threads' registers.     *)
(* The names of MPKKeys' specification start with Keys, so that a module    *)
(* can extend both (MPKProofs).                                             *)
(***************************************************************************)
CONSTANT Sandboxes  \* the ids of the program's enclosures, the keys of sbPKRU
=============================================================================
