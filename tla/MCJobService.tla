---------------------------- MODULE MCJobService ----------------------------
(* A small instance of JobService: model values for scans and objects.     *)
EXTENDS JobService

=============================================================================
