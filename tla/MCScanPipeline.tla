--------------------------- MODULE MCScanPipeline ---------------------------
(* Small instances of ScanPipeline: one or two worker processes, two       *)
(* actors, one or two objects.  Actors and processes are interchangeable;  *)
(* objects are not, since the loops take them in a fixed order.            *)
EXTENDS ScanPipeline, TLC

AnyActorAnyProcess == Permutations(Actors) \cup Permutations(Processes)

=============================================================================
