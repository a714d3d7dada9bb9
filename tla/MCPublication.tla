---------------------------- MODULE MCPublication ----------------------------
(* Two scans of one organization and one of another, which all make tables *)
(* of the same names; the first has two files that do.  A fourth has none, *)
(* as a scan resumed before its download does.                             *)
EXTENDS Publication, TLC

CONSTANTS s1, s2, s3, s4, acme, other

MCOrgOf == (s1 :> acme) @@ (s2 :> acme) @@ (s3 :> other) @@ (s4 :> acme)

MCCsv == (s1 :> [Event |-> {{"start"}}, Task |-> {{}}]) @@
         (s2 :> [Event |-> {{"start"}}]) @@ (s3 :> [Task |-> {{}}]) @@
         (s4 :> <<>>)

WorkerSymmetry == Permutations(Workers)

=============================================================================
