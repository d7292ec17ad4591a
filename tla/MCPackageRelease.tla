-------------------------- MODULE MCPackageRelease --------------------------
(* Two runs, two folders; one staged file and one that is not staged. *)
EXTENDS PackageRelease, TLC
CONSTANTS r1, r2
Symmetric == Permutations({r1, r2})
=============================================================================
