-------------------------- MODULE MCPackageInstall --------------------------
(* Two packages that share a dependency, with its module and modulemap.     *)
EXTENDS PackageInstall

CONSTANTS a, b, own, shared, named, plain

MCSpecs    == {a, b, Blank}
MCProvides == [s \in MCSpecs |-> IF s = a THEN {own, shared}
                                 ELSE IF s = b THEN {shared} ELSE {}]
MCMaps     == [s \in MCSpecs |-> IF s = Blank THEN <<>> ELSE <<named, plain>>]

=============================================================================
