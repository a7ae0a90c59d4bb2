--------------------------- MODULE MCDataObjects ----------------------------
(* An instance of DataObjects for TLC.                                      *)
EXTENDS DataObjects

X == <<"x">>
Path == <<"path">>
Host == <<":auth">>
HostLegacy == <<"host">>

UsedNames == {X, Path, Host, HostLegacy}
UsedValues == {<<"a">>, <<"a", "b", "c">>}
Integers1 == {<<"a">>}
CanonicalNames == Path :> Path @@ Host :> Host @@ HostLegacy :> Host

Subnet(a, suffix) == [subnetInt |-> a, suffix |-> suffix]
UsedSubnets == {Subnet(2, 3), Subnet(2, 2), Subnet(-4, 1), Subnet(3, 0), Subnet(3, 2)}

Shape(head, body) == [head |-> head, body |-> body]
UsedShapes == {Shape(2, 0), Shape(1, 2)}
=============================================================================
