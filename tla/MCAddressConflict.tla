------------------------- MODULE MCAddressConflict --------------------------
(* AddressConflict with two nodes that want one address, or two.           *)
EXTENDS AddressConflict

CONSTANTS n1, n2, x, y

Wants(own, losses, changes, flaps) ==
    [own |-> own, losses |-> losses, changes |-> changes, flaps |-> flaps]
Same  == [n \in Node |-> x]
Apart == [n \in Node |-> IF n = n1 THEN x ELSE y]

MCScenarios == {Wants(Same, 0, 1, 0), Wants(Same, 2, 0, 0), Wants(Same, 0, 0, 1),
                Wants(Apart, 0, 2, 0), Wants(Apart, 2, 0, 0)}
MCProbes    == {Wants(Same, 1, 0, 0)}
=============================================================================
