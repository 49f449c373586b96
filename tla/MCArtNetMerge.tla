--------------------------- MODULE MCArtNetMerge ----------------------------
(* ArtNetMerge with two ports.  A tick is five seconds.                    *)
EXTENDS ArtNetMerge

CONSTANTS x, y

From(ip, physical)  == [ip |-> ip, physical |-> physical]
Controllers(n)      == {From(ip, 0) : ip \in 1 .. n}
Physicals(n)        == {From(1, physical) : physical \in 0 .. n - 1}
Same                == [p \in Port |-> x]
Apart               == [p \in Port |-> IF p = 0 THEN x ELSE y]
On(sources, addresses, sent, events) ==
    [sources |-> sources, addresses |-> addresses, sent |-> sent, events |-> events]

MCScenarios ==
    {On(Controllers(3), Apart, {x}, {}), On(Physicals(3), Apart, {x}, {}),
     On(Physicals(2), Same, {x}, {}), On(Controllers(2), Same, {x}, {"sync"}),
     On(Controllers(2), Apart, {x}, {"sync", "silence"}), On(Controllers(2), Apart, {x}, {"mode"}),
     On(Physicals(2), Apart, {x}, {"short"}), On(Controllers(1), Apart, {x, y}, {"switch"})}
=============================================================================
