---------------------------- MODULE MCDmxOutput -----------------------------
(* DmxOutput with two ports and two frames of data.                       *)
EXTENDS DmxOutput

CONSTANTS a, b

On(where, values, calls) == [calls |-> calls, ports |-> where, values |-> values]
OnOne(calls) == On({0}, {a, b}, calls)

\* One port is called in all but the last, which is about the two ports that
\* has_continuous_output couples.
MCScenarios ==
    {OnOne({"sync", "rdm", "turns"}), On({0}, {a}, {"sync", "style", "fill"}),
     OnOne({"rdm", "turns", "style"}), OnOne({"rdm", "turns", "fill"}), OnOne({"rdm"}),
     On({0, 1}, {a}, {"style"})}
=============================================================================
