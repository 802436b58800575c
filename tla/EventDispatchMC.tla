-------------------------- MODULE EventDispatchMC --------------------------
(* Instances of EventDispatch for TLC: model values come from the .cfg     *)
(* files.                                                                  *)
EXTENDS EventDispatch

CONSTANTS c1, c2, p1, p2

NoClients == {}

OneClient == {c1}

OnePoolThread == {p1}

TwoPoolThreads == {p1, p2}

AllSources == {"api", "power", "bus"}

ApiOnly == {"api"}

=============================================================================
