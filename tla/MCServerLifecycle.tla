------------------------- MODULE MCServerLifecycle -------------------------
(***************************************************************************)
(* Instances of ServerLifecycle for TLC: two processes, either both        *)
(* started by hand on one host, or one by hand and one in a container.     *)
(***************************************************************************)
EXTENDS ServerLifecycle

CONSTANTS a, b

Servers == {a, b}

\* Both processes run the same build, with two migrations.
SameBuild == [s \in Servers |-> 2]

\* b is a build behind: it does not embed migration 2.
MixedBuild == [s \in Servers |-> IF s = a THEN 2 ELSE 1]

SameAddr == [s \in Servers |-> 8787]
OwnAddr  == [s \in Servers |-> IF s = a THEN 8787 ELSE 8788]
=============================================================================
