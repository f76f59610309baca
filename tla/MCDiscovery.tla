----------------------------- MODULE MCDiscovery -----------------------------
(* Names for TLC: three containers, one of them the center, and two networks. *)
EXTENDS Discovery

Here == <<1>>
Containers == {Here, <<2>>, <<3>>}
Networks == {<<1>>, <<2>>}

\* An alias with a dot, that is in the group of the second network if it is alone.
Aliases == {<<4, 2>>}

=============================================================================
