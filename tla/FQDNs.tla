-------------------------------- MODULE FQDNs --------------------------------
(***************************************************************************)
(* The names the program digs and how the display groups them, as pure       *)
(* operators.  A name, be it a label, a network's or an FQDN, is the sequence *)
(* of the parts between its dots, so that two names with a dot between them  *)
(* are one after the other.  Parts are numbers, in the order of their        *)
(* strings, and none is the empty string, which is NoGroup.                  *)
(***************************************************************************)
EXTENDS Integers, FiniteSets, Sequences

NoGroup == 0
DomainName == Seq(Nat \ {NoGroup}) \ {<< >>}

\* The name of a group is the second part of an FQDN, whether the parts before and
\* after that dot are a label and a network or not.
groupName(fqdn) == IF Len(fqdn) > 1 THEN fqdn[2] ELSE NoGroup
labelName(fqdn) == fqdn[1]

\* The names that are qualified with the network they are on.
Qualified(nets) == UNION {{label \o n : label \in nets[n]} : n \in DOMAIN nets}

\* Mutant: the names are only listed with their networks.
OnlyQualified(nets) == Qualified(nets)

\* nets maps each network to the labels on it.  The list is in no certain order,
\* except that each label alone comes after all qualified names.
AllFQDNsOnAttachedNetworks(nets) ==
  Qualified(nets) \cup UNION {nets[n] : n \in DOMAIN nets}

\* Mutant: the labels are compared before the groups.
LabelBefore(f, g) ==
  \/ labelName(f) < labelName(g)
  \/ labelName(f) = labelName(g) /\ groupName(f) < groupName(g)

\* The order in which names are displayed: by group, then by label.
Before(f, g) ==
  \/ groupName(f) < groupName(g)
  \/ groupName(f) = groupName(g) /\ labelName(f) < labelName(g)

\* sort.Slice leaves names that agree in both in an order of its own.  They are of one
\* group, so any order will do: here it is that of their first different parts.
Part(f, k) == IF k \in DOMAIN f THEN f[k] ELSE NoGroup
Precedes(f, g) ==
  \/ Before(f, g)
  \/ /\ ~Before(g, f)
     /\ \E k \in DOMAIN g : /\ Part(f, k) < Part(g, k)
                            /\ \A i \in 1..k - 1 : Part(f, i) = Part(g, i)

sortFQDNs(fqdns) ==
  [i \in 1..Cardinality(fqdns) |->
     CHOOSE f \in fqdns : Cardinality({g \in fqdns : Precedes(g, f)}) = i - 1]

\* The places in the sorted names where a new group begins: at the first name and
\* wherever the group is not that of the name before.
groupNames(sorted) ==
  {i \in DOMAIN sorted : i = 1 \/ groupName(sorted[i - 1]) # groupName(sorted[i])}

\* The networks in the header: all groups but the first.
Header(sorted) == {groupName(sorted[i]) : i \in groupNames(sorted) \ {1}}

=============================================================================
