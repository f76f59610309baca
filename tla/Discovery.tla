------------------------------ MODULE Discovery ------------------------------
(***************************************************************************)
(* mobynet.DiscoverAttachedNames: a sequence of calls to the Docker API, with *)
(* a cache of the container details they return, while containers join and   *)
(* leave networks between the calls.                                         *)
(***************************************************************************)
EXTENDS FQDNs

CONSTANTS Container,  \* the names of the containers
          Center,     \* the one whose view is taken
          Alias,      \* other labels of containers
          Net,        \* the names of the networks
          MaxChanges  \* bound: how often a container joins, leaves or is renamed

ASSUME DiscoveryAssumption ==
  /\ Center \in Container
  /\ Container \cup Alias \cup Net \subseteq DomainName
  /\ IsFiniteSet(Container \cup Alias) /\ IsFiniteSet(Net)
  /\ MaxChanges \in Nat

VARIABLES att,          \* Docker: the attached containers of each network, with their
                        \* aliases on it
          changes,      \* Docker: how often att has changed
          pc,           \* what is done next
          nets,         \* the networks of the center that are still to be inspected
          net,          \* the network being looked at
          cntrs,        \* its containers still to be looked at
          names,        \* namesOnNetwork
          cache,        \* cntrDetailsCache
          found,        \* mobyNetworks: the labels of each network
          was,          \* history: the labels that ever were on a network
          steady,       \* history: attachments that were not touched so far
          inspections,  \* history: how often a container's details were asked for
          answered      \* history: the containers whose details Docker returned

docker == <<att, changes>>
history == <<was, steady, inspections, answered>>
vars == <<docker, pc, nets, net, cntrs, names, cache, found, history>>

NoNet == << >>
Label == Container \cup Alias
Over == {"done", "failed", "panicked"}
PartialFunctions(S, T) == UNION {[D -> T] : D \in SUBSET S}

TypeOK ==
  /\ att \in [Net -> PartialFunctions(Container, SUBSET Alias)]
  /\ changes \in 0..MaxChanges
  /\ pc \in {"center", "networks", "containers"} \cup Over
  /\ nets \subseteq Net /\ net \in Net \cup {NoNet}
  /\ cntrs \subseteq Container \ {Center} /\ names \subseteq Label
  /\ cache \in PartialFunctions(Container \ {Center}, PartialFunctions(Net, SUBSET Alias))
  /\ found \in PartialFunctions(Net, SUBSET Label)
  /\ nets \cap DOMAIN found = {} /\ (pc = "center" => DOMAIN found = {})
  /\ pc = "containers" => net \in Net \ (nets \cup DOMAIN found)

\* Where a container is attached is where Docker says it is at the moment of the call.
ContainerDetails(c) ==
  [n \in {m \in Net : c \in DOMAIN att[m]} |-> att[n][c]]

\* The labels on the networks, but not those of the center.
Facts(a) ==
  UNION {{n} \X UNION {{c} \cup a[n][c] : c \in DOMAIN a[n] \ {Center}} : n \in Net}

Attachments(a) == {p \in Net \X Container : p[2] \in DOMAIN a[p[1]]}

NoDetails == [c \in {} |-> {}]

Init ==
  /\ att \in [Net -> PartialFunctions(Container, SUBSET Alias)]
  /\ \A n \in Net : Center \in DOMAIN att[n] => att[n][Center] = {}
  /\ changes = 0
  /\ pc = "center"
  /\ nets = {} /\ net = NoNet /\ cntrs = {} /\ names = {}
  /\ cache = NoDetails /\ found = NoDetails
  /\ was = Facts(att)
  /\ steady = Attachments(att)
  /\ inspections = [c \in Container |-> 0] /\ answered = {}

-----------------------------------------------------------------------------
\* The center has to exist and to run.
InspectCenter ==
  /\ pc = "center"
  /\ \/ pc' = "failed" /\ UNCHANGED nets
     \/ pc' = "networks" /\ nets' = {n \in Net : Center \in DOMAIN att[n]}
  /\ UNCHANGED <<docker, net, cntrs, names, cache, found, history>>

\* Mutant: the center is inspected like the others.
InspectNetworkWithCenter(n) ==
  /\ pc = "networks" /\ n \in nets
  /\ \/ pc' = "failed" /\ UNCHANGED <<nets, net, cntrs, names>>
     \/ /\ nets' = nets \ {n}
        /\ IF DOMAIN att[n] = {}
             THEN UNCHANGED <<pc, net, cntrs, names>>
             ELSE /\ pc' = "containers"
                  /\ net' = n /\ names' = {}
                  /\ cntrs' = DOMAIN att[n]
  /\ UNCHANGED <<docker, cache, found, history>>

\* A network that nobody is attached to any more is left out of the result; a network
\* that cannot be inspected ends the discovery.
InspectNetwork(n) ==
  /\ pc = "networks" /\ n \in nets
  /\ \/ pc' = "failed" /\ UNCHANGED <<nets, net, cntrs, names>>
     \/ /\ nets' = nets \ {n}
        /\ IF DOMAIN att[n] = {}
             THEN UNCHANGED <<pc, net, cntrs, names>>
             ELSE /\ pc' = "containers"
                  /\ net' = n /\ names' = {}
                  /\ cntrs' = DOMAIN att[n] \ {Center}
  /\ UNCHANGED <<docker, cache, found, history>>

\* Mutant: the aliases on all networks are taken.
AddAllNames(c, details) ==
  /\ cntrs' = cntrs \ {c}
  /\ names' = names \cup {c} \cup UNION {details[n] : n \in DOMAIN details}
  /\ UNCHANGED pc

\* The container's name and its aliases on this network.  The details hold nothing
\* about the network if the container was not on it when they were fetched, and then
\* the code reads the aliases of nil.
AddNames(c, details) ==
  /\ cntrs' = cntrs \ {c}
  /\ IF net \in DOMAIN details
       THEN names' = names \cup {c} \cup details[net] /\ UNCHANGED pc
       ELSE pc' = "panicked" /\ UNCHANGED names

\* Mutant: the details are not cached.
InspectUncached(c) ==
  /\ pc = "containers" /\ c \in cntrs \ DOMAIN cache
  /\ inspections' = [inspections EXCEPT ![c] = @ + 1] /\ answered' = answered \cup {c}
  /\ AddNames(c, ContainerDetails(c))
  /\ UNCHANGED <<docker, nets, net, cache, found, was, steady>>

InspectContainer(c) ==
  /\ pc = "containers" /\ c \in cntrs \ DOMAIN cache
  /\ inspections' = [inspections EXCEPT ![c] = @ + 1] /\ answered' = answered \cup {c}
  /\ cache' = [d \in DOMAIN cache \cup {c} |->
                 IF d = c THEN ContainerDetails(c) ELSE cache[d]]
  /\ AddNames(c, ContainerDetails(c))
  /\ UNCHANGED <<docker, nets, net, found, was, steady>>

\* A container that cannot be inspected, as it is gone for example, is left out of this
\* network, and the failure is not cached.
InspectionFails(c) ==
  /\ pc = "containers" /\ c \in cntrs \ DOMAIN cache
  /\ cntrs' = cntrs \ {c}
  /\ inspections' = [inspections EXCEPT ![c] = @ + 1]
  /\ steady' = {p \in steady : p[2] # c}
  /\ UNCHANGED <<docker, pc, nets, net, names, cache, found, was, answered>>

\* Mutant: a container that was inspected for another network is passed over.
SkipCached(c) ==
  /\ pc = "containers" /\ c \in cntrs \cap DOMAIN cache
  /\ cntrs' = cntrs \ {c}
  /\ UNCHANGED <<docker, pc, nets, net, names, cache, found, history>>

UseCached(c) ==
  /\ pc = "containers" /\ c \in cntrs \cap DOMAIN cache
  /\ AddNames(c, cache[c])
  /\ UNCHANGED <<docker, nets, net, cache, found, history>>

FinishNetwork ==
  /\ pc = "containers" /\ cntrs = {}
  /\ found' = [n \in DOMAIN found \cup {net} |-> IF n = net THEN names ELSE found[n]]
  /\ pc' = "networks"
  /\ UNCHANGED <<docker, nets, net, cntrs, names, cache, history>>

Finish ==
  /\ pc = "networks" /\ nets = {}
  /\ pc' = "done"
  /\ UNCHANGED <<docker, nets, net, cntrs, names, cache, found, history>>

Discover ==
  \/ InspectCenter \/ FinishNetwork \/ Finish
  \/ \E n \in Net : InspectNetwork(n)
  \/ \E c \in Container : InspectContainer(c) \/ InspectionFails(c) \/ UseCached(c)

-----------------------------------------------------------------------------
(* Docker, between any two calls.                                            *)

Change(n, containers) ==
  /\ pc \notin Over
  /\ changes < MaxChanges /\ changes' = changes + 1
  /\ att' = [att EXCEPT ![n] = containers]
  /\ was' = was \cup Facts(att')
  /\ UNCHANGED <<pc, nets, net, cntrs, names, cache, found, inspections, answered>>

\* A container joins a network, or is on it with other aliases from now on.
Join(n, c) ==
  \E aliases \in SUBSET Alias :
    /\ c = Center => aliases = {}
    /\ Change(n, [d \in DOMAIN att[n] \cup {c} |-> IF d = c THEN aliases ELSE att[n][d]])
    /\ steady' = steady \ {<<n, c>>}

LeaveNet(n, c) ==
  /\ c \in DOMAIN att[n]
  /\ Change(n, [d \in DOMAIN att[n] \ {c} |-> att[n][d]])
  /\ steady' = steady \ {<<n, c>>}

Docker == \E n \in Net, c \in Container : Join(n, c) \/ LeaveNet(n, c)

Finished == pc \in Over /\ UNCHANGED vars

Next == Discover \/ Docker \/ Finished

Spec == Init /\ [][Next]_vars

-----------------------------------------------------------------------------
(* Properties.                                                               *)

\* No label is reported that was not on its network at some moment, the center's own
\* is not among them, and a label on one network is not reported for another.
NamesWereThere == \A n \in DOMAIN found : {n} \X found[n] \subseteq was

\* What nobody touched is found: a container that stays on a network of the center with
\* the same aliases is reported with all of them, though its details may come from the
\* cache, unless Docker refused to answer about it.
SteadyNamesFound ==
  pc = "done" =>
    \A p \in steady :
      <<p[1], Center>> \in steady /\ p[2] # Center =>
        /\ p[1] \in DOMAIN found
        /\ {p[2]} \cup att[p[1]][p[2]] \subseteq found[p[1]]

\* Once Docker has returned the details of a container, it is not asked for them again,
\* on however many networks the container is.  It is asked again if it failed.
AskedUntilAnswered == [][\A c \in answered : inspections'[c] = inspections[c]]_vars

\* The discovery returns its result or an error.
NoPanic == pc # "panicked"

\* What the display has been told of the list: it is announced network by network, and
\* the labels alone at last.
Announced ==
  LET On(N) == Qualified([n \in N |-> found[n]])
  IN  {On(N) \cup part : N \in SUBSET DOMAIN found,
                         part \in UNION {SUBSET On({n}) : n \in DOMAIN found}}
      \cup {Qualified(found) \cup part : part \in SUBSET UNION {found[n] : n \in DOMAIN found}}

\* However much of the list is known, no group is shown twice, dots in the names or not.
OneGroupPerNetwork ==
  pc = "done" =>
    \A shown \in Announced :
      LET sorted == sortFQDNs(shown)
      IN  \A i, j \in groupNames(sorted) :
            groupName(sorted[i]) = groupName(sorted[j]) => i = j

\* As soon as the first label alone is known, the header tells of all groups, as the one
\* it leaves out is that of the labels alone.  In the end these are the networks with
\* names on them, unless a name has a dot.
HeaderComplete ==
  LET used == {n \in DOMAIN found : found[n] # {}}
      undotted == \A n \in used : Len(n) = 1 /\ \A l \in found[n] : Len(l) = 1
  IN  pc = "done" =>
        /\ \A shown \in Announced :
             (\E f \in shown : groupName(f) = NoGroup) =>
               Header(sortFQDNs(shown)) = {groupName(f) : f \in shown} \ {NoGroup}
        /\ undotted =>
             {<<g>> : g \in Header(sortFQDNs(AllFQDNsOnAttachedNetworks(found)))} = used

=============================================================================
