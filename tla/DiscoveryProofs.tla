--------------------------- MODULE DiscoveryProofs ---------------------------
(***************************************************************************)
(* Theorems about Discovery, for any containers, networks and aliases and    *)
(* any number of changes.                                                    *)
(***************************************************************************)
EXTENDS Discovery, FiniteSetTheorems, SequenceTheorems, TLAPS

-----------------------------------------------------------------------------
(* Partial functions.                                                        *)

\* A partial function is a function on a part of the set.
LEMMA PartialFunction ==
  ASSUME NEW S, NEW T, NEW f \in PartialFunctions(S, T)
  PROVE  /\ DOMAIN f \subseteq S
         /\ f = [x \in DOMAIN f |-> f[x]]
         /\ \A x \in DOMAIN f : f[x] \in T
BY DEF PartialFunctions

LEMMA IsPartialFunction ==
  ASSUME NEW S, NEW T, NEW D \in SUBSET S, NEW f \in [D -> T]
  PROVE  f \in PartialFunctions(S, T)
BY DEF PartialFunctions

LEMMA EmptyIsPartial ==
  ASSUME NEW S, NEW T
  PROVE  NoDetails \in PartialFunctions(S, T)
<1>1. NoDetails \in [{} -> T]
  BY DEF NoDetails
<1> QED
  BY <1>1, IsPartialFunction

\* Putting one more value into a partial function.
LEMMA Extended ==
  ASSUME NEW S, NEW T, NEW f \in PartialFunctions(S, T), NEW x \in S, NEW v \in T
  PROVE  [y \in DOMAIN f \cup {x} |-> IF y = x THEN v ELSE f[y]] \in PartialFunctions(S, T)
<1>1. DOMAIN f \cup {x} \in SUBSET S /\ \A y \in DOMAIN f : f[y] \in T
  BY PartialFunction
<1>2. [y \in DOMAIN f \cup {x} |-> IF y = x THEN v ELSE f[y]] \in [DOMAIN f \cup {x} -> T]
  BY <1>1
<1> QED
  BY <1>1, <1>2, IsPartialFunction

-----------------------------------------------------------------------------
(* Type correctness.                                                         *)

Docs == PartialFunctions(Net, SUBSET Alias)

\* The details Docker returns about a container are of the right type.
LEMMA DetailsType ==
  ASSUME TypeOK, NEW c \in Container
  PROVE  /\ ContainerDetails(c) \in Docs
         /\ DOMAIN ContainerDetails(c) = {n \in Net : c \in DOMAIN att[n]}
         /\ \A n \in DOMAIN ContainerDetails(c) : ContainerDetails(c)[n] = att[n][c]
<1> DEFINE D == {n \in Net : c \in DOMAIN att[n]}
<1>1. \A n \in D : att[n] \in PartialFunctions(Container, SUBSET Alias)
  BY DEF TypeOK
<1>2. \A n \in D : att[n][c] \in SUBSET Alias
  BY <1>1, PartialFunction
<1>3. ContainerDetails(c) \in [D -> SUBSET Alias]
  BY <1>2 DEF ContainerDetails
<1>4. ContainerDetails(c) \in Docs
  BY <1>3, IsPartialFunction DEF Docs
<1> QED
  BY <1>4 DEF ContainerDetails

\* What AddNames leaves is of the right type when the details are.
LEMMA AddNamesType ==
  ASSUME TypeOK, NEW c \in Container, NEW details \in Docs, AddNames(c, details),
         pc = "containers"
  PROVE  /\ cntrs' \subseteq Container \ {Center} /\ names' \subseteq Label
         /\ pc' \in {"containers", "panicked"}
<1>1. net \in DOMAIN details => details[net] \subseteq Alias
  BY PartialFunction DEF Docs
<1> QED
  BY <1>1 DEF AddNames, TypeOK, Label

\* The variables stay of their types.
THEOREM TypeCorrect == Spec => []TypeOK
<1>1. Init => TypeOK
  <2> SUFFICES ASSUME Init PROVE TypeOK
    OBVIOUS
  <2>1. /\ cache \in PartialFunctions(Container \ {Center}, PartialFunctions(Net, SUBSET Alias))
        /\ found \in PartialFunctions(Net, SUBSET Label)
    BY EmptyIsPartial DEF Init
  <2>2. changes \in 0..MaxChanges
    BY DiscoveryAssumption DEF Init, DiscoveryAssumption
  <2>3. nets = {} /\ cntrs = {} /\ names = {} /\ pc = "center" /\ net = NoNet
        /\ att \in [Net -> PartialFunctions(Container, SUBSET Alias)]
    BY DEF Init
  <2>4. DOMAIN found = {}
    BY DEF Init, NoDetails
  <2> QED
    BY <2>1, <2>2, <2>3, <2>4 DEF TypeOK
<1>2. TypeOK /\ [Next]_vars => TypeOK'
  <2> SUFFICES ASSUME TypeOK, [Next]_vars PROVE TypeOK'
    OBVIOUS
  <2>1. CASE InspectCenter
    BY <2>1 DEF TypeOK, InspectCenter, docker, Over
  <2>2. ASSUME NEW n \in Net, InspectNetwork(n) PROVE TypeOK'
    <3>1. DOMAIN att[n] \subseteq Container
      BY PartialFunction DEF TypeOK
    <3>2. CASE pc' = "failed" /\ UNCHANGED <<nets, net, cntrs, names>>
      BY <2>2, <3>2 DEF TypeOK, InspectNetwork, docker, Over
    <3>3. CASE /\ nets' = nets \ {n} /\ DOMAIN att[n] = {}
               /\ UNCHANGED <<pc, net, cntrs, names>>
      BY <2>2, <3>3 DEF TypeOK, InspectNetwork, docker
    <3>4. CASE /\ nets' = nets \ {n} /\ pc' = "containers"
               /\ net' = n /\ names' = {} /\ cntrs' = DOMAIN att[n] \ {Center}
      BY <2>2, <3>1, <3>4 DEF TypeOK, InspectNetwork, docker
    <3> QED
      BY <2>2, <3>2, <3>3, <3>4 DEF InspectNetwork
  <2>3. ASSUME NEW c \in Container, InspectContainer(c) PROVE TypeOK'
    <3>1. c \in Container \ {Center} /\ pc = "containers"
      BY <2>3 DEF TypeOK, InspectContainer
    <3>2. ContainerDetails(c) \in Docs
      BY DetailsType
    <3>3. cache' \in PartialFunctions(Container \ {Center}, Docs)
      <4>1. cache \in PartialFunctions(Container \ {Center}, Docs)
        BY DEF TypeOK, Docs
      <4>2. [d \in DOMAIN cache \cup {c} |-> IF d = c THEN ContainerDetails(c) ELSE cache[d]]
              \in PartialFunctions(Container \ {Center}, Docs)
        BY <4>1, <3>1, <3>2, Extended
      <4> QED
        BY <2>3, <4>2 DEF InspectContainer
    <3>4. /\ cntrs' \subseteq Container \ {Center} /\ names' \subseteq Label
          /\ pc' \in {"containers", "panicked"}
      BY <2>3, <3>1, <3>2, AddNamesType DEF InspectContainer
    <3> QED
      BY <2>3, <3>1, <3>3, <3>4 DEF TypeOK, InspectContainer, docker, Docs, Over
  <2>4. ASSUME NEW c \in Container, InspectionFails(c) PROVE TypeOK'
    BY <2>4 DEF TypeOK, InspectionFails, docker
  <2>5. ASSUME NEW c \in Container, UseCached(c) PROVE TypeOK'
    <3>1. c \in DOMAIN cache /\ pc = "containers"
      BY <2>5 DEF UseCached
    <3>2. cache[c] \in Docs
      BY <3>1, PartialFunction DEF TypeOK, Docs
    <3>3. /\ cntrs' \subseteq Container \ {Center} /\ names' \subseteq Label
          /\ pc' \in {"containers", "panicked"}
      BY <2>5, <3>1, <3>2, AddNamesType DEF UseCached
    <3> QED
      BY <2>5, <3>1, <3>3 DEF TypeOK, UseCached, docker, Over
  <2>6. CASE FinishNetwork
    <3>1. found' \in PartialFunctions(Net, SUBSET Label)
      <4>1. found \in PartialFunctions(Net, SUBSET Label) /\ net \in Net /\ names \in SUBSET Label
        BY <2>6 DEF TypeOK, FinishNetwork
      <4>2. [n \in DOMAIN found \cup {net} |-> IF n = net THEN names ELSE found[n]]
              \in PartialFunctions(Net, SUBSET Label)
        BY <4>1, Extended
      <4> QED
        BY <2>6, <4>2 DEF FinishNetwork
    <3>2. DOMAIN found' = DOMAIN found \cup {net}
      BY <2>6 DEF FinishNetwork
    <3> QED
      BY <2>6, <3>1, <3>2 DEF TypeOK, FinishNetwork, docker, Over
  <2>7. CASE Finish
    BY <2>7 DEF TypeOK, Finish, docker, Over
  <2>8. ASSUME NEW n \in Net, NEW c \in Container, Join(n, c) \/ LeaveNet(n, c)
        PROVE  TypeOK'
    <3>1. att[n] \in PartialFunctions(Container, SUBSET Alias)
      BY DEF TypeOK
    <3>2. PICK containers \in PartialFunctions(Container, SUBSET Alias) : Change(n, containers)
      <4>1. CASE Join(n, c)
        <5>1. PICK aliases \in SUBSET Alias :
                Change(n, [d \in DOMAIN att[n] \cup {c} |->
                             IF d = c THEN aliases ELSE att[n][d]])
          BY <4>1 DEF Join
        <5> QED
          BY <5>1, <3>1, Extended
      <4>2. CASE LeaveNet(n, c)
        <5>1. [d \in DOMAIN att[n] \ {c} |-> att[n][d]]
                \in [DOMAIN att[n] \ {c} -> SUBSET Alias]
          BY <3>1, PartialFunction
        <5>2. DOMAIN att[n] \ {c} \in SUBSET Container
          BY <3>1, PartialFunction
        <5> QED
          BY <4>2, <5>1, <5>2, IsPartialFunction DEF LeaveNet
      <4> QED
        BY <2>8, <4>1, <4>2
    <3>3. att' \in [Net -> PartialFunctions(Container, SUBSET Alias)]
      BY <3>2 DEF TypeOK, Change
    <3>4. changes' \in 0..MaxChanges
      BY <3>2, DiscoveryAssumption DEF TypeOK, Change, DiscoveryAssumption
    <3> QED
      BY <3>2, <3>3, <3>4 DEF TypeOK, Change
  <2>9. CASE UNCHANGED vars
    BY <2>9 DEF TypeOK, vars, docker
  <2> QED
    BY <2>1, <2>2, <2>3, <2>4, <2>5, <2>6, <2>7, <2>8, <2>9
    DEF Next, Discover, Docker, Finished
<1> QED
  BY <1>1, <1>2, PTL DEF Spec

-----------------------------------------------------------------------------
(* What Docker has answered, and where that is kept.                         *)

\* What Docker returned about a container is in the cache, whatever became of the
\* networks meanwhile.
AnswersKept ==
  /\ inspections \in [Container -> Nat]
  /\ answered \subseteq DOMAIN cache

\* Docker is not asked again for details that it has returned, on however many networks
\* the container is, and whether other containers failed or not.
THEOREM AsksUntilAnswered == Spec => AskedUntilAnswered
<1>1. Init => AnswersKept
  BY DEF Init, AnswersKept
<1>2. AnswersKept /\ [Next]_vars => AnswersKept'
  <2> SUFFICES ASSUME AnswersKept, [Next]_vars PROVE AnswersKept'
    OBVIOUS
  <2>1. CASE UNCHANGED <<cache, inspections, answered>>
    BY <2>1 DEF AnswersKept
  <2>2. ASSUME NEW c \in Container, InspectContainer(c) PROVE AnswersKept'
    <3>1. DOMAIN cache' = DOMAIN cache \cup {c} /\ answered' = answered \cup {c}
      BY <2>2 DEF InspectContainer
    <3>2. inspections' = [inspections EXCEPT ![c] = @ + 1]
      BY <2>2 DEF InspectContainer
    <3> QED
      BY <3>1, <3>2 DEF AnswersKept
  <2>3. ASSUME NEW c \in Container, InspectionFails(c) PROVE AnswersKept'
    BY <2>3 DEF AnswersKept, InspectionFails
  <2> QED
    BY <2>1, <2>2, <2>3 DEF Next, Discover, Docker, Finished, vars, history, docker,
      InspectCenter, FinishNetwork, Finish, InspectNetwork, UseCached, Join, LeaveNet, Change
<1>3. AnswersKept /\ [Next]_vars => [\A c \in answered : inspections'[c] = inspections[c]]_vars
  <2> SUFFICES ASSUME AnswersKept, Next, NEW c \in answered
               PROVE  inspections'[c] = inspections[c]
    BY DEF vars
  <2>1. CASE UNCHANGED inspections
    BY <2>1
  <2>2. ASSUME NEW d \in Container, InspectContainer(d) \/ InspectionFails(d)
        PROVE  inspections'[c] = inspections[c]
    <3>1. inspections' = [inspections EXCEPT ![d] = @ + 1] /\ d \notin DOMAIN cache
      BY <2>2 DEF InspectContainer, InspectionFails
    <3> QED
      BY <3>1 DEF AnswersKept
  <2> QED
    BY <2>1, <2>2 DEF Next, Discover, Docker, Finished, vars, history, docker,
      InspectCenter, FinishNetwork, Finish, InspectNetwork, UseCached, Join, LeaveNet, Change
<1> QED
  BY <1>1, <1>2, <1>3, PTL DEF Spec, AskedUntilAnswered

-----------------------------------------------------------------------------
(* Every label reported was on its network.                                  *)

WasInv ==
  /\ Facts(att) \subseteq was
  /\ \A c \in DOMAIN cache : \A n \in DOMAIN cache[c] : {n} \X ({c} \cup cache[c][n]) \subseteq was
  /\ pc = "containers" => {net} \X names \subseteq was
  /\ NamesWereThere

\* What Docker tells about a container is a fact.
LEMMA DetailsAreFacts ==
  ASSUME TypeOK, NEW c \in Container \ {Center}, NEW n \in DOMAIN ContainerDetails(c)
  PROVE  {n} \X ({c} \cup ContainerDetails(c)[n]) \subseteq Facts(att)
<1>1. n \in Net /\ c \in DOMAIN att[n] /\ ContainerDetails(c)[n] = att[n][c]
  BY DetailsType
<1> QED
  BY <1>1 DEF Facts

\* Adding the names in details that are facts leaves only facts.
LEMMA AddedNamesWereThere ==
  ASSUME WasInv, pc = "containers", NEW c, NEW details, AddNames(c, details),
         \A n \in DOMAIN details : {n} \X ({c} \cup details[n]) \subseteq was
  PROVE  {net} \X names' \subseteq was
<1>1. CASE net \in DOMAIN details
  <2>1. {net} \X ({c} \cup details[net]) \subseteq was
    BY <1>1
  <2>2. {net} \X names \subseteq was /\ names' = names \cup {c} \cup details[net]
    BY <1>1 DEF AddNames, WasInv
  <2> QED
    BY <2>1, <2>2
<1>2. CASE net \notin DOMAIN details
  BY <1>2 DEF AddNames, WasInv
<1> QED
  BY <1>1, <1>2

\* A label that is reported was on its network at some moment.
THEOREM ReportedWereThere == Spec => []NamesWereThere
<1>1. Init => WasInv
  BY DEF Init, WasInv, NamesWereThere, NoDetails
<1>2. TypeOK /\ WasInv /\ [Next]_vars => WasInv'
  <2> SUFFICES ASSUME TypeOK, WasInv, [Next]_vars PROVE WasInv'
    OBVIOUS
  <2>1. CASE InspectCenter \/ Finish
    BY <2>1 DEF InspectCenter, Finish, WasInv, NamesWereThere, docker, history
  <2>2. ASSUME NEW n \in Net, InspectNetwork(n) PROVE WasInv'
    <3>1. pc' = "containers" => names' = {}
      BY <2>2 DEF InspectNetwork
    <3> QED
      BY <2>2, <3>1 DEF InspectNetwork, WasInv, NamesWereThere, docker, history
  <2>3. ASSUME NEW c \in Container, InspectContainer(c) PROVE WasInv'
    <3>1. pc = "containers" /\ c \in Container \ {Center} /\ AddNames(c, ContainerDetails(c))
      BY <2>3 DEF InspectContainer, TypeOK
    <3>2. \A n \in DOMAIN ContainerDetails(c) :
            {n} \X ({c} \cup ContainerDetails(c)[n]) \subseteq was
      BY <3>1, DetailsAreFacts DEF WasInv
    <3>3. {net} \X names' \subseteq was
      BY <3>1, <3>2, AddedNamesWereThere
    <3>4. \A d \in DOMAIN cache' : \A n \in DOMAIN cache'[d] :
            {n} \X ({d} \cup cache'[d][n]) \subseteq was
      <4> TAKE d \in DOMAIN cache'
      <4>1. d = c => cache'[d] = ContainerDetails(c)
        BY <2>3 DEF InspectContainer
      <4>2. d # c => d \in DOMAIN cache /\ cache'[d] = cache[d]
        BY <2>3 DEF InspectContainer
      <4>3. CASE d = c
        BY <3>2, <4>1, <4>3
      <4>4. CASE d # c
        BY <4>2, <4>4 DEF WasInv
      <4> QED
        BY <4>3, <4>4
    <3>5. UNCHANGED <<att, net, found, was>>
      BY <2>3 DEF InspectContainer, docker
    <3> QED
      BY <3>3, <3>4, <3>5 DEF WasInv, NamesWereThere
  <2>4. ASSUME NEW c \in Container, InspectionFails(c) PROVE WasInv'
    BY <2>4 DEF InspectionFails, WasInv, NamesWereThere, docker
  <2>5. ASSUME NEW c \in Container, UseCached(c) PROVE WasInv'
    <3>1. {net} \X names' \subseteq was
      BY <2>5, AddedNamesWereThere DEF UseCached, WasInv
    <3> QED
      BY <2>5, <3>1 DEF UseCached, WasInv, NamesWereThere, docker, history
  <2>6. CASE FinishNetwork
    <3>1. \A n \in DOMAIN found' : {n} \X found'[n] \subseteq was
      BY <2>6 DEF FinishNetwork, WasInv, NamesWereThere
    <3> QED
      BY <2>6, <3>1 DEF FinishNetwork, WasInv, NamesWereThere, docker, history
  <2>7. CASE Docker
    <3>1. /\ was' = was \cup Facts(att')
          /\ UNCHANGED <<pc, net, names, cache, found>>
      BY <2>7 DEF Docker, Join, LeaveNet, Change
    <3>2. Facts(att)' = Facts(att')
      BY DEF Facts
    <3>3. was \subseteq was' /\ Facts(att)' \subseteq was'
      BY <3>1, <3>2
    <3> QED
      BY <3>1, <3>3 DEF WasInv, NamesWereThere
  <2>8. CASE UNCHANGED vars
    BY <2>8 DEF WasInv, NamesWereThere, vars, docker, history
  <2> QED
    BY <2>1, <2>2, <2>3, <2>4, <2>5, <2>6, <2>7, <2>8 DEF Next, Discover, Finished
<1>3. WasInv => NamesWereThere
  BY DEF WasInv
<1> QED
  BY <1>1, <1>2, <1>3, TypeCorrect, PTL DEF Spec

-----------------------------------------------------------------------------
(* What nobody touched is found.                                             *)

\* An attachment nobody touched is as it was when it was fetched and counted.
SteadyInv ==
  /\ steady \subseteq Attachments(att)
  /\ \A p \in steady :
       p[2] \in DOMAIN cache =>
         p[1] \in DOMAIN cache[p[2]] /\ cache[p[2]][p[1]] = att[p[1]][p[2]]

\* A network the center stays on is to be inspected, being looked at, or in the result.
NetworksInv ==
  /\ pc = "done" => nets = {}
  /\ pc \in {"networks", "containers", "done"} =>
       \A p \in steady :
         p[2] = Center => \/ p[1] \in nets \cup DOMAIN found
                          \/ pc = "containers" /\ p[1] = net

\* A container that stays on a network is to be looked at, or its labels are known.
LabelsInv ==
  \A p \in steady :
    p[2] # Center =>
      /\ p[1] \in DOMAIN found => {p[2]} \cup att[p[1]][p[2]] \subseteq found[p[1]]
      /\ pc = "containers" /\ p[1] = net =>
           \/ p[2] \in cntrs
           \/ {p[2]} \cup att[p[1]][p[2]] \subseteq names

SteadyInvs == SteadyInv /\ NetworksInv /\ LabelsInv

LEMMA SteadyInit == Init => SteadyInvs
<1> SUFFICES ASSUME Init PROVE SteadyInvs
  OBVIOUS
<1>1. DOMAIN cache = {} /\ DOMAIN found = {} /\ pc = "center" /\ steady = Attachments(att)
  BY DEF Init, NoDetails
<1> QED
  BY <1>1 DEF SteadyInvs, SteadyInv, NetworksInv, LabelsInv

\* Where a steady attachment is, and that it still is there.
LEMMA SteadyPair ==
  ASSUME SteadyInv, NEW p \in steady
  PROVE  p = <<p[1], p[2]>> /\ p[1] \in Net /\ p[2] \in Container /\ p[2] \in DOMAIN att[p[1]]
BY DEF SteadyInv, Attachments

\* A step that leaves Docker, the cache and the steady attachments alone, or makes
\* fewer of them steady, preserves SteadyInv.
LEMMA SteadyKept ==
  ASSUME SteadyInv, UNCHANGED <<att, cache>>, steady' \subseteq steady
  PROVE  SteadyInv'
BY DEF SteadyInv, Attachments

\* What Docker changes is no longer steady, and the rest is as it was.
LEMMA ChangeKeepsSteady ==
  ASSUME TypeOK, SteadyInv, NEW n \in Net, NEW c \in Container, Join(n, c) \/ LeaveNet(n, c)
  PROVE  /\ steady' \subseteq steady
         /\ \A p \in steady' : /\ p[2] \in DOMAIN att'[p[1]]
                               /\ att'[p[1]][p[2]] = att[p[1]][p[2]]
<1>1. steady' = steady \ {<<n, c>>}
  BY DEF Join, LeaveNet
<1> SUFFICES ASSUME NEW p \in steady'
             PROVE  p[2] \in DOMAIN att'[p[1]] /\ att'[p[1]][p[2]] = att[p[1]][p[2]]
  BY <1>1
<1>2. /\ p \in steady /\ p[1] \in Net /\ p[2] \in DOMAIN att[p[1]]
      /\ ~(p[1] = n /\ p[2] = c)
  BY <1>1, SteadyPair
<1>3. PICK containers :
        /\ att' = [att EXCEPT ![n] = containers]
        /\ \A d \in DOMAIN att[n] \ {c} : d \in DOMAIN containers /\ containers[d] = att[n][d]
  <2>1. CASE Join(n, c)
    <3>1. PICK aliases \in SUBSET Alias :
            att' = [att EXCEPT ![n] = [d \in DOMAIN att[n] \cup {c} |->
                                         IF d = c THEN aliases ELSE att[n][d]]]
      BY <2>1 DEF Join, Change
    <3> QED
      BY <3>1
  <2>2. CASE LeaveNet(n, c)
    BY <2>2 DEF LeaveNet, Change
  <2> QED
    BY <2>1, <2>2
<1>4. DOMAIN att = Net
  BY DEF TypeOK
<1>5. CASE p[1] = n
  BY <1>2, <1>3, <1>4, <1>5
<1>6. CASE p[1] # n
  BY <1>2, <1>3, <1>4, <1>6
<1> QED
  BY <1>5, <1>6

\* Adding a container's names: those of the others stay, and its own are there if its
\* details are right.
LEMMA AddedLabels ==
  ASSUME LabelsInv, SteadyInv, pc = "containers", NEW c \in cntrs, NEW details,
         AddNames(c, details), UNCHANGED <<att, net, found, steady>>,
         \A p \in steady : p[1] = net /\ p[2] = c => details[net] = att[net][c]
  PROVE  LabelsInv'
<1> SUFFICES ASSUME NEW p \in steady, p[2] # Center, pc' = "containers", p[1] = net,
                    ~(p[2] \in cntrs')
             PROVE  {p[2]} \cup att[p[1]][p[2]] \subseteq names'
  BY DEF LabelsInv
<1>1. cntrs' = cntrs \ {c} /\ names' = names \cup {c} \cup details[net]
  BY DEF AddNames
<1>2. CASE p[2] = c
  BY <1>1, <1>2
<1>3. CASE p[2] # c
  BY <1>1, <1>3 DEF LabelsInv
<1> QED
  BY <1>2, <1>3

\* A container that stays on a network of the center is reported with its aliases, unless
\* Docker refused to answer about it.
THEOREM FindsSteadyNames == Spec => []SteadyNamesFound
<1>1. TypeOK /\ SteadyInvs /\ [Next]_vars => SteadyInvs'
  <2> SUFFICES ASSUME TypeOK, SteadyInv, NetworksInv, LabelsInv, [Next]_vars
               PROVE  SteadyInvs'
    BY DEF SteadyInvs
  <2>1. CASE InspectCenter
    <3>1. SteadyInv'
      BY <2>1, SteadyKept DEF InspectCenter, docker, history
    <3>2. NetworksInv'
      <4>1. \A p \in steady : p[2] = Center => p[1] \in Net /\ Center \in DOMAIN att[p[1]]
        BY SteadyPair
      <4> QED
        BY <2>1, <4>1 DEF NetworksInv, InspectCenter, docker, history
    <3>3. LabelsInv'
      BY <2>1 DEF LabelsInv, InspectCenter, docker, history
    <3> QED
      BY <3>1, <3>2, <3>3 DEF SteadyInvs
  <2>2. ASSUME NEW n \in Net, InspectNetwork(n) PROVE SteadyInvs'
    <3>1. SteadyInv'
      BY <2>2, SteadyKept DEF InspectNetwork, docker, history
    <3>2. \A p \in steady : p[2] \in DOMAIN att[p[1]]
      BY SteadyPair
    <3>3. NetworksInv'
      BY <2>2, <3>2 DEF NetworksInv, InspectNetwork, docker, history
    <3>4. LabelsInv'
      BY <2>2, <3>2 DEF LabelsInv, InspectNetwork, docker, history
    <3> QED
      BY <3>1, <3>3, <3>4 DEF SteadyInvs
  <2>3. ASSUME NEW c \in Container, InspectContainer(c) PROVE SteadyInvs'
    <3>1. \A p \in steady : p[2] = c => /\ p[1] \in DOMAIN ContainerDetails(c)
                                        /\ ContainerDetails(c)[p[1]] = att[p[1]][c]
      BY SteadyPair, DetailsType
    <3>2. SteadyInv'
      BY <2>3, <3>1 DEF SteadyInv, Attachments, InspectContainer, docker
    <3>3. NetworksInv'
      BY <2>3 DEF NetworksInv, InspectContainer, AddNames, docker
    <3>4. LabelsInv'
      BY <2>3, <3>1, AddedLabels DEF InspectContainer, docker
    <3> QED
      BY <3>2, <3>3, <3>4 DEF SteadyInvs
  <2>4. ASSUME NEW c \in Container, InspectionFails(c) PROVE SteadyInvs'
    <3>1. SteadyInv'
      BY <2>4, SteadyKept DEF InspectionFails, docker
    <3>2. NetworksInv' /\ LabelsInv'
      BY <2>4 DEF NetworksInv, LabelsInv, InspectionFails, docker
    <3> QED
      BY <3>1, <3>2 DEF SteadyInvs
  <2>5. ASSUME NEW c \in Container, UseCached(c) PROVE SteadyInvs'
    <3>1. SteadyInv'
      BY <2>5, SteadyKept DEF UseCached, docker, history
    <3>2. NetworksInv'
      BY <2>5 DEF NetworksInv, UseCached, AddNames, docker, history
    <3>3. \A p \in steady : p[1] = net /\ p[2] = c => cache[c][net] = att[net][c]
      BY <2>5 DEF SteadyInv, UseCached
    <3>4. LabelsInv'
      BY <2>5, <3>3, AddedLabels DEF UseCached, docker, history
    <3> QED
      BY <3>1, <3>2, <3>4 DEF SteadyInvs
  <2>6. CASE FinishNetwork
    <3>1. SteadyInv'
      BY <2>6, SteadyKept DEF FinishNetwork, docker, history
    <3>2. NetworksInv' /\ LabelsInv'
      BY <2>6 DEF NetworksInv, LabelsInv, FinishNetwork, docker, history
    <3> QED
      BY <3>1, <3>2 DEF SteadyInvs
  <2>7. CASE Finish
    <3>1. SteadyInv'
      BY <2>7, SteadyKept DEF Finish, docker, history
    <3>2. NetworksInv' /\ LabelsInv'
      BY <2>7 DEF NetworksInv, LabelsInv, Finish, docker, history
    <3> QED
      BY <3>1, <3>2 DEF SteadyInvs
  <2>8. ASSUME NEW n \in Net, NEW c \in Container, Join(n, c) \/ LeaveNet(n, c)
        PROVE  SteadyInvs'
    <3>1. UNCHANGED <<pc, nets, net, cntrs, names, cache, found>>
      BY <2>8 DEF Join, LeaveNet, Change
    <3>2. /\ steady' \subseteq steady
          /\ \A p \in steady' : /\ p[2] \in DOMAIN att'[p[1]]
                                /\ att'[p[1]][p[2]] = att[p[1]][p[2]]
      BY <2>8, ChangeKeepsSteady
    <3>3. SteadyInv'
      <4>1. steady' \subseteq Attachments(att)'
        BY <3>2 DEF SteadyInv, Attachments
      <4> QED
        BY <3>1, <3>2, <4>1 DEF SteadyInv
    <3>4. NetworksInv'
      BY <3>1, <3>2 DEF NetworksInv
    <3>5. LabelsInv'
      BY <3>1, <3>2 DEF LabelsInv
    <3> QED
      BY <3>3, <3>4, <3>5 DEF SteadyInvs
  <2>9. CASE UNCHANGED vars
    BY <2>9 DEF SteadyInvs, SteadyInv, NetworksInv, LabelsInv, Attachments, vars, docker, history
  <2> QED
    BY <2>1, <2>2, <2>3, <2>4, <2>5, <2>6, <2>7, <2>8, <2>9
    DEF Next, Discover, Docker, Finished
<1>2. SteadyInvs => SteadyNamesFound
  <2> SUFFICES ASSUME SteadyInvs, pc = "done", NEW p \in steady,
                      <<p[1], Center>> \in steady, p[2] # Center
               PROVE  p[1] \in DOMAIN found /\ {p[2]} \cup att[p[1]][p[2]] \subseteq found[p[1]]
    BY DEF SteadyNamesFound
  <2>1. p[1] \in DOMAIN found
    <3> DEFINE q == <<p[1], Center>>
    <3>1. q \in steady /\ q[2] = Center /\ q[1] = p[1]
      OBVIOUS
    <3>2. q[1] \in nets \cup DOMAIN found
      BY <3>1 DEF SteadyInvs, NetworksInv
    <3> QED
      BY <3>1, <3>2 DEF SteadyInvs, NetworksInv
  <2> QED
    BY <2>1 DEF SteadyInvs, LabelsInv
<1> QED
  BY SteadyInit, <1>1, <1>2, TypeCorrect, PTL DEF Spec

-----------------------------------------------------------------------------
(* Sorting and grouping any finite set of FQDNs.                             *)

\* The parts of a name are positive, and there are none after its last.
LEMMA Parts ==
  ASSUME NEW f \in DomainName
  PROVE  /\ Len(f) \in Nat \ {0} /\ DOMAIN f = 1..Len(f)
         /\ \A k \in DOMAIN f : Part(f, k) = f[k] /\ f[k] \in Nat \ {0}
         /\ \A k \in Nat \ {0} : k \notin DOMAIN f => Part(f, k) = 0
         /\ \A k \in Nat \ {0} : Part(f, k) \in Nat
         /\ labelName(f) = f[1] /\ labelName(f) \in Nat
         /\ groupName(f) \in Nat
<1>1. f \in Seq(Nat \ {0}) /\ f # << >>
  BY DEF DomainName, NoGroup
<1>2. Len(f) \in Nat \ {0} /\ DOMAIN f = 1..Len(f) /\ \A k \in 1..Len(f) : f[k] \in Nat \ {0}
  BY <1>1
<1> QED
  BY <1>2 DEF Part, labelName, groupName, NoGroup

LEMMA SameParts ==
  ASSUME NEW f \in DomainName, NEW g \in DomainName,
         \A k \in Nat \ {0} : Part(f, k) = Part(g, k)
  PROVE  f = g
<1>1. ASSUME NEW d \in DomainName, NEW e \in DomainName,
             \A k \in Nat \ {0} : Part(d, k) = Part(e, k)
      PROVE  Len(d) <= Len(e)
  <2> SUFFICES ASSUME ~(Len(d) <= Len(e)) PROVE FALSE
    OBVIOUS
  <2>1. Len(d) \in DOMAIN d /\ Len(d) \in Nat \ {0} /\ Len(d) \notin DOMAIN e
    <3>1. /\ Len(d) \in Nat \ {0} /\ DOMAIN d = 1..Len(d)
          /\ Len(e) \in Nat \ {0} /\ DOMAIN e = 1..Len(e)
      BY Parts
    <3> QED
      BY <3>1
  <2>2. Part(d, Len(d)) # 0 /\ Part(e, Len(d)) = 0
    BY <2>1, Parts
  <2> QED
    BY <1>1, <2>1, <2>2
<1>2. Len(f) = Len(g)
  <2>1. Len(f) <= Len(g) /\ Len(g) <= Len(f)
    BY <1>1
  <2> QED
    BY <2>1, Parts
<1>3. DOMAIN f = DOMAIN g /\ \A k \in DOMAIN f : f[k] = g[k]
  BY <1>2, Parts
<1>4. f = [k \in DOMAIN f |-> f[k]] /\ g = [k \in DOMAIN g |-> g[k]]
  BY DEF DomainName
<1> QED
  BY <1>3, <1>4

\* A set of numbers that is not empty has a least one.
LEMMA LeastOfNats ==
  ASSUME NEW S \in SUBSET Nat, S # {}
  PROVE  \E i \in S : \A j \in S : i <= j
<1> DEFINE T == {0..i : i \in S}
           R == StrictSubsetOrdering(Nat)
<1>1. T # {}
  OBVIOUS
<1>2. ASSUME NEW t \in T PROVE t \in FiniteSubsetsOf(Nat)
  <2>1. PICK i \in S : t = 0..i
    OBVIOUS
  <2>2. IsFiniteSet(0..i)
    BY FS_Interval
  <2> QED
    BY <2>1, <2>2 DEF FiniteSubsetsOf
<1>3. IsWellFoundedOn(R, FiniteSubsetsOf(Nat))
  BY FS_StrictSubsetOrderingWellFounded
<1>4. T \subseteq FiniteSubsetsOf(Nat)
  BY <1>2
<1> HIDE DEF R
<1>5. PICK t \in T : \A u \in T : ~(<<u, t>> \in R)
  <2> HIDE DEF T
  <2> QED
    BY <1>1, <1>3, <1>4, WFMin
<1>6. PICK i \in S : t = 0..i
  BY <1>5
<1>7. ASSUME NEW j \in S, j < i PROVE FALSE
  <2>1. 0..j \subseteq 0..i /\ 0..j # 0..i /\ 0..i \subseteq Nat
    BY <1>7
  <2>2. <<0..j, 0..i>> \in R
    BY <2>1 DEF R, StrictSubsetOrdering
  <2> QED
    BY <2>2, <1>5, <1>6
<1> QED
  BY <1>7

\* The order that decides when label and group do.
Later(f, g) ==
  \E k \in Nat \ {0} : /\ Part(f, k) < Part(g, k)
                       /\ \A i \in 1..k - 1 : Part(f, i) = Part(g, i)

LEMMA LaterIsTotalOrder ==
  ASSUME NEW f \in DomainName, NEW g \in DomainName
  PROVE  /\ ~Later(f, f)
         /\ \A h \in DomainName : Later(f, g) /\ Later(g, h) => Later(f, h)
         /\ f = g \/ Later(f, g) \/ Later(g, f)
<1>1. ~Later(f, f)
  BY Parts DEF Later
<1>2. ASSUME NEW h \in DomainName, Later(f, g), Later(g, h) PROVE Later(f, h)
  <2>1. PICK k \in Nat \ {0} : /\ Part(f, k) < Part(g, k)
                               /\ \A i \in 1..k - 1 : Part(f, i) = Part(g, i)
    BY <1>2 DEF Later
  <2>2. PICK l \in Nat \ {0} : /\ Part(g, l) < Part(h, l)
                               /\ \A i \in 1..l - 1 : Part(g, i) = Part(h, i)
    BY <1>2 DEF Later
  <2>3. \A i \in Nat \ {0} : Part(f, i) \in Nat /\ Part(g, i) \in Nat /\ Part(h, i) \in Nat
    BY Parts
  <2>4. CASE k <= l
    <3>1. Part(f, k) < Part(h, k)
      BY <2>1, <2>2, <2>3, <2>4
    <3>2. \A i \in 1..k - 1 : Part(f, i) = Part(h, i)
      BY <2>1, <2>2, <2>4
    <3> QED
      BY <3>1, <3>2 DEF Later
  <2>5. CASE l < k
    <3>1. Part(f, l) < Part(h, l)
      BY <2>1, <2>2, <2>3, <2>5
    <3>2. \A i \in 1..l - 1 : Part(f, i) = Part(h, i)
      BY <2>1, <2>2, <2>5
    <3> QED
      BY <3>1, <3>2 DEF Later
  <2> QED
    BY <2>4, <2>5
<1>3. ASSUME f # g PROVE Later(f, g) \/ Later(g, f)
  <2> DEFINE S == {k \in Nat \ {0} : Part(f, k) # Part(g, k)}
  <2>1. S # {} /\ S \in SUBSET Nat
    BY <1>3, SameParts
  <2>2. PICK k \in S : \A j \in S : k <= j
    BY <2>1, LeastOfNats
  <2>3. \A i \in 1..k - 1 : Part(f, i) = Part(g, i)
    BY <2>2
  <2>4. Part(f, k) < Part(g, k) \/ Part(g, k) < Part(f, k)
    BY <2>2, Parts
  <2> QED
    BY <2>2, <2>3, <2>4 DEF Later
<1> QED
  BY <1>1, <1>2, <1>3

LEMMA PrecedesIs ==
  ASSUME NEW f \in DomainName, NEW g \in DomainName
  PROVE  Precedes(f, g) <=> Before(f, g) \/ (~Before(g, f) /\ Later(f, g))
<1>1. ASSUME NEW k \in Nat \ {0}, Part(f, k) < Part(g, k) PROVE k \in DOMAIN g
  BY <1>1, Parts
<1>2. \A k \in DOMAIN g : k \in Nat \ {0}
  BY Parts
<1>3. Later(f, g) <=> \E k \in DOMAIN g : /\ Part(f, k) < Part(g, k)
                                         /\ \A i \in 1..k - 1 : Part(f, i) = Part(g, i)
  BY <1>1, <1>2 DEF Later
<1> QED
  BY <1>3 DEF Precedes

\* Any two different names are displayed in one order, and that order has no cycles.
LEMMA PrecedesIsTotalOrder ==
  ASSUME NEW f \in DomainName, NEW g \in DomainName
  PROVE  /\ ~Precedes(f, f)
         /\ \A h \in DomainName : Precedes(f, g) /\ Precedes(g, h) => Precedes(f, h)
         /\ f = g \/ Precedes(f, g) \/ Precedes(g, f)
<1>1. ~Precedes(f, f)
  <2>1. ~Later(f, f)
    BY LaterIsTotalOrder
  <2>2. ~Before(f, f)
    BY Parts DEF Before
  <2> QED
    BY <2>1, <2>2, PrecedesIs
<1>2. ASSUME NEW h \in DomainName, Precedes(f, g), Precedes(g, h) PROVE Precedes(f, h)
  <2>1. /\ Before(f, g) \/ (~Before(g, f) /\ Later(f, g))
        /\ Before(g, h) \/ (~Before(h, g) /\ Later(g, h))
    BY <1>2, PrecedesIs
  <2>2. Later(f, g) /\ Later(g, h) => Later(f, h)
    BY LaterIsTotalOrder
  <2>3. \A d \in {f, g, h} : groupName(d) \in Nat /\ labelName(d) \in Nat
    BY Parts
  <2>4. Before(f, h) \/ (~Before(h, f) /\ Later(f, h))
    BY <2>1, <2>2, <2>3 DEF Before
  <2> QED
    BY <2>4, PrecedesIs
<1>3. f = g \/ Precedes(f, g) \/ Precedes(g, f)
  <2>1. f = g \/ Later(f, g) \/ Later(g, f)
    BY LaterIsTotalOrder
  <2>2. /\ Precedes(f, g) <=> Before(f, g) \/ (~Before(g, f) /\ Later(f, g))
        /\ Precedes(g, f) <=> Before(g, f) \/ (~Before(f, g) /\ Later(g, f))
    BY PrecedesIs
  <2> QED
    BY <2>1, <2>2
<1> QED
  BY <1>1, <1>2, <1>3

Rank(S, f) == Cardinality({g \in S : Precedes(g, f)})

LEMMA RankGrows ==
  ASSUME NEW S \in SUBSET DomainName, IsFiniteSet(S), NEW f \in S, NEW g \in S, Precedes(f, g)
  PROVE  Rank(S, f) < Rank(S, g)
<1> DEFINE F == {h \in S : Precedes(h, f)}
           G == {h \in S : Precedes(h, g)}
<1>1. F \subseteq G /\ f \in G /\ f \notin F
  BY PrecedesIsTotalOrder
<1>2. IsFiniteSet(F) /\ IsFiniteSet(G)
  BY FS_Subset
<1>3. Cardinality(F) \in Nat /\ Cardinality(G) \in Nat
  BY <1>2, FS_CardinalityType
<1> HIDE DEF F, G
<1>4. Cardinality(F) <= Cardinality(G) /\ Cardinality(F) # Cardinality(G)
  BY <1>1, <1>2, FS_Subset
<1>5. Cardinality(F) < Cardinality(G)
  BY <1>3, <1>4
<1> QED
  BY <1>5 DEF Rank, F, G

\* As the ranks are all different, each of them belongs to an FQDN.
LEMMA EachRank ==
  ASSUME NEW S \in SUBSET DomainName, IsFiniteSet(S)
  PROVE  /\ Cardinality(S) \in Nat
         /\ \A f \in S : Rank(S, f) \in 0..(Cardinality(S) - 1)
         /\ \A i \in 0..(Cardinality(S) - 1) : \E f \in S : Rank(S, f) = i
<1> DEFINE N == Cardinality(S)
           R == 0..(N - 1)
           rank == [f \in S |-> Rank(S, f)]
<1>1. N \in Nat
  BY FS_CardinalityType
<1>2. IsFiniteSet(R) /\ Cardinality(R) = N
  BY <1>1, FS_Interval
<1>3. ASSUME NEW f \in S PROVE Rank(S, f) \in R
  <2> DEFINE F == {h \in S : Precedes(h, f)}
  <2>1. F \subseteq S \ {f}
    BY PrecedesIsTotalOrder
  <2>2. IsFiniteSet(S \ {f}) /\ Cardinality(S \ {f}) = N - 1
    BY FS_RemoveElement
  <2>3. IsFiniteSet(F) /\ Cardinality(F) <= N - 1
    BY <2>1, <2>2, FS_Subset
  <2>4. Cardinality(F) \in Nat
    BY <2>3, FS_CardinalityType
  <2> QED
    BY <1>1, <2>3, <2>4 DEF Rank
<1>4. rank \in Injection(S, R)
  <2>1. ASSUME NEW f \in S, NEW g \in S, rank[f] = rank[g] PROVE f = g
    <3>1. Rank(S, f) = Rank(S, g) /\ Rank(S, f) \in R
      BY <1>3, <2>1
    <3>2. ~Precedes(f, g) /\ ~Precedes(g, f)
      BY <1>1, <3>1, RankGrows
    <3> QED
      BY <3>2, PrecedesIsTotalOrder
  <2>2. rank \in [S -> R]
    BY <1>3
  <2> HIDE DEF rank
  <2> QED
    BY <2>1, <2>2 DEF Injection, IsInjective
<1>5. rank \in Surjection(S, R)
  BY <1>2, <1>4, FS_Injection
<1>6. \A i \in R : \E f \in S : rank[f] = i
  BY <1>5 DEF Surjection
<1> QED
  BY <1>1, <1>3, <1>6

\* What sortFQDNs computes: all FQDNs of the set, in strictly ascending order.
LEMMA Sorted ==
  ASSUME NEW S \in SUBSET DomainName, IsFiniteSet(S)
  PROVE  /\ Cardinality(S) \in Nat
         /\ DOMAIN sortFQDNs(S) = 1..Cardinality(S)
         /\ \A i \in DOMAIN sortFQDNs(S) : sortFQDNs(S)[i] \in S
         /\ \A f \in S : \E i \in DOMAIN sortFQDNs(S) : sortFQDNs(S)[i] = f
         /\ \A i, j \in DOMAIN sortFQDNs(S) : i < j => Precedes(sortFQDNs(S)[i], sortFQDNs(S)[j])
<1> DEFINE N == Cardinality(S)
           s == sortFQDNs(S)
<1>1. N \in Nat /\ DOMAIN s = 1..N
  BY EachRank DEF sortFQDNs
<1>2. ASSUME NEW i \in 1..N PROVE s[i] \in S /\ Rank(S, s[i]) = i - 1
  <2>1. s[i] = CHOOSE f \in S : Rank(S, f) = i - 1
    BY <1>1 DEF sortFQDNs, Rank
  <2>2. i - 1 \in 0..(N - 1)
    BY <1>1
  <2>3. \E f \in S : Rank(S, f) = i - 1
    BY <2>2, EachRank
  <2> QED
    BY <2>1, <2>3
<1> HIDE DEF s
<1>3. ASSUME NEW i \in 1..N, NEW j \in 1..N, i < j PROVE Precedes(s[i], s[j])
  <2>1. s[i] # s[j] /\ ~(Rank(S, s[j]) < Rank(S, s[i]))
    BY <1>1, <1>2, <1>3
  <2>2. ~Precedes(s[j], s[i])
    BY <1>2, <2>1, RankGrows
  <2> QED
    BY <1>2, <2>1, <2>2, PrecedesIsTotalOrder
<1>4. ASSUME NEW f \in S PROVE \E i \in 1..N : s[i] = f
  <2>1. Rank(S, f) \in 0..(N - 1)
    BY EachRank
  <2> DEFINE i == Rank(S, f) + 1
  <2>2. i \in 1..N /\ i - 1 = Rank(S, f)
    BY <1>1, <2>1
  <2>3. s[i] \in S /\ Rank(S, s[i]) = Rank(S, f)
    BY <1>2, <2>2
  <2>4. ~Precedes(s[i], f) /\ ~Precedes(f, s[i])
    BY <1>1, <2>1, <2>3, RankGrows
  <2>5. s[i] = f
    BY <2>3, <2>4, PrecedesIsTotalOrder
  <2> QED
    BY <2>2, <2>5
<1> QED
  BY <1>1, <1>2, <1>3, <1>4 DEF s

LEMMA NetsAscend ==
  ASSUME NEW S \in SUBSET DomainName, IsFiniteSet(S),
         NEW i \in DOMAIN sortFQDNs(S), NEW j \in DOMAIN sortFQDNs(S), i <= j
  PROVE  groupName(sortFQDNs(S)[i]) <= groupName(sortFQDNs(S)[j])
<1> DEFINE s == sortFQDNs(S)
<1>1. s[i] \in DomainName /\ s[j] \in DomainName /\ i \in Int /\ j \in Int
  BY Sorted
<1>2. i = j \/ Precedes(s[i], s[j])
  BY <1>1, Sorted
<1> HIDE DEF s
<1>3. groupName(s[i]) \in Nat /\ groupName(s[j]) \in Nat
  BY <1>1, Parts
<1>4. groupName(s[i]) <= groupName(s[j])
  BY <1>2, <1>3 DEF Precedes, Before
<1> QED
  BY <1>4 DEF s

\* Among sorted names, those of one network follow each other.
LEMMA OneGroup ==
  ASSUME NEW S \in SUBSET DomainName, IsFiniteSet(S),
         NEW i \in groupNames(sortFQDNs(S)), NEW j \in groupNames(sortFQDNs(S)),
         groupName(sortFQDNs(S)[i]) = groupName(sortFQDNs(S)[j])
  PROVE  i = j
<1> DEFINE s == sortFQDNs(S)
<1>1. Cardinality(S) \in Nat /\ DOMAIN s = 1..Cardinality(S)
  BY Sorted
<1>2. \A k \in DOMAIN s : groupName(s[k]) \in Int
  BY Sorted, Parts
<1>3. \A k, l \in DOMAIN s : k <= l => groupName(s[k]) <= groupName(s[l])
  BY NetsAscend
<1>4. i \in DOMAIN s /\ j \in DOMAIN s
  BY DEF groupNames
<1>5. ASSUME NEW k \in groupNames(s), NEW l \in groupNames(s), groupName(s[k]) = groupName(s[l]), k < l
      PROVE  FALSE
  <2>1. k \in DOMAIN s /\ l \in DOMAIN s /\ l - 1 \in DOMAIN s /\ k <= l - 1 /\ l - 1 <= l
    BY <1>1, <1>5 DEF groupNames
  <2>2. groupName(s[l - 1]) # groupName(s[l])
    BY <1>1, <1>5, <2>1 DEF groupNames
  <2> HIDE DEF s
  <2>3. groupName(s[k]) <= groupName(s[l - 1]) /\ groupName(s[l - 1]) <= groupName(s[l])
    BY <1>3, <2>1
  <2> QED
    BY <1>2, <1>5, <2>1, <2>2, <2>3
<1> QED
  BY <1>1, <1>4, <1>5

\* The names that a discovery may find.
Joined(l, n) == l \o n
FoundNames == {Joined(l, n) : l \in Label, n \in Net} \cup Label

\* A label and a network without dots make a name of two parts.
LEMMA SecondPart ==
  ASSUME NEW S, NEW l \in Seq(S), NEW n \in Seq(S), Len(l) = 1, Len(n) = 1
  PROVE  Len(Joined(l, n)) = 2 /\ Joined(l, n)[2] = n[1]
<1>1. /\ Len(l \o n) = Len(l) + Len(n)
      /\ \A i \in 1..Len(l) + Len(n) :
           (l \o n)[i] = IF i <= Len(l) THEN l[i] ELSE n[i - Len(l)]
  BY ConcatProperties, Zenon
<1>2. /\ Len(Joined(l, n)) = Len(l) + Len(n)
      /\ \A i \in 1..Len(l) + Len(n) :
           Joined(l, n)[i] = IF i <= Len(l) THEN l[i] ELSE n[i - Len(l)]
  BY <1>1 DEF Joined
<1> QED
  BY <1>2

LEMMA ListsOfNames ==
  ASSUME NEW S \in SUBSET FoundNames
  PROVE  S \in SUBSET DomainName /\ IsFiniteSet(S)
<1>1. Label \subseteq DomainName /\ Net \subseteq DomainName
  BY DiscoveryAssumption DEF DiscoveryAssumption, Label
<1>2. ASSUME NEW l \in Label, NEW n \in Net PROVE Joined(l, n) \in DomainName
  <2>1. l \in Seq(Nat \ {NoGroup}) /\ n \in Seq(Nat \ {NoGroup}) /\ Len(l) \in Nat \ {0}
    BY <1>1, Parts DEF DomainName
  <2>2. l \o n \in Seq(Nat \ {NoGroup}) /\ Len(l \o n) = Len(l) + Len(n) /\ Len(n) \in Nat
    BY <2>1
  <2>3. Len(l \o n) # 0
    BY <2>1, <2>2
  <2> QED
    BY <2>2, <2>3 DEF DomainName, Joined
<1>3. IsFiniteSet(Label) /\ IsFiniteSet(Label \X Net)
  BY DiscoveryAssumption, FS_Product DEF DiscoveryAssumption, Label
<1> DEFINE Q == {Joined(l, n) : l \in Label, n \in Net}
           f == [p \in Label \X Net |-> Joined(p[1], p[2])]
<1>4. f \in Surjection(Label \X Net, Q)
  <2>1. ASSUME NEW p \in Label \X Net PROVE f[p] \in Q
    <3>1. f[p] = Joined(p[1], p[2]) /\ p[1] \in Label /\ p[2] \in Net
      OBVIOUS
    <3> QED
      BY <3>1
  <2>2. ASSUME NEW q \in Q PROVE \E p \in Label \X Net : f[p] = q
    <3>1. PICK l \in Label, n \in Net : q = Joined(l, n)
      OBVIOUS
    <3>2. <<l, n>> \in Label \X Net /\ f[<<l, n>>] = Joined(l, n)
      OBVIOUS
    <3> QED
      BY <3>1, <3>2
  <2>3. f \in [Label \X Net -> Q]
    <3> HIDE DEF Q
    <3> QED
      BY <2>1
  <2> HIDE DEF f, Q
  <2> QED
    BY <2>2, <2>3 DEF Surjection
<1>5. IsFiniteSet(Q)
  <2> HIDE DEF f, Q
  <2> QED
    BY <1>3, <1>4, FS_Surjection
<1>6. IsFiniteSet(Q \cup Label)
  <2> HIDE DEF Q
  <2> QED
    BY <1>3, <1>5, FS_Union
<1>7. Q \subseteq DomainName
  BY <1>2
<1> HIDE DEF Q
<1>8. FoundNames = Q \cup Label
  BY DEF FoundNames, Q
<1>9. FoundNames \subseteq DomainName /\ IsFiniteSet(FoundNames)
  BY <1>1, <1>6, <1>7, <1>8
<1> QED
  BY <1>9, FS_Subset

Told(N, part) == Qualified([n \in N |-> found[n]]) \cup part

\* What the display is told of, at any time, are names that were found.
LEMMA AnnouncedNames ==
  ASSUME TypeOK
  PROVE  /\ AllFQDNsOnAttachedNetworks(found) \subseteq FoundNames
         /\ \A shown \in Announced : shown \subseteq FoundNames
<1>1. DOMAIN found \subseteq Net /\ \A n \in DOMAIN found : found[n] \subseteq Label
  BY PartialFunction DEF TypeOK
<1>2. ASSUME NEW N \in SUBSET DOMAIN found
      PROVE  Qualified([n \in N |-> found[n]]) \subseteq FoundNames
  BY <1>1 DEF Qualified, FoundNames, Joined
<1>3. Qualified(found) \subseteq FoundNames
  BY <1>1 DEF Qualified, FoundNames, Joined
<1>4. UNION {found[n] : n \in DOMAIN found} \subseteq FoundNames
  BY <1>1 DEF FoundNames
<1>5. ASSUME NEW shown \in Announced PROVE shown \subseteq FoundNames
  <2> DEFINE On(N) == Qualified([n \in N |-> found[n]])
             P == UNION {SUBSET On({n}) : n \in DOMAIN found}
             R == SUBSET UNION {found[n] : n \in DOMAIN found}
  <2>1. ASSUME NEW part \in P PROVE part \subseteq FoundNames
    <3>1. PICK n \in DOMAIN found : part \in SUBSET On({n})
      OBVIOUS
    <3>2. On({n}) \subseteq FoundNames
      BY <1>2
    <3> QED
      BY <3>1, <3>2
  <2>2. \A part \in R : part \subseteq FoundNames
    BY <1>4
  <2>3. Announced = {Told(N, part) : N \in SUBSET DOMAIN found, part \in P}
                      \cup {Qualified(found) \cup part : part \in R}
    BY DEF Announced, Told
  <2> HIDE DEF P, R
  <2>4. \A N \in SUBSET DOMAIN found, part \in P : Told(N, part) \subseteq FoundNames
    BY <1>2, <2>1 DEF Told
  <2> QED
    BY <1>3, <2>2, <2>3, <2>4
<1> QED
  BY <1>3, <1>4, <1>5 DEF AllFQDNsOnAttachedNetworks

\* However much of the list the display has been told of, it shows no group twice,
\* whatever networks and labels there are, with dots in their names or without.
THEOREM GroupsTogether == Spec => []OneGroupPerNetwork
<1>1. TypeOK => OneGroupPerNetwork
  <2> SUFFICES ASSUME TypeOK, NEW shown \in Announced,
                      NEW i \in groupNames(sortFQDNs(shown)), NEW j \in groupNames(sortFQDNs(shown)),
                      groupName(sortFQDNs(shown)[i]) = groupName(sortFQDNs(shown)[j])
               PROVE  i = j
    BY DEF OneGroupPerNetwork
  <2>1. shown \in SUBSET DomainName /\ IsFiniteSet(shown)
    BY AnnouncedNames, ListsOfNames
  <2> QED
    BY <2>1, OneGroup
<1> QED
  BY <1>1, TypeCorrect, PTL

\* The header has all groups but the one without a name, if that one is there.
LEMMA HeaderNets ==
  ASSUME NEW S \in SUBSET DomainName, IsFiniteSet(S),
         S # {} => \E f \in S : groupName(f) = NoGroup
  PROVE  Header(sortFQDNs(S)) = {groupName(f) : f \in S} \ {NoGroup}
<1> DEFINE s == sortFQDNs(S)
<1>1. Cardinality(S) \in Nat /\ DOMAIN s = 1..Cardinality(S)
  BY Sorted
<1>2. /\ \A i \in DOMAIN s : s[i] \in S
      /\ \A f \in S : \E i \in DOMAIN s : s[i] = f
      /\ \A i, j \in DOMAIN s : i < j => Precedes(s[i], s[j])
      /\ \A i, j \in DOMAIN s : i <= j => groupName(s[i]) <= groupName(s[j])
  BY Sorted, NetsAscend
<1>3. \A f \in S : groupName(f) \in Int /\ NoGroup <= groupName(f)
  BY Parts DEF NoGroup
<1>4. \A i \in groupNames(s) : i \in DOMAIN s /\ (i # 1 => groupName(s[i - 1]) # groupName(s[i]))
  BY DEF groupNames
<1>5. \A i \in DOMAIN s : i # 1 /\ groupName(s[i - 1]) # groupName(s[i]) => i \in groupNames(s)
  BY DEF groupNames
<1>6. Header(s) = {groupName(s[i]) : i \in groupNames(s) \ {1}}
  BY DEF Header
<1> HIDE DEF s
<1>7. 1 \in DOMAIN s => groupName(s[1]) = NoGroup
  <2> SUFFICES ASSUME 1 \in DOMAIN s PROVE groupName(s[1]) = NoGroup
    OBVIOUS
  <2>1. PICK f \in S : groupName(f) = NoGroup
    BY <1>2
  <2>2. PICK i \in DOMAIN s : s[i] = f
    BY <1>2
  <2>3. 1 <= i
    BY <1>1
  <2>4. groupName(s[1]) <= NoGroup /\ NoGroup <= groupName(s[1]) /\ groupName(s[1]) \in Int
    BY <1>2, <1>3, <2>1, <2>2, <2>3
  <2> QED
    BY <2>4 DEF NoGroup
<1>8. ASSUME NEW i \in groupNames(s) \ {1} PROVE groupName(s[i]) \in {groupName(f) : f \in S} \ {NoGroup}
  <2>1. i \in DOMAIN s /\ i - 1 \in DOMAIN s /\ 1 \in DOMAIN s /\ i - 1 <= i
    BY <1>1, <1>4
  <2>2. groupName(s[i - 1]) # groupName(s[i]) /\ groupName(s[i - 1]) <= groupName(s[i])
    BY <1>2, <1>4, <2>1
  <2>3. NoGroup <= groupName(s[i - 1]) /\ s[i] \in S /\ groupName(s[i]) \in Int /\ groupName(s[i - 1]) \in Int
    BY <1>2, <1>3, <2>1
  <2>4. groupName(s[i]) # NoGroup
    BY <2>2, <2>3 DEF NoGroup
  <2> QED
    BY <2>3, <2>4
<1>9. ASSUME NEW f \in S, groupName(f) # NoGroup PROVE \E i \in groupNames(s) \ {1} : groupName(s[i]) = groupName(f)
  <2> DEFINE T == {g \in S : groupName(g) = groupName(f)}
  <2>1. T \in SUBSET DomainName /\ IsFiniteSet(T) /\ f \in T
    BY FS_Subset
  <2>2. PICK g \in T : \A h \in T : ~Precedes(h, g)
    <3>1. Cardinality(T) \in Nat /\ Cardinality(T) # 0
      BY <2>1, FS_CardinalityType, FS_EmptySet
    <3> HIDE DEF T
    <3>2. 0 \in 0..(Cardinality(T) - 1)
      BY <3>1
    <3>3. PICK g \in T : Rank(T, g) = 0
      BY <2>1, <3>2, EachRank
    <3>4. ASSUME NEW h \in T, Precedes(h, g) PROVE FALSE
      <4>1. Rank(T, h) < Rank(T, g) /\ Rank(T, h) \in 0..(Cardinality(T) - 1)
        BY <2>1, <3>4, RankGrows, EachRank
      <4> QED
        BY <3>1, <3>3, <4>1
    <3> QED
      BY <3>4
  <2>3. PICK i \in DOMAIN s : s[i] = g
    BY <1>2
  <2>4. i # 1
    <3>1. groupName(s[i]) = groupName(f)
      BY <2>2, <2>3
    <3> QED
      BY <1>7, <1>9, <2>3, <3>1
  <2>5. i - 1 \in DOMAIN s /\ i - 1 < i
    BY <1>1, <2>3, <2>4
  <2>6. s[i - 1] \in S /\ Precedes(s[i - 1], g)
    BY <1>2, <2>3, <2>5
  <2>7. s[i - 1] \notin T
    BY <2>2, <2>6
  <2>8. groupName(s[i - 1]) # groupName(s[i])
    BY <2>2, <2>3, <2>6, <2>7
  <2> QED
    BY <1>5, <2>2, <2>3, <2>4, <2>8
<1>10. Header(s) = {groupName(f) : f \in S} \ {NoGroup}
  BY <1>6, <1>8, <1>9
<1> QED
  BY <1>10 DEF s

\* As soon as a label alone is known, the header tells of all groups with a name, and in
\* the end of each network that has names on it, if no name has a dot.
THEOREM HeaderTellsAll == Spec => []HeaderComplete
<1>1. ASSUME TypeOK, NEW shown \in Announced, \E f \in shown : groupName(f) = NoGroup
      PROVE  Header(sortFQDNs(shown)) = {groupName(f) : f \in shown} \ {NoGroup}
  <2>1. shown \in SUBSET DomainName /\ IsFiniteSet(shown)
    BY <1>1, AnnouncedNames, ListsOfNames
  <2> QED
    BY <1>1, <2>1, HeaderNets
<1>2. TypeOK => HeaderComplete
  <2> DEFINE used == {n \in DOMAIN found : found[n] # {}}
             A == AllFQDNsOnAttachedNetworks(found)
             L == UNION {found[n] : n \in DOMAIN found}
             Q == Qualified(found)
  <2> SUFFICES ASSUME TypeOK, \A n \in used : Len(n) = 1 /\ \A l \in found[n] : Len(l) = 1
               PROVE  {<<g>> : g \in Header(sortFQDNs(A))} = used
    BY <1>1 DEF HeaderComplete
  <2>1. A \in SUBSET DomainName /\ IsFiniteSet(A)
    BY AnnouncedNames, ListsOfNames
  <2>2. A = Q \cup L
    BY DEF AllFQDNsOnAttachedNetworks
  <2>3. \A n \in DOMAIN found : n \in DomainName /\ found[n] \subseteq DomainName
    BY PartialFunction, DiscoveryAssumption DEF TypeOK, DiscoveryAssumption, Label
  <2>4. ASSUME NEW n \in DOMAIN found, NEW l \in found[n]
        PROVE  groupName(l) = NoGroup /\ groupName(l \o n) = n[1] /\ n = <<n[1]>> /\ n[1] # NoGroup
    <3>1. Len(l) = 1 /\ Len(n) = 1 /\ l \in Seq(Nat \ {NoGroup}) /\ n \in Seq(Nat \ {NoGroup})
      BY <2>3 DEF DomainName
    <3>2. n[1] \in Nat \ {NoGroup} /\ n = <<n[1]>>
      BY <3>1
    <3>3. Len(Joined(l, n)) = 2 /\ Joined(l, n)[2] = n[1]
      BY <3>1, SecondPart
    <3> QED
      BY <3>1, <3>2, <3>3 DEF groupName, Joined
  <2>5. \A f \in L : groupName(f) = NoGroup
    BY <2>4
  <2>6. A # {} => \E f \in A : groupName(f) = NoGroup
    BY <2>2, <2>5 DEF Qualified
  <2>7. Header(sortFQDNs(A)) = {groupName(f) : f \in A} \ {NoGroup}
    BY <2>1, <2>6, HeaderNets
  <2>8. {groupName(f) : f \in A} \ {NoGroup} = {n[1] : n \in used}
    <3>1. ASSUME NEW f \in A, groupName(f) # NoGroup PROVE \E n \in used : groupName(f) = n[1]
      <4>1. PICK n \in DOMAIN found : \E l \in found[n] : f = l \o n
        BY <2>2, <2>5, <3>1 DEF Qualified
      <4> QED
        BY <4>1, <2>4
    <3>2. ASSUME NEW n \in used PROVE n[1] # NoGroup /\ \E f \in A : groupName(f) = n[1]
      <4>1. PICK l \in found[n] : TRUE
        OBVIOUS
      <4>2. l \o n \in A
        BY <2>2 DEF Qualified
      <4> QED
        BY <2>4, <4>2
    <3> QED
      BY <3>1, <3>2
  <2>9. \A n \in used : n = <<n[1]>>
    BY <2>4
  <2> HIDE DEF used, A
  <2> QED
    BY <2>7, <2>8, <2>9
<1> QED
  BY <1>2, TypeCorrect, PTL

=============================================================================
