---------------------------- MODULE DiggerStream ----------------------------
(***************************************************************************)
(* Digger implements DigStream, for all lists of names and all answers: what *)
(* the consumer of the digger's news gets to see depends neither on the      *)
(* number of workers and connections nor on the order of their steps.        *)
(***************************************************************************)
EXTENDS DiggerProofs

-----------------------------------------------------------------------------
(* The inductive invariant, on top of DiggerProofs!IInv.                     *)

\* A name is announced first, then its task is queued and picked up.
AnnouncedInv ==
  /\ named \subseteq wanted
  /\ \A i \in DOMAIN names : names[i] \in wanted
  /\ dig = "resolve" => names[1] \in named
  /\ \A i \in DOMAIN tasks : tasks[i] \in named
  /\ \A w \in Resolver : resolver[w].step # "idle" => resolver[w].name \in named

\* A task has found only what the DNS answered with, and has nothing before its first
\* query and after its callback.
FoundInv ==
  /\ dug \subseteq answers
  /\ \A w \in Resolver :
       /\ resolver[w].step \in {"idle", "grab", "giveback"} => resolver[w].found = {}
       /\ \A a \in resolver[w].found : <<resolver[w].name, a>> \in answers

\* Task w still has to send an address it found.
Carries(w, p) == resolver[w].name = p[1] /\ p[2] \in resolver[w].found

\* No name is left out unless the context is done, and no answer either.
NothingLost ==
  /\ \A n \in wanted : n \in named \/ \E i \in DOMAIN names : names[i] = n
  /\ cancelled \/ (dig \in {"stop", "close"} => names = << >>)
  /\ cancelled \/ \A p \in answers : p \in dug \/ \E w \in Resolver : Carries(w, p)

SInv == IInv /\ AnnouncedInv /\ FoundInv /\ NothingLost

LEMMA SInvInit == Init => SInv
<1> SUFFICES ASSUME Init PROVE SInv
  OBVIOUS
<1>1. IInv
  BY IInvInit
<1>2. names \in Seq(Name) /\ wanted = {names[i] : i \in DOMAIN names}
  BY <1>1 DEF Init, IInv, TypeOK
<1>3. /\ tasks = << >> /\ dig = "new" /\ named = {} /\ dug = {} /\ answers = {}
      /\ \A w \in Resolver : resolver[w] = Idle
  BY DEF Init, PoolInit
<1>4. Idle.step = "idle" /\ Idle.found = {}
  BY DEF Idle
<1>5. AnnouncedInv
  BY <1>2, <1>3, <1>4 DEF AnnouncedInv
<1>6. FoundInv
  BY <1>3, <1>4 DEF FoundInv
<1>7. NothingLost
  BY <1>2, <1>3 DEF NothingLost
<1> QED
  BY <1>1, <1>5, <1>6, <1>7 DEF SInv

-----------------------------------------------------------------------------
(* The way of a name through the pool: what a step of goroutine w makes of   *)
(* its task, r being the task afterwards.                                    *)

Picked(w, r) ==
  /\ resolver[w].step = "idle" /\ tasks # << >> /\ tasks' = Tail(tasks)
  /\ r.step = "grab" /\ r.name = Head(tasks) /\ r.found = {}
  /\ UNCHANGED <<answers, dug>>

Kept(w, r) ==
  /\ r.step \in {"check", "exchange", "callback"} /\ resolver[w].step # "idle"
  /\ r.name = resolver[w].name /\ r.found = resolver[w].found
  /\ UNCHANGED <<tasks, answers, dug>>

Heard(w, r) ==
  /\ r.step \in {"check", "callback"} /\ resolver[w].step # "idle"
  /\ r.name = resolver[w].name
  /\ \E answer \in SUBSET Addr : /\ r.found = resolver[w].found \cup answer
                                 /\ answers' = answers \cup ({r.name} \X answer)
  /\ UNCHANGED <<tasks, dug>>

Sent(w, r) ==
  /\ r.step = "callback" /\ resolver[w].step # "idle" /\ r.name = resolver[w].name
  /\ \E a \in resolver[w].found : /\ r.found = resolver[w].found \ {a}
                                  /\ dug' = dug \cup {<<r.name, a>>}
  /\ UNCHANGED <<tasks, answers>>

Returned(w, r) ==
  /\ r.step = "giveback" /\ resolver[w].step # "idle" /\ r.name = resolver[w].name
  /\ r.found = {} /\ (resolver[w].found = {} \/ cancelled)
  /\ UNCHANGED <<tasks, answers, dug>>

Rested(w, r) ==
  /\ r.step = "idle" /\ r.found = {} /\ resolver[w].step = "giveback"
  /\ UNCHANGED <<tasks, answers, dug>>

LEMMA TaskFlow ==
  ASSUME IInv, NEW w \in Resolver, ResolverStep(w)
  PROVE  /\ UNCHANGED <<cancelled, dig, names, newsClosed, wanted, named>>
         /\ \E r \in ResolverState :
              /\ resolver' = [resolver EXCEPT ![w] = r]
              /\ \/ Picked(w, r) \/ Kept(w, r) \/ Heard(w, r)
                 \/ Sent(w, r) \/ Returned(w, r) \/ Rested(w, r)
<1> DEFINE Goal == \E r : /\ resolver' = [resolver EXCEPT ![w] = r]
                          /\ \/ Picked(w, r) \/ Kept(w, r) \/ Heard(w, r)
                             \/ Sent(w, r) \/ Returned(w, r) \/ Rested(w, r)
<1>1. /\ resolver \in [Resolver -> ResolverState] /\ resolver[w] \in ResolverState
      /\ tasks \in Seq(Name)
  BY DEF IInv, TypeOK, PoolTypeOK
<1>2. UNCHANGED <<cancelled, dig, names, newsClosed, wanted, named>>
  BY Zenon DEF ResolverStep, Resolve, TaskStep, Answered, SendAddress, CallbackReturns, digVars,
     history, runtimeVars
<1> SUFFICES Goal
  <2>1. \A r : resolver' = [resolver EXCEPT ![w] = r] => r \in ResolverState
    BY <1>1, ResolverTyped DEF Next
  <2> QED
    BY <1>2, <2>1
<1>3. ASSUME NEW found, NEW err
      PROVE  LET r == [resolver[w] EXCEPT !.step = "callback", !.found = found, !.err = err]
             IN  r.step = "callback" /\ r.found = found /\ r.name = resolver[w].name
  BY <1>1 DEF ResolverState
<1>4. Resolve(w) => UNCHANGED <<answers, dug>>
  BY DEF Resolve, history
<1>5. CASE Resolve(w) /\ Pick(w)
  <2>1. resolver' = [resolver EXCEPT ![w] = [Idle EXCEPT !.step = "grab", !.name = Head(tasks)]]
    BY <1>5 DEF Pick
  <2>2. Picked(w, [Idle EXCEPT !.step = "grab", !.name = Head(tasks)])
    BY <1>4, <1>5 DEF Picked, Pick, Idle
  <2> QED
    BY <2>1, <2>2
<1>6. CASE Resolve(w) /\ Grab(w)
  <2> DEFINE r == [resolver[w] EXCEPT !.conn = free[Len(free)], !.step = "check"]
  <2>1. resolver' = [resolver EXCEPT ![w] = r]
    BY <1>1, <1>6, FreeListNotEmpty DEF Grab, Hold
  <2>2. r.step = "check" /\ r.name = resolver[w].name /\ r.found = resolver[w].found
    BY <1>1 DEF ResolverState
  <2> HIDE DEF r
  <2>3. Kept(w, r)
    BY <1>4, <1>6, <2>2 DEF Kept, Grab
  <2> QED
    BY <2>1, <2>3
<1>7. CASE Resolve(w) /\ Check(w) /\ ~cancelled
  <2> DEFINE r == [resolver[w] EXCEPT !.step = "exchange"]
  <2>1. resolver' = [resolver EXCEPT ![w] = r]
    BY <1>1, <1>7 DEF Check
  <2>2. r.step = "exchange" /\ r.name = resolver[w].name /\ r.found = resolver[w].found
    BY <1>1 DEF ResolverState
  <2> HIDE DEF r
  <2>3. Kept(w, r)
    BY <1>4, <1>7, <2>2 DEF Kept, Check
  <2> QED
    BY <2>1, <2>3
<1>8. CASE Resolve(w) /\ ((Check(w) /\ cancelled) \/ ExchangeFails(w))
  <2> DEFINE r == [resolver[w] EXCEPT !.step = "callback", !.found = resolver[w].found,
                                      !.err = TRUE]
  <2>1. resolver' = [resolver EXCEPT ![w] = r]
    BY <1>1, <1>8 DEF Check, ExchangeFails, CallBack
  <2>2. r.step = "callback" /\ r.found = resolver[w].found /\ r.name = resolver[w].name
    BY <1>3
  <2> HIDE DEF r
  <2>3. Kept(w, r)
    BY <1>4, <1>8, <2>2 DEF Kept, Check, ExchangeFails
  <2> QED
    BY <2>1, <2>3
<1>9. CASE Resolve(w) /\ GiveBack(w)
  <2>1. Rested(w, Idle) /\ resolver' = [resolver EXCEPT ![w] = Idle]
    BY <1>4, <1>9 DEF Rested, GiveBack, Idle
  <2> QED
    BY <2>1
<1>10. CASE Answered(w)
  <2>1. PICK answer \in SUBSET Addr : /\ Exchange(w, answer)
                                      /\ answers' = answers \cup ({resolver[w].name} \X answer)
    BY <1>10 DEF Answered
  <2> DEFINE found == resolver[w].found \cup answer
             again == [resolver[w] EXCEPT !.step = "check", !.family = "AAAA", !.found = found]
             over == [resolver[w] EXCEPT !.step = "callback", !.found = found,
                                         !.err = (found = {})]
  <2>2. \E r \in {again, over} : resolver' = [resolver EXCEPT ![w] = r]
    BY <1>1, <2>1 DEF Exchange, CallBack
  <2>3. again.step = "check" /\ again.name = resolver[w].name /\ again.found = found
    BY <1>1 DEF ResolverState
  <2>4. over.step = "callback" /\ over.name = resolver[w].name /\ over.found = found
    BY <1>3
  <2>5. resolver[w].step = "exchange" /\ UNCHANGED <<tasks, dug>>
    BY <1>10, <2>1 DEF Answered, Exchange
  <2> HIDE DEF again, over
  <2>6. \A r \in {again, over} : Heard(w, r)
    BY <2>1, <2>3, <2>4, <2>5 DEF Heard
  <2> QED
    BY <2>2, <2>6
<1>11. CASE SendAddress(w)
  <2>1. PICK a \in resolver[w].found :
          /\ resolver' = [resolver EXCEPT ![w] = [resolver[w] EXCEPT !.found = @ \ {a}]]
          /\ dug' = dug \cup {<<resolver[w].name, a>>}
    BY <1>1, <1>11 DEF SendAddress
  <2> DEFINE r == [resolver[w] EXCEPT !.found = @ \ {a}]
  <2>2. /\ r.step = resolver[w].step /\ r.name = resolver[w].name
        /\ r.found = resolver[w].found \ {a}
    BY <1>1 DEF ResolverState
  <2>3. resolver' = [resolver EXCEPT ![w] = r]
    BY <2>1
  <2> HIDE DEF r
  <2>4. Sent(w, r)
    BY <1>11, <2>1, <2>2 DEF Sent, SendAddress
  <2> QED
    BY <2>3, <2>4
<1>12. CASE CallbackReturns(w)
  <2> DEFINE r == [resolver[w] EXCEPT !.step = "giveback", !.found = {}]
  <2>1. resolver' = [resolver EXCEPT ![w] = r]
    BY <1>1, <1>12 DEF CallbackReturns, CallbackOver
  <2>2. r.step = "giveback" /\ r.name = resolver[w].name /\ r.found = {}
    BY <1>1 DEF ResolverState
  <2> HIDE DEF r
  <2>3. Returned(w, r)
    BY <1>12, <2>2 DEF Returned, CallbackReturns, history
  <2> QED
    BY <2>1, <2>3
<1> QED
  BY <1>5, <1>6, <1>7, <1>8, <1>9, <1>10, <1>11, <1>12 DEF ResolverStep, Resolve, TaskStep

-----------------------------------------------------------------------------
(* The digging goroutine and the rest leave the tasks under way alone.       *)

LEMMA OtherSteps ==
  ASSUME IInv, [Next]_vars, ~\E w \in Resolver : ResolverStep(w)
  PROVE  /\ UNCHANGED <<resolver, wanted, answers, dug>>
         /\ \/ AnnounceName \/ ResolveIt \/ DigEnds \/ CloseNews \/ CancelContext
            \/ /\ UNCHANGED <<names, named, tasks, cancelled, newsClosed>>
               /\ \/ dig' = dig
                  \/ dig = "new" /\ dig' \in {"announce", "done"}
                  \/ dig = "stop" /\ dig' = "close"
<1>1. CASE NewDials
  <2>1. /\ dig = "new" /\ dig' \in {"new", "announce", "done"}
        /\ UNCHANGED <<resolver, tasks, names, newsClosed, cancelled>>
    BY <1>1 DEF NewDials, NewPool, Dial, DialFails, Dialed, Go, runtimeVars
  <2>2. UNCHANGED <<wanted, answers, named, dug>>
    BY <1>1 DEF NewDials, history
  <2> QED
    BY <2>1, <2>2
<1>2. CASE AnnounceName \/ ResolveIt \/ DigEnds \/ CloseNews \/ CancelContext
  BY <1>2 DEF AnnounceName, ResolveIt, ResolveName, DigEnds, CloseNews, CancelContext, poolVars,
     history
<1>3. CASE StopPool
  BY <1>3 DEF StopPool, ClosePool, Go, runtimeVars, history
<1>4. CASE ReadNews \/ UNCHANGED vars
  BY <1>4 DEF ReadNews, vars, runtimeVars, poolVars, digVars, history
<1> QED
  BY <1>1, <1>2, <1>3, <1>4 DEF Next, DigStep, Finished

LEMMA AnnouncedInvStep == IInv /\ AnnouncedInv /\ [Next]_vars => AnnouncedInv'
<1> SUFFICES ASSUME IInv, AnnouncedInv, [Next]_vars PROVE AnnouncedInv'
  OBVIOUS
<1> USE DEF AnnouncedInv
<1>1. /\ resolver \in [Resolver -> ResolverState]
      /\ tasks \in Seq(Name) /\ names \in Seq(Name)
  BY DEF IInv, TypeOK, PoolTypeOK
<1>2. ASSUME NEW w \in Resolver, ResolverStep(w) PROVE AnnouncedInv'
  <2>1. UNCHANGED <<dig, names, wanted, named>>
    BY <1>2, TaskFlow
  <2>2. PICK r \in ResolverState :
          /\ resolver' = [resolver EXCEPT ![w] = r]
          /\ \/ Picked(w, r) \/ Kept(w, r) \/ Heard(w, r)
             \/ Sent(w, r) \/ Returned(w, r) \/ Rested(w, r)
    BY <1>2, TaskFlow
  <2>3. CASE Picked(w, r)
    <3>1. 1 \in DOMAIN tasks /\ Head(tasks) = tasks[1]
      BY <1>1, <2>3 DEF Picked
    <3>2. \A i \in DOMAIN tasks' : i + 1 \in DOMAIN tasks /\ tasks'[i] = tasks[i + 1]
      BY <1>1, <2>3 DEF Picked
    <3> QED
      BY <1>1, <2>1, <2>2, <2>3, <3>1, <3>2 DEF Picked
  <2>4. CASE Kept(w, r) \/ Heard(w, r) \/ Sent(w, r) \/ Returned(w, r) \/ Rested(w, r)
    <3>1. tasks' = tasks
      BY <2>4 DEF Kept, Heard, Sent, Returned, Rested
    <3>2. r.step # "idle" => r.name \in named
      BY <2>4 DEF Kept, Heard, Sent, Returned, Rested
    <3> QED
      BY <1>1, <2>1, <2>2, <3>1, <3>2
  <2> QED
    BY <2>2, <2>3, <2>4
<1>3. CASE ~\E w \in Resolver : ResolverStep(w)
  <2>1. UNCHANGED <<resolver, wanted>>
    BY <1>3, OtherSteps
  <2>2. CASE AnnounceName
    <3>1. /\ 1 \in DOMAIN names /\ named' = named \cup {names[1]}
          /\ UNCHANGED <<names, tasks>>
      BY <1>1, <2>2 DEF AnnounceName, poolVars
    <3> QED
      BY <2>1, <3>1
  <2>3. CASE ResolveIt
    <3>1. /\ names # << >> /\ names' = Tail(names) /\ dig' = "announce" /\ named' = named
          /\ tasks' = Append(tasks, names[1]) /\ names[1] \in named
      BY <1>1, <2>3 DEF ResolveIt, ResolveName, Go, history, IInv, TypeOK
    <3>2. \A i \in DOMAIN names' : i + 1 \in DOMAIN names /\ names'[i] = names[i + 1]
      BY <1>1, <3>1
    <3>3. names[1] \in Name
      BY <1>1, <3>1
    <3>4. \A i \in DOMAIN tasks' : tasks'[i] \in named
      BY <1>1, <3>1, <3>3, PushFacts
    <3> QED
      BY <2>1, <3>1, <3>2, <3>4
  <2>4. CASE DigEnds \/ CloseNews \/ CancelContext
    BY <2>1, <2>4 DEF DigEnds, CloseNews, CancelContext, Go, poolVars, history, digVars
  <2>5. CASE /\ UNCHANGED <<names, named, tasks>>
             /\ \/ dig' = dig
                \/ dig = "new" /\ dig' \in {"announce", "done"}
                \/ dig = "stop" /\ dig' = "close"
    BY <2>1, <2>5
  <2> QED
    BY <1>3, <2>2, <2>3, <2>4, <2>5, OtherSteps
<1> QED
  BY <1>2, <1>3

LEMMA FoundInvStep == IInv /\ FoundInv /\ [Next]_vars => FoundInv'
<1> SUFFICES ASSUME IInv, FoundInv, [Next]_vars PROVE FoundInv'
  OBVIOUS
<1> USE DEF FoundInv
<1>1. resolver \in [Resolver -> ResolverState]
  BY DEF IInv, TypeOK, PoolTypeOK
<1>2. ASSUME NEW w \in Resolver, ResolverStep(w) PROVE FoundInv'
  <2>1. PICK r \in ResolverState :
          /\ resolver' = [resolver EXCEPT ![w] = r]
          /\ \/ Picked(w, r) \/ Kept(w, r) \/ Heard(w, r)
             \/ Sent(w, r) \/ Returned(w, r) \/ Rested(w, r)
    BY <1>2, TaskFlow
  <2>2. CASE Picked(w, r) \/ Returned(w, r) \/ Rested(w, r)
    <3>1. r.found = {} /\ UNCHANGED <<answers, dug>>
      BY <2>2 DEF Picked, Returned, Rested
    <3> QED
      BY <1>1, <2>1, <3>1
  <2>3. CASE Kept(w, r)
    BY <1>1, <2>1, <2>3 DEF Kept
  <2>4. CASE Heard(w, r)
    <3>1. PICK answer \in SUBSET Addr : /\ r.found = resolver[w].found \cup answer
                                        /\ answers' = answers \cup ({r.name} \X answer)
      BY <2>4 DEF Heard
    <3>2. /\ r.step \in {"check", "callback"} /\ r.name = resolver[w].name /\ dug' = dug
          /\ answers \subseteq answers'
      BY <2>4, <3>1 DEF Heard
    <3>3. \A a \in r.found : <<r.name, a>> \in answers'
      BY <3>1, <3>2
    <3> QED
      BY <1>1, <2>1, <3>2, <3>3
  <2>5. CASE Sent(w, r)
    <3>1. PICK a \in resolver[w].found : /\ r.found = resolver[w].found \ {a}
                                         /\ dug' = dug \cup {<<r.name, a>>}
      BY <2>5 DEF Sent
    <3>2. r.step = "callback" /\ r.name = resolver[w].name /\ answers' = answers
      BY <2>5 DEF Sent
    <3> QED
      BY <1>1, <2>1, <3>1, <3>2
  <2> QED
    BY <2>1, <2>2, <2>3, <2>4, <2>5
<1> QED
  BY <1>2, OtherSteps

LEMMA NothingLostStep ==
  IInv /\ FoundInv /\ AnnouncedInv /\ NothingLost /\ [Next]_vars => NothingLost'
<1> SUFFICES ASSUME IInv, FoundInv, AnnouncedInv, NothingLost, [Next]_vars PROVE NothingLost'
  OBVIOUS
<1> USE DEF NothingLost
<1>1. resolver \in [Resolver -> ResolverState] /\ names \in Seq(Name)
  BY DEF IInv, TypeOK, PoolTypeOK
<1>2. ASSUME NEW w \in Resolver, ResolverStep(w) PROVE NothingLost'
  <2>1. UNCHANGED <<cancelled, dig, names, wanted, named>>
    BY <1>2, TaskFlow
  <2>2. PICK r \in ResolverState :
          /\ resolver' = [resolver EXCEPT ![w] = r]
          /\ \/ Picked(w, r) \/ Kept(w, r) \/ Heard(w, r)
             \/ Sent(w, r) \/ Returned(w, r) \/ Rested(w, r)
    BY <1>2, TaskFlow
  <2>3. ASSUME ~cancelled, NEW p \in answers'
        PROVE  p \in dug' \/ \E v \in Resolver : Carries(v, p)'
    <3>1. \A v \in Resolver \ {w} : Carries(v, p) => Carries(v, p)'
      BY <1>1, <2>2 DEF Carries
    <3>2. p \in answers /\ ~Carries(w, p) => p \in dug \/ \E v \in Resolver \ {w} : Carries(v, p)
      BY <2>3
    <3>3. resolver'[w] = r
      BY <1>1, <2>2
    <3>4. dug \subseteq dug'
      BY <2>2 DEF Picked, Kept, Heard, Sent, Returned, Rested
    <3>5. CASE p \in answers /\ ~Carries(w, p)
      BY <3>1, <3>2, <3>4, <3>5
    <3>6. CASE Carries(w, p)
      <4>1. p[2] \in resolver[w].found /\ p[1] = resolver[w].name
        BY <3>6 DEF Carries
      <4>2. ~Picked(w, r) /\ ~Returned(w, r) /\ ~Rested(w, r)
        BY <2>3, <4>1 DEF FoundInv, Picked, Returned, Rested
      <4>3. CASE Kept(w, r) \/ Heard(w, r)
        BY <3>3, <4>1, <4>3 DEF Kept, Heard, Carries
      <4>4. CASE Sent(w, r)
        <5>1. PICK a \in resolver[w].found : /\ r.found = resolver[w].found \ {a}
                                             /\ dug' = dug \cup {<<r.name, a>>}
          BY <4>4 DEF Sent
        <5>2. r.name = resolver[w].name /\ p \in answers
          BY <4>4 DEF Sent
        <5>3. p = <<p[1], p[2]>>
          BY <5>2 DEF IInv, TypeOK
        <5> QED
          BY <3>3, <4>1, <5>1, <5>2, <5>3 DEF Carries
      <4> QED
        BY <2>2, <4>2, <4>3, <4>4
    <3>7. CASE p \notin answers
      <4>1. Heard(w, r)
        BY <2>2, <2>3, <3>7 DEF Picked, Kept, Sent, Returned, Rested
      <4> QED
        BY <3>3, <3>7, <4>1 DEF Heard, Carries
    <3> QED
      BY <3>5, <3>6, <3>7
  <2> QED
    BY <2>1, <2>3
<1>3. CASE ~\E w \in Resolver : ResolverStep(w)
  <2>1. UNCHANGED <<resolver, wanted, answers, dug>> /\ (cancelled => cancelled')
    <3>1. AnnounceName \/ ResolveIt \/ DigEnds \/ CloseNews \/ CancelContext
            => (cancelled => cancelled')
      BY DEF AnnounceName, ResolveIt, DigEnds, CloseNews, CancelContext, Cancel, runtimeVars
    <3> QED
      BY <1>3, <3>1, OtherSteps
  <2>2. cancelled' \/ \A p \in answers' : p \in dug' \/ \E w \in Resolver : Carries(w, p)'
    BY <2>1 DEF Carries
  <2>3. CASE AnnounceName
    BY <2>1, <2>2, <2>3 DEF AnnounceName, Go
  <2>4. CASE ResolveIt
    <3>1. /\ names # << >> /\ names' = Tail(names) /\ dig' = "announce" /\ named' = named
          /\ names[1] \in named
      BY <1>1, <2>4 DEF ResolveIt, Go, history, IInv, TypeOK, AnnouncedInv
    <3>2. \A i \in DOMAIN names : i = 1 \/ (i - 1 \in DOMAIN names' /\ names'[i - 1] = names[i])
      BY <1>1, <3>1
    <3> QED
      BY <2>1, <2>2, <3>1, <3>2
  <2>5. CASE DigEnds \/ CloseNews \/ CancelContext
    BY <2>1, <2>2, <2>5 DEF DigEnds, CloseNews, CancelContext, Go, history, digVars
  <2>6. CASE /\ UNCHANGED <<names, named, tasks, cancelled>>
             /\ \/ dig' = dig
                \/ dig = "new" /\ dig' \in {"announce", "done"}
                \/ dig = "stop" /\ dig' = "close"
    BY <2>1, <2>2, <2>6
  <2> QED
    BY <1>3, <2>3, <2>4, <2>5, <2>6, OtherSteps
<1> QED
  BY <1>2, <1>3

LEMMA SInvariance == Spec => []SInv
<1>1. SInv /\ [Next]_vars => SInv'
  <2>1. IInv /\ [Next]_vars => IInv'
    BY TypeOKStep, ResolverTyped, ConnInvStep, PhaseInvStep, NoPanicStep DEF IInv
  <2> QED
    BY <2>1, AnnouncedInvStep, FoundInvStep, NothingLostStep DEF SInv
<1> QED
  BY <1>1, SInvInit, PTL DEF Spec

-----------------------------------------------------------------------------
(* Each step of the digger is a step of the stream or a stutter.             *)

\* The stream ends when the pool is idle, so that nothing is left to be sent.
LEMMA CloseIsDue ==
  ASSUME SInv, CloseNews
  PROVE  Stream!Close
<1>1. IInv /\ AnnouncedInv /\ FoundInv /\ NothingLost
  BY DEF SInv
<1>2. /\ dig = "close" /\ newsClosed' = TRUE
      /\ UNCHANGED <<wanted, answers, named, dug, cancelled>>
  BY DEF CloseNews, runtimeVars, history
<1>3. ~newsClosed /\ phase = "stopped" /\ \A w \in Resolver : resolver[w].step = "idle"
  BY <1>1, <1>2 DEF IInv, PhaseInv
<1>4. \A w \in Resolver : resolver[w].found = {}
  BY <1>1, <1>3 DEF FoundInv
<1>5. ASSUME ~cancelled PROVE named = wanted /\ dug = answers
  <2>1. names = << >>
    BY <1>1, <1>2, <1>5 DEF NothingLost
  <2>2. wanted \subseteq named
    BY <1>1, <2>1 DEF NothingLost
  <2>3. answers \subseteq dug
    BY <1>1, <1>4, <1>5 DEF NothingLost, Carries
  <2> QED
    BY <1>1, <2>2, <2>3 DEF AnnouncedInv, FoundInv
<1> QED
  BY <1>2, <1>3, <1>5 DEF Stream!Close

LEMMA TasksStream ==
  ASSUME SInv, NEW w \in Resolver, ResolverStep(w)
  PROVE  Stream!Next \/ UNCHANGED Stream!streamVars
<1>1. IInv /\ AnnouncedInv /\ FoundInv
  BY DEF SInv
<1>2. UNCHANGED <<cancelled, newsClosed, wanted, named>>
  BY <1>1, TaskFlow
<1>3. PICK r \in ResolverState :
        \/ Picked(w, r) \/ Kept(w, r) \/ Heard(w, r)
        \/ Sent(w, r) \/ Returned(w, r) \/ Rested(w, r)
  BY <1>1, TaskFlow
<1>4. CASE Picked(w, r) \/ Kept(w, r) \/ Returned(w, r) \/ Rested(w, r)
  BY <1>2, <1>4 DEF Picked, Kept, Returned, Rested, Stream!streamVars
<1>5. ASSUME resolver[w].step # "idle"
      PROVE  ~newsClosed /\ resolver[w].name \in named /\ resolver[w].name \in wanted
  BY <1>1, <1>5 DEF IInv, PhaseInv, AnnouncedInv
<1>6. CASE Heard(w, r)
  <2>1. /\ resolver[w].step # "idle" /\ r.name = resolver[w].name /\ dug' = dug
        /\ \E answer \in SUBSET Addr : answers' = answers \cup ({r.name} \X answer)
    BY <1>6 DEF Heard
  <2>2. Stream!Answer(r.name)
    BY <1>2, <1>5, <2>1 DEF Stream!Answer
  <2> QED
    BY <1>5, <2>1, <2>2 DEF Stream!Next
<1>7. CASE Sent(w, r)
  <2>1. PICK a \in resolver[w].found : dug' = dug \cup {<<resolver[w].name, a>>}
    BY <1>7 DEF Sent
  <2>2. resolver[w].step # "idle" /\ answers' = answers
    BY <1>7 DEF Sent
  <2>3. PICK p \in answers : p = <<resolver[w].name, a>>
    BY <1>1 DEF FoundInv
  <2>4. Stream!Dug(p)
    BY <1>2, <1>5, <2>1, <2>2, <2>3 DEF Stream!Dug
  <2> QED
    BY <2>4 DEF Stream!Next
<1> QED
  BY <1>3, <1>4, <1>6, <1>7

LEMMA StreamStep == SInv /\ [Next]_vars => [Stream!Next]_(Stream!streamVars)
<1> SUFFICES ASSUME SInv, [Next]_vars PROVE Stream!Next \/ UNCHANGED Stream!streamVars
  OBVIOUS
<1>1. IInv /\ AnnouncedInv
  BY DEF SInv
<1>2. CASE \E w \in Resolver : ResolverStep(w)
  BY <1>2, TasksStream
<1>3. CASE AnnounceName
  <2>1. names # << >> /\ Head(names) = names[1] /\ names[1] \in wanted /\ ~newsClosed
    <3>1. names \in Seq(Name) /\ names # << >> /\ dig = "announce"
      BY <1>1, <1>3 DEF AnnounceName, IInv, TypeOK
    <3> QED
      BY <1>1, <3>1 DEF IInv, PhaseInv, AnnouncedInv
  <2>2. /\ named' = named \cup {Head(names)}
        /\ UNCHANGED <<wanted, answers, dug, cancelled, newsClosed>>
    BY <1>3 DEF AnnounceName
  <2>3. Stream!Announce(names[1])
    BY <2>1, <2>2 DEF Stream!Announce
  <2> QED
    BY <2>1, <2>3 DEF Stream!Next
<1>4. CASE CloseNews
  BY <1>4, CloseIsDue DEF Stream!Next
<1>5. CASE CancelContext
  <2>1. Stream!Abort
    BY <1>5 DEF CancelContext, Cancel, digVars, history, Stream!Abort
  <2> QED
    BY <2>1 DEF Stream!Next
<1>6. CASE ResolveIt \/ DigEnds
  BY <1>6 DEF ResolveIt, DigEnds, runtimeVars, history, Stream!streamVars
<1>7. CASE UNCHANGED <<wanted, answers, named, dug, cancelled, newsClosed>>
  BY <1>7 DEF Stream!streamVars
<1> QED
  BY <1>1, <1>2, <1>3, <1>4, <1>5, <1>6, <1>7, OtherSteps

-----------------------------------------------------------------------------
(* The theorem.                                                              *)

\* The digger implements the stream, whoever cancels and whenever: DigFQDNs announces
\* each name before its addresses, sends only addresses the DNS answered with - also
\* the partial result of a resolution that failed - and StopWait closes the channel
\* only when all names and all answers are sent or after a cancellation.
THEOREM ImplementsStream == Spec => KeepsStream
<1>1. Init => Stream!Init
  BY DEF Init, RuntimeInit, Stream!Init
<1>2. SInv /\ [Next]_vars => [Stream!Next]_(Stream!streamVars)
  BY StreamStep
<1> QED
  BY <1>1, <1>2, SInvariance, PTL DEF Spec, KeepsStream, Stream!Spec

=============================================================================
