---------------------------- MODULE DiggerProofs ----------------------------
(***************************************************************************)
(* Theorems about Digger and its DNS pool, for all lists of names, all       *)
(* answers and all pools that have a connection for each of their workers.   *)
(***************************************************************************)
EXTENDS Digger, FiniteSetTheorems, TLAPS

-----------------------------------------------------------------------------
(* Lemmas about the free list.                                               *)

LEMMA PushFacts ==
  ASSUME NEW S, NEW s \in Seq(S), NEW e \in S
  PROVE  /\ Append(s, e) \in Seq(S)
         /\ Len(Append(s, e)) = Len(s) + 1
         /\ DOMAIN Append(s, e) = DOMAIN s \cup {Len(s) + 1}
         /\ \A i \in DOMAIN s : Append(s, e)[i] = s[i]
         /\ Append(s, e)[Len(s) + 1] = e
OBVIOUS

LEMMA PopFacts ==
  ASSUME NEW S, NEW s \in Seq(S), s # << >>
  PROVE  /\ SubSeq(s, 1, Len(s) - 1) \in Seq(S)
         /\ DOMAIN SubSeq(s, 1, Len(s) - 1) = DOMAIN s \ {Len(s)}
         /\ \A i \in DOMAIN s \ {Len(s)} : SubSeq(s, 1, Len(s) - 1)[i] = s[i]
         /\ Len(s) \in DOMAIN s /\ s[Len(s)] \in S
OBVIOUS

-----------------------------------------------------------------------------
(* The inductive invariant.                                                  *)

\* A goroutine of the pool that is not idle works on a name.
NamedInv == \A w \in Resolver : resolver[w].step # "idle" => resolver[w].name \in Name

\* Each open connection is in one place, on the free list or with one task.
ConnInv ==
  /\ ConnExclusive
  /\ \A w \in Resolver : Holds(w) => resolver[w].conn \in Conn
  /\ \A i \in DOMAIN free : conn[free[i]] = "open"
  /\ \A c \in Conn : conn[c] = "open" =>
       \/ \E i \in DOMAIN free : free[i] = c
       \/ \E w \in Resolver : Holds(w) /\ resolver[w].conn = c

\* The pool has tasks only between New and StopWait, and then all connections.
PhaseInv ==
  /\ phase # "ready" => tasks = << >> /\ \A w \in Resolver : resolver[w].step = "idle"
  /\ phase = "dialing" => \A c \in Conn : conn[c] # "closed"
  /\ phase = "ready" => \A c \in Conn : conn[c] = "open"
  /\ NoConnLeft
  /\ dig = "new" => phase = "dialing"
  /\ dig \in {"announce", "resolve", "stop"} => phase = "ready"
  /\ dig = "close" => phase = "stopped"
  /\ dig = "done" => phase \in {"failed", "stopped"}
  /\ newsClosed => dig = "done"

IInv == TypeOK /\ NamedInv /\ ConnInv /\ PhaseInv /\ NoPanic

LEMMA IInvInit == Init => IInv
<1> SUFFICES ASSUME Init PROVE IInv
  OBVIOUS
<1>1. names \in Seq(Name)
  BY DEF Init, Lists
<1>2. Idle \in ResolverState
  BY DEF Idle, ResolverState, Steps
<1>3. PoolTypeOK
  BY <1>2 DEF Init, PoolInit, PoolTypeOK
<1>4. TypeOK
  <2>1. wanted \in SUBSET Name
    BY <1>1 DEF Init
  <2>2. diggernews \in Seq(NamedAddresses) /\ Len(diggernews) <= ChanSize
    BY RuntimeAssumption DEF Init
  <2> QED
    BY <1>1, <1>3, <2>1, <2>2 DEF Init, RuntimeInit, TypeOK, RuntimeTypeOK, DigSteps
<1>5. NamedInv /\ ConnInv /\ PhaseInv /\ NoPanic
  BY DEF Init, RuntimeInit, PoolInit, Idle, NamedInv, ConnInv, ConnExclusive, Holds, PhaseInv,
         NoConnLeft, NoPanic
<1> QED
  BY <1>4, <1>5 DEF IInv

-----------------------------------------------------------------------------
(* The free list is never empty when a task wants a connection.              *)

\* Were it empty, the other goroutines of the pool would hold all connections, and
\* there are fewer of them than connections.
LEMMA FreeListNotEmpty ==
  ASSUME IInv, NEW w \in Resolver, resolver[w].step = "grab"
  PROVE  free # << >>
<1> SUFFICES ASSUME free = << >> PROVE FALSE
  OBVIOUS
<1> DEFINE H == {v \in Resolver : Holds(v)}
           R == Resolver \ {w}
           f == [v \in H |-> resolver[v].conn]
<1>1. \A c \in Conn : \E v \in H : f[v] = c
  <2>1. phase = "ready"
    BY DEF IInv, PhaseInv
  <2>2. \A c \in Conn : \E v \in Resolver : Holds(v) /\ resolver[v].conn = c
    BY <2>1 DEF IInv, PhaseInv, ConnInv
  <2> QED
    BY <2>2
<1>2. f \in Surjection(H, Conn)
  BY <1>1 DEF Surjection, IInv, ConnInv
<1>3. H \in SUBSET R
  BY DEF Holds
<1>4. /\ IsFiniteSet(R) /\ Cardinality(R) = Cardinality(Resolver) - 1
  BY FS_RemoveElement, DnsPoolAssumption
<1>5. IsFiniteSet(H) /\ Cardinality(H) <= Cardinality(R)
  BY <1>3, <1>4, FS_Subset
<1>6. Cardinality(Conn) <= Cardinality(H)
  BY <1>2, <1>5, FS_Surjection
<1>7. /\ Cardinality(Conn) \in Nat /\ Cardinality(Resolver) \in Nat
      /\ Cardinality(H) \in Nat
  BY <1>5, DnsPoolAssumption, FS_CardinalityType
<1> QED
  BY <1>4, <1>5, <1>6, <1>7, DnsPoolAssumption

-----------------------------------------------------------------------------
(* Each step keeps each part of the invariant.                               *)

\* What a step of a goroutine of the pool does to this goroutine.
LEMMA ResolverTyped ==
  ASSUME IInv, [Next]_vars
  PROVE  resolver' \in [Resolver -> ResolverState] /\ NamedInv'
<1> DEFINE Goal == resolver' \in [Resolver -> ResolverState] /\ NamedInv'
<1> USE DEF ResolverState, Steps
<1>1. resolver \in [Resolver -> ResolverState] /\ tasks \in Seq(Name)
  BY DEF IInv, TypeOK, PoolTypeOK
<1>2. ASSUME NEW w \in Resolver, NEW r \in ResolverState,
             r.step # "idle" => r.name \in Name,
             resolver' = [resolver EXCEPT ![w] = r]
      PROVE  Goal
  BY <1>1, <1>2 DEF IInv, NamedInv
<1>3. ASSUME NEW w \in Resolver, NEW found \in SUBSET Addr, NEW err \in BOOLEAN,
             resolver[w].step # "idle", CallBack(w, found, err)
      PROVE  Goal
  <2>1. [resolver[w] EXCEPT !.step = "callback", !.found = found, !.err = err] \in ResolverState
    BY <1>1
  <2> QED
    BY <1>1, <1>2, <1>3, <2>1 DEF CallBack, IInv, NamedInv
<1>4. ASSUME NEW w \in Resolver, ResolverStep(w) PROVE Goal
  <2>1. CASE Pick(w)
    <3>1. Head(tasks) \in Name
      BY <1>1, <2>1 DEF Pick
    <3> QED
      BY <1>2, <2>1, <3>1 DEF Pick, Idle
  <2>2. CASE Grab(w)
    <3>1. free # << >> /\ free[Len(free)] \in Conn
      BY <2>2, FreeListNotEmpty, PopFacts DEF Grab, IInv, TypeOK, PoolTypeOK
    <3>2. [resolver[w] EXCEPT !.conn = free[Len(free)], !.step = "check"] \in ResolverState
      BY <1>1, <3>1
    <3> QED
      BY <1>1, <1>2, <2>2, <3>1, <3>2 DEF Grab, Hold, IInv, NamedInv
  <2>3. CASE Check(w)
    <3>1. CASE cancelled
      BY <1>1, <1>3, <2>3, <3>1 DEF Check
    <3>2. CASE ~cancelled
      BY <1>1, <2>3, <3>2 DEF Check, IInv, NamedInv
    <3> QED
      BY <3>1, <3>2
  <2>4. CASE ExchangeFails(w)
    BY <1>1, <1>3, <2>4 DEF ExchangeFails
  <2>5. ASSUME NEW answer \in SUBSET Addr, Exchange(w, answer) PROVE Goal
    <3> DEFINE found == resolver[w].found \cup answer
    <3>1. found \in SUBSET Addr
      BY <1>1
    <3>2. CASE resolver[w].family = "A"
      <4>1. [resolver[w] EXCEPT !.step = "check", !.family = "AAAA", !.found = found]
              \in ResolverState
        BY <1>1, <3>1
      <4> QED
        BY <1>1, <1>2, <2>5, <3>2, <4>1 DEF Exchange, IInv, NamedInv
    <3>3. CASE resolver[w].family # "A"
      BY <1>1, <1>3, <2>5, <3>1, <3>3 DEF Exchange
    <3> QED
      BY <3>2, <3>3
  <2>6. CASE GiveBack(w)
    BY <1>2, <2>6 DEF GiveBack, Idle
  <2>7. CASE SendAddress(w)
    BY <1>1, <2>7 DEF SendAddress, IInv, NamedInv
  <2>8. CASE CallbackReturns(w)
    <3>1. [resolver[w] EXCEPT !.step = "giveback", !.found = {}] \in ResolverState
      BY <1>1
    <3> QED
      BY <1>1, <1>2, <2>8, <3>1 DEF CallbackReturns, CallbackOver, IInv, NamedInv
  <2> QED
    BY <1>4, <2>1, <2>2, <2>3, <2>4, <2>5, <2>6, <2>7, <2>8
    DEF ResolverStep, Resolve, Answered, TaskStep
<1>5. CASE ~\E w \in Resolver : ResolverStep(w)
  <2>1. UNCHANGED resolver
    BY <1>5 DEF Next, DigStep, NewDials, NewPool, Dial, DialFails, Dialed, AnnounceName, ResolveIt,
                ResolveName, DigEnds, StopPool, ClosePool, CloseNews, ReadNews, CancelContext,
                Finished, vars, poolVars
  <2> QED
    BY <1>1, <2>1 DEF IInv, NamedInv
<1> QED
  BY <1>4, <1>5

\* The steps of a task that move no connection.
QuietStep(w) ==
  \/ Pick(w) \/ Check(w) \/ ExchangeFails(w)
  \/ \E answer \in SUBSET Addr : Exchange(w, answer)
  \/ SendAddress(w) \/ CallbackReturns(w)

LEMMA HoldsAfter ==
  ASSUME NEW w \in Resolver, NEW r, resolver \in [Resolver -> ResolverState],
         resolver' = [resolver EXCEPT ![w] = r]
  PROVE  /\ Holds(w)' <=> r.step \in {"check", "exchange", "callback", "giveback"}
         /\ resolver'[w].conn = r.conn
         /\ \A v \in Resolver \ {w} : /\ Holds(v)' <=> Holds(v)
                                      /\ resolver'[v].conn = resolver[v].conn
BY DEF Holds

LEMMA QuietStepsMoveNothing ==
  ASSUME IInv, NEW w \in Resolver, QuietStep(w)
  PROVE  /\ UNCHANGED <<conn, free, phase>>
         /\ \A v \in Resolver : /\ Holds(v)' <=> Holds(v)
                                /\ Holds(v) => resolver'[v].conn = resolver[v].conn
<1>1. resolver \in [Resolver -> ResolverState]
  BY DEF IInv, TypeOK, PoolTypeOK
<1> USE DEF Holds, ResolverState
<1>2. CASE Pick(w)
  BY <1>1, <1>2 DEF Pick, Idle
<1>3. CASE Check(w)
  <2> DEFINE asks == [resolver[w] EXCEPT !.step = "exchange"]
             over == [resolver[w] EXCEPT !.step = "callback", !.found = resolver[w].found,
                                         !.err = TRUE]
  <2>1. /\ asks.step = "exchange" /\ asks.conn = resolver[w].conn
        /\ over.step = "callback" /\ over.conn = resolver[w].conn
    BY <1>1
  <2>2. \E r \in {asks, over} : resolver' = [resolver EXCEPT ![w] = r]
    BY <1>1, <1>3 DEF Check, CallBack
  <2>3. resolver[w].step = "check" /\ UNCHANGED <<conn, free, phase>>
    BY <1>3 DEF Check
  <2> HIDE DEF asks, over
  <2> QED
    BY <1>1, <2>1, <2>2, <2>3, HoldsAfter
<1>4. CASE ExchangeFails(w)
  <2> DEFINE over == [resolver[w] EXCEPT !.step = "callback", !.found = resolver[w].found,
                                         !.err = TRUE]
  <2>1. over.step = "callback" /\ over.conn = resolver[w].conn
    BY <1>1
  <2>2. /\ resolver' = [resolver EXCEPT ![w] = over]
        /\ resolver[w].step = "exchange" /\ UNCHANGED <<conn, free, phase>>
    BY <1>1, <1>4 DEF ExchangeFails, CallBack
  <2> HIDE DEF over
  <2> QED
    BY <1>1, <2>1, <2>2, HoldsAfter
<1>5. ASSUME NEW answer \in SUBSET Addr, Exchange(w, answer)
      PROVE  /\ UNCHANGED <<conn, free, phase>>
             /\ \A v \in Resolver : /\ Holds(v)' <=> Holds(v)
                                    /\ Holds(v) => resolver'[v].conn = resolver[v].conn
  <2> DEFINE found == resolver[w].found \cup answer
             again == [resolver[w] EXCEPT !.step = "check", !.family = "AAAA", !.found = found]
             over == [resolver[w] EXCEPT !.step = "callback", !.found = found,
                                         !.err = (found = {})]
  <2>1. /\ again.step = "check" /\ again.conn = resolver[w].conn
        /\ over.step = "callback" /\ over.conn = resolver[w].conn
    BY <1>1
  <2>2. \E r \in {again, over} : resolver' = [resolver EXCEPT ![w] = r]
    BY <1>1, <1>5 DEF Exchange, CallBack
  <2>3. resolver[w].step = "exchange" /\ UNCHANGED <<conn, free, phase>>
    BY <1>5 DEF Exchange
  <2> HIDE DEF again, over
  <2> QED
    BY <1>1, <2>1, <2>2, <2>3, HoldsAfter
<1>6. CASE SendAddress(w)
  BY <1>1, <1>6 DEF SendAddress
<1>7. CASE CallbackReturns(w)
  <2> DEFINE r == [resolver[w] EXCEPT !.step = "giveback", !.found = {}]
  <2>1. r.step = "giveback" /\ r.conn = resolver[w].conn
    BY <1>1
  <2>2. /\ resolver' = [resolver EXCEPT ![w] = r]
        /\ resolver[w].step = "callback" /\ UNCHANGED <<conn, free, phase>>
    BY <1>1, <1>7 DEF CallbackReturns, CallbackOver
  <2> HIDE DEF r
  <2> QED
    BY <1>1, <2>1, <2>2, HoldsAfter
<1> QED
  BY <1>2, <1>3, <1>4, <1>5, <1>6, <1>7 DEF QuietStep

LEMMA ConnInvStep == IInv /\ [Next]_vars => ConnInv'
<1> SUFFICES ASSUME IInv, [Next]_vars PROVE ConnInv'
  OBVIOUS
<1> DEFINE n == Len(free)
<1>1. /\ resolver \in [Resolver -> ResolverState]
      /\ free \in Seq(Conn) /\ n \in Nat /\ DOMAIN free = 1..n
      /\ conn \in [Conn -> {"none", "open", "closed"}]
      /\ ConnInv /\ PhaseInv
  BY DEF IInv, TypeOK, PoolTypeOK
<1> USE DEF ConnInv, ConnExclusive
<1>2. CASE UNCHANGED <<conn, free, resolver>>
  BY <1>1, <1>2 DEF Holds
<1>3. ASSUME NEW w \in Resolver, QuietStep(w) PROVE ConnInv'
  <2>1. /\ UNCHANGED <<conn, free>>
        /\ \A v \in Resolver : /\ Holds(v)' <=> Holds(v)
                               /\ Holds(v) => resolver'[v].conn = resolver[v].conn
    BY <1>3, QuietStepsMoveNothing
  <2> QED
    BY <1>1, <2>1
<1>4. ASSUME NEW w \in Resolver, Grab(w) PROVE ConnInv'
  <2>1. /\ free # << >> /\ n \in DOMAIN free /\ free[n] \in Conn
        /\ DOMAIN free' = DOMAIN free \ {n} /\ \A i \in DOMAIN free' : free'[i] = free[i]
    <3>1. free # << >> /\ free' = SubSeq(free, 1, n - 1)
      BY <1>4, FreeListNotEmpty DEF Grab
    <3> QED
      BY <1>1, <3>1, PopFacts
  <2>2. /\ UNCHANGED conn /\ ~Holds(w) /\ Holds(w)' /\ resolver'[w].conn = free[n]
        /\ \A v \in Resolver \ {w} : /\ Holds(v)' <=> Holds(v)
                                     /\ resolver'[v].conn = resolver[v].conn
    <3> DEFINE r == [resolver[w] EXCEPT !.conn = free[n], !.step = "check"]
    <3>1. r.step = "check" /\ r.conn = free[n]
      BY <1>1 DEF ResolverState
    <3>2. resolver' = [resolver EXCEPT ![w] = r] /\ resolver[w].step = "grab" /\ UNCHANGED conn
      BY <1>1, <1>4, <2>1 DEF Grab, Hold
    <3> HIDE DEF r
    <3>3. ~Holds(w)
      BY <3>2 DEF Holds
    <3> QED
      BY <1>1, <3>1, <3>2, <3>3, HoldsAfter
  <2>3. ConnExclusive'
    <3>1. \A i \in DOMAIN free' : free'[i] # free[n]
      BY <1>1, <2>1
    <3>2. \A v \in Resolver : Holds(v)' => v = w \/ (Holds(v) /\ resolver'[v].conn = resolver[v].conn)
      BY <2>2
    <3>3. \A v \in Resolver \ {w} : Holds(v) => resolver[v].conn # free[n]
      BY <1>1, <2>1
    <3> QED
      BY <1>1, <2>1, <2>2, <3>1, <3>2, <3>3
  <2> QED
    BY <1>1, <2>1, <2>2, <2>3
<1>5. ASSUME NEW w \in Resolver, GiveBack(w) PROVE ConnInv'
  <2> DEFINE c == resolver[w].conn
  <2>1. /\ UNCHANGED conn /\ Holds(w) /\ ~Holds(w)' /\ free' = Append(free, c)
        /\ \A v \in Resolver \ {w} : /\ Holds(v)' <=> Holds(v)
                                     /\ resolver'[v].conn = resolver[v].conn
    BY <1>1, <1>5 DEF GiveBack, Holds, ResolverState, Idle
  <2>2. c \in Conn
    BY <1>1, <2>1
  <2>3. /\ DOMAIN free' = DOMAIN free \cup {n + 1} /\ free'[n + 1] = c
        /\ \A i \in DOMAIN free : free'[i] = free[i]
    BY <1>1, <2>1, <2>2, PushFacts
  <2>4. ConnExclusive'
    BY <1>1, <2>1, <2>2, <2>3
  <2> QED
    BY <1>1, <2>1, <2>2, <2>3, <2>4
<1>6. CASE Dial
  <2>1. /\ \A v \in Resolver : ~Holds(v) /\ ~Holds(v)'
    BY <1>1, <1>6 DEF Dial, PhaseInv, Holds
  <2>2. PICK c \in Conn : /\ conn[c] = "none" /\ conn' = [conn EXCEPT ![c] = "open"]
                          /\ free' = Append(free, c)
    BY <1>6 DEF Dial
  <2>3. /\ DOMAIN free' = DOMAIN free \cup {n + 1} /\ free'[n + 1] = c
        /\ \A i \in DOMAIN free : free'[i] = free[i] /\ free[i] \in Conn
    BY <1>1, <2>2, PushFacts
  <2>4. ConnExclusive'
    BY <1>1, <2>1, <2>2, <2>3
  <2> QED
    BY <1>1, <2>1, <2>2, <2>3, <2>4
<1>7. CASE DialFails \/ ClosePool
  <2>1. \A v \in Resolver : ~Holds(v) /\ ~Holds(v)'
    BY <1>1, <1>7 DEF DialFails, ClosePool, TasksDone, PhaseInv, Holds
  <2>2. free' = << >> /\ \A c \in Conn : conn'[c] # "open"
    BY <1>1, <1>7, <2>1 DEF DialFails, ClosePool
  <2> QED
    BY <2>1, <2>2
<1> QED
  BY <1>2, <1>3, <1>4, <1>5, <1>6, <1>7
  DEF Next, DigStep, NewDials, NewPool, Dialed, AnnounceName, ResolveIt, ResolveName, DigEnds,
      StopPool, CloseNews, ResolverStep, Resolve, TaskStep, Answered, QuietStep,
      ReadNews, CancelContext, Finished, vars, poolVars

LEMMA PhaseInvStep == IInv /\ [Next]_vars => PhaseInv'
<1> SUFFICES ASSUME IInv, [Next]_vars PROVE PhaseInv'
  OBVIOUS
<1>1. /\ resolver \in [Resolver -> ResolverState]
      /\ conn \in [Conn -> {"none", "open", "closed"}]
      /\ ConnInv /\ PhaseInv
  BY DEF IInv, TypeOK, PoolTypeOK
<1> USE DEF PhaseInv, NoConnLeft
<1>2. CASE NewDials
  <2>1. dig = "new" /\ phase = "dialing" /\ UNCHANGED <<tasks, resolver, newsClosed>>
    BY <1>1, <1>2 DEF NewDials, NewPool, Dial, DialFails, Dialed
  <2>2. CASE Dial
    BY <1>1, <1>2, <2>1, <2>2 DEF NewDials, Go, Dial
  <2>3. CASE DialFails
    BY <1>1, <1>2, <2>1, <2>3 DEF NewDials, Go, DialFails
  <2>4. CASE Dialed
    <3>1. /\ phase' = "ready" /\ dig' = "announce" /\ UNCHANGED conn
      BY <1>2, <2>4 DEF NewDials, Go, Dialed
    <3>2. \A c \in Conn : conn[c] = "open" \/ conn[c] = "closed"
      BY <1>1, <2>4 DEF Dialed
    <3>3. \A c \in Conn : conn[c] # "closed"
      BY <1>1, <2>1
    <3> QED
      BY <1>1, <2>1, <3>1, <3>2, <3>3
  <2> QED
    BY <1>2, <2>2, <2>3, <2>4 DEF NewDials, NewPool
<1>3. CASE AnnounceName \/ ResolveIt \/ DigEnds \/ CloseNews
  BY <1>1, <1>3 DEF AnnounceName, ResolveIt, ResolveName, DigEnds, CloseNews, Go, poolVars
<1>4. CASE StopPool
  <2>1. \A c \in Conn : conn'[c] # "open"
    BY <1>1, <1>4 DEF StopPool, ClosePool, TasksDone, ConnInv, Holds
  <2> QED
    BY <1>1, <1>4, <2>1 DEF StopPool, ClosePool, TasksDone, Go
<1>5. ASSUME NEW w \in Resolver, ResolverStep(w) PROVE PhaseInv'
  <2>1. resolver[w].step # "idle" \/ tasks # << >>
    BY <1>5 DEF ResolverStep, Resolve, TaskStep, Pick, Grab, Check, ExchangeFails, GiveBack,
                Answered, Exchange, SendAddress, CallbackReturns
  <2>2. phase = "ready"
    BY <1>1, <2>1
  <2>3. UNCHANGED <<phase, conn, dig, newsClosed>>
    BY <1>5 DEF ResolverStep, Resolve, TaskStep, Pick, Grab, Check, ExchangeFails, GiveBack,
                Answered, Exchange, SendAddress, CallbackReturns, digVars
  <2> QED
    BY <1>1, <2>2, <2>3
<1>6. CASE ReadNews \/ CancelContext \/ UNCHANGED vars
  BY <1>1, <1>6 DEF ReadNews, CancelContext, vars, poolVars, digVars
<1> QED
  BY <1>2, <1>3, <1>4, <1>5, <1>6 DEF Next, DigStep, Finished

LEMMA NoPanicStep == IInv /\ [Next]_vars => NoPanic'
<1> SUFFICES ASSUME IInv, [Next]_vars PROVE NoPanic'
  OBVIOUS
<1>1. PhaseInv /\ ~panicked
  BY DEF IInv, NoPanic
<1>2. CASE AnnounceName
  <2>1. ~newsClosed
    BY <1>1, <1>2 DEF AnnounceName, PhaseInv
  <2> QED
    BY <1>1, <1>2, <2>1 DEF AnnounceName, Send, NoPanic
<1>3. ASSUME NEW w \in Resolver, SendAddress(w) PROVE NoPanic'
  <2>1. phase = "ready"
    BY <1>1, <1>3 DEF SendAddress, PhaseInv
  <2>2. ~newsClosed
    BY <1>1, <2>1 DEF PhaseInv
  <2> QED
    BY <1>1, <1>3, <2>2 DEF SendAddress, Send, NoPanic
<1>4. ASSUME NEW w \in Resolver, Grab(w) PROVE NoPanic'
  BY <1>1, <1>4, FreeListNotEmpty DEF Grab, NoPanic
<1> QED
  BY <1>1, <1>2, <1>3, <1>4
  DEF NoPanic, Next, DigStep, NewDials, NewPool, Dial, DialFails, Dialed, ResolveIt, ResolveName,
      DigEnds, StopPool, ClosePool, CloseNews, ResolverStep, Resolve, TaskStep, Pick, Check,
      ExchangeFails, GiveBack, Answered, Exchange, CallbackReturns,
      ReadNews, CancelContext, Cancel, Finished, vars, runtimeVars

\* Of the parts of the type invariant the resolvers' are in ResolverTyped.
LEMMA PoolTypeOKStep == IInv /\ [Next]_vars => PoolTypeOK'
<1> SUFFICES ASSUME IInv, [Next]_vars PROVE PoolTypeOK'
  OBVIOUS
<1>1. PoolTypeOK /\ TypeOK
  BY DEF IInv, TypeOK
<1>2. resolver' \in [Resolver -> ResolverState]
  BY ResolverTyped
<1> USE DEF PoolTypeOK
<1>3. CASE UNCHANGED <<phase, conn, free, tasks, running>>
  BY <1>1, <1>2, <1>3
<1>4. CASE NewPool
  <2>1. CASE Dial
    BY <1>1, <1>2, <2>1 DEF Dial
  <2>2. CASE DialFails
    BY <1>1, <1>2, <2>2 DEF DialFails
  <2>3. CASE Dialed
    BY <1>1, <1>2, <2>3 DEF Dialed
  <2> QED
    BY <1>4, <2>1, <2>2, <2>3 DEF NewPool
<1>5. CASE ResolveIt
  <2>1. Head(names) \in Name
    BY <1>1, <1>5 DEF TypeOK, ResolveIt
  <2>2. tasks' \in Seq(Name) /\ UNCHANGED <<phase, conn, free, running>>
    BY <1>1, <1>5, <2>1, PushFacts DEF ResolveIt, ResolveName
  <2> QED
    BY <1>1, <1>2, <2>2
<1>6. CASE ClosePool
  <2>1. conn' \in [Conn -> {"none", "open", "closed"}]
    <3> DEFINE Freed(c) == \E i \in DOMAIN free : free[i] = c
    <3>1. conn' = [c \in Conn |-> IF Freed(c) THEN "closed" ELSE conn[c]]
      BY <1>6 DEF ClosePool
    <3> HIDE DEF Freed
    <3> QED
      BY <1>1, <3>1
  <2>2. free' = << >> /\ running' = FALSE /\ phase' = "stopped" /\ UNCHANGED tasks
    BY <1>6 DEF ClosePool
  <2>3. free' \in Seq(Conn)
    BY <2>2
  <2>4. running' \in BOOLEAN /\ phase' \in {"dialing", "failed", "ready", "stopped"}
    BY <2>2
  <2>5. tasks' \in Seq(Name)
    BY <1>1, <2>2
  <2> QED
    BY <1>2, <2>1, <2>3, <2>4, <2>5
<1>7. ASSUME NEW w \in Resolver, Pick(w) PROVE PoolTypeOK'
  <2>1. tasks' \in Seq(Name)
    BY <1>1, <1>7 DEF Pick
  <2> QED
    BY <1>1, <1>2, <1>7, <2>1 DEF Pick
<1>8. ASSUME NEW w \in Resolver, Grab(w) PROVE PoolTypeOK'
  <2>1. free' \in Seq(Conn)
    <3>1. free # << >> /\ free' = SubSeq(free, 1, Len(free) - 1)
      BY <1>8, FreeListNotEmpty DEF Grab
    <3> QED
      BY <1>1, <3>1, PopFacts
  <2> QED
    BY <1>1, <1>2, <1>8, <2>1 DEF Grab
<1>9. ASSUME NEW w \in Resolver, GiveBack(w) PROVE PoolTypeOK'
  <2>1. resolver[w].conn \in Conn
    BY <1>9 DEF GiveBack, IInv, ConnInv, Holds
  <2> QED
    BY <1>1, <1>2, <1>9, <2>1 DEF GiveBack
<1> QED
  BY <1>3, <1>4, <1>5, <1>6, <1>7, <1>8, <1>9
  DEF Next, DigStep, NewDials, AnnounceName, DigEnds, StopPool, CloseNews, ResolverStep, Resolve,
      TaskStep, Check, ExchangeFails, Answered, Exchange, SendAddress, CallbackReturns,
      ReadNews, CancelContext, Finished, vars, poolVars

\* The news channel holds named addresses and never more than it has room for.
LEMMA NewsTyped ==
  ASSUME IInv, [Next]_vars
  PROVE  diggernews' \in Seq(NamedAddresses) /\ Len(diggernews') <= ChanSize
<1>1. /\ diggernews \in Seq(NamedAddresses) /\ Len(diggernews) <= ChanSize
      /\ names \in Seq(Name) /\ resolver \in [Resolver -> ResolverState]
      /\ ChanSize \in Nat
  BY RuntimeAssumption DEF IInv, TypeOK, PoolTypeOK
<1>2. ASSUME NEW n \in Name, NEW a \in Addr \cup {NoAddr}, Send(NA(n, a, Unverified))
      PROVE  diggernews' \in Seq(NamedAddresses) /\ Len(diggernews') <= ChanSize
  <2>1. NA(n, a, Unverified) \in NamedAddresses
    BY DEF NA, NamedAddresses, QualifiedAddress, Quality, Unverified, Verified
  <2> QED
    BY <1>1, <1>2, <2>1 DEF Send, HasRoom
<1>3. CASE AnnounceName
  <2>1. Head(names) \in Name
    BY <1>1, <1>3 DEF AnnounceName
  <2> QED
    BY <1>2, <1>3, <2>1 DEF AnnounceName
<1>4. ASSUME NEW w \in Resolver, SendAddress(w)
      PROVE  diggernews' \in Seq(NamedAddresses) /\ Len(diggernews') <= ChanSize
  <2>1. resolver[w].name \in Name /\ resolver[w].found \subseteq Addr
    BY <1>1, <1>4 DEF SendAddress, IInv, NamedInv, ResolverState
  <2> QED
    BY <1>2, <1>4, <2>1 DEF SendAddress
<1>5. CASE ReadNews
  BY <1>1, <1>5 DEF ReadNews
<1>6. CASE UNCHANGED diggernews
  BY <1>1, <1>6
<1> QED
  BY <1>3, <1>4, <1>5, <1>6
  DEF Next, DigStep, NewDials, ResolveIt, DigEnds, StopPool, CloseNews, ResolverStep, Resolve,
      Answered, CallbackReturns, CancelContext, Finished, vars, digVars

\* The histories are about names and addresses.
LEMMA HistoryTyped ==
  ASSUME IInv, [Next]_vars
  PROVE  /\ {wanted', named'} \subseteq SUBSET Name
         /\ {answers', dug'} \subseteq SUBSET (Name \X Addr)
<1>1. /\ {wanted, named} \subseteq SUBSET Name /\ {answers, dug} \subseteq SUBSET (Name \X Addr)
      /\ names \in Seq(Name) /\ resolver \in [Resolver -> ResolverState]
  BY DEF IInv, TypeOK, PoolTypeOK
<1>2. CASE AnnounceName
  <2>1. Head(names) \in Name
    BY <1>1, <1>2 DEF AnnounceName
  <2> QED
    BY <1>1, <1>2, <2>1 DEF AnnounceName
<1>3. ASSUME NEW w \in Resolver, Answered(w)
      PROVE  UNCHANGED <<wanted, named, dug>> /\ answers' \in SUBSET (Name \X Addr)
  <2>1. resolver[w].name \in Name
    BY <1>3 DEF Answered, Exchange, IInv, NamedInv
  <2> QED
    BY <1>1, <1>3, <2>1 DEF Answered
<1>4. ASSUME NEW w \in Resolver, SendAddress(w)
      PROVE  UNCHANGED <<wanted, answers, named>> /\ dug' \in SUBSET (Name \X Addr)
  <2>1. resolver[w].name \in Name /\ resolver[w].found \subseteq Addr
    BY <1>1, <1>4 DEF SendAddress, IInv, NamedInv, ResolverState
  <2> QED
    BY <1>1, <1>4, <2>1 DEF SendAddress
<1>5. CASE UNCHANGED history
  BY <1>1, <1>5 DEF history
<1> QED
  BY <1>1, <1>2, <1>3, <1>4, <1>5
  DEF Next, DigStep, NewDials, ResolveIt, DigEnds, StopPool, CloseNews, ResolverStep, Resolve,
      CallbackReturns, ReadNews, CancelContext, Finished, vars

LEMMA TypeOKStep == IInv /\ [Next]_vars => TypeOK'
<1> SUFFICES ASSUME IInv, [Next]_vars PROVE TypeOK'
  OBVIOUS
<1>1. /\ names \in Seq(Name) /\ dig \in DigSteps
      /\ RuntimeTypeOK /\ newsClosed \in BOOLEAN
      /\ dig = "resolve" => names # << >>
  BY DEF IInv, TypeOK
<1>2. /\ RuntimeTypeOK' /\ newsClosed' \in BOOLEAN
  <2>1. panicked' \in BOOLEAN
    BY <1>1 DEF RuntimeTypeOK,
      Next, DigStep, NewDials, AnnounceName, ResolveIt, DigEnds, StopPool, CloseNews, Send,
      ResolverStep, Resolve, TaskStep, Pick, Grab, Check, ExchangeFails, GiveBack,
      Answered, Exchange, SendAddress, CallbackReturns, ReadNews, CancelContext,
      Cancel, Finished, vars, runtimeVars
  <2>2. cancelled' \in BOOLEAN /\ newsClosed' \in BOOLEAN
    BY <1>1 DEF RuntimeTypeOK,
      Next, DigStep, NewDials, AnnounceName, ResolveIt, DigEnds, StopPool, CloseNews,
      ResolverStep, Resolve, Answered, SendAddress, CallbackReturns, ReadNews, CancelContext,
      Cancel, Finished, vars, runtimeVars, digVars
  <2> QED
    BY <2>1, <2>2 DEF RuntimeTypeOK
<1>3. /\ names' \in Seq(Name) /\ dig' \in DigSteps
      /\ dig' = "resolve" => names' # << >>
  <2>1. CASE ResolveIt
    BY <1>1, <2>1 DEF ResolveIt, Go, DigSteps
  <2>2. CASE NewDials
    BY <1>1, <2>2 DEF NewDials, NewPool, Dial, DialFails, Dialed, Go, DigSteps
  <2>3. CASE AnnounceName \/ DigEnds \/ StopPool \/ CloseNews
    BY <1>1, <2>3 DEF AnnounceName, DigEnds, StopPool, CloseNews, Go, DigSteps
  <2>4. CASE UNCHANGED <<dig, names>>
    BY <1>1, <2>4
  <2> QED
    BY <2>1, <2>2, <2>3, <2>4
    DEF Next, DigStep, ResolverStep, Resolve, Answered, SendAddress, CallbackReturns, ReadNews,
        CancelContext, Finished, vars, digVars
<1> QED
  BY <1>2, <1>3, PoolTypeOKStep, NewsTyped, HistoryTyped DEF TypeOK

-----------------------------------------------------------------------------
(* The theorems.                                                             *)

LEMMA Invariance == Spec => []IInv
<1>1. IInv /\ [Next]_vars => IInv'
  BY TypeOKStep, ResolverTyped, ConnInvStep, PhaseInvStep, NoPanicStep DEF IInv
<1> QED
  BY <1>1, IInvInit, PTL DEF Spec

\* The digger and its DNS pool are type correct: the news channel stays within its
\* capacity, and only names and addresses travel through queue, tasks and channel.
THEOREM TypeCorrect == Spec => []TypeOK
<1>1. IInv => TypeOK
  BY DEF IInv
<1> QED
  BY <1>1, Invariance, PTL

\* DnsPool.task never hands out a connection that another task uses or that is closed.
THEOREM OneTaskPerConnection == Spec => []ConnExclusive
<1>1. IInv => ConnExclusive
  BY DEF IInv, ConnInv
<1> QED
  BY <1>1, Invariance, PTL

\* DnsPool.StopWait and a New that fails close all connections that were dialed.
THEOREM ConnectionsClosed == Spec => []NoConnLeft
<1>1. IInv => NoConnLeft
  BY DEF IInv, PhaseInv
<1> QED
  BY <1>1, Invariance, PTL

\* The free list is never found empty, and no callback of Digger.DigFQDNs sends to the
\* channel that Digger.StopWait closes.
THEOREM NeverPanics == Spec => []NoPanic
<1>1. IInv => NoPanic
  BY DEF IInv
<1> QED
  BY <1>1, Invariance, PTL

=============================================================================
