--------------------------- MODULE VerifierAnswers ---------------------------
(***************************************************************************)
(* More theorems about Verifier, again for all values of the constants: as   *)
(* long as nobody cancels the context no goroutine panics, no name is        *)
(* forgotten and the news come step by step; and, cancelled or not, Verify   *)
(* implements the verification ledger.                                       *)
(***************************************************************************)
EXTENDS VerifierProofs

-----------------------------------------------------------------------------
(* The inductive invariant, on top of VerifierProofs!IInv.                   *)

\* The order in which Verify shuts down: the pinger's pool, the court TV channel,
\* the slurper, the news channel.  Only a cancellation lets the slurper go early.
EndInv ==
  /\ courtClosed => pc[Main] \in {"join", "wait", "close", "returned"}
  /\ pc[Main] \in {"join", "wait", "close", "returned"} => PoolDrained
  /\ newsClosed => pc[Main] = "returned"
  /\ ~cancelled => /\ ~panicked
                   /\ pc[Slurper] = "exited" => courtClosed /\ courtTV = << >>
                   /\ pc[Main] \in {"close", "returned"} => pc[Slurper] = "exited"

\* Whatever travels through Verify belongs to a name and an address that were asked
\* about.
InQuestion(na) == <<na.name, na.addr>> \in asked

AskedInv ==
  /\ \A t \in Thread : pc[t] \in {"pass", "update", "tell", "announce", "submit"}
                         => InQuestion(item[t])
  /\ \A i \in DOMAIN courtTV : InQuestion(courtTV[i])
  /\ \A i \in DOMAIN queue : InQuestion(queue[i])
  /\ \A w \in Workers : worker[w] # NoJob => InQuestion(worker[w])
  /\ \A na \in outbox : InQuestion(na)
  /\ \A a \in Addr : /\ \A n \in cache[a].consumers : <<n, a>> \in asked
                     /\ cache[a].q # Unknown => \E n \in Name : <<n, a>> \in asked

\* Who was told of an address, or is going to be, is registered for its verdict.
RegisteredInv ==
  \A a \in Addr :
    /\ cache[a].q = Unknown => cache[a].consumers = {}
    /\ cache[a].q \notin Final =>
         /\ \A na \in outbox : na.addr = a => na.name \in cache[a].consumers
         /\ \A n \in Name : told[<<n, a>>] # Unknown => n \in cache[a].consumers

\* The slurper is about to put a notice into the cache: address a is being pinged.
HoldsNotice(a) ==
  pc[Slurper] = "update" /\ item[Slurper].addr = a /\ item[Slurper].q = Verifying

Noticed(a) == cache[a].q \in {Verifying} \cup Final \/ HoldsNotice(a)

NoticeAt(i, a) == i \in DOMAIN courtTV /\ courtTV[i].addr = a /\ courtTV[i].q = Verifying

\* Address a was announced and has no verdict in the court TV channel yet.
Announced(a) ==
  \/ pc[Main] = "submit" /\ item[Main].addr = a
  \/ \E i \in DOMAIN queue : queue[i].addr = a
  \/ \E w \in Workers : worker[w] # NoJob /\ worker[w].addr = a

\* The notice that address a is being pinged has reached the slurper or is among the
\* first k values in the court TV channel.
NoticedBefore(k, a) == Noticed(a) \/ \E j \in 1..k : NoticeAt(j, a)

\* The notice is ahead of the verdict everywhere on the way to the cache.
NoticeInv ==
  \A a \in Addr :
    /\ Announced(a) => NoticedBefore(Len(courtTV), a)
    /\ \A i \in DOMAIN courtTV :
         courtTV[i].addr = a /\ courtTV[i].q \in Final => NoticedBefore(i - 1, a)
    /\ HoldsVerdict /\ item[Slurper].addr = a => cache[a].q \in {Verifying} \cup Final

\* Who was told that an address is unverified has not missed its notice: the address
\* has no verdict yet.
StepInv ==
  \A n \in Name, a \in Addr : told[<<n, a>>] = Unverified => cache[a].q \notin Final

\* An address without a verdict is being pinged.
PingedInv == \A a \in Addr : cache[a].q \in {Unverified, Verifying} => PingsOf(a) # {}

\* Who is registered for an address was told what the cache knows of it, or is
\* going to be told right now.
ConsumersTold ==
  \A a \in Addr : \A n \in cache[a].consumers :
    \/ told[<<n, a>>] = cache[a].q
    \/ \E na \in outbox : na.name = n /\ na.addr = a

\* The part of NobodyForgotten that is about one name and address.
Remembered(p) ==
  \/ Answered(p)
  \/ /\ pc[Main] \in {"pass", "update"}
     /\ item[Main].name = p[1] /\ item[Main].addr = p[2]
  \/ \E na \in outbox : na.name = p[1] /\ na.addr = p[2] /\ na.q \in Final
  \/ p[2] # NoAddr /\ p[1] \in cache[p[2]].consumers /\ cache[p[2]].q \notin Final

AnswersInv == StepInv /\ PingedInv /\ ConsumersTold /\ \A p \in asked : Remembered(p)

AInv == /\ IInv /\ EndInv /\ AskedInv /\ RegisteredInv /\ NoticeInv
        /\ cancelled \/ AnswersInv

-----------------------------------------------------------------------------
(* The order of the end.                                                     *)

LEMMA AInvInit == Init => AInv
<1> SUFFICES ASSUME Init PROVE AInv
  OBVIOUS
<1>1. IInv
  BY IInvInit
<1> USE DEF Init
<1>2. /\ pc[Main] = "select" /\ pc[Slurper] = "select" /\ courtTV = << >> /\ queue = << >>
      /\ cancelled = FALSE /\ panicked = FALSE /\ newsClosed = FALSE /\ courtClosed = FALSE
      /\ outbox = {} /\ asked = {} /\ \A t \in Thread : pc[t] = "select"
      /\ \A w \in Workers : worker[w] = NoJob
  BY DEF RuntimeInit, PingerInit, CacheInit, NewsInit, Thread
<1>3. \A a \in Addr : cache[a].q = Unknown /\ cache[a].consumers = {}
  BY DEF CacheInit
<1>4. \A n \in Name, a \in Addr : told[<<n, a>>] = Unknown
  BY DEF NewsInit, Pairs
<1>5. EndInv
  BY <1>2 DEF EndInv
<1>6. AskedInv
  BY <1>2, <1>3 DEF AskedInv
<1>7. RegisteredInv
  BY <1>2, <1>3, <1>4 DEF RegisteredInv
<1>8. NoticeInv
  BY <1>2 DEF NoticeInv, Announced, HoldsVerdict
<1>9. AnswersInv
  BY <1>2, <1>3, <1>4
  DEF AnswersInv, StepInv, PingedInv, ConsumersTold, Unknown, Unverified, Verifying
<1> QED
  BY <1>1, <1>5, <1>6, <1>7, <1>8, <1>9 DEF AInv

\* Once the pool is drained and nobody submits, nothing comes into the court TV
\* channel any more.
LEMMA EndInvStep == TypeOK /\ MutexInv /\ EndInv /\ [Next]_vars => EndInv'
<1> SUFFICES ASSUME TypeOK, MutexInv, EndInv, [Next]_vars PROVE EndInv'
  OBVIOUS
<1> USE ThreadFacts
<1>1. courtTV \in Seq(DugAddresses) /\ cancelled \in BOOLEAN /\ panicked \in BOOLEAN
  BY TypeOKParts DEF PingerData, Flags
<1>2. CASE PingerStep
  <2>1. UNCHANGED <<newsClosed, cancelled, panicked>>
    BY <1>2, NewsFrame DEF newsVars, PingerStep, AnnounceItem, SubmitItem, StopPinger,
       PingerStopped, Slurp, PoolStep, runtimeVars
  <2>2. CASE AnnounceItem \/ SubmitItem \/ StopPinger
    <3>1. /\ pc[Main] \in {"announce", "submit", "stop"}
          /\ \E label \in {"submit", "select", "stopping"} : pc' = [pc EXCEPT ![Main] = label]
          /\ courtClosed' = courtClosed
          /\ courtTV' = courtTV \/ pc[Main] = "announce"
      BY <2>2 DEF AnnounceItem, SubmitItem, StopPinger, At, Announce, Submit, StopPool, Goto,
         Continue
    <3> QED
      BY <2>1, <3>1 DEF EndInv
  <2>3. CASE PingerStopped
    BY <2>1, <2>3 DEF EndInv, PingerStopped, CloseCourt, PoolDrained, At, Goto
  <2>4. CASE Slurp
    BY <2>1, <2>4, <1>1 DEF EndInv, Slurp, TakeVerdict, PoolDrained, At, Goto
  <2>5. ASSUME NEW w \in Workers, PoolStep(w) PROVE EndInv'
    <3>1. UNCHANGED <<pc, courtClosed>> /\ ~PoolDrained
      BY <2>5, Zenon DEF PoolStep, WorkerStep, Start, PingFails, PingOver, PingEnds, Deliver,
         Drop, Pinging, Judged, PoolDrained, verifyVars
    <3> QED
      BY <2>1, <3>1 DEF EndInv
  <2> QED
    BY <1>2, <2>2, <2>3, <2>4, <2>5 DEF PingerStep
<1>3. CASE ~PingerStep
  <2>1. UNCHANGED pingerVars
    BY <1>3, StepGroups, PingerFrame
  <2>2. PoolDrained' = PoolDrained /\ UNCHANGED <<courtTV, courtClosed>>
    BY <2>1 DEF pingerVars, PoolDrained
  <2>3. CASE CacheStep
    BY <2>2, <2>3 DEF EndInv, CacheStep, UpdateDecides, At, Goto, runtimeVars, newsVars
  <2>4. CASE NotifyStep
    <3>1. PICK t \in Thread : UpdateNotifies(t)
      BY <2>4 DEF NotifyStep
    <3>2. pc[t] = "tell" /\ UNCHANGED <<pc, cancelled, newsClosed>>
          /\ (newsClosed \/ panicked' = panicked)
      BY <3>1 DEF UpdateNotifies, At, Notify, Send, verifyVars, newsVars
    <3> QED
      BY <2>2, <3>2 DEF EndInv
  <2>5. CASE LeaveCacheStep
    BY <2>2, <2>5 DEF EndInv, LeaveCacheStep, UpdateBailsOut, UpdateReturns, At, Goto,
       Continue, runtimeVars, newsVars, verifyVars
  <2>6. CASE ControlStep
    BY <2>2, <2>6, <1>1 DEF EndInv, ControlStep, Receive, LeaveLoop, PassOnCancelled,
       AnnounceCancelled, Join, SlurperDone, SlurperExits, At, Goto, Continue, runtimeVars,
       newsVars
  <2>7. CASE EnvironmentStep
    BY <2>2, <2>7 DEF EndInv, EnvironmentStep, CloseInput, CancelContext, Cancel, runtimeVars,
       newsVars, verifyVars
  <2>8. CASE PassOn
    <3>1. /\ pc[Main] = "pass" /\ pc' = [pc EXCEPT ![Main] = "select"]
          /\ UNCHANGED <<cancelled, newsClosed>> /\ (newsClosed \/ panicked' = panicked)
      BY <2>8 DEF PassOn, At, Send, Continue, Goto, newsVars
    <3> QED
      BY <2>2, <3>1 DEF EndInv
  <2>9. CASE CloseAndReturn
    BY <2>2, <2>9 DEF EndInv, CloseAndReturn, CloseNews, At, Goto, runtimeVars
  <2>10. CASE ReadNews \/ UNCHANGED vars
    BY <2>2, <2>10 DEF EndInv, ReadNews, TakeNews, runtimeVars, verifyVars, newsVars, vars
  <2> QED
    BY <1>3, <2>3, <2>4, <2>5, <2>6, <2>7, <2>8, <2>9, <2>10, StepGroups
<1> QED
  BY <1>2, <1>3

-----------------------------------------------------------------------------
(* What Update decides, in its three cases.                                  *)

\* The first sight of an address.
Sighted(na) ==
  /\ cache[na.addr].q = Unknown /\ fresh'
  /\ cache'[na.addr].q = na.q /\ cache'[na.addr].consumers = {na.name}
  /\ outbox' = {na}

\* The cache knows as much or more: only a newcomer is told of it.
Echoed(na) ==
  /\ cache[na.addr].q # Unknown /\ na.q <= cache[na.addr].q /\ ~fresh'
  /\ cache'[na.addr].q = cache[na.addr].q
  /\ cache'[na.addr].consumers = cache[na.addr].consumers \cup {na.name}
  /\ \A x \in outbox' : x.name = na.name /\ x.addr = na.addr /\ x.q = cache[na.addr].q
  /\ na.name \notin cache[na.addr].consumers => outbox' # {}

\* Everybody who hears of a better quality.
Audience(na) ==
  IF na.q \in Final THEN cache[na.addr].consumers
                    ELSE cache[na.addr].consumers \cup {na.name}

\* A better quality.
Raised(na) ==
  /\ cache[na.addr].q # Unknown /\ na.q > cache[na.addr].q /\ ~fresh'
  /\ cache'[na.addr].q = na.q
  /\ cache'[na.addr].consumers = IF na.q \in Final THEN {} ELSE Audience(na)
  /\ \A x \in outbox' : x.name \in Audience(na) /\ x.addr = na.addr /\ x.q = na.q
  /\ \A n \in Audience(na) : \E x \in outbox' : x.name = n

\* Only the name changes when a verdict is passed on to another name.
LEMMA RenamedFields ==
  \A na \in QualifiedAddress : \A n : /\ [na EXCEPT !.name = n].name = n
                                      /\ [na EXCEPT !.name = n].addr = na.addr
                                      /\ [na EXCEPT !.name = n].q = na.q
BY DEF QualifiedAddress

\* Update decides one of the three, and nothing about any other address.
LEMMA DecideCases ==
  ASSUME TypeOK, MutexInv, NEW t \in Thread, UpdateDecides(t)
  PROVE  /\ item[t] \in DugAddresses /\ item[t].addr \in Addr /\ item[t].name \in Name
         /\ outbox = {}
         /\ \A a \in Addr \ {item[t].addr} : cache'[a] = cache[a]
         /\ Sighted(item[t]) \/ Echoed(item[t]) \/ Raised(item[t])
<1> DEFINE na == item[t]
           e == cache[na.addr]
<1>1. /\ na \in DugAddresses /\ na.addr \in Addr /\ na.name \in Name
      /\ na \in QualifiedAddress
  BY DecideEffect DEF DugAddresses, NamedAddresses
<1>2. outbox = {}
  BY Decided DEF MutexInv
<1>3. \A a \in Addr \ {na.addr} : cache'[a] = cache[a]
  BY DecideEffect
<1>4. cache \in [Addr -> Entry] /\ e \in Entry
  BY <1>1, TypeOKParts DEF CacheData
<1>5. e.q \in Quality \cup {Unknown} /\ e.err \in BOOLEAN /\ e.consumers \subseteq Name
  BY <1>4 DEF Entry
<1> HIDE DEF na
<1>6. CASE FirstSight(t, na)
  <2>1. Sighted(na)
    BY <1>1, <1>4, <1>6 DEF FirstSight, Sighted
  <2> QED
    BY <1>1, <1>2, <1>3, <2>1 DEF na
<1>7. CASE Stale(t, na)
  <2> DEFINE told_ == WithNewQuality(na, e.q, e.err)
  <2>1. /\ e.q # Unknown /\ na.q <= e.q /\ fresh' = FALSE
        /\ outbox' = IF na.name \notin e.consumers THEN {told_} ELSE {}
        /\ cache' = [cache EXCEPT ![na.addr].consumers = @ \cup {na.name}]
    BY <1>7 DEF Stale
  <2>2. told_.name = na.name /\ told_.addr = na.addr /\ told_.q = e.q
    BY <1>1, <1>5, <2>1, Requalified
  <2> HIDE DEF told_
  <2>3. cache'[na.addr].q = e.q /\ cache'[na.addr].consumers = e.consumers \cup {na.name}
    BY <1>1, <1>4, <2>1 DEF Entry
  <2>4. Echoed(na)
    BY <2>1, <2>2, <2>3 DEF Echoed
  <2> QED
    BY <1>1, <1>2, <1>3, <2>4 DEF na
<1>8. CASE Raise(t, na)
  <2> DEFINE remaining == IF na.q \in Final THEN {} ELSE Audience(na)
             other(n) == [na EXCEPT !.name = n]
  <2>1. /\ e.q # Unknown /\ na.q > e.q /\ fresh' = FALSE
        /\ cache' = [cache EXCEPT ![na.addr].q = na.q, ![na.addr].consumers = remaining]
        /\ outbox' = {other(n) : n \in Audience(na)}
    BY <1>8 DEF Raise, Audience
  <2> HIDE DEF remaining
  <2>2. cache'[na.addr].q = na.q /\ cache'[na.addr].consumers = remaining
    BY <1>1, <1>4, <2>1 DEF Entry
  <2>3. \A n : other(n).name = n /\ other(n).addr = na.addr /\ other(n).q = na.q
    BY <1>1, RenamedFields
  <2> HIDE DEF other
  <2>4. /\ \A x \in outbox' : x.name \in Audience(na) /\ x.addr = na.addr /\ x.q = na.q
        /\ \A n \in Audience(na) : \E x \in outbox' : x.name = n
    BY <2>1, <2>3
  <2>5. Raised(na)
    BY <2>1, <2>2, <2>4 DEF Raised, remaining
  <2> QED
    BY <1>1, <1>2, <1>3, <2>5 DEF na
<1> QED
  BY <1>6, <1>7, <1>8 DEF UpdateDecides, Decide, na

-----------------------------------------------------------------------------
(* The way of an address through the pinger.                                 *)

\* Two values that are about the same name and address.
SamePair(x, y) == x.name = y.name /\ x.addr = y.addr

\* What a worker does to the values the pinger holds.
LEMMA PoolFlow ==
  ASSUME TypeOK, NEW w \in Workers, PoolStep(w)
  PROVE  /\ UNCHANGED <<pc, item, asked, cache, outbox, mu, fresh, told, cancelled>>
         /\ \/ /\ courtTV' = courtTV /\ queue # << >> /\ queue' = Tail(queue)
               /\ worker[w] = NoJob
               /\ worker' = [worker EXCEPT ![w] = Head(queue)]
            \/ /\ courtTV' = courtTV /\ queue' = queue
               /\ worker[w] # NoJob /\ worker[w] \in DugAddresses
               /\ \E x \in DugAddresses : /\ SamePair(x, worker[w]) /\ x.q \in Final
                                          /\ worker' = [worker EXCEPT ![w] = x]
            \/ /\ queue' = queue /\ worker[w] # NoJob /\ worker[w] \in DugAddresses
               /\ worker[w].q \in Final
               /\ worker' = [worker EXCEPT ![w] = NoJob]
               /\ courtTV' = Append(courtTV, worker[w])
            \/ /\ queue' = queue /\ worker[w] # NoJob /\ cancelled
               /\ worker' = [worker EXCEPT ![w] = NoJob] /\ courtTV' = courtTV
<1>1. worker \in [Workers -> DugAddresses \cup {NoJob}]
  BY TypeOKParts DEF PingerData
<1>2. UNCHANGED <<pc, item, asked, cache, outbox, mu, fresh, told, cancelled>>
  BY DEF PoolStep, runtimeVars, cacheVars, newsVars, verifyVars
<1>3. CASE Start(w)
  BY <1>2, <1>3 DEF Start
<1>4. CASE PingFails(w)
  <2>1. worker[w] # NoJob /\ worker[w] \in DugAddresses
    BY <1>1, <1>4 DEF PingFails, Pinging
  <2> DEFINE x == WithNewQuality(worker[w], Invalid, TRUE)
  <2>2. x \in DugAddresses /\ SamePair(x, worker[w]) /\ x.q \in Final
    BY <2>1, FinalQuality, Requalified DEF Final, SamePair
  <2>3. worker' = [worker EXCEPT ![w] = x] /\ UNCHANGED <<courtTV, queue>>
    BY <1>4 DEF PingFails
  <2> HIDE DEF x
  <2> QED
    BY <1>2, <2>1, <2>2, <2>3
<1>5. CASE PingOver(w)
  <2>1. worker[w] # NoJob /\ worker[w] \in DugAddresses
    BY <1>1, <1>5 DEF PingOver, PingEnds, Pinging
  <2>2. PICK received \in 0..Count :
          /\ worker' = [worker EXCEPT ![w] = WithNewQuality(@, Judge(received),
                                                            Judge(received) = Invalid)]
          /\ UNCHANGED <<courtTV, queue>>
    BY <1>5 DEF PingOver, PingEnds
  <2> DEFINE x == WithNewQuality(worker[w], Judge(received), Judge(received) = Invalid)
  <2>3. Judge(received) \in Final /\ (Judge(received) = Invalid) \in BOOLEAN
    BY DEF Judge, Final
  <2>4. x \in DugAddresses /\ SamePair(x, worker[w]) /\ x.q \in Final
    BY <2>1, <2>3, FinalQuality, Requalified DEF SamePair
  <2>5. worker' = [worker EXCEPT ![w] = x] /\ UNCHANGED <<courtTV, queue>>
    BY <2>2
  <2> HIDE DEF x
  <2> QED
    BY <1>2, <2>1, <2>4, <2>5
<1>6. CASE Deliver(w)
  BY <1>1, <1>2, <1>6 DEF Deliver, Judged
<1>7. CASE Drop(w)
  BY <1>2, <1>7 DEF Drop, Judged
<1> QED
  BY <1>3, <1>4, <1>5, <1>6, <1>7 DEF PoolStep, WorkerStep

\* What the main goroutine and the slurper do to the values the pinger holds.
LEMMA AnnounceFlow ==
  ASSUME TypeOK, AnnounceItem
  PROVE  /\ pc[Main] = "announce" /\ pc' = [pc EXCEPT ![Main] = "submit"]
         /\ UNCHANGED <<queue, worker, asked, cache, outbox, mu, fresh, told, cancelled>>
         /\ item[Main] \in DugAddresses
         /\ \E x \in DugAddresses :
              /\ SamePair(x, item[Main]) /\ x.q = Verifying
              /\ item' = [item EXCEPT ![Main] = x] /\ courtTV' = Append(courtTV, x)
<1> DEFINE x == WithNewQuality(item[Main], Verifying, FALSE)
<1>1. /\ pc[Main] = "announce" /\ pc' = [pc EXCEPT ![Main] = "submit"]
      /\ item' = [item EXCEPT ![Main] = x] /\ courtTV' = Append(courtTV, x)
      /\ UNCHANGED <<queue, worker, asked, cache, outbox, mu, fresh, told, cancelled>>
  BY DEF AnnounceItem, At, Announce, Goto, cacheVars, newsVars, runtimeVars
<1>2. item[Main] \in DugAddresses
  BY <1>1, TypeOKParts, ThreadFacts DEF VerifyData
<1>3. x \in DugAddresses /\ SamePair(x, item[Main]) /\ x.q = Verifying
  BY <1>2, FinalQuality, Requalified DEF SamePair
<1> HIDE DEF x
<1> QED
  BY <1>1, <1>2, <1>3

LEMMA SubmitFlow ==
  ASSUME TypeOK, SubmitItem
  PROVE  /\ pc[Main] = "submit" /\ pc' = [pc EXCEPT ![Main] = "select"]
         /\ item[Main] \in DugAddresses /\ item' = [item EXCEPT ![Main] = NoJob]
         /\ queue' = Append(queue, item[Main])
         /\ UNCHANGED <<courtTV, worker, asked, cache, outbox, mu, fresh, told, cancelled>>
<1>1. pc[Main] = "submit"
  BY DEF SubmitItem, At
<1>2. item[Main] \in DugAddresses
  BY <1>1, TypeOKParts, ThreadFacts DEF VerifyData
<1> QED
  BY <1>1, <1>2 DEF SubmitItem, Submit, Continue, Goto, cacheVars, newsVars, runtimeVars

LEMMA SlurpFlow ==
  ASSUME TypeOK, Slurp
  PROVE  /\ pc[Slurper] = "select" /\ pc' = [pc EXCEPT ![Slurper] = "update"]
         /\ courtTV # << >> /\ courtTV' = Tail(courtTV) /\ 1 \in DOMAIN courtTV
         /\ \A i \in DOMAIN courtTV' : i + 1 \in DOMAIN courtTV /\ courtTV'[i] = courtTV[i + 1]
         /\ courtTV[1] \in DugAddresses
         /\ item' = [item EXCEPT ![Slurper] = courtTV[1]]
         /\ UNCHANGED <<queue, worker, asked, cache, outbox, mu, fresh, told, cancelled>>
<1>1. courtTV \in Seq(DugAddresses)
  BY TypeOKParts DEF PingerData
<1>2. courtTV # << >> /\ courtTV' = Tail(courtTV)
  BY DEF Slurp, TakeVerdict
<1>3. /\ Head(courtTV) = courtTV[1] /\ 1 \in DOMAIN courtTV /\ courtTV[1] \in DugAddresses
      /\ \A i \in DOMAIN courtTV' : i + 1 \in DOMAIN courtTV /\ courtTV'[i] = courtTV[i + 1]
  BY <1>1, <1>2
<1> QED
  BY <1>2, <1>3 DEF Slurp, At, TakeVerdict, Goto, cacheVars, newsVars, runtimeVars

\* The labels at which a goroutine of Verify holds a named address.
Busy == {"pass", "update", "tell", "announce", "submit"}

\* A busy goroutine got what it holds in an earlier step, from the input or from the
\* court TV channel.
LEMMA ItemFlow ==
  ASSUME TypeOK, [Next]_vars, NEW t \in Thread, pc'[t] \in Busy
  PROVE  \/ pc[t] \in Busy /\ SamePair(item'[t], item[t])
         \/ Receive /\ <<item'[t].name, item'[t].addr>> \in asked'
         \/ Slurp /\ courtTV # << >> /\ item'[t] = courtTV[1]
<1> USE ThreadFacts DEF Busy
<1>1. ASSUME pc' = pc \/ pc'[t] = pc[t], item' = item
      PROVE  pc[t] \in Busy /\ SamePair(item'[t], item[t])
  BY <1>1 DEF SamePair
<1>2. CASE AnnounceItem
  <2>1. PICK x \in DugAddresses : SamePair(x, item[Main]) /\ item' = [item EXCEPT ![Main] = x]
    BY <1>2, AnnounceFlow
  <2>2. pc[Main] = "announce" /\ pc' = [pc EXCEPT ![Main] = "submit"]
    BY <1>2, AnnounceFlow
  <2> QED
    BY <2>1, <2>2 DEF SamePair
<1>3. CASE SubmitItem \/ AnnounceCancelled \/ PassOnCancelled \/ PassOn
  <2>1. \E label \in {"select", "stop"} :
          pc' = [pc EXCEPT ![Main] = label] /\ item' = [item EXCEPT ![Main] = NoJob]
    BY <1>3 DEF SubmitItem, AnnounceCancelled, PassOnCancelled, PassOn, Continue, Goto
  <2> QED
    BY <2>1 DEF SamePair
<1>4. CASE StopPinger \/ PingerStopped \/ LeaveLoop \/ Join \/ SlurperDone \/ CloseAndReturn
  <2>1. \E label \in {"stop", "stopping", "join", "close", "wait", "returned"} :
          pc' = [pc EXCEPT ![Main] = label] /\ item' = item
    BY <1>4 DEF StopPinger, PingerStopped, LeaveLoop, Join, SlurperDone, CloseAndReturn, Goto
  <2> QED
    BY <2>1 DEF SamePair
<1>5. CASE SlurperExits
  BY <1>5 DEF SlurperExits, Goto, SamePair
<1>6. CASE Slurp
  BY <1>6, SlurpFlow DEF SamePair
<1>7. CASE Receive
  <2>1. PICK na \in Inputs :
          /\ item' = [item EXCEPT ![Main] = na]
          /\ asked' = asked \cup {<<na.name, na.addr>>}
          /\ pc' = [pc EXCEPT ![Main] = IF na.addr = NoAddr THEN "pass" ELSE "update"]
    BY <1>7 DEF Receive, Goto
  <2> QED
    BY <1>7, <2>1 DEF SamePair
<1>8. CASE CacheStep
  <2>1. PICK u \in Thread : UpdateDecides(u)
    BY <1>8 DEF CacheStep
  <2>2. pc[u] = "update" /\ pc' = [pc EXCEPT ![u] = "tell"] /\ item' = item
    BY <2>1, Decided
  <2> QED
    BY <2>2 DEF SamePair
<1>9. CASE LeaveCacheStep
  <2>1. PICK u \in Thread : UpdateBailsOut(u) \/ UpdateReturns(u)
    BY <1>9 DEF LeaveCacheStep
  <2>2. \/ UNCHANGED <<pc, item>>
        \/ pc[u] = "tell" /\ pc' = [pc EXCEPT ![u] = "announce"] /\ item' = item
        \/ pc' = [pc EXCEPT ![u] = "select"] /\ item' = [item EXCEPT ![u] = NoJob]
    BY <2>1 DEF UpdateBailsOut, UpdateReturns, At, Continue, Goto, verifyVars
  <2> QED
    BY <2>2 DEF SamePair
<1>10. CASE UNCHANGED <<pc, item>>
  BY <1>10 DEF SamePair
<1>11. NotifyStep \/ EnvironmentStep \/ ReadNews \/ (\E w \in Workers : PoolStep(w))
         \/ UNCHANGED vars => UNCHANGED <<pc, item>>
  BY Zenon DEF NotifyStep, UpdateNotifies, EnvironmentStep, CloseInput, CancelContext, ReadNews,
     PoolStep, verifyVars, vars
<1> QED
  BY <1>2, <1>3, <1>4, <1>5, <1>6, <1>7, <1>8, <1>9, <1>10, <1>11, StepGroups
  DEF PingerStep, ControlStep

\* What was asked stays asked.
LEMMA AskedGrows == [Next]_vars => (asked' = asked \/ Receive) /\ asked \subseteq asked'
<1> SUFFICES ASSUME [Next]_vars PROVE asked' = asked \/ Receive
  BY DEF Receive
<1>1. PingerStep \/ CacheStep \/ NotifyStep \/ LeaveCacheStep \/ EnvironmentStep
        \/ PassOn \/ CloseAndReturn \/ ReadNews \/ UNCHANGED vars => asked' = asked
  BY Zenon DEF PingerStep, AnnounceItem, SubmitItem, StopPinger, PingerStopped, Slurp, PoolStep,
     CacheStep, UpdateDecides, NotifyStep, UpdateNotifies, LeaveCacheStep, UpdateBailsOut,
     UpdateReturns, EnvironmentStep, CloseInput, CancelContext, PassOn, CloseAndReturn, ReadNews,
     vars, verifyVars
<1>2. ControlStep => asked' = asked \/ Receive
  BY Zenon DEF ControlStep, LeaveLoop, PassOnCancelled, AnnounceCancelled, Join, SlurperDone,
     SlurperExits
<1> QED
  BY <1>1, <1>2, StepGroups

\* What is in the court TV channel after a step was there before or was announced or
\* delivered.
LEMMA CourtFlow ==
  ASSUME TypeOK, [Next]_vars, NEW i \in DOMAIN courtTV'
  PROVE  \/ \E j \in DOMAIN courtTV : courtTV'[i] = courtTV[j]
         \/ pc[Main] = "announce" /\ SamePair(courtTV'[i], item[Main])
         \/ \E w \in Workers : worker[w] # NoJob /\ courtTV'[i] = worker[w]
<1>1. courtTV \in Seq(DugAddresses)
  BY TypeOKParts DEF PingerData
<1>2. CASE courtTV' = courtTV
  BY <1>2
<1>3. CASE AnnounceItem
  <2>1. PICK x \in DugAddresses : SamePair(x, item[Main]) /\ courtTV' = Append(courtTV, x)
    BY <1>3, AnnounceFlow
  <2>2. pc[Main] = "announce"
    BY <1>3, AnnounceFlow
  <2> QED
    BY <1>1, <2>1, <2>2
<1>4. CASE Slurp
  BY <1>4, SlurpFlow
<1>5. ASSUME NEW w \in Workers, worker[w] # NoJob, worker[w] \in DugAddresses,
             courtTV' = Append(courtTV, worker[w])
      PROVE  \/ \E j \in DOMAIN courtTV : courtTV'[i] = courtTV[j]
             \/ worker[w] # NoJob /\ courtTV'[i] = worker[w]
  BY <1>1, <1>5
<1>6. ASSUME NEW w \in Workers, PoolStep(w)
      PROVE  \/ courtTV' = courtTV
             \/ /\ worker[w] # NoJob /\ worker[w] \in DugAddresses
                /\ courtTV' = Append(courtTV, worker[w])
  BY <1>6, PoolFlow
<1>7. SubmitItem \/ StopPinger \/ PingerStopped => courtTV' = courtTV
  BY DEF SubmitItem, Submit, StopPinger, StopPool, PingerStopped, CloseCourt
<1>8. ~PingerStep => courtTV' = courtTV
  BY StepGroups, PingerFrame DEF pingerVars
<1> QED
  BY <1>2, <1>3, <1>4, <1>5, <1>6, <1>7, <1>8 DEF PingerStep

\* The same for the queue and the workers.
LEMMA TaskFlow ==
  ASSUME TypeOK, [Next]_vars
  PROVE  /\ \A i \in DOMAIN queue' : \/ \E j \in DOMAIN queue : queue'[i] = queue[j]
                                     \/ pc[Main] = "submit" /\ queue'[i] = item[Main]
         /\ \A w \in Workers :
              worker'[w] # NoJob =>
                \/ worker[w] # NoJob /\ SamePair(worker'[w], worker[w])
                \/ \E j \in DOMAIN queue : worker'[w] = queue[j]
<1>1. queue \in Seq(DugAddresses) /\ worker \in [Workers -> DugAddresses \cup {NoJob}]
  BY TypeOKParts DEF PingerData
<1>2. CASE UNCHANGED <<queue, worker>>
  BY <1>2 DEF SamePair
<1>3. CASE SubmitItem
  <2>1. /\ pc[Main] = "submit" /\ item[Main] \in DugAddresses /\ worker' = worker
        /\ queue' = Append(queue, item[Main])
    BY <1>3, SubmitFlow
  <2> QED
    BY <1>1, <2>1 DEF SamePair
<1>4. ASSUME NEW w \in Workers, queue # << >>, queue' = Tail(queue),
             worker' = [worker EXCEPT ![w] = Head(queue)]
      PROVE  /\ \A i \in DOMAIN queue' : \E j \in DOMAIN queue : queue'[i] = queue[j]
             /\ \A v \in Workers : worker'[v] = worker[v]
                                     \/ \E j \in DOMAIN queue : worker'[v] = queue[j]
  <2>1. 1 \in DOMAIN queue /\ Head(queue) = queue[1]
    BY <1>1, <1>4
  <2>2. \A i \in DOMAIN queue' : i + 1 \in DOMAIN queue /\ queue'[i] = queue[i + 1]
    BY <1>1, <1>4
  <2> QED
    BY <1>1, <1>4, <2>1, <2>2
<1>5. ASSUME NEW w \in Workers, PoolStep(w)
      PROVE  \/ /\ queue # << >> /\ queue' = Tail(queue)
                /\ worker' = [worker EXCEPT ![w] = Head(queue)]
             \/ /\ queue' = queue
                /\ \A v \in Workers : \/ worker'[v] = worker[v] \/ worker'[v] = NoJob
                                      \/ worker[v] # NoJob /\ SamePair(worker'[v], worker[v])
  BY <1>1, <1>5, PoolFlow
<1>6. AnnounceItem \/ Slurp \/ StopPinger \/ PingerStopped => UNCHANGED <<queue, worker>>
  BY DEF AnnounceItem, Announce, Slurp, TakeVerdict, StopPinger, StopPool, PingerStopped,
     CloseCourt
<1>7. ~PingerStep => UNCHANGED <<queue, worker>>
  BY StepGroups, PingerFrame DEF pingerVars
<1>8. ASSUME NEW w \in Workers, PoolStep(w)
      PROVE  /\ \A i \in DOMAIN queue' : \E j \in DOMAIN queue : queue'[i] = queue[j]
             /\ \A v \in Workers :
                  worker'[v] # NoJob =>
                    \/ worker[v] # NoJob /\ SamePair(worker'[v], worker[v])
                    \/ \E j \in DOMAIN queue : worker'[v] = queue[j]
  <2>1. CASE /\ queue # << >> /\ queue' = Tail(queue)
             /\ worker' = [worker EXCEPT ![w] = Head(queue)]
    BY <1>4, <2>1 DEF SamePair
  <2>2. CASE /\ queue' = queue
             /\ \A v \in Workers : \/ worker'[v] = worker[v] \/ worker'[v] = NoJob
                                   \/ worker[v] # NoJob /\ SamePair(worker'[v], worker[v])
    BY <2>2 DEF SamePair
  <2> QED
    BY <1>5, <1>8, <2>1, <2>2
<1> QED
  BY <1>2, <1>3, <1>6, <1>7, <1>8 DEF PingerStep

\* Outside the decisions of Update the cache stays as it is, and nothing is added to
\* what is to be sent.
LEMMA OnlyDecisions ==
  [Next]_vars /\ ~CacheStep => cache' = cache /\ outbox' \subseteq outbox
<1> SUFFICES ASSUME [Next]_vars, ~CacheStep PROVE cache' = cache /\ outbox' \subseteq outbox
  OBVIOUS
<1>1. CASE NotifyStep \/ LeaveCacheStep
  BY <1>1 DEF NotifyStep, UpdateNotifies, Notify, LeaveCacheStep, UpdateBailsOut,
     UpdateReturns, BailOut, Return
<1>2. CASE UNCHANGED cacheVars
  BY <1>2 DEF cacheVars
<1> QED
  BY <1>1, <1>2, StepGroups, CacheFrame

LEMMA AskedInvStep ==
  TypeOK /\ MutexInv /\ AskedInv /\ [Next]_vars => AskedInv'
<1> SUFFICES ASSUME TypeOK, MutexInv, AskedInv, [Next]_vars PROVE AskedInv'
  OBVIOUS
<1> USE ThreadFacts
<1>1. asked \subseteq asked'
  BY AskedGrows
<1>2. \A x, y : SamePair(x, y) /\ InQuestion(y) => <<x.name, x.addr>> \in asked'
  BY <1>1 DEF SamePair, InQuestion
<1>3. ASSUME NEW t \in Thread, pc'[t] \in Busy PROVE <<item'[t].name, item'[t].addr>> \in asked'
  <2>1. CASE pc[t] \in Busy /\ SamePair(item'[t], item[t])
    BY <1>2, <2>1 DEF AskedInv, Busy
  <2>2. CASE Slurp /\ courtTV # << >> /\ item'[t] = courtTV[1]
    <3>1. 1 \in DOMAIN courtTV
      BY <2>2, SlurpFlow
    <3> QED
      BY <1>1, <2>2, <3>1 DEF AskedInv, InQuestion
  <2> QED
    BY <1>3, <2>1, <2>2, ItemFlow
<1>4. ASSUME NEW i \in DOMAIN courtTV'
      PROVE  <<courtTV'[i].name, courtTV'[i].addr>> \in asked'
  <2>1. CASE \E j \in DOMAIN courtTV : courtTV'[i] = courtTV[j]
    BY <1>1, <2>1 DEF AskedInv, InQuestion
  <2>2. CASE pc[Main] = "announce" /\ SamePair(courtTV'[i], item[Main])
    BY <1>2, <2>2 DEF AskedInv
  <2>3. CASE \E w \in Workers : worker[w] # NoJob /\ courtTV'[i] = worker[w]
    BY <1>1, <2>3 DEF AskedInv, InQuestion
  <2> QED
    BY <2>1, <2>2, <2>3, CourtFlow
<1>5. \A i \in DOMAIN queue' : <<queue'[i].name, queue'[i].addr>> \in asked'
  BY <1>1, TaskFlow DEF AskedInv, InQuestion
<1>6. ASSUME NEW w \in Workers, worker'[w] # NoJob
      PROVE  <<worker'[w].name, worker'[w].addr>> \in asked'
  BY <1>1, <1>2, <1>6, TaskFlow DEF AskedInv, InQuestion
<1>7. CASE CacheStep
  <2>1. PICK t \in Thread : UpdateDecides(t)
    BY <1>7 DEF CacheStep
  <2> DEFINE na == item[t]
  <2>2. /\ na.addr \in Addr /\ na.name \in Name
        /\ \A a \in Addr \ {na.addr} : cache'[a] = cache[a]
        /\ Sighted(na) \/ Echoed(na) \/ Raised(na)
    BY <2>1, DecideCases
  <2>3. pc[t] = "update"
    BY <2>1, Decided
  <2>4. <<na.name, na.addr>> \in asked
    BY <2>3 DEF AskedInv, InQuestion
  <2> HIDE DEF na
  <2>5. /\ cache'[na.addr].consumers \subseteq cache[na.addr].consumers \cup {na.name}
        /\ \A x \in outbox' : /\ x.addr = na.addr
                              /\ x.name \in cache[na.addr].consumers \cup {na.name}
    BY <2>2 DEF Sighted, Echoed, Raised, Audience
  <2>6. \A n \in cache[na.addr].consumers \cup {na.name} : <<n, na.addr>> \in asked
    BY <2>2, <2>4 DEF AskedInv
  <2>7. \A x \in outbox' : <<x.name, x.addr>> \in asked'
    BY <1>1, <2>5, <2>6
  <2>8. ASSUME NEW a \in Addr
        PROVE  /\ \A n \in cache'[a].consumers : <<n, a>> \in asked'
               /\ cache'[a].q # Unknown => \E n \in Name : <<n, a>> \in asked'
    <3>1. CASE a = na.addr
      BY <1>1, <2>2, <2>4, <2>5, <2>6, <3>1
    <3>2. CASE a # na.addr
      BY <1>1, <2>2, <3>2 DEF AskedInv
    <3> QED
      BY <3>1, <3>2
  <2> QED
    BY <1>3, <1>4, <1>5, <1>6, <2>7, <2>8 DEF AskedInv, InQuestion, Busy
<1>8. CASE ~CacheStep
  <2>1. cache' = cache
    BY <1>8, OnlyDecisions
  <2>2. outbox' \subseteq outbox
    BY <1>8, OnlyDecisions
  <2>3. \A x \in outbox' : <<x.name, x.addr>> \in asked'
    BY <1>1, <2>2 DEF AskedInv, InQuestion
  <2>4. \A a \in Addr : /\ \A n \in cache'[a].consumers : <<n, a>> \in asked'
                        /\ cache'[a].q # Unknown => \E n \in Name : <<n, a>> \in asked'
    BY <1>1, <2>1 DEF AskedInv
  <2> QED
    BY <1>3, <1>4, <1>5, <1>6, <2>3, <2>4 DEF AskedInv, InQuestion, Busy
<1> QED
  BY <1>7, <1>8

-----------------------------------------------------------------------------
(* Who is registered.                                                        *)

\* What changes in the history of the news of an address.
LEMMA ToldFlow ==
  ASSUME IInv, [Next]_vars, NEW n \in Name, NEW a \in Addr
  PROVE  \/ told'[<<n, a>>] = told[<<n, a>>]
         \/ /\ cache' = cache /\ told'[<<n, a>>] = cache[a].q
            /\ \E na \in outbox : na.name = n /\ na.addr = a
<1>1. <<n, a>> \in Pairs /\ told \in [Pairs -> Quality \cup {Unknown}] /\ a # NoAddr
  BY ToldTyped, NamedAddressAssumption DEF Pairs, IInv
<1>2. CASE \E na \in outbox : /\ na.name \in Name /\ na.addr \in Addr
                              /\ na.q = cache[na.addr].q /\ cache' = cache
                              /\ told' = [told EXCEPT ![<<na.name, na.addr>>] = na.q]
  BY <1>1, <1>2
<1>3. CASE told' = told \/ \E m \in Name : told' = [told EXCEPT ![<<m, NoAddr>>] = Unverified]
  BY <1>1, <1>3
<1> QED
  BY <1>2, <1>3, WhatIsTold DEF IInv

\* The qualities before the verdict are the smaller ones.
LEMMA QualityOrder ==
  /\ \A q \in Quality : q \notin Final <=> q <= Verifying
  /\ \A q \in Quality : q # Unknown /\ q > Unknown
  /\ \A p, q \in Quality \cup {Unknown} : p > q /\ p \notin Final => q \notin Final
  /\ \A p, q \in Quality \cup {Unknown} : p >= q /\ q \in {Verifying} \cup Final
                                            => p \in {Verifying} \cup Final
BY DEF Quality, Final, Unknown, Unverified, Verifying, Invalid, Verified

LEMMA RegisteredInvStep == IInv /\ RegisteredInv /\ [Next]_vars => RegisteredInv'
<1> SUFFICES ASSUME IInv, RegisteredInv, [Next]_vars, NEW a \in Addr
             PROVE  /\ cache'[a].q = Unknown => cache'[a].consumers = {}
                    /\ cache'[a].q \notin Final =>
                         /\ \A na \in outbox' : na.addr = a => na.name \in cache'[a].consumers
                         /\ \A n \in Name :
                              told'[<<n, a>>] # Unknown => n \in cache'[a].consumers
  BY DEF RegisteredInv
<1> USE DEF RegisteredInv
<1>1. CASE ~CacheStep
  <2>1. cache' = cache /\ outbox' \subseteq outbox
    BY <1>1, OnlyDecisions
  <2>2. ASSUME cache[a].q \notin Final, NEW n \in Name, told'[<<n, a>>] # Unknown
        PROVE  n \in cache[a].consumers
    BY <2>2, ToldFlow
  <2> QED
    BY <2>1, <2>2
<1>2. CASE CacheStep
  <2>1. PICK t \in Thread : UpdateDecides(t)
    BY <1>2 DEF CacheStep
  <2> DEFINE na == item[t]
  <2>2. /\ na \in DugAddresses /\ na.addr \in Addr
        /\ a # na.addr => cache'[a] = cache[a]
        /\ Sighted(na) \/ Echoed(na) \/ Raised(na)
        /\ outbox = {} /\ told' = told
    BY <2>1, DecideCases, Decided DEF IInv
  <2>3. na.q \in Quality /\ na.q # Unknown
    BY <2>2, QualityOrder DEF DugAddresses, NamedAddresses, QualifiedAddress
  <2>4. /\ cache[a].q \in Quality \cup {Unknown} /\ cache'[a].q \in Quality \cup {Unknown}
    BY CacheOnlyImproves DEF IInv
  <2> HIDE DEF na
  <2>5. \A x \in outbox' : x.addr = na.addr
    BY <2>2 DEF Sighted, Echoed, Raised
  <2>6. CASE a # na.addr
    BY <2>2, <2>5, <2>6
  <2>7. ASSUME a = na.addr, cache'[a].q \notin Final
        PROVE  /\ \A x \in outbox' : x.name \in cache'[a].consumers
               /\ \A n \in Name : told[<<n, a>>] # Unknown => n \in cache'[a].consumers
    <3>1. \A n \in Name : told[<<n, a>>] # Unknown => cache[a].q # Unknown
      <4> SUFFICES ASSUME NEW n \in Name, told[<<n, a>>] # Unknown PROVE cache[a].q # Unknown
        OBVIOUS
      <4>1. told[<<n, a>>] \in Quality \cup {Unknown} /\ told[<<n, a>>] <= cache[a].q
        BY ToldTyped DEF IInv, NewsInv, Pairs
      <4> QED
        BY <4>1, <2>4 DEF Quality, Unknown, Unverified, Verified
    <3>2. cache[a].q \notin Final \/ Sighted(na)
      BY <2>2, <2>3, <2>4, <2>7, QualityOrder DEF Echoed, Raised
    <3>3. CASE Sighted(na)
      BY <2>7, <3>1, <3>3 DEF Sighted
    <3>4. CASE Echoed(na)
      BY <2>7, <3>2, <3>4 DEF Echoed, Sighted
    <3>5. CASE Raised(na)
      BY <2>7, <3>2, <3>5 DEF Raised, Sighted, Audience
    <3> QED
      BY <2>2, <3>3, <3>4, <3>5
  <2>8. ASSUME a = na.addr PROVE cache'[a].q # Unknown
    BY <2>2, <2>3, <2>8 DEF Sighted, Echoed, Raised
  <2> QED
    BY <2>2, <2>6, <2>7, <2>8
<1> QED
  BY <1>1, <1>2

-----------------------------------------------------------------------------
(* The notice is ahead of the verdict.                                       *)

\* How the goroutines get to the labels where they hold an address, and leave them.
LEMMA LabelFlow ==
  ASSUME TypeOK, [Next]_vars
  PROVE  /\ pc'[Main] = "submit" =>
              AnnounceItem \/ (pc[Main] = "submit" /\ item'[Main] = item[Main])
         /\ pc'[Slurper] = "update" =>
              Slurp \/ (pc[Slurper] = "update" /\ item'[Slurper] = item[Slurper])
         /\ pc[Slurper] = "update" =>
              \/ UpdateDecides(Slurper)
              \/ pc'[Slurper] = "update" /\ item'[Slurper] = item[Slurper]
         /\ pc[Main] \in {"pass", "update"} =>
              \/ PassOn \/ PassOnCancelled \/ UpdateDecides(Main)
              \/ pc'[Main] = pc[Main] /\ item'[Main] = item[Main]
<1> USE ThreadFacts
<1>1. CASE AnnounceItem
  BY <1>1, AnnounceFlow
<1>2. CASE SubmitItem
  BY <1>2, SubmitFlow
<1>3. CASE AnnounceCancelled \/ PassOnCancelled \/ PassOn
  <2>1. \E label \in {"select", "stop"} :
          pc' = [pc EXCEPT ![Main] = label] /\ item' = [item EXCEPT ![Main] = NoJob]
    BY <1>3 DEF AnnounceCancelled, PassOnCancelled, PassOn, Continue, Goto
  <2>2. pc[Main] = "announce" \/ PassOnCancelled \/ PassOn
    BY <1>3 DEF AnnounceCancelled, At
  <2> QED
    BY <2>1, <2>2
<1>4. CASE StopPinger \/ PingerStopped \/ LeaveLoop \/ Join \/ SlurperDone \/ CloseAndReturn
  <2>1. \E label \in {"stop", "stopping", "join", "close", "wait", "returned"} :
          pc' = [pc EXCEPT ![Main] = label] /\ item' = item
    BY <1>4 DEF StopPinger, PingerStopped, LeaveLoop, Join, SlurperDone, CloseAndReturn, Goto
  <2>2. pc[Main] \in {"stop", "stopping", "join", "close", "wait", "select"}
    BY <1>4 DEF StopPinger, PingerStopped, LeaveLoop, Join, SlurperDone, CloseAndReturn, At
  <2> QED
    BY <2>1, <2>2
<1>5. CASE SlurperExits
  BY <1>5 DEF SlurperExits, At, Goto
<1>6. CASE Slurp
  BY <1>6, SlurpFlow
<1>7. CASE Receive
  <2>1. /\ pc[Main] = "select" /\ \E x : item' = [item EXCEPT ![Main] = x]
        /\ \E label \in {"pass", "update"} : pc' = [pc EXCEPT ![Main] = label]
    BY <1>7 DEF Receive, At, Goto
  <2> QED
    BY <2>1
<1>8. CASE CacheStep
  <2>1. PICK u \in Thread : UpdateDecides(u)
    BY <1>8 DEF CacheStep
  <2>2. pc[u] = "update" /\ pc' = [pc EXCEPT ![u] = "tell"] /\ item' = item
    BY <2>1, Decided
  <2> QED
    BY <2>1, <2>2
<1>9. CASE LeaveCacheStep
  <2>1. PICK u \in Thread : UpdateBailsOut(u) \/ UpdateReturns(u)
    BY <1>9 DEF LeaveCacheStep
  <2>2. /\ pc[u] = "tell"
        /\ \/ UNCHANGED <<pc, item>>
           \/ pc' = [pc EXCEPT ![u] = "announce"] /\ item' = item
           \/ pc' = [pc EXCEPT ![u] = "select"] /\ item' = [item EXCEPT ![u] = NoJob]
    BY <2>1 DEF UpdateBailsOut, UpdateReturns, At, Continue, Goto, verifyVars
  <2> QED
    BY <2>2
<1>10. NotifyStep \/ EnvironmentStep \/ ReadNews \/ (\E w \in Workers : PoolStep(w))
         \/ UNCHANGED vars => UNCHANGED <<pc, item>>
  BY Zenon DEF NotifyStep, UpdateNotifies, EnvironmentStep, CloseInput, CancelContext, ReadNews,
     PoolStep, verifyVars, vars
<1> QED
  BY <1>1, <1>2, <1>3, <1>4, <1>5, <1>6, <1>7, <1>8, <1>9, <1>10, StepGroups
  DEF PingerStep, ControlStep

\* Everybody but the slurper leaves what is in the court TV channel where it is.
LEMMA CourtAppends ==
  ASSUME TypeOK, [Next]_vars, ~Slurp
  PROVE  \/ courtTV' = courtTV
         \/ \E x \in DugAddresses :
              /\ courtTV' = Append(courtTV, x)
              /\ \/ AnnounceItem /\ x.q = Verifying /\ item'[Main] = x
                 \/ \E w \in Workers : worker[w] # NoJob /\ x = worker[w]
<1>1. CASE AnnounceItem
  BY <1>1, AnnounceFlow, ThreadFacts
<1>2. ASSUME NEW w \in Workers, PoolStep(w)
      PROVE  \/ courtTV' = courtTV
             \/ /\ worker[w] \in DugAddresses /\ worker[w] # NoJob
                /\ courtTV' = Append(courtTV, worker[w])
  BY <1>2, PoolFlow
<1>3. SubmitItem \/ StopPinger \/ PingerStopped => courtTV' = courtTV
  BY DEF SubmitItem, Submit, StopPinger, StopPool, PingerStopped, CloseCourt
<1>4. ~PingerStep => courtTV' = courtTV
  BY StepGroups, PingerFrame DEF pingerVars
<1> QED
  BY <1>1, <1>2, <1>3, <1>4 DEF PingerStep

\* A notice only moves forward: to the slurper and from there into the cache.
LEMMA NoticedStays ==
  ASSUME TypeOK, [Next]_vars, NEW a \in Addr, Noticed(a)
  PROVE  Noticed(a)'
<1>1. /\ cache[a].q \in Quality \cup {Unknown} /\ cache'[a].q \in Quality \cup {Unknown}
      /\ cache'[a].q >= cache[a].q
  BY CacheOnlyImproves
<1>2. CASE cache[a].q \in {Verifying} \cup Final
  BY <1>1, <1>2, QualityOrder DEF Noticed
<1>3. CASE HoldsNotice(a) /\ ~UpdateDecides(Slurper)
  BY <1>3, LabelFlow DEF Noticed, HoldsNotice
<1>4. CASE HoldsNotice(a) /\ UpdateDecides(Slurper)
  <2>1. cache'[a].q >= Verifying
    BY <1>1, <1>4, DecideEffect, ThreadFacts
    DEF HoldsNotice, Quality, Unknown, Unverified, Verifying, Verified
  <2> QED
    BY <1>1, <2>1, QualityOrder DEF Noticed, Quality, Unknown, Unverified, Verifying, Verified
<1> QED
  BY <1>2, <1>3, <1>4 DEF Noticed

LEMMA NoticeStays ==
  ASSUME TypeOK, [Next]_vars, NEW a \in Addr, NEW k \in Nat, NoticedBefore(k, a)
  PROVE  /\ ~Slurp => NoticedBefore(k, a)'
         /\ Slurp /\ k > 0 => NoticedBefore(k - 1, a)'
<1>0. courtTV \in Seq(DugAddresses)
  BY TypeOKParts DEF PingerData
<1>1. CASE Noticed(a)
  BY <1>1, NoticedStays DEF NoticedBefore
<1>2. ASSUME NEW j \in 1..k, NoticeAt(j, a), ~Slurp PROVE NoticedBefore(k, a)'
  <2>1. j \in DOMAIN courtTV' /\ courtTV'[j] = courtTV[j]
    <3>1. j \in DOMAIN courtTV
      BY <1>2 DEF NoticeAt
    <3>2. CASE courtTV' = courtTV
      BY <3>1, <3>2
    <3>3. CASE \E x \in DugAddresses : courtTV' = Append(courtTV, x)
      BY <1>0, <3>1, <3>3
    <3> QED
      BY <1>2, <3>2, <3>3, CourtAppends
  <2>2. NoticeAt(j, a)'
    BY <1>2, <2>1 DEF NoticeAt
  <2> QED
    BY <2>2 DEF NoticedBefore
<1>3. ASSUME NEW j \in 1..k, NoticeAt(j, a), Slurp PROVE NoticedBefore(k - 1, a)'
  <2>1. CASE j = 1
    <3>1. pc'[Slurper] = "update" /\ item'[Slurper] = courtTV[1]
      BY <1>3, SlurpFlow, ThreadFacts
    <3>2. HoldsNotice(a)'
      BY <1>3, <2>1, <3>1 DEF HoldsNotice, NoticeAt
    <3> QED
      BY <3>2 DEF NoticedBefore, Noticed
  <2>2. CASE j # 1
    <3>1. j \in DOMAIN courtTV /\ courtTV' = Tail(courtTV) /\ courtTV # << >>
      BY <1>3, SlurpFlow DEF NoticeAt
    <3>2. j - 1 \in DOMAIN courtTV' /\ courtTV'[j - 1] = courtTV[j]
      BY <1>0, <2>2, <3>1
    <3>3. NoticeAt(j - 1, a)'
      BY <1>3, <3>2 DEF NoticeAt
    <3>4. j - 1 \in 1..(k - 1)
      BY <2>2
    <3> QED
      BY <3>3, <3>4 DEF NoticedBefore
  <2> QED
    BY <2>1, <2>2
<1> QED
  BY <1>1, <1>2, <1>3 DEF NoticedBefore

\* An address is announced when its notice is sent.
LEMMA AnnouncedFlow ==
  ASSUME TypeOK, [Next]_vars, NEW a, Announced(a)'
  PROVE  Announced(a) \/ (AnnounceItem /\ item'[Main].addr = a)
<1>1. CASE pc'[Main] = "submit" /\ item'[Main].addr = a
  BY <1>1, LabelFlow DEF Announced
<1>2. CASE \E i \in DOMAIN queue' : queue'[i].addr = a
  BY <1>2, TaskFlow DEF Announced
<1>3. CASE \E w \in Workers : worker'[w] # NoJob /\ worker'[w].addr = a
  BY <1>3, TaskFlow DEF Announced, SamePair
<1> QED
  BY <1>1, <1>2, <1>3 DEF Announced

LEMMA NoticeInvStep == TypeOK /\ NoticeInv /\ [Next]_vars => NoticeInv'
<1> SUFFICES ASSUME TypeOK, NoticeInv, [Next]_vars, NEW a \in Addr
             PROVE  /\ Announced(a)' => NoticedBefore(Len(courtTV), a)'
                    /\ \A i \in DOMAIN courtTV' :
                         courtTV'[i].addr = a /\ courtTV'[i].q \in Final
                           => NoticedBefore(i - 1, a)'
                    /\ HoldsVerdict' /\ item'[Slurper].addr = a
                         => cache'[a].q \in {Verifying} \cup Final
  BY DEF NoticeInv
<1>1. /\ courtTV \in Seq(DugAddresses) /\ Len(courtTV) \in Nat
      /\ courtTV' \in Seq(DugAddresses) /\ Len(courtTV') \in Nat
  BY TypeOKStep, TypeOKParts DEF PingerData, TypeOK, PingerTypeOK
<1>2. \A k, l \in Nat : k <= l /\ NoticedBefore(k, a)' => NoticedBefore(l, a)'
  BY DEF NoticedBefore
<1>3. /\ cache[a].q \in Quality \cup {Unknown} /\ cache'[a].q \in Quality \cup {Unknown}
      /\ cache'[a].q >= cache[a].q
  BY CacheOnlyImproves
<1>4. CASE Slurp
  <2>1. /\ Len(courtTV) > 0 /\ Len(courtTV') = Len(courtTV) - 1
        /\ 1 \in DOMAIN courtTV /\ courtTV[1] \in DugAddresses
        /\ \A i \in DOMAIN courtTV' : i + 1 \in DOMAIN courtTV /\ courtTV'[i] = courtTV[i + 1]
        /\ pc[Slurper] = "select" /\ item'[Slurper] = courtTV[1]
    BY <1>1, <1>4, SlurpFlow, ThreadFacts
  <2>2. ASSUME Announced(a)' PROVE NoticedBefore(Len(courtTV), a)'
    <3>1. ~AnnounceItem
      BY <1>4, AnnounceFlow, SlurpFlow, ThreadFacts
    <3>2. Announced(a)
      BY <2>2, <3>1, AnnouncedFlow
    <3>3. NoticedBefore(Len(courtTV), a)
      BY <3>2 DEF NoticeInv
    <3>4. \E k \in Nat : k > 0 /\ k - 1 = Len(courtTV') /\ NoticedBefore(k, a)
      BY <1>1, <2>1, <3>3
    <3>5. \E k \in Nat : k = Len(courtTV') /\ NoticedBefore(k, a)'
      BY <1>1, <1>4, <3>4, NoticeStays
    <3> QED
      BY <1>1, <3>5 DEF NoticedBefore
  <2>3. ASSUME NEW i \in DOMAIN courtTV', courtTV'[i].addr = a, courtTV'[i].q \in Final
        PROVE  NoticedBefore(i - 1, a)'
    <3>1. i \in Nat \ {0}
      BY <1>1
    <3>2. NoticedBefore(i, a)
      BY <2>1, <2>3, <3>1 DEF NoticeInv
    <3> QED
      BY <1>4, <3>1, <3>2, NoticeStays
  <2>4. ASSUME HoldsVerdict', item'[Slurper].addr = a PROVE cache'[a].q \in {Verifying} \cup Final
    <3>1. courtTV[1].addr = a /\ courtTV[1].q \in Final
      BY <2>1, <2>4 DEF HoldsVerdict
    <3>2. NoticedBefore(0, a)
      BY <2>1, <3>1 DEF NoticeInv
    <3>3. cache[a].q \in {Verifying} \cup Final
      BY <2>1, <3>2 DEF NoticedBefore, Noticed, HoldsNotice
    <3> QED
      BY <1>3, <3>3, QualityOrder
  <2> QED
    BY <2>2, <2>3, <2>4
<1>5. CASE ~Slurp
  <2>1. ASSUME NEW k \in Nat, NoticedBefore(k, a) PROVE NoticedBefore(k, a)'
    BY <1>5, <2>1, NoticeStays
  <2>2. Len(courtTV') >= Len(courtTV)
    BY <1>1, <1>5, CourtAppends
  <2>3. ASSUME Announced(a)' PROVE NoticedBefore(Len(courtTV), a)'
    <3>1. CASE Announced(a)
      <4>1. NoticedBefore(Len(courtTV), a)
        BY <3>1 DEF NoticeInv
      <4>2. \E k \in Nat : k = Len(courtTV) /\ NoticedBefore(k, a)'
        BY <1>1, <2>1, <4>1
      <4> QED
        BY <1>1, <2>2, <4>2 DEF NoticedBefore
    <3>2. CASE AnnounceItem /\ item'[Main].addr = a
      <4>1. PICK x \in DugAddresses : /\ x.q = Verifying /\ item' = [item EXCEPT ![Main] = x]
                                      /\ courtTV' = Append(courtTV, x)
        BY <3>2, AnnounceFlow
      <4>2. Len(courtTV') \in DOMAIN courtTV' /\ courtTV'[Len(courtTV')] = x
        BY <1>1, <4>1
      <4>3. NoticeAt(Len(courtTV), a)'
        BY <3>2, <4>1, <4>2, ThreadFacts DEF NoticeAt
      <4> QED
        BY <1>1, <4>2, <4>3 DEF NoticedBefore
    <3> QED
      BY <2>3, <3>1, <3>2, AnnouncedFlow
  <2>4. ASSUME NEW i \in DOMAIN courtTV', courtTV'[i].addr = a, courtTV'[i].q \in Final
        PROVE  NoticedBefore(i - 1, a)'
    <3>1. CASE i \in DOMAIN courtTV /\ courtTV'[i] = courtTV[i]
      <4>1. NoticedBefore(i - 1, a) /\ i - 1 \in Nat
        BY <1>1, <2>4, <3>1 DEF NoticeInv
      <4> QED
        BY <2>1, <4>1
    <3>2. ASSUME NEW x \in DugAddresses, courtTV' = Append(courtTV, x),
                 i = Len(courtTV) + 1, courtTV'[i] = x,
                 \/ AnnounceItem /\ x.q = Verifying /\ item'[Main] = x
                 \/ \E w \in Workers : worker[w] # NoJob /\ x = worker[w]
          PROVE  NoticedBefore(i - 1, a)'
      <4>1. x.addr = a /\ x.q # Verifying
        BY <2>4, <3>2 DEF Final, Verifying, Invalid, Verified
      <4>2. Announced(a)
        BY <3>2, <4>1 DEF Announced
      <4>3. NoticedBefore(i - 1, a) /\ i - 1 \in Nat
        BY <1>1, <3>2, <4>2 DEF NoticeInv
      <4> QED
        BY <2>1, <4>3
    <3>3. \/ i \in DOMAIN courtTV /\ courtTV'[i] = courtTV[i]
          \/ \E x \in DugAddresses :
               /\ courtTV' = Append(courtTV, x) /\ i = Len(courtTV) + 1 /\ courtTV'[i] = x
               /\ \/ AnnounceItem /\ x.q = Verifying /\ item'[Main] = x
                  \/ \E w \in Workers : worker[w] # NoJob /\ x = worker[w]
      BY <1>1, <1>5, <2>4, CourtAppends
    <3> QED
      BY <3>1, <3>2, <3>3
  <2>5. ASSUME HoldsVerdict', item'[Slurper].addr = a PROVE cache'[a].q \in {Verifying} \cup Final
    <3>1. HoldsVerdict /\ item[Slurper].addr = a
      BY <1>5, <2>5, LabelFlow DEF HoldsVerdict
    <3> QED
      BY <1>3, <3>1, QualityOrder DEF NoticeInv
  <2> QED
    BY <2>3, <2>4, <2>5
<1> QED
  BY <1>4, <1>5

-----------------------------------------------------------------------------
(* A ping is not lost.                                                       *)

\* PingsOf(a) is not empty, place by place.
BeingPinged(a) ==
  \/ AboutToPing /\ item[Main].addr = a
  \/ \E i \in DOMAIN queue : queue[i].addr = a
  \/ \E w \in Workers : worker[w] # NoJob /\ worker[w].addr = a
  \/ \E i \in DOMAIN courtTV : courtTV[i].addr = a /\ courtTV[i].q \in Final
  \/ HoldsVerdict /\ item[Slurper].addr = a

LEMMA SomePing ==
  ASSUME NEW a
  PROVE  /\ BeingPinged(a) <=> PingsOf(a) # {}
         /\ BeingPinged(a)' <=> PingsOf(a)' # {}
<1>1. BeingPinged(a) <=> PingsOf(a) # {}
  <2>1. ASSUME BeingPinged(a) PROVE PingsOf(a) # {}
    <3>1. CASE AboutToPing /\ item[Main].addr = a
      BY <3>1 DEF PingsOf
    <3>2. CASE \E i \in DOMAIN queue : queue[i].addr = a
      BY <3>2 DEF PingsOf
    <3>3. CASE \E w \in Workers : worker[w] # NoJob /\ worker[w].addr = a
      BY <3>3 DEF PingsOf
    <3>4. CASE \E i \in DOMAIN courtTV : courtTV[i].addr = a /\ courtTV[i].q \in Final
      BY <3>4 DEF PingsOf
    <3>5. CASE HoldsVerdict /\ item[Slurper].addr = a
      BY <3>5 DEF PingsOf
    <3> QED
      BY <2>1, <3>1, <3>2, <3>3, <3>4, <3>5 DEF BeingPinged
  <2>2. ASSUME PingsOf(a) # {} PROVE BeingPinged(a)
    BY <2>2 DEF PingsOf, BeingPinged
  <2> QED
    BY <2>1, <2>2
<1>2. BeingPinged(a)' <=> PingsOf(a)' # {}
  <2>1. ASSUME BeingPinged(a)' PROVE PingsOf(a)' # {}
    <3>1. CASE AboutToPing' /\ item'[Main].addr = a
      BY <3>1 DEF PingsOf
    <3>2. CASE \E i \in DOMAIN queue' : queue'[i].addr = a
      BY <3>2 DEF PingsOf
    <3>3. CASE \E w \in Workers : worker'[w] # NoJob /\ worker'[w].addr = a
      BY <3>3 DEF PingsOf
    <3>4. CASE \E i \in DOMAIN courtTV' : courtTV'[i].addr = a /\ courtTV'[i].q \in Final
      BY <3>4 DEF PingsOf
    <3>5. CASE HoldsVerdict' /\ item'[Slurper].addr = a
      BY <3>5 DEF PingsOf
    <3> QED
      BY <2>1, <3>1, <3>2, <3>3, <3>4, <3>5 DEF BeingPinged
  <2>2. ASSUME PingsOf(a)' # {} PROVE BeingPinged(a)'
    BY <2>2 DEF PingsOf, BeingPinged
  <2> QED
    BY <2>1, <2>2
<1> QED
  BY <1>1, <1>2

\* The main goroutine goes on to submit what it is going to have pinged.
LEMMA MainKeepsPing ==
  ASSUME TypeOK, MutexInv, [Next]_vars, ~CacheStep, ~cancelled, AboutToPing
  PROVE  \/ AboutToPing' /\ item'[Main].addr = item[Main].addr
         \/ SubmitItem
<1> USE ThreadFacts
<1>1. CASE AnnounceItem
  BY <1>1, AnnounceFlow DEF AboutToPing, SamePair
<1>2. CASE Slurp
  BY <1>2, SlurpFlow DEF AboutToPing
<1>3. ASSUME NEW w \in Workers, PoolStep(w)
      PROVE  AboutToPing' /\ item'[Main].addr = item[Main].addr
  BY <1>3, PoolFlow DEF AboutToPing
<1>4. CASE StopPinger \/ PingerStopped \/ ControlStep \/ PassOn \/ CloseAndReturn
  <2>1. UNCHANGED fresh
    BY <1>4, CacheFrame DEF StopPinger, PingerStopped, cacheVars
  <2>2. SlurperExits
    BY <1>4 DEF StopPinger, PingerStopped, ControlStep, Receive, LeaveLoop, PassOnCancelled,
       AnnounceCancelled, Join, SlurperDone, PassOn, CloseAndReturn, At, AboutToPing
  <2> QED
    BY <2>1, <2>2 DEF SlurperExits, Goto, AboutToPing
<1>5. CASE NotifyStep
  BY <1>5 DEF NotifyStep, UpdateNotifies, Notify, verifyVars, AboutToPing
<1>6. CASE LeaveCacheStep
  <2>1. PICK t \in Thread : UpdateBailsOut(t) \/ UpdateReturns(t)
    BY <1>6 DEF LeaveCacheStep
  <2>2. CASE UpdateBailsOut(t)
    BY <2>2 DEF UpdateBailsOut, BailOut
  <2>3. CASE UpdateReturns(t)
    <3>1. /\ pc[t] = "tell" /\ mu = t
          /\ IF t = Main /\ fresh THEN pc' = [pc EXCEPT ![t] = "announce"] /\ item' = item
             ELSE /\ pc' = [pc EXCEPT ![t] = "select"]
                  /\ item' = [item EXCEPT ![t] = NoJob]
      BY <2>3 DEF UpdateReturns, At, Return, Goto, Continue
    <3>2. CASE t = Main
      BY <3>1, <3>2 DEF AboutToPing
    <3>3. CASE t = Slurper
      BY <3>1, <3>3 DEF AboutToPing, MutexInv
    <3> QED
      BY <3>2, <3>3
  <2> QED
    BY <2>1, <2>2, <2>3
<1>7. CASE EnvironmentStep \/ ReadNews \/ UNCHANGED vars
  BY <1>7 DEF EnvironmentStep, CloseInput, CancelContext, ReadNews, cacheVars, verifyVars, vars,
     AboutToPing
<1> QED
  BY <1>1, <1>2, <1>3, <1>4, <1>5, <1>6, <1>7, StepGroups DEF PingerStep

\* The queue and the workers pass it on, unless the context is done.
LEMMA PoolKeepsPing ==
  ASSUME TypeOK, [Next]_vars, ~cancelled, NEW a,
         \/ \E i \in DOMAIN queue : queue[i].addr = a
         \/ \E w \in Workers : worker[w] # NoJob /\ worker[w].addr = a
  PROVE  BeingPinged(a)'
<1>1. /\ queue \in Seq(DugAddresses) /\ worker \in [Workers -> DugAddresses \cup {NoJob}]
      /\ courtTV \in Seq(DugAddresses) /\ NoJob \notin DugAddresses
  BY TypeOKParts, PingerAssumption DEF PingerData, DugAddresses, NamedAddresses
<1>2. CASE UNCHANGED <<queue, worker>>
  BY <1>2 DEF BeingPinged
<1>3. CASE SubmitItem
  <2>1. queue' = Append(queue, item[Main]) /\ item[Main] \in DugAddresses /\ worker' = worker
    BY <1>3, SubmitFlow
  <2>2. \A i \in DOMAIN queue : i \in DOMAIN queue' /\ queue'[i] = queue[i]
    BY <1>1, <2>1
  <2> QED
    BY <2>1, <2>2 DEF BeingPinged
<1>4. ASSUME NEW w \in Workers, PoolStep(w) PROVE BeingPinged(a)'
  <2>1. CASE /\ queue # << >> /\ queue' = Tail(queue) /\ worker[w] = NoJob
             /\ worker' = [worker EXCEPT ![w] = Head(queue)]
    <3>1. Head(queue) = queue[1] /\ queue[1] \in DugAddresses
      BY <1>1, <2>1
    <3>2. ASSUME NEW i \in DOMAIN queue, queue[i].addr = a PROVE BeingPinged(a)'
      <4>1. CASE i = 1
        BY <1>1, <2>1, <3>1, <3>2, <4>1 DEF BeingPinged
      <4>2. CASE i # 1
        <5>1. i - 1 \in DOMAIN queue' /\ queue'[i - 1] = queue[i]
          BY <1>1, <2>1, <4>2
        <5> QED
          BY <3>2, <5>1 DEF BeingPinged
      <4> QED
        BY <4>1, <4>2
    <3>3. ASSUME NEW v \in Workers, worker[v] # NoJob, worker[v].addr = a PROVE BeingPinged(a)'
      BY <1>1, <2>1, <3>3 DEF BeingPinged
    <3> QED
      BY <3>2, <3>3
  <2>2. CASE /\ queue' = queue
             /\ \E x \in DugAddresses : /\ SamePair(x, worker[w])
                                        /\ worker' = [worker EXCEPT ![w] = x]
    BY <1>1, <2>2 DEF BeingPinged, SamePair
  <2>3. CASE /\ queue' = queue /\ worker[w] \in DugAddresses /\ worker[w].q \in Final
             /\ worker' = [worker EXCEPT ![w] = NoJob]
             /\ courtTV' = Append(courtTV, worker[w])
    <3>1. Len(courtTV) + 1 \in DOMAIN courtTV' /\ courtTV'[Len(courtTV) + 1] = worker[w]
      BY <1>1, <2>3
    <3>2. \A v \in Workers : v = w \/ worker'[v] = worker[v]
      BY <1>1, <2>3
    <3> QED
      BY <2>3, <3>1, <3>2 DEF BeingPinged
  <2> QED
    BY <1>4, <2>1, <2>2, <2>3, PoolFlow
<1>5. AnnounceItem \/ Slurp \/ StopPinger \/ PingerStopped => UNCHANGED <<queue, worker>>
  BY DEF AnnounceItem, Announce, Slurp, TakeVerdict, StopPinger, StopPool, PingerStopped,
     CloseCourt
<1>6. ~PingerStep => UNCHANGED <<queue, worker>>
  BY StepGroups, PingerFrame DEF pingerVars
<1> QED
  BY <1>2, <1>3, <1>4, <1>5, <1>6 DEF PingerStep

\* A verdict stays in the court TV channel until the slurper takes it.
LEMMA CourtKeepsPing ==
  ASSUME TypeOK, [Next]_vars, NEW a,
         NEW i \in DOMAIN courtTV, courtTV[i].addr = a, courtTV[i].q \in Final
  PROVE  BeingPinged(a)'
<1>1. courtTV \in Seq(DugAddresses)
  BY TypeOKParts DEF PingerData
<1>2. CASE Slurp
  <2>1. /\ courtTV # << >> /\ courtTV' = Tail(courtTV)
        /\ pc'[Slurper] = "update" /\ item'[Slurper] = courtTV[1]
    BY <1>2, SlurpFlow, ThreadFacts
  <2>2. CASE i = 1
    BY <2>1, <2>2 DEF BeingPinged, HoldsVerdict
  <2>3. CASE i # 1
    <3>1. i - 1 \in DOMAIN courtTV' /\ courtTV'[i - 1] = courtTV[i]
      BY <1>1, <2>1, <2>3
    <3> QED
      BY <3>1 DEF BeingPinged
  <2> QED
    BY <2>2, <2>3
<1>3. CASE ~Slurp
  <2>1. i \in DOMAIN courtTV' /\ courtTV'[i] = courtTV[i]
    BY <1>1, <1>3, CourtAppends
  <2> QED
    BY <2>1 DEF BeingPinged
<1> QED
  BY <1>2, <1>3

LEMMA PingsPersist ==
  ASSUME TypeOK, MutexInv, [Next]_vars, ~CacheStep, ~cancelled, NEW a, BeingPinged(a)
  PROVE  BeingPinged(a)'
<1>1. CASE AboutToPing /\ item[Main].addr = a
  <2>1. CASE AboutToPing' /\ item'[Main].addr = a
    BY <2>1 DEF BeingPinged
  <2>2. CASE SubmitItem
    <3>1. queue \in Seq(DugAddresses)
      BY TypeOKParts DEF PingerData
    <3>2. queue' = Append(queue, item[Main]) /\ item[Main] \in DugAddresses
      BY <2>2, SubmitFlow
    <3>3. Len(queue) + 1 \in DOMAIN queue' /\ queue'[Len(queue) + 1] = item[Main]
      BY <3>1, <3>2
    <3> QED
      BY <1>1, <3>3 DEF BeingPinged
  <2> QED
    BY <1>1, <2>1, <2>2, MainKeepsPing
<1>2. CASE \/ \E i \in DOMAIN queue : queue[i].addr = a
           \/ \E w \in Workers : worker[w] # NoJob /\ worker[w].addr = a
  BY <1>2, PoolKeepsPing
<1>3. CASE \E i \in DOMAIN courtTV : courtTV[i].addr = a /\ courtTV[i].q \in Final
  BY <1>3, CourtKeepsPing
<1>4. CASE HoldsVerdict /\ item[Slurper].addr = a
  <2>1. ~UpdateDecides(Slurper)
    BY ThreadFacts DEF CacheStep
  <2> QED
    BY <1>4, <2>1, LabelFlow DEF BeingPinged, HoldsVerdict
<1> QED
  BY <1>1, <1>2, <1>3, <1>4 DEF BeingPinged

-----------------------------------------------------------------------------
(* Everybody is answered.                                                    *)

\* One notification is sent, unless the process is gone.
LEMMA NotifyFlow ==
  ASSUME TypeOK, NotifyStep, ~panicked'
  PROVE  /\ UNCHANGED <<pc, item, cache, asked>>
         /\ \E na \in outbox :
              /\ na.name \in Name /\ na.addr \in Addr
              /\ told' = [told EXCEPT ![<<na.name, na.addr>>] = na.q]
              /\ outbox' = outbox \ {na}
<1>1. UNCHANGED <<pc, item, cache, asked>>
  BY DEF NotifyStep, UpdateNotifies, Notify, verifyVars
<1>2. PICK na \in outbox : Send(na) /\ outbox' = outbox \ {na}
  BY DEF NotifyStep, UpdateNotifies, Notify
<1>3. na.name \in Name /\ na.addr \in Addr
  BY <1>2, TypeOKParts DEF CacheData, DugAddresses, NamedAddresses
<1>4. told' = [told EXCEPT ![<<na.name, na.addr>>] = na.q]
  BY <1>2 DEF Send
<1> QED
  BY <1>1, <1>2, <1>3, <1>4

\* Steps that neither decide nor notify leave alone what was told of addresses and
\* what is to be told.
LEMMA QuietNews ==
  ASSUME IInv, [Next]_vars, ~CacheStep, ~NotifyStep, ~cancelled
  PROVE  /\ cache' = cache /\ outbox' = outbox
         /\ \A n \in Name, a \in Addr : told'[<<n, a>>] = told[<<n, a>>]
<1>1. UNCHANGED <<cache, outbox>>
  <2>1. CASE LeaveCacheStep
    BY <2>1 DEF LeaveCacheStep, UpdateBailsOut, UpdateReturns, BailOut, Return
  <2>2. CASE UNCHANGED cacheVars
    BY <2>2 DEF cacheVars
  <2> QED
    BY <2>1, <2>2, StepGroups, CacheFrame
<1>2. ASSUME NEW n \in Name, NEW a \in Addr PROVE told'[<<n, a>>] = told[<<n, a>>]
  <2>1. <<n, a>> \in Pairs /\ told \in [Pairs -> Quality \cup {Unknown}] /\ a # NoAddr
    BY ToldTyped, NamedAddressAssumption DEF Pairs, IInv
  <2>2. CASE PassOn
    <3>1. item[Main] \in NamedAddresses /\ Send(item[Main]) /\ item[Main].addr = NoAddr
      BY <2>2, TypeOKParts DEF PassOn, At, IInv, EntryInv, VerifyData
    <3> QED
      BY <2>1, <3>1, SendEffect DEF IInv
  <2>3. CASE CloseAndReturn \/ ReadNews
    BY <2>3 DEF CloseAndReturn, CloseNews, ReadNews, TakeNews
  <2>4. CASE UNCHANGED newsVars
    BY <2>4 DEF newsVars
  <2> QED
    BY <2>2, <2>3, <2>4, StepGroups, NewsFrame
<1> QED
  BY <1>1, <1>2

\* A verdict is only told to names that were told before that it is coming.
LEMMA StepInvStep ==
  IInv /\ RegisteredInv /\ NoticeInv /\ StepInv /\ ConsumersTold /\ [Next]_vars => StepInv'
<1> SUFFICES ASSUME IInv, RegisteredInv, NoticeInv, StepInv, ConsumersTold, [Next]_vars,
                    NEW n \in Name, NEW a \in Addr, told'[<<n, a>>] = Unverified,
                    cache'[a].q \in Final
             PROVE  FALSE
  BY DEF StepInv
<1>1. told[<<n, a>>] = Unverified /\ cache[a].q \notin Final
  <2>1. Unverified \notin Final
    BY DEF Final, Unverified, Invalid, Verified
  <2> QED
    BY <2>1, ToldFlow DEF StepInv
<1>2. PICK t \in Thread : UpdateDecides(t)
  BY <1>1, OnlyDecisions DEF CacheStep
<1>3. /\ item[t].addr = a /\ Raised(item[t]) /\ item[t].q \in Final /\ outbox = {}
  <2>1. /\ item[t].addr \in Addr /\ item[t] \in DugAddresses /\ outbox = {}
        /\ a # item[t].addr => cache'[a] = cache[a]
        /\ Sighted(item[t]) \/ Echoed(item[t]) \/ Raised(item[t])
    BY <1>2, DecideCases DEF IInv
  <2>2. a = item[t].addr
    BY <1>1, <2>1
  <2>3. told[<<n, a>>] <= cache[a].q /\ cache[a].q # Unknown
    BY <1>1 DEF IInv, NewsInv, Unknown, Unverified
  <2> QED
    BY <1>1, <2>1, <2>2, <2>3 DEF Sighted, Echoed, Raised
<1>4. pc[t] = "update" /\ t = Slurper
  <2>1. pc[t] = "update"
    BY <1>2, Decided
  <2> QED
    BY <1>3, <2>1, ThreadFacts
    DEF IInv, EntryInv, Final, Unverified, Verifying, Invalid, Verified
<1>5. cache[a].q = Verifying
  BY <1>1, <1>3, <1>4 DEF NoticeInv, HoldsVerdict
<1>6. n \in cache[a].consumers
  BY <1>1 DEF RegisteredInv, Unknown, Unverified
<1>7. told[<<n, a>>] = Verifying
  BY <1>3, <1>5, <1>6 DEF ConsumersTold
<1> QED
  BY <1>1, <1>7 DEF Unverified, Verifying

LEMMA PingedInvStep ==
  IInv /\ PingedInv /\ [Next]_vars /\ ~cancelled => PingedInv'
<1> SUFFICES ASSUME IInv, PingedInv, [Next]_vars, ~cancelled, NEW a \in Addr,
                    cache'[a].q \in {Unverified, Verifying}
             PROVE  BeingPinged(a)'
  BY SomePing DEF PingedInv
<1> USE ThreadFacts DEF IInv
<1>1. CASE ~CacheStep
  <2>1. BeingPinged(a)
    BY <1>1, OnlyDecisions, SomePing DEF PingedInv
  <2> QED
    BY <1>1, <2>1, PingsPersist
<1>2. ASSUME NEW t \in Thread, UpdateDecides(t) PROVE BeingPinged(a)'
  <2> DEFINE na == item[t]
  <2>1. /\ mu = Free /\ pc[t] = "update" /\ pc' = [pc EXCEPT ![t] = "tell"]
        /\ UNCHANGED <<item, courtTV, queue, worker>>
    BY <1>2, Decided
  <2>2. /\ na \in DugAddresses /\ na.addr \in Addr
        /\ a # na.addr => cache'[a] = cache[a]
        /\ Sighted(na) \/ Echoed(na) \/ Raised(na)
    BY <1>2, DecideCases
  <2>3. CASE a = na.addr /\ Sighted(na)
    <3>1. t = Main
      BY <2>1, <2>2, <2>3 DEF Sighted, KnownInv
    <3> QED
      BY <2>1, <2>3, <3>1 DEF Sighted, BeingPinged, AboutToPing
  <2>4. CASE ~(a = na.addr /\ Sighted(na))
    <3>1. cache[a].q \in {Unverified, Verifying}
      <4>1. cache[a].q \in Quality \cup {Unknown} /\ na.q \in Quality
        BY <2>2, CacheOnlyImproves DEF DugAddresses, NamedAddresses, QualifiedAddress
      <4> HIDE DEF na
      <4> QED
        BY <2>2, <2>4, <4>1
        DEF Echoed, Raised, Quality, Unknown, Unverified, Verifying, Verified
    <3>2. BeingPinged(a)
      BY <3>1, SomePing DEF PingedInv
    <3>3. CASE AboutToPing /\ item[Main].addr = a
      <4>1. pc[Main] \in {"announce", "submit"} /\ t = Slurper
        BY <2>1, <3>3 DEF AboutToPing, MutexInv
      <4> QED
        BY <2>1, <3>3, <4>1 DEF BeingPinged, AboutToPing
    <3>4. CASE HoldsVerdict /\ item[Slurper].addr = a
      <4>1. CASE t = Main
        BY <2>1, <3>4, <4>1 DEF BeingPinged, HoldsVerdict
      <4>2. CASE t = Slurper
        <5>1. na.q \in Final /\ na.q > cache[a].q /\ cache'[a].q = na.q
          BY <2>2, <2>4, <3>1, <3>4, <4>2
          DEF HoldsVerdict, Echoed, Raised, Final, Unverified, Verifying, Invalid, Verified
        <5> QED
          BY <5>1 DEF Final, Unverified, Verifying, Invalid, Verified
      <4> QED
        BY <4>1, <4>2
    <3> QED
      BY <2>1, <3>2, <3>3, <3>4 DEF BeingPinged
  <2> QED
    BY <2>3, <2>4
<1> QED
  BY <1>1, <1>2 DEF CacheStep

LEMMA ConsumersToldStep ==
  IInv /\ ConsumersTold /\ [Next]_vars /\ ~cancelled /\ ~panicked' => ConsumersTold'
<1> SUFFICES ASSUME IInv, ConsumersTold, [Next]_vars, ~cancelled, ~panicked',
                    NEW a \in Addr, NEW n \in cache'[a].consumers
             PROVE  \/ told'[<<n, a>>] = cache'[a].q
                    \/ \E na \in outbox' : na.name = n /\ na.addr = a
  BY DEF ConsumersTold
<1>1. n \in Name
  BY TypeOKStep, TypeOKParts DEF IInv, TypeOK, CacheTypeOK, Entry
<1>2. <<n, a>> \in Pairs /\ told \in [Pairs -> Quality \cup {Unknown}]
  BY <1>1, ToldTyped DEF Pairs, IInv
<1>3. CASE ~CacheStep /\ ~NotifyStep
  BY <1>1, <1>3, QuietNews DEF ConsumersTold
<1>4. CASE NotifyStep
  <2>1. cache' = cache
    BY <1>4, NotifyFlow DEF IInv
  <2>2. PICK na \in outbox :
          /\ na.name \in Name /\ na.addr \in Addr
          /\ told' = [told EXCEPT ![<<na.name, na.addr>>] = na.q]
          /\ outbox' = outbox \ {na}
    BY <1>4, NotifyFlow DEF IInv
  <2>3. na.q = cache[na.addr].q
    BY DEF IInv, NewsInv
  <2>4. CASE na.name = n /\ na.addr = a
    BY <1>2, <2>1, <2>2, <2>3, <2>4
  <2>5. CASE ~(na.name = n /\ na.addr = a)
    BY <1>2, <2>1, <2>2, <2>5 DEF ConsumersTold
  <2> QED
    BY <2>4, <2>5
<1>5. ASSUME NEW t \in Thread, UpdateDecides(t)
      PROVE  \/ told'[<<n, a>>] = cache'[a].q
             \/ \E na \in outbox' : na.name = n /\ na.addr = a
  <2> DEFINE na == item[t]
  <2>1. /\ a # na.addr => cache'[a] = cache[a]
        /\ Sighted(na) \/ Echoed(na) \/ Raised(na)
        /\ outbox = {} /\ told' = told
    BY <1>5, DecideCases, Decided DEF IInv
  <2> HIDE DEF na
  <2>2. CASE a # na.addr
    BY <2>1, <2>2 DEF ConsumersTold
  <2>3. CASE a = na.addr /\ Sighted(na)
    BY <2>3 DEF Sighted
  <2>4. CASE a = na.addr /\ Echoed(na)
    BY <2>1, <2>4 DEF Echoed, ConsumersTold
  <2>5. CASE a = na.addr /\ Raised(na)
    BY <2>5 DEF Raised
  <2> QED
    BY <2>1, <2>2, <2>3, <2>4, <2>5
<1> QED
  BY <1>3, <1>4, <1>5 DEF CacheStep

LEMMA PairParts ==
  \A p \in Pairs : p = <<p[1], p[2]>> /\ p[1] \in Name /\ p[2] \in Addr \cup {NoAddr}
BY DEF Pairs

\* Whoever has got an answer keeps it.
LEMMA AnsweredStays ==
  ASSUME IInv, [Next]_vars, NEW p \in Pairs, Answered(p)
  PROVE  Answered(p)'
<1>1. p = <<p[1], p[2]>> /\ p[1] \in Name /\ p[2] \in Addr \cup {NoAddr}
  BY PairParts
<1>2. CASE p[2] = NoAddr
  <2>1. told[p] # Unknown
    BY <1>2 DEF Answered
  <2>2. told'[p] \in {told[p], Unverified}
    <3>1. told \in [Pairs -> Quality \cup {Unknown}]
      BY ToldTyped DEF IInv
    <3>2. ASSUME NEW na, na.addr \in Addr, told' = [told EXCEPT ![<<na.name, na.addr>>] = na.q]
          PROVE  told'[p] = told[p]
      BY <1>1, <1>2, <3>1, <3>2, NamedAddressAssumption
    <3>3. ASSUME NEW n, told' = [told EXCEPT ![<<n, NoAddr>>] = Unverified]
          PROVE  told'[p] \in {told[p], Unverified}
      BY <3>1, <3>3
    <3> QED
      BY <3>2, <3>3, WhatIsTold DEF IInv
  <2>3. told'[p] # Unknown
    BY <2>1, <2>2 DEF Unknown, Unverified
  <2> QED
    BY <1>2, <2>3 DEF Answered
<1>3. CASE p[2] # NoAddr
  <2>1. p[2] \in Addr /\ told[p] \in Final
    BY <1>1, <1>3 DEF Answered
  <2>2. told[p] = cache[p[2]].q
    BY <1>1, <2>1 DEF IInv, NewsInv
  <2>3. told'[p] = told[p]
    BY <1>1, <2>1, <2>2, ToldFlow
  <2> QED
    BY <1>3, <2>1, <2>3 DEF Answered
<1> QED
  BY <1>2, <1>3

\* The main goroutine leaves nobody behind when it decides: whom it holds is
\* registered or about to be told the verdict, or was told it before.
LEMMA HeldIsRemembered ==
  ASSUME IInv, ConsumersTold, UpdateDecides(Main), [Next]_vars, NEW p \in Pairs,
         item[Main].name = p[1], item[Main].addr = p[2]
  PROVE  Remembered(p)'
<1> DEFINE na == item[Main]
<1>1. /\ na \in DugAddresses /\ na.addr \in Addr /\ na.name \in Name /\ outbox = {}
      /\ Sighted(na) \/ Echoed(na) \/ Raised(na)
  BY DecideCases, ThreadFacts DEF IInv
<1>2. pc[Main] = "update" /\ told' = told
  BY Decided, ThreadFacts DEF IInv
<1>3. na.q \in {Unverified, Verifying} /\ na.q \notin Final
  BY <1>2 DEF IInv, EntryInv, Final, Unverified, Verifying, Invalid, Verified
<1>4. p = <<na.name, na.addr>> /\ p[2] # NoAddr
  BY <1>1, PairParts, NamedAddressAssumption
<1> HIDE DEF na
<1>5. ASSUME na.name \in cache'[na.addr].consumers, cache'[na.addr].q \notin Final
      PROVE  Remembered(p)'
  BY <1>4, <1>5 DEF Remembered
<1>6. CASE Sighted(na) \/ Raised(na)
  BY <1>3, <1>5, <1>6 DEF Sighted, Raised, Audience
<1>7. CASE Echoed(na) /\ cache[na.addr].q \notin Final
  BY <1>5, <1>7 DEF Echoed
<1>8. CASE Echoed(na) /\ cache[na.addr].q \in Final /\ na.name \in cache[na.addr].consumers
  <2>1. told[p] = cache[na.addr].q
    BY <1>1, <1>4, <1>8 DEF ConsumersTold
  <2> QED
    BY <1>2, <1>4, <1>8, <2>1 DEF Remembered, Answered
<1>9. CASE Echoed(na) /\ cache[na.addr].q \in Final /\ na.name \notin cache[na.addr].consumers
  <2>1. \E x \in outbox' : x.name = na.name /\ x.addr = na.addr /\ x.q \in Final
    BY <1>9 DEF Echoed
  <2> QED
    BY <1>4, <2>1 DEF Remembered
<1> QED
  BY <1>1, <1>6, <1>7, <1>8, <1>9

\* Whoever is registered stays so until the verdict is on its way.
LEMMA RegisteredIsRemembered ==
  ASSUME IInv, RegisteredInv, NEW t \in Thread, UpdateDecides(t), NEW p \in Pairs,
         p[2] # NoAddr, p[1] \in cache[p[2]].consumers, cache[p[2]].q \notin Final
  PROVE  Remembered(p)'
<1> DEFINE na == item[t]
<1>1. /\ na \in DugAddresses /\ na.addr \in Addr /\ na.name \in Name /\ outbox = {}
      /\ \A a \in Addr \ {na.addr} : cache'[a] = cache[a]
      /\ Sighted(na) \/ Echoed(na) \/ Raised(na)
  BY DecideCases DEF IInv
<1>2. p[1] \in Name /\ p[2] \in Addr /\ cache[p[2]].q # Unknown
  BY PairParts DEF RegisteredInv
<1> HIDE DEF na
<1>3. CASE p[2] # na.addr
  BY <1>1, <1>2, <1>3 DEF Remembered
<1>4. CASE p[2] = na.addr /\ cache'[p[2]].q \notin Final
  <2>1. p[1] \in cache'[p[2]].consumers
    BY <1>1, <1>2, <1>4 DEF Sighted, Echoed, Raised, Audience
  <2> QED
    BY <1>2, <1>4, <2>1 DEF Remembered
<1>5. CASE p[2] = na.addr /\ cache'[p[2]].q \in Final
  <2>1. CASE Sighted(na)
    BY <1>2, <1>5, <2>1 DEF Sighted
  <2>2. CASE Raised(na)
    <3>1. na.q \in Final /\ \E x \in outbox' : x.name = p[1] /\ x.addr = p[2] /\ x.q = na.q
      BY <1>5, <2>2 DEF Raised, Audience
    <3> QED
      BY <3>1 DEF Remembered
  <2> QED
    BY <1>1, <1>5, <2>1, <2>2 DEF Echoed
<1> QED
  BY <1>3, <1>4, <1>5

LEMMA RememberedStep ==
  ASSUME IInv, RegisteredInv, ConsumersTold, [Next]_vars, ~cancelled, ~panicked',
         asked \subseteq Pairs, \A p \in asked : Remembered(p)
  PROVE  \A p \in asked' : Remembered(p)'
<1> USE ThreadFacts
<1>1. TypeOK
  BY DEF IInv
<1>2. ASSUME NEW p \in asked, Answered(p) PROVE Remembered(p)'
  BY <1>2, AnsweredStays DEF Remembered
<1>3. ASSUME NEW p \in asked, pc[Main] \in {"pass", "update"},
             item[Main].name = p[1], item[Main].addr = p[2]
      PROVE  Remembered(p)'
  <2>1. CASE UpdateDecides(Main)
    BY <1>3, <2>1, HeldIsRemembered
  <2>2. CASE PassOn
    <3>1. Send(item[Main]) /\ pc[Main] = "pass" /\ cache' = cache
      BY <2>2 DEF PassOn, At, cacheVars
    <3>2. item[Main].addr = NoAddr /\ item[Main].q = Unverified
      BY <3>1 DEF IInv, EntryInv
    <3>3. p = <<item[Main].name, item[Main].addr>>
      BY <1>3, PairParts
    <3>4. told' = [told EXCEPT ![p] = Unverified]
      BY <3>1, <3>2, <3>3 DEF Send
    <3>5. told'[p] # Unknown
      BY <1>1, <3>4, ToldTyped DEF Unknown, Unverified
    <3> QED
      BY <1>3, <3>2, <3>5 DEF Remembered, Answered
  <2>3. CASE pc'[Main] = pc[Main] /\ item'[Main] = item[Main]
    BY <1>3, <2>3 DEF Remembered
  <2>4. ~PassOnCancelled
    BY DEF PassOnCancelled
  <2> QED
    BY <1>1, <1>3, <2>1, <2>2, <2>3, <2>4, LabelFlow
<1>4. ASSUME NEW p \in asked, NEW na \in outbox, na.name = p[1], na.addr = p[2], na.q \in Final
      PROVE  Remembered(p)'
  <2>1. CASE CacheStep
    BY <2>1, Decided DEF CacheStep, IInv, MutexInv
  <2>2. CASE NotifyStep
    <3>1. PICK x \in outbox : /\ told' = [told EXCEPT ![<<x.name, x.addr>>] = x.q]
                              /\ outbox' = outbox \ {x}
      BY <1>1, <2>2, NotifyFlow
    <3>2. CASE x = na
      <4>1. p = <<x.name, x.addr>> /\ told'[p] = na.q
        BY <1>1, <1>4, <3>1, <3>2, PairParts, ToldTyped
      <4>2. p[2] # NoAddr
        BY <1>1, <1>4, TypeOKParts, NamedAddressAssumption DEF CacheData, DugAddresses
      <4> QED
        BY <1>4, <4>1, <4>2 DEF Remembered, Answered
    <3>3. CASE x # na
      BY <1>4, <3>1, <3>3 DEF Remembered
    <3> QED
      BY <3>2, <3>3
  <2>3. CASE ~CacheStep /\ ~NotifyStep
    BY <1>4, <2>3, QuietNews DEF Remembered
  <2> QED
    BY <2>1, <2>2, <2>3
<1>5. ASSUME NEW p \in asked, p[2] # NoAddr, p[1] \in cache[p[2]].consumers,
             cache[p[2]].q \notin Final
      PROVE  Remembered(p)'
  <2>1. CASE CacheStep
    BY <1>5, <2>1, RegisteredIsRemembered DEF CacheStep
  <2>2. CASE ~CacheStep
    BY <1>5, <2>2, OnlyDecisions DEF Remembered
  <2> QED
    BY <2>1, <2>2
<1>6. \A p \in asked : Remembered(p)'
  BY <1>2, <1>3, <1>4, <1>5 DEF Remembered
<1>7. CASE Receive
  <2>1. PICK na \in Inputs :
          /\ item' = [item EXCEPT ![Main] = na]
          /\ asked' = asked \cup {<<na.name, na.addr>>}
          /\ pc' = [pc EXCEPT ![Main] = IF na.addr = NoAddr THEN "pass" ELSE "update"]
    BY <1>7 DEF Receive, Goto
  <2>2. Remembered(<<na.name, na.addr>>)'
    BY <1>1, <2>1 DEF Remembered
  <2> QED
    BY <1>6, <2>1, <2>2
<1> QED
  BY <1>6, <1>7, AskedGrows

\* Only its owner cancels the context.
LEMMA CancellationStep == [Next]_vars => cancelled' = cancelled \/ CancelContext
<1> SUFFICES ASSUME [Next]_vars, ~CancelContext PROVE cancelled' = cancelled
  OBVIOUS
<1>1. CASE PassOn \/ NotifyStep \/ LeaveCacheStep \/ CacheStep \/ CloseAndReturn \/ ReadNews
  BY <1>1, Zenon DEF PassOn, NotifyStep, UpdateNotifies, LeaveCacheStep, UpdateBailsOut,
     UpdateReturns, CacheStep, UpdateDecides, CloseAndReturn, ReadNews, runtimeVars
<1>2. CASE PingerStep
  BY <1>2, Zenon DEF PingerStep, AnnounceItem, SubmitItem, StopPinger, PingerStopped, Slurp,
     PoolStep, runtimeVars
<1>3. CASE ControlStep
  BY <1>3, Zenon DEF ControlStep, Receive, LeaveLoop, PassOnCancelled, AnnounceCancelled, Join,
     SlurperDone, SlurperExits, runtimeVars
<1>4. CASE CloseInput \/ UNCHANGED vars
  BY <1>4, Zenon DEF CloseInput, runtimeVars, vars
<1> QED
  BY <1>1, <1>2, <1>3, <1>4, StepGroups DEF EnvironmentStep

\* AInv is inductive.
LEMMA AInvStep == AInv /\ [Next]_vars => AInv'
<1> SUFFICES ASSUME AInv, [Next]_vars PROVE AInv'
  OBVIOUS
<1>1. IInv /\ EndInv /\ AskedInv /\ RegisteredInv /\ NoticeInv /\ (cancelled \/ AnswersInv)
  BY DEF AInv
<1>2. TypeOK /\ MutexInv /\ asked \subseteq Pairs
  BY <1>1, TypeOKParts DEF IInv, VerifyData
<1>3. IInv' /\ EndInv' /\ AskedInv' /\ RegisteredInv' /\ NoticeInv'
  BY <1>1, <1>2, IInvStep, EndInvStep, AskedInvStep, RegisteredInvStep, NoticeInvStep
<1>4. CASE cancelled'
  BY <1>3, <1>4 DEF AInv
<1>5. CASE ~cancelled'
  <2>1. ~cancelled
    <3>1. cancelled => cancelled'
      BY CancellationStep DEF CancelContext, Cancel
    <3> QED
      BY <1>5, <3>1
  <2>2. ~panicked'
    BY <1>3, <1>5 DEF EndInv
  <2>3. StepInv /\ PingedInv /\ ConsumersTold /\ \A p \in asked : Remembered(p)
    BY <1>1, <2>1 DEF AnswersInv
  <2>4. StepInv' /\ PingedInv' /\ ConsumersTold'
    BY <1>1, <2>1, <2>2, <2>3, StepInvStep, PingedInvStep, ConsumersToldStep
  <2>5. (\A p \in asked : Remembered(p))'
    BY <1>1, <1>2, <2>1, <2>2, <2>3, RememberedStep
  <2> QED
    BY <1>3, <2>4, <2>5 DEF AInv, AnswersInv
<1> QED
  BY <1>4, <1>5

LEMMA AInvariance == Spec => []AInv
<1>1. Init => AInv
  BY AInvInit
<1>2. AInv /\ [Next]_vars => AInv'
  BY AInvStep
<1> QED
  BY <1>1, <1>2, PTL DEF Spec

-----------------------------------------------------------------------------
(* The theorems.                                                             *)

\* As long as the context is alive nobody who asked is left behind: everybody has got
\* the verdict, is about to get it, or is registered for an address that is being
\* pinged - also when a verdict comes in between the steps of Update.
THEOREM NobodyLeftBehind == Spec => []NobodyForgotten
<1>1. AInv => NobodyForgotten
  <2> SUFFICES ASSUME AInv, ~cancelled, NEW p \in asked
               PROVE  \/ Answered(p)
                      \/ /\ pc[Main] \in {"pass", "update"}
                         /\ item[Main].name = p[1] /\ item[Main].addr = p[2]
                      \/ \E na \in outbox : na.name = p[1] /\ na.addr = p[2] /\ na.q \in Final
                      \/ /\ p[2] # NoAddr
                         /\ p[1] \in cache[p[2]].consumers
                         /\ cache[p[2]].q \notin Final
                         /\ PingsOf(p[2]) # {}
    BY DEF NobodyForgotten
  <2>1. IInv /\ RegisteredInv /\ PingedInv /\ Remembered(p)
    BY DEF AInv, AnswersInv
  <2>2. p \in Pairs /\ p[2] \in Addr \cup {NoAddr}
    BY <2>1, TypeOKParts, PairParts DEF IInv, VerifyData
  <2>3. ASSUME p[2] # NoAddr, p[1] \in cache[p[2]].consumers, cache[p[2]].q \notin Final
        PROVE  PingsOf(p[2]) # {}
    <3>1. cache[p[2]].q # Unknown
      BY <2>1, <2>2, <2>3 DEF RegisteredInv
    <3>2. cache[p[2]].q \in Quality \cup {Unknown}
      BY <2>1, <2>2, <2>3, TypeOKParts DEF IInv, CacheData, Entry
    <3>3. cache[p[2]].q \in {Unverified, Verifying}
      BY <2>3, <3>1, <3>2 DEF Quality, Final, Unverified, Verifying, Invalid, Verified
    <3> QED
      BY <2>1, <2>2, <2>3, <3>3 DEF PingedInv
  <2> QED
    BY <2>1, <2>3 DEF Remembered
<1> QED
  BY <1>1, AInvariance, PTL

\* Unless the context was cancelled no goroutine sends to the closed news channel: Verify
\* closes it only when the slurper is gone.
THEOREM PanicsOnlyIfCancelled == Spec => [](NoPanic \/ cancelled)
<1>1. AInv => NoPanic \/ cancelled
  BY DEF AInv, EndInv, NoPanic
<1> QED
  BY <1>1, AInvariance, PTL

LEMMA NewsStep ==
  ASSUME AInv, ~cancelled, [Next]_vars, NEW p \in Pairs,
         told[p] = Unverified, told'[p] # told[p]
  PROVE  told'[p] = Verifying
<1>1. IInv /\ StepInv
  BY DEF AInv, AnswersInv
<1>2. p = <<p[1], p[2]>> /\ p[1] \in Name /\ p[2] \in Addr \cup {NoAddr}
  BY PairParts
<1>3. CASE p[2] = NoAddr
  <2>1. told'[p] \in {Unknown, Unverified}
    BY <1>1, <1>2, <1>3, NewsInvStep DEF NewsInv
  <2>2. Answered(p)
    BY <1>3 DEF Answered, Unknown, Unverified
  <2>3. told'[p] # Unknown
    BY <1>1, <1>3, <2>2, AnsweredStays DEF Answered
  <2> QED
    BY <2>1, <2>3
<1>4. CASE p[2] # NoAddr
  <2>1. p[2] \in Addr /\ told'[p] = cache[p[2]].q
    BY <1>1, <1>2, <1>4, ToldFlow
  <2>2. cache[p[2]].q \in Quality \cup {Unknown} /\ cache[p[2]].q \notin Final
    BY <1>1, <1>2, <2>1, CacheOnlyImproves DEF StepInv, IInv
  <2>3. told[p] <= cache[p[2]].q
    BY <1>1, <1>2, <2>1 DEF IInv, NewsInv
  <2> QED
    BY <2>1, <2>2, <2>3
    DEF Quality, Final, Unknown, Unverified, Verifying, Invalid, Verified
<1> QED
  BY <1>3, <1>4

\* Where nobody cancels the context, a name that was told of an unverified address next
\* hears that it is being verified, also if it joined in the middle of the ping.  (After a
\* cancellation Update may leave notifications out.)
THEOREM NewsComeInSteps ==
  ASSUME MayCancel = FALSE
  PROVE  Spec => NewsInSteps
<1> DEFINE InStep(p) == told[p] = Unverified /\ told'[p] # told[p] => told'[p] = Verifying
<1>1. Init => ~cancelled
  BY DEF Init, RuntimeInit
<1>2. AInv /\ ~cancelled /\ [Next]_vars => ~cancelled'
  BY CancellationStep DEF CancelContext, Cancel
<1>3. AInv /\ ~cancelled /\ [Next]_vars => [\A p \in Pairs : InStep(p)]_vars
  BY NewsStep
<1> QED
  BY <1>1, <1>2, <1>3, AInvariance, PTL DEF Spec, NewsInSteps

-----------------------------------------------------------------------------
(* Verify implements the ledger.                                             *)

\* The verdict of each address, as the ledger sees it.
VerdictMap == [a \in Addr |-> IF cache[a].q \in Final THEN cache[a].q ELSE Unknown]

\* The ledger's actions, written out in the variables of Verify.
LEMMA LedgerActions ==
  ASSUME TypeOK, TypeOK'
  PROVE  /\ Ledger!Next <=>
              \/ \E p \in Pairs : Ledger!Ask(p) \/ Ledger!TellPending(p) \/ Ledger!TellVerdict(p)
              \/ \E a \in Addr : Ledger!Decide(a)
              \/ Ledger!Abort \/ Ledger!Close
         /\ UNCHANGED <<asked, told, cache, cancelled, newsClosed>>
              => UNCHANGED Ledger!ledgerVars
<1>1. DOMAIN told = Pairs
  BY ToldTyped
<1>2. Ledger!Next <=>
        \/ \E p \in Pairs : Ledger!Ask(p) \/ Ledger!TellPending(p) \/ Ledger!TellVerdict(p)
        \/ \E a \in Addr : Ledger!Decide(a)
        \/ Ledger!Abort \/ Ledger!Close
  BY <1>1 DEF Ledger!Next, Ledger!Pair
<1>3. UNCHANGED <<asked, told, cache, cancelled, newsClosed>> => UNCHANGED Ledger!ledgerVars
  BY DEF Ledger!ledgerVars
<1> QED
  BY <1>2, <1>3

LEMMA LedgerInit == Init => Ledger!Init
<1> SUFFICES ASSUME Init PROVE Ledger!Init
  OBVIOUS
<1>1. /\ asked = {} /\ cancelled = FALSE /\ newsClosed = FALSE
      /\ told = [p \in Pairs |-> Unknown]
  BY DEF Init, RuntimeInit, NewsInit
<1>2. \A a \in Addr : VerdictMap[a] = Unknown
  BY DEF Init, CacheInit, VerdictMap, Final, Unknown, Invalid, Verified
<1> QED
  BY <1>1, <1>2 DEF Ledger!Init, Ledger!Pair, VerdictMap

\* Reading a named address from the input asks about it.
LEMMA ReceiveAsks ==
  ASSUME AInv, Receive
  PROVE  \E p \in Pairs : Ledger!Ask(p)
<1>1. PICK na \in Inputs : asked' = asked \cup {<<na.name, na.addr>>}
  BY DEF Receive
<1>2. <<na.name, na.addr>> \in Pairs
  BY InputsTyped DEF NamedAddresses, QualifiedAddress, Pairs
<1>3. ~newsClosed
  BY DEF AInv, EndInv, Receive, At
<1>4. UNCHANGED <<told, cache, cancelled, newsClosed>>
  BY DEF Receive, runtimeVars, cacheVars, newsVars
<1> QED
  BY <1>1, <1>2, <1>3, <1>4 DEF Ledger!Ask

\* Update gives an address its one verdict, or changes nothing for the ledger.
LEMMA UpdateGivesVerdict ==
  ASSUME AInv, NEW t \in Thread, UpdateDecides(t), [Next]_vars
  PROVE  (\E a \in Addr : Ledger!Decide(a)) \/ UNCHANGED Ledger!ledgerVars
<1>1. IInv /\ AskedInv
  BY DEF AInv
<1>2. /\ UNCHANGED <<asked, told, cancelled, newsClosed>> /\ pc[t] = "update"
  BY DEF UpdateDecides, At, runtimeVars, newsVars
<1>3. PICK a \in Addr : /\ a = item[t].addr /\ item[t].name \in Name
                       /\ \A b \in Addr \ {a} : cache'[b] = cache[b]
  BY <1>1, DecideCases DEF IInv
<1>4. <<item[t].name, a>> \in asked
  BY <1>1, <1>2, <1>3 DEF AskedInv, InQuestion
<1>5. cache[a].q \in Final => cache'[a].q = cache[a].q
  BY <1>1, <1>3, VerdictStands DEF IInv
<1>6. CASE cache'[a].q \in Final /\ cache[a].q \notin Final
  <2>1. VerdictMap[a] = Unknown
    BY <1>3, <1>6 DEF VerdictMap
  <2>2. VerdictMap' = [VerdictMap EXCEPT ![a] = cache'[a].q]
    BY <1>3, <1>6 DEF VerdictMap
  <2>3. \E p \in asked \ {x \in Pairs : x[2] = NoAddr} : [x \in Pairs |-> x[2]][p] = a
    BY <1>3, <1>4, NamedAddressAssumption DEF Pairs
  <2>4. Ledger!Decide(a)
    BY <1>2, <1>6, <2>1, <2>2, <2>3 DEF Ledger!Decide, VerdictMap
  <2> QED
    BY <1>3, <2>4
<1>7. CASE ~(cache'[a].q \in Final /\ cache[a].q \notin Final)
  <2>1. VerdictMap' = VerdictMap
    BY <1>3, <1>5, <1>7 DEF VerdictMap
  <2> QED
    BY <1>2, <2>1 DEF Ledger!ledgerVars, VerdictMap
<1> QED
  BY <1>6, <1>7

\* News about an address is what its verdict, or the want of one, entitles to.
LEMMA NotifyTells ==
  ASSUME AInv, NotifyStep
  PROVE  \/ \E p \in Pairs : Ledger!TellPending(p) \/ Ledger!TellVerdict(p)
         \/ UNCHANGED Ledger!ledgerVars
<1>1. IInv /\ AskedInv /\ TypeOK
  BY DEF AInv, IInv
<1>2. UNCHANGED <<asked, cache, cancelled, newsClosed>>
  BY Zenon DEF NotifyStep, UpdateNotifies, Notify, Send, verifyVars, newsVars
<1>3. PICK na \in outbox : Send(na)
  BY DEF NotifyStep, UpdateNotifies, Notify
<1>4. na.name \in Name /\ na.addr \in Addr /\ na.q = cache[na.addr].q
  BY <1>1, TypeOKParts DEF CacheData, DugAddresses, NamedAddresses, IInv, NewsInv
<1>5. PICK p \in Pairs : p = <<na.name, na.addr>>
  BY <1>4 DEF Pairs
<1>6. p \in asked /\ p[2] = na.addr /\ p[2] # NoAddr
  BY <1>1, <1>4, <1>5, NamedAddressAssumption DEF AskedInv, InQuestion
<1>7. /\ told \in [Pairs -> Quality \cup {Unknown}]
      /\ told[p] <= na.q /\ told[p] \in Quality \cup {Unknown}
      /\ told[p] \in Final => told[p] = na.q
      /\ na.q \in Quality
  <2>1. na.q \in Quality
    BY <1>1, TypeOKParts DEF CacheData, DugAddresses, NamedAddresses, QualifiedAddress
  <2> QED
    BY <1>1, <1>4, <1>5, <2>1, ToldTyped DEF IInv, NewsInv
<1>8. CASE told' = told
  BY <1>2, <1>8 DEF Ledger!ledgerVars
<1>9. CASE told' # told
  <2>1. ~newsClosed /\ told' = [told EXCEPT ![p] = na.q]
    BY <1>3, <1>5, <1>9 DEF Send, newsVars
  <2>2. told[p] # na.q
    BY <1>7, <1>9, <2>1
  <2>3. told[p] \notin Final
    BY <1>7, <2>2
  <2>4. CASE na.q \in Final
    <3>1. VerdictMap[p[2]] = na.q
      BY <1>4, <1>6, <2>4 DEF VerdictMap
    <3>2. VerdictMap[p[2]] # Unknown
      BY <2>4, <3>1 DEF Final, Unknown, Invalid, Verified
    <3>3. Ledger!TellVerdict(p)
      BY <1>2, <1>6, <2>1, <2>3, <3>1, <3>2 DEF Ledger!TellVerdict, VerdictMap
    <3> QED
      BY <3>3
  <2>5. CASE na.q \notin Final
    <3>1. na.q \in {Unverified, Verifying} /\ na.q > told[p]
      BY <1>7, <2>2, <2>5
      DEF Quality, Final, Unknown, Unverified, Verifying, Invalid, Verified
    <3>2. Ledger!TellPending(p)
      BY <1>2, <1>6, <2>1, <2>3, <3>1 DEF Ledger!TellPending
    <3> QED
      BY <3>2
  <2> QED
    BY <2>4, <2>5
<1> QED
  BY <1>8, <1>9

LEMMA PassOnTells ==
  ASSUME AInv, PassOn
  PROVE  (\E p \in Pairs : Ledger!TellPending(p)) \/ UNCHANGED Ledger!ledgerVars
<1>1. IInv /\ AskedInv /\ TypeOK /\ pc[Main] = "pass" /\ Send(item[Main])
  BY DEF AInv, IInv, PassOn, At
<1>2. UNCHANGED <<asked, cache, cancelled, newsClosed>>
  BY Zenon DEF PassOn, Send, cacheVars, newsVars
<1>3. item[Main].name \in Name /\ item[Main].addr = NoAddr /\ item[Main].q = Unverified
  BY <1>1, TypeOKParts DEF IInv, EntryInv, VerifyData, NamedAddresses
<1>4. PICK p \in Pairs : p = <<item[Main].name, NoAddr>>
  BY <1>3 DEF Pairs
<1>5. p \in asked
  BY <1>1, <1>3, <1>4, ThreadFacts DEF AskedInv, InQuestion
<1>6. told \in [Pairs -> Quality \cup {Unknown}] /\ told[p] \in {Unknown, Unverified}
  BY <1>1, <1>3, <1>4, ToldTyped DEF IInv, NewsInv
<1>7. CASE told' = told
  BY <1>2, <1>7 DEF Ledger!ledgerVars
<1>8. CASE told' # told
  <2>1. ~newsClosed /\ told' = [told EXCEPT ![p] = Unverified]
    BY <1>1, <1>3, <1>4, <1>8 DEF Send, newsVars
  <2>2. told[p] # Unverified
    BY <1>6, <1>8, <2>1
  <2>3. told[p] \notin Final /\ Unverified > told[p]
    BY <1>6, <2>2 DEF Final, Unknown, Unverified, Invalid, Verified
  <2>4. Ledger!TellPending(p)
    BY <1>2, <1>5, <2>1, <2>3 DEF Ledger!TellPending
  <2> QED
    BY <2>4
<1> QED
  BY <1>7, <1>8

\* The news channel is closed when there is nothing left to tell: no ping is anywhere on
\* its way and nobody holds the mutex, so nobody has been forgotten means that everybody
\* was answered.
LEMMA CloseIsDue ==
  ASSUME AInv, CloseAndReturn
  PROVE  Ledger!Close
<1>1. IInv /\ TypeOK /\ MutexInv /\ EndInv /\ RegisteredInv /\ pc[Main] = "close" /\ ~newsClosed
  BY DEF AInv, IInv, EndInv, CloseAndReturn, At
<1>2. newsClosed' = TRUE /\ UNCHANGED <<asked, told, cache, cancelled>>
  BY DEF CloseAndReturn, CloseNews, runtimeVars, cacheVars
<1>3. ASSUME ~cancelled, NEW p \in asked PROVE Answered(p)
  <2>1. Remembered(p) /\ PingedInv
    BY <1>3 DEF AInv, AnswersInv
  <2>2. p \in Pairs
    BY <1>1, TypeOKParts DEF VerifyData
  <2>3. /\ pc[Slurper] = "exited" /\ courtTV = << >> /\ queue = << >>
        /\ \A w \in Workers : worker[w] = NoJob
    BY <1>1, <1>3 DEF EndInv, PoolDrained
  <2>4. outbox = {}
    BY <1>1, <2>3, ThreadFacts, TypeOKParts DEF MutexInv, VerifyData
  <2>5. \A a : ~BeingPinged(a)
    BY <1>1, <2>3 DEF BeingPinged, AboutToPing, HoldsVerdict
  <2>6. \A a \in Addr : cache[a].q \notin {Unverified, Verifying}
    BY <2>1, <2>5, SomePing DEF PingedInv
  <2>7. ~(p[2] # NoAddr /\ p[1] \in cache[p[2]].consumers /\ cache[p[2]].q \notin Final)
    <3> SUFFICES ASSUME p[2] # NoAddr, p[1] \in cache[p[2]].consumers, cache[p[2]].q \notin Final
                 PROVE  FALSE
      OBVIOUS
    <3>1. p[2] \in Addr /\ cache[p[2]].q # Unknown
      BY <1>1, <2>2, PairParts DEF RegisteredInv
    <3>2. cache[p[2]].q \in Quality \cup {Unknown}
      BY <1>1, <3>1, TypeOKParts DEF CacheData, Entry
    <3> QED
      BY <2>6, <3>1, <3>2 DEF Quality, Final, Unverified, Verifying, Invalid, Verified
  <2> QED
    BY <1>1, <2>1, <2>4, <2>7 DEF Remembered
<1>4. ASSUME NEW p \in asked, Answered(p) PROVE Ledger!Answered(p)
  <2>1. p \in Pairs
    BY <1>1, TypeOKParts DEF VerifyData
  <2> QED
    BY <1>4, <2>1 DEF Answered, Ledger!Answered
<1>5. UNCHANGED VerdictMap
  BY <1>2 DEF VerdictMap
<1> QED
  BY <1>1, <1>2, <1>3, <1>4, <1>5 DEF Ledger!Close, VerdictMap

\* Every other step changes nothing that the ledger knows of.
LEMMA OthersStutter ==
  ASSUME [Next]_vars, ~Receive, ~CacheStep, ~NotifyStep, ~PassOn, ~CancelContext,
         ~CloseAndReturn
  PROVE  UNCHANGED Ledger!ledgerVars
<1>1. asked' = asked /\ cancelled' = cancelled /\ cache' = cache
  BY AskedGrows, CancellationStep, OnlyDecisions
<1>2. UNCHANGED <<told, newsClosed>>
  BY StepGroups, NewsFrame DEF newsVars, ReadNews, TakeNews
<1>3. UNCHANGED VerdictMap
  BY <1>1 DEF VerdictMap
<1> QED
  BY <1>1, <1>2, <1>3 DEF Ledger!ledgerVars, VerdictMap

LEMMA LedgerStep == AInv /\ [Next]_vars => [Ledger!Next]_(Ledger!ledgerVars)
<1> SUFFICES ASSUME AInv, [Next]_vars PROVE Ledger!Next \/ UNCHANGED Ledger!ledgerVars
  OBVIOUS
<1>1. TypeOK /\ TypeOK'
  BY TypeOKStep DEF AInv, IInv
<1>2. CASE CancelContext
  <2>1. UNCHANGED VerdictMap
    BY <1>2 DEF CancelContext, cacheVars, VerdictMap
  <2>2. Ledger!Abort
    BY <1>1, <1>2, <2>1, TypeOKParts
    DEF CancelContext, Cancel, cacheVars, newsVars, verifyVars, Ledger!Abort, VerdictMap, Flags
  <2> QED
    BY <1>1, <2>2, LedgerActions
<1>3. CASE Receive
  BY <1>1, <1>3, ReceiveAsks, LedgerActions
<1>4. CASE CacheStep
  BY <1>1, <1>4, UpdateGivesVerdict, LedgerActions DEF CacheStep
<1>5. CASE NotifyStep
  BY <1>1, <1>5, NotifyTells, LedgerActions
<1>6. CASE PassOn
  BY <1>1, <1>6, PassOnTells, LedgerActions
<1>7. CASE CloseAndReturn
  BY <1>1, <1>7, CloseIsDue, LedgerActions
<1> QED
  BY <1>2, <1>3, <1>4, <1>5, <1>6, <1>7, OthersStutter

\* Verify implements the verification ledger, whoever cancels and whenever: every address
\* gets at most one verdict and only if somebody asked, names are told about addresses in
\* rising quality up to that verdict, nothing is told once the news channel is closed, and
\* it is closed only when everybody was answered or after a cancellation.
THEOREM ImplementsLedger == Spec => KeepsLedger
<1>1. Init => Ledger!Init
  BY LedgerInit
<1>2. AInv /\ [Next]_vars => [Ledger!Next]_(Ledger!ledgerVars)
  BY LedgerStep
<1> QED
  BY <1>1, <1>2, AInvariance, PTL DEF Spec, KeepsLedger, Ledger!Spec

=============================================================================
