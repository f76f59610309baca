--------------------------- MODULE VerifierProofs ---------------------------
(***************************************************************************)
(* Theorems about Verifier for all sets of names, addresses and workers, all *)
(* channel capacities and all numbers of inputs.                             *)
(***************************************************************************)
EXTENDS Verifier, TLAPS

-----------------------------------------------------------------------------
(* Lemmas about the values.                                                  *)

\* Requalifying a dug address keeps its name and address and sets its quality
\* (NamedAddressValue.WithNewQuality).
LEMMA Requalified ==
  ASSUME NEW na \in DugAddresses, NEW q \in Quality, NEW err \in BOOLEAN
  PROVE  /\ WithNewQuality(na, q, err) \in DugAddresses
         /\ WithNewQuality(na, q, err).name = na.name
         /\ WithNewQuality(na, q, err).addr = na.addr
         /\ WithNewQuality(na, q, err).q = q
<1>1. na \in QualifiedAddress /\ na.name \in Name /\ na.addr \in Addr
  BY DEF DugAddresses, NamedAddresses
<1>2. na.name # NoName
  BY <1>1, NamedAddressAssumption
<1>3. WithNewQuality(na, q, err) = [na EXCEPT !.q = q, !.err = err]
  BY <1>2 DEF WithNewQuality, NamedWithNewQuality
<1> QED
  BY <1>1, <1>3 DEF DugAddresses, NamedAddresses, QualifiedAddress

\* What is fed into Verify is well-formed.
LEMMA InputsTyped ==
  \A na \in Inputs : /\ na \in NamedAddresses
                     /\ na.addr = NoAddr \/ na \in DugAddresses
                     /\ na.q \in {Unverified, Verifying}
                     /\ na.addr = NoAddr => na.q = Unverified
<1> SUFFICES ASSUME NEW na \in Inputs
             PROVE  /\ na \in NamedAddresses
                    /\ na.addr = NoAddr \/ na \in DugAddresses
                    /\ na.q \in {Unverified, Verifying}
                    /\ na.addr = NoAddr => na.q = Unverified
  OBVIOUS
<1>1. /\ EntryQuality \subseteq {Unverified, Verifying}
      /\ Unverified \in Quality /\ Verifying \in Quality
  BY VerifierAssumption DEF Quality, Unverified, Verifying, Verified
<1>2. CASE \E n \in Name : na = NA(n, NoAddr, Unverified)
  BY <1>1, <1>2 DEF NA, NamedAddresses, QualifiedAddress
<1>3. CASE \E n \in Name, a \in Addr, q \in EntryQuality : na = NA(n, a, q)
  BY <1>1, <1>3, NamedAddressAssumption
  DEF NA, NamedAddresses, DugAddresses, QualifiedAddress
<1> QED
  BY <1>2, <1>3 DEF Inputs

LEMMA FinalQuality == Final \subseteq Quality /\ Unverified \in Quality /\ Verifying \in Quality
BY DEF Final, Quality, Unverified, Verifying, Invalid, Verified

-----------------------------------------------------------------------------
(* Type correctness, part by part of the state.                              *)

Flags == /\ cancelled \in BOOLEAN /\ panicked \in BOOLEAN
         /\ courtClosed \in BOOLEAN /\ stopping \in BOOLEAN
         /\ fresh \in BOOLEAN /\ newsClosed \in BOOLEAN /\ inClosed \in BOOLEAN

PingerData == /\ courtTV \in Seq(DugAddresses) /\ Len(courtTV) <= ChanSize
              /\ queue \in Seq(DugAddresses)
              /\ worker \in [Workers -> DugAddresses \cup {NoJob}]

CacheData == /\ cache \in [Addr -> Entry]
             /\ outbox \in SUBSET DugAddresses

NewsData == /\ news \in Seq(NamedAddresses) /\ Len(news) <= ChanSize
            /\ told \in [Pairs -> Quality \cup {Unknown}]

VerifyData ==
  /\ mu \in Thread \cup {Free}
  /\ pc \in [Thread -> MainPC \cup SlurperPC]
  /\ pc[Main] \in MainPC /\ pc[Slurper] \in SlurperPC
  /\ item \in [Thread -> NamedAddresses \cup {NoJob}]
  /\ pc[Main] = "pass" => item[Main] \in NamedAddresses
  /\ \A t \in Thread : pc[t] \in {"update", "tell", "announce", "submit"}
                         => item[t] \in DugAddresses
  /\ fed \in 0..MaxIn
  /\ asked \subseteq Pairs

LEMMA TypeOKParts ==
  TypeOK <=> Flags /\ PingerData /\ CacheData /\ NewsData /\ VerifyData
BY Zenon DEF TypeOK, Flags, PingerData, CacheData, NewsData, VerifyData,
   RuntimeTypeOK, PingerTypeOK, CacheTypeOK, NewsTypeOK

LEMMA TypeOKInit == Init => TypeOK
<1> SUFFICES ASSUME Init PROVE TypeOK
  OBVIOUS
<1> USE DEF Init
<1>1. Flags
  BY Zenon DEF RuntimeInit, PingerInit, CacheInit, NewsInit, Flags
<1>2. PingerData
  BY RuntimeAssumption DEF PingerInit, PingerData
<1>3. CacheData
  BY DEF CacheInit, CacheData, Entry
<1>4. NewsData
  BY RuntimeAssumption DEF NewsInit, NewsData
<1>5. VerifyData
  BY VerifierAssumption DEF VerifyData, CacheInit, Thread, MainPC, SlurperPC
<1> QED
  BY <1>1, <1>2, <1>3, <1>4, <1>5, TypeOKParts

\* The steps of Verify, grouped by the part of the state they change.
PingerStep == \/ AnnounceItem \/ SubmitItem \/ StopPinger \/ PingerStopped \/ Slurp
              \/ \E w \in Workers : PoolStep(w)
CacheStep == \E t \in Thread : UpdateDecides(t)
NotifyStep == \E t \in Thread : UpdateNotifies(t)
LeaveCacheStep == \E t \in Thread : UpdateBailsOut(t) \/ UpdateReturns(t)
ControlStep == \/ Receive \/ LeaveLoop \/ PassOnCancelled \/ AnnounceCancelled
               \/ Join \/ SlurperDone \/ SlurperExits
EnvironmentStep == CloseInput \/ CancelContext

LEMMA StepGroups ==
  [Next]_vars => \/ PingerStep \/ CacheStep \/ NotifyStep \/ LeaveCacheStep
                 \/ ControlStep \/ EnvironmentStep
                 \/ PassOn \/ CloseAndReturn \/ ReadNews \/ UNCHANGED vars
BY Zenon DEF Next, MainStep, SlurperStep, Update, Finished, Thread, PingerStep, CacheStep,
   NotifyStep, LeaveCacheStep, ControlStep, EnvironmentStep

\* What each group leaves alone.
LEMMA PingerFrame ==
  CacheStep \/ NotifyStep \/ LeaveCacheStep \/ ControlStep \/ EnvironmentStep
    \/ PassOn \/ CloseAndReturn \/ ReadNews \/ UNCHANGED vars => UNCHANGED pingerVars
BY Zenon DEF CacheStep, NotifyStep, LeaveCacheStep, ControlStep, EnvironmentStep,
   UpdateDecides, UpdateNotifies, UpdateBailsOut, UpdateReturns, Receive, LeaveLoop,
   PassOnCancelled, AnnounceCancelled, Join, SlurperDone, SlurperExits, CloseInput,
   CancelContext, PassOn, CloseAndReturn, ReadNews, vars

LEMMA CacheFrame ==
  PingerStep \/ ControlStep \/ EnvironmentStep
    \/ PassOn \/ CloseAndReturn \/ ReadNews \/ UNCHANGED vars => UNCHANGED cacheVars
BY Zenon DEF PingerStep, AnnounceItem, SubmitItem, StopPinger, PingerStopped, Slurp, PoolStep,
   ControlStep, Receive, LeaveLoop, PassOnCancelled, AnnounceCancelled, Join, SlurperDone,
   SlurperExits, EnvironmentStep, CloseInput, CancelContext, PassOn, CloseAndReturn, ReadNews,
   vars

LEMMA NewsFrame ==
  PingerStep \/ CacheStep \/ LeaveCacheStep \/ ControlStep \/ EnvironmentStep
    \/ UNCHANGED vars => UNCHANGED newsVars
BY Zenon DEF PingerStep, AnnounceItem, SubmitItem, StopPinger, PingerStopped, Slurp, PoolStep,
   CacheStep, UpdateDecides, LeaveCacheStep, UpdateBailsOut, UpdateReturns,
   ControlStep, Receive, LeaveLoop, PassOnCancelled, AnnounceCancelled, Join, SlurperDone,
   SlurperExits, EnvironmentStep, CloseInput, CancelContext, vars

LEMMA FlagsStep == Flags /\ [Next]_vars => Flags'
<1> SUFFICES ASSUME Flags, [Next]_vars PROVE Flags'
  OBVIOUS
<1> USE DEF Flags
<1>1. CASE PingerStep
  BY <1>1, Zenon DEF PingerStep, AnnounceItem, SubmitItem, StopPinger, PingerStopped, Slurp,
     PoolStep, WorkerStep, Announce, Submit, StopPool, CloseCourt, TakeVerdict,
     Start, PingFails, PingOver, PingEnds, Deliver, Drop, runtimeVars, cacheVars, newsVars, verifyVars
<1>2. CASE CacheStep
  BY <1>2, Zenon DEF CacheStep, UpdateDecides, Decide, FirstSight, Stale, Raise,
     runtimeVars, pingerVars, newsVars
<1>3. CASE NotifyStep
  BY <1>3, Zenon DEF NotifyStep, UpdateNotifies, Notify, Send, pingerVars, verifyVars, newsVars
<1>4. CASE LeaveCacheStep
  BY <1>4, Zenon DEF LeaveCacheStep, UpdateBailsOut, UpdateReturns, BailOut, Return,
     runtimeVars, pingerVars, newsVars, verifyVars
<1>5. CASE ControlStep
  BY <1>5, Zenon DEF ControlStep, Receive, LeaveLoop, PassOnCancelled, AnnounceCancelled,
     Join, SlurperDone, SlurperExits, runtimeVars, pingerVars, cacheVars, newsVars
<1>6. CASE EnvironmentStep
  BY <1>6, Zenon DEF EnvironmentStep, CloseInput, CancelContext, Cancel,
     runtimeVars, pingerVars, cacheVars, newsVars, verifyVars
<1>7. CASE PassOn
  BY <1>7, Zenon DEF PassOn, Send, pingerVars, cacheVars, newsVars
<1>8. CASE CloseAndReturn
  BY <1>8, Zenon DEF CloseAndReturn, CloseNews, runtimeVars, pingerVars, cacheVars
<1>9. CASE ReadNews
  BY <1>9, Zenon DEF ReadNews, TakeNews, runtimeVars, pingerVars, cacheVars, verifyVars
<1>10. CASE UNCHANGED vars
  BY <1>10, Zenon DEF vars, runtimeVars, pingerVars, cacheVars, newsVars, verifyVars
<1> QED
  BY <1>1, <1>2, <1>3, <1>4, <1>5, <1>6, <1>7, <1>8, <1>9, <1>10, StepGroups

\* A worker turns a task into a verdict of the same type.
LEMMA WorkerTyped ==
  ASSUME PingerData, NEW w \in Workers, WorkerStep(w)
  PROVE  PingerData'
<1> USE DEF PingerData
<1>1. CASE Start(w)
  <2>1. Head(queue) \in DugAddresses /\ Tail(queue) \in Seq(DugAddresses)
    BY <1>1 DEF Start
  <2> QED
    BY <1>1, <2>1 DEF Start
<1>2. CASE PingFails(w)
  <2>1. worker[w] \in DugAddresses
    BY <1>2 DEF PingFails, Pinging
  <2>2. WithNewQuality(worker[w], Invalid, TRUE) \in DugAddresses
    BY <2>1, FinalQuality, Requalified DEF Final
  <2> QED
    BY <1>2, <2>2 DEF PingFails
<1>3. CASE PingOver(w)
  <2>1. worker[w] \in DugAddresses
    BY <1>3 DEF PingOver, PingEnds, Pinging
  <2>2. PICK received \in 0..Count :
          worker' = [worker EXCEPT ![w] = WithNewQuality(@, Judge(received),
                                                         Judge(received) = Invalid)]
    BY <1>3 DEF PingOver, PingEnds
  <2>3. Judge(received) \in Final /\ (Judge(received) = Invalid) \in BOOLEAN
    BY DEF Judge, Final
  <2>4. WithNewQuality(worker[w], Judge(received), Judge(received) = Invalid) \in DugAddresses
    BY <2>1, <2>3, FinalQuality, Requalified
  <2> QED
    BY <1>3, <2>2, <2>4 DEF PingOver, PingEnds
<1>4. CASE Deliver(w)
  <2>1. worker[w] \in DugAddresses
    BY <1>4 DEF Deliver, Judged
  <2>2. courtTV' \in Seq(DugAddresses) /\ Len(courtTV') = Len(courtTV) + 1
    BY <1>4, <2>1 DEF Deliver
  <2>3. Len(courtTV') <= ChanSize
    BY <1>4, <2>2, RuntimeAssumption DEF Deliver, HasRoom
  <2> QED
    BY <1>4, <2>2, <2>3 DEF Deliver
<1>5. CASE Drop(w)
  BY <1>5 DEF Drop
<1> QED
  BY <1>1, <1>2, <1>3, <1>4, <1>5 DEF WorkerStep

LEMMA PingerDataStep ==
  PingerData /\ VerifyData /\ [Next]_vars => PingerData'
<1> SUFFICES ASSUME PingerData, VerifyData, [Next]_vars PROVE PingerData'
  OBVIOUS
<1>1. CASE AnnounceItem
  <2> DEFINE verdict == WithNewQuality(item[Main], Verifying, FALSE)
  <2>1. item[Main] \in DugAddresses
    BY <1>1 DEF AnnounceItem, At, VerifyData, Thread
  <2>2. verdict \in DugAddresses
    BY <2>1, FinalQuality, Requalified
  <2>3. Len(courtTV) < ChanSize /\ courtTV' = Append(courtTV, verdict)
        /\ UNCHANGED <<queue, worker>>
    BY <1>1 DEF AnnounceItem, Announce, HasRoom
  <2> HIDE DEF verdict
  <2>4. courtTV' \in Seq(DugAddresses) /\ Len(courtTV') = Len(courtTV) + 1
    BY <2>2, <2>3 DEF PingerData
  <2>5. Len(courtTV') <= ChanSize
    BY <2>3, <2>4, RuntimeAssumption DEF PingerData
  <2> QED
    BY <2>3, <2>4, <2>5 DEF PingerData
<1>2. CASE SubmitItem
  <2>1. item[Main] \in DugAddresses
    BY <1>2 DEF SubmitItem, At, VerifyData, Thread
  <2> QED
    BY <1>2, <2>1 DEF SubmitItem, Submit, PingerData
<1>3. CASE StopPinger \/ PingerStopped
  BY <1>3 DEF StopPinger, StopPool, PingerStopped, CloseCourt, PingerData
<1>4. CASE Slurp
  <2>1. courtTV' = Tail(courtTV) /\ courtTV # << >> /\ UNCHANGED <<queue, worker>>
    BY <1>4 DEF Slurp, TakeVerdict
  <2>2. courtTV' \in Seq(DugAddresses) /\ Len(courtTV') = Len(courtTV) - 1
    BY <2>1 DEF PingerData
  <2>3. Len(courtTV') <= ChanSize
    BY <2>2, RuntimeAssumption DEF PingerData
  <2> QED
    BY <2>1, <2>2, <2>3 DEF PingerData
<1>5. CASE \E w \in Workers : PoolStep(w)
  BY <1>5, WorkerTyped DEF PoolStep
<1>6. CASE UNCHANGED pingerVars
  BY <1>6 DEF pingerVars, PingerData
<1> QED
  BY <1>1, <1>2, <1>3, <1>4, <1>5, <1>6, StepGroups, PingerFrame DEF PingerStep

\* The decision of Update keeps the cache well-formed.
LEMMA DecideTyped ==
  ASSUME CacheData, NEW t, NEW na \in DugAddresses, Decide(t, na)
  PROVE  CacheData'
<1> USE DEF CacheData
<1> DEFINE e == cache[na.addr]
<1>1. na.addr \in Addr /\ na.name \in Name /\ na.q \in Quality
  BY DEF DugAddresses, NamedAddresses, QualifiedAddress
<1>2. e \in Entry
  BY <1>1
<1>3. \A n \in Name : [na EXCEPT !.name = n] \in DugAddresses
  BY DEF DugAddresses, NamedAddresses, QualifiedAddress
<1>4. CASE FirstSight(t, na)
  BY <1>1, <1>4 DEF FirstSight, Entry
<1>5. CASE Stale(t, na)
  <2>1. e.q \in Quality /\ e.err \in BOOLEAN
    BY <1>2, <1>5 DEF Stale, Entry
  <2>2. WithNewQuality(na, e.q, e.err) \in DugAddresses
    BY <2>1, Requalified
  <2>3. outbox' \subseteq {WithNewQuality(na, e.q, e.err)}
    BY <1>5 DEF Stale
  <2>4. cache' = [cache EXCEPT ![na.addr].consumers = @ \cup {na.name}]
    BY <1>5 DEF Stale
  <2>5. cache' \in [Addr -> Entry]
    BY <1>1, <1>2, <2>4 DEF Entry
  <2> QED
    BY <2>2, <2>3, <2>5
<1>6. CASE Raise(t, na)
  <2> DEFINE waiting == IF na.q \in Final THEN e.consumers ELSE e.consumers \cup {na.name}
             remaining == IF na.q \in Final THEN {} ELSE waiting
  <2>1. /\ cache' = [cache EXCEPT ![na.addr].q = na.q, ![na.addr].consumers = remaining]
        /\ outbox' = {[na EXCEPT !.name = n] : n \in waiting}
    BY <1>6 DEF Raise
  <2>2. waiting \subseteq Name /\ remaining \subseteq Name
    BY <1>1, <1>2 DEF Entry
  <2>3. outbox' \subseteq DugAddresses
    BY <1>3, <2>1, <2>2
  <2> HIDE DEF waiting, remaining
  <2>4. cache' \in [Addr -> Entry]
    BY <1>1, <1>2, <2>1, <2>2 DEF Entry
  <2> QED
    BY <2>3, <2>4
<1> QED
  BY <1>4, <1>5, <1>6 DEF Decide

LEMMA CacheDataStep ==
  CacheData /\ VerifyData /\ [Next]_vars => CacheData'
<1> SUFFICES ASSUME CacheData, VerifyData, [Next]_vars PROVE CacheData'
  OBVIOUS
<1>1. CASE CacheStep
  <2>1. PICK t \in Thread : UpdateDecides(t)
    BY <1>1 DEF CacheStep
  <2>2. item[t] \in DugAddresses
    BY <2>1 DEF UpdateDecides, At, VerifyData
  <2> QED
    BY <2>1, <2>2, DecideTyped DEF UpdateDecides
<1>2. CASE NotifyStep
  BY <1>2 DEF NotifyStep, UpdateNotifies, Notify, CacheData
<1>3. CASE LeaveCacheStep
  BY <1>3 DEF LeaveCacheStep, UpdateBailsOut, UpdateReturns, BailOut, Return, CacheData
<1>4. CASE UNCHANGED cacheVars
  BY <1>4 DEF cacheVars, CacheData
<1> QED
  BY <1>1, <1>2, <1>3, <1>4, StepGroups, CacheFrame

\* A send keeps the news channel and the history of the news well-formed.
LEMMA SendTyped ==
  ASSUME NewsData, NEW na \in NamedAddresses, Send(na)
  PROVE  NewsData'
<1>1. na.q \in Quality /\ <<na.name, na.addr>> \in Pairs
  BY DEF NamedAddresses, QualifiedAddress, Pairs
<1>2. CASE /\ HasRoom(news) /\ news' = Append(news, na)
           /\ told' = [told EXCEPT ![<<na.name, na.addr>>] = na.q]
  <2>1. Len(news') = Len(news) + 1 /\ news' \in Seq(NamedAddresses)
    BY <1>2 DEF NewsData
  <2>2. Len(news') <= ChanSize
    BY <2>1, <1>2, RuntimeAssumption DEF NewsData, HasRoom
  <2> QED
    BY <1>1, <1>2, <2>1, <2>2 DEF NewsData
<1>3. CASE UNCHANGED newsVars
  BY <1>3 DEF NewsData, newsVars
<1> QED
  BY <1>2, <1>3 DEF Send

LEMMA NewsDataStep ==
  NewsData /\ CacheData /\ VerifyData /\ [Next]_vars => NewsData'
<1> SUFFICES ASSUME NewsData, CacheData, VerifyData, [Next]_vars PROVE NewsData'
  OBVIOUS
<1>1. CASE NotifyStep
  <2>1. PICK na \in outbox : Send(na)
    BY <1>1 DEF NotifyStep, UpdateNotifies, Notify
  <2>2. na \in NamedAddresses
    BY <2>1 DEF CacheData, DugAddresses
  <2> QED
    BY <2>1, <2>2, SendTyped
<1>2. CASE PassOn
  <2>1. item[Main] \in NamedAddresses /\ Send(item[Main])
    BY <1>2 DEF PassOn, At, VerifyData
  <2> QED
    BY <2>1, SendTyped
<1>3. CASE CloseAndReturn
  BY <1>3 DEF CloseAndReturn, CloseNews, NewsData
<1>4. CASE ReadNews
  <2>1. news' = Tail(news) /\ news # << >> /\ told' = told
    BY <1>4 DEF ReadNews, TakeNews
  <2>2. news' \in Seq(NamedAddresses) /\ Len(news') = Len(news) - 1
    BY <2>1 DEF NewsData
  <2>3. Len(news') <= ChanSize
    BY <2>2, RuntimeAssumption DEF NewsData
  <2> QED
    BY <2>1, <2>2, <2>3 DEF NewsData
<1>5. CASE UNCHANGED newsVars
  BY <1>5 DEF newsVars, NewsData
<1> QED
  BY <1>1, <1>2, <1>3, <1>4, <1>5, StepGroups, NewsFrame

LEMMA VerifyDataStep ==
  VerifyData /\ PingerData /\ CacheData /\ [Next]_vars => VerifyData'
<1> SUFFICES ASSUME VerifyData, PingerData, CacheData, [Next]_vars PROVE VerifyData'
  OBVIOUS
<1> USE VerifierAssumption DEF VerifyData, Thread, MainPC, SlurperPC
<1>1. CASE AnnounceItem
  <2>1. item[Main] \in DugAddresses /\ pc[Main] = "announce"
    BY <1>1 DEF AnnounceItem, At
  <2> DEFINE verdict == WithNewQuality(item[Main], Verifying, FALSE)
  <2>2. verdict \in DugAddresses /\ verdict \in NamedAddresses
    BY <2>1, FinalQuality, Requalified DEF DugAddresses
  <2>3. /\ item' = [item EXCEPT ![Main] = verdict] /\ pc' = [pc EXCEPT ![Main] = "submit"]
        /\ UNCHANGED <<mu, fed, asked>>
    BY <1>1 DEF AnnounceItem, Goto, cacheVars
  <2> HIDE DEF verdict
  <2> QED
    BY <2>2, <2>3
<1>2. CASE SubmitItem \/ AnnounceCancelled
  BY <1>2 DEF SubmitItem, AnnounceCancelled, At, Continue, Goto, cacheVars
<1>3. CASE StopPinger \/ PingerStopped \/ LeaveLoop \/ Join \/ SlurperDone \/ CloseAndReturn
  BY <1>3 DEF StopPinger, PingerStopped, LeaveLoop, Join, SlurperDone, CloseAndReturn,
     At, Goto, cacheVars
<1>4. CASE Slurp
  <2>1. Head(courtTV) \in DugAddresses /\ Head(courtTV) \in NamedAddresses
    BY <1>4 DEF Slurp, TakeVerdict, PingerData, DugAddresses
  <2> QED
    BY <1>4, <2>1 DEF Slurp, At, Goto, cacheVars
<1>5. CASE \E w \in Workers : PoolStep(w)
  BY <1>5 DEF PoolStep, cacheVars, verifyVars
<1>6. CASE CacheStep
  <2>1. PICK t \in Thread : UpdateDecides(t)
    BY <1>6 DEF CacheStep
  <2>2. mu' = t
    BY <2>1 DEF UpdateDecides, Decide, FirstSight, Stale, Raise, Lock
  <2> QED
    BY <2>1, <2>2 DEF UpdateDecides, At, Goto
<1>7. CASE NotifyStep
  BY <1>7 DEF NotifyStep, UpdateNotifies, Notify, verifyVars
<1>8. CASE LeaveCacheStep
  BY <1>8 DEF LeaveCacheStep, UpdateBailsOut, UpdateReturns, BailOut, Return, At, Goto,
     Continue, verifyVars
<1>9. CASE Receive
  <2>1. PICK na \in Inputs :
          /\ item' = [item EXCEPT ![Main] = na]
          /\ asked' = asked \cup {<<na.name, na.addr>>}
          /\ pc' = [pc EXCEPT ![Main] = IF na.addr = NoAddr THEN "pass" ELSE "update"]
    BY <1>9 DEF Receive, Goto
  <2>2. na \in NamedAddresses /\ (na.addr = NoAddr \/ na \in DugAddresses)
    BY InputsTyped
  <2>3. <<na.name, na.addr>> \in Pairs
    BY <2>2 DEF NamedAddresses, QualifiedAddress, Pairs
  <2>4. pc[Main] = "select" /\ fed' \in 0..MaxIn /\ UNCHANGED mu
    BY <1>9 DEF Receive, At, cacheVars
  <2> QED
    BY <2>1, <2>2, <2>3, <2>4
<1>10. CASE PassOnCancelled \/ PassOn
  BY <1>10 DEF PassOnCancelled, PassOn, At, Goto, Continue, cacheVars
<1>11. CASE SlurperExits
  BY <1>11 DEF SlurperExits, At, Goto, cacheVars
<1>12. CASE EnvironmentStep \/ ReadNews
  BY <1>12 DEF EnvironmentStep, CloseInput, CancelContext, ReadNews, cacheVars, verifyVars
<1>13. CASE UNCHANGED vars
  BY <1>13 DEF vars, cacheVars, verifyVars
<1> QED
  BY <1>1, <1>2, <1>3, <1>4, <1>5, <1>6, <1>7, <1>8, <1>9, <1>10, <1>11, <1>12, <1>13,
     StepGroups DEF PingerStep, ControlStep

LEMMA TypeOKStep == TypeOK /\ [Next]_vars => TypeOK'
<1> SUFFICES ASSUME TypeOK, [Next]_vars PROVE TypeOK'
  OBVIOUS
<1>1. Flags /\ PingerData /\ CacheData /\ NewsData /\ VerifyData
  BY TypeOKParts
<1>2. Flags' /\ PingerData' /\ CacheData' /\ NewsData' /\ VerifyData'
  BY <1>1, FlagsStep, PingerDataStep, CacheDataStep, NewsDataStep, VerifyDataStep
<1> QED
  BY <1>2 DEF TypeOK, Flags, PingerData, CacheData, NewsData, VerifyData,
     RuntimeTypeOK, PingerTypeOK, CacheTypeOK, NewsTypeOK

\* In every state the channels are within their capacity, only named addresses
\* travel to the pinger and back (so that the slurper's type assertion holds), and
\* no name without an address gets into the cache.
THEOREM TypeCorrect == Spec => []TypeOK
<1>1. Init => TypeOK
  BY TypeOKInit
<1>2. TypeOK /\ [Next]_vars => TypeOK'
  BY TypeOKStep
<1> QED
  BY <1>1, <1>2, PTL DEF Spec

-----------------------------------------------------------------------------
(* The inductive invariant.                                                  *)

\* The goroutine in the middle of Update is the one that holds the mutex; only it
\* has something to send, and only the main goroutine sees a new address.
MutexInv ==
  /\ \A t \in Thread : pc[t] = "tell" <=> mu = t
  /\ outbox # {} => mu # Free
  /\ fresh => mu = Main

\* The main goroutine never holds a verdict: new addresses enter unverified.
EntryInv ==
  /\ pc[Main] = "pass" => item[Main].addr = NoAddr /\ item[Main].q = Unverified
  /\ pc[Main] = "update" => item[Main].q \in {Unverified, Verifying}

\* Nothing comes from the pinger about an address the cache does not know.
KnownInv ==
  /\ \A i \in DOMAIN courtTV : cache[courtTV[i].addr].q # Unknown
  /\ pc[Slurper] = "update" => cache[item[Slurper].addr].q # Unknown

\* What is to be sent is what the cache holds, and what was sent is never better
\* than what the cache holds; a verdict that was sent is the one in the cache.
NewsInv ==
  /\ \A na \in outbox : na.q = cache[na.addr].q
  /\ \A n \in Name, a \in Addr :
       /\ told[<<n, a>>] <= cache[a].q
       /\ told[<<n, a>>] \in Final => told[<<n, a>>] = cache[a].q
  /\ \A n \in Name : told[<<n, NoAddr>>] \in {Unknown, Unverified}

IInv == TypeOK /\ MutexInv /\ EntryInv /\ KnownInv /\ PingedOnlyOnce /\ NewsInv

LEMMA IInvInit == Init => IInv
<1> SUFFICES ASSUME Init PROVE IInv
  OBVIOUS
<1> USE DEF Init
<1>1. TypeOK
  BY TypeOKInit
<1>2. MutexInv
  BY VerifierAssumption DEF CacheInit, MutexInv, Thread
<1>3. EntryInv
  BY DEF EntryInv, Thread
<1>4. KnownInv
  BY DEF PingerInit, KnownInv, Thread
<1>5. \A a \in Addr : PingsOf(a) = {}
  BY DEF PingerInit, PingsOf, AboutToPing, HoldsVerdict, Thread
<1>6. PingedOnlyOnce
  BY <1>5 DEF PingedOnlyOnce
<1>7. NewsInv
  BY DEF CacheInit, NewsInit, NewsInv, Pairs, Final, Invalid, Verified, Unknown
<1> QED
  BY <1>1, <1>2, <1>3, <1>4, <1>6, <1>7 DEF IInv

\* The decision of Update, seen from outside the cache.
LEMMA Decided ==
  ASSUME NEW t \in Thread, UpdateDecides(t)
  PROVE  /\ mu = Free /\ mu' = t
         /\ pc[t] = "update" /\ pc' = [pc EXCEPT ![t] = "tell"]
         /\ fresh' = TRUE => cache[item[t].addr].q = Unknown
         /\ fresh' \in BOOLEAN
         /\ UNCHANGED <<item, courtTV, queue, worker, told, cancelled>>
BY Zenon DEF UpdateDecides, At, Goto, Decide, FirstSight, Stale, Raise, Lock, pingerVars,
   newsVars, runtimeVars

LEMMA ThreadFacts ==
  TypeOK => /\ pc \in [Thread -> MainPC \cup SlurperPC]
            /\ item \in [Thread -> NamedAddresses \cup {NoJob}]
            /\ Main # Slurper /\ Free \notin Thread
            /\ Main \in Thread /\ Slurper \in Thread /\ Thread = {Main, Slurper}
BY VerifierAssumption, TypeOKParts DEF VerifyData, Thread

LEMMA MutexInvStep == TypeOK /\ MutexInv /\ KnownInv /\ [Next]_vars => MutexInv'
<1> SUFFICES ASSUME TypeOK, MutexInv, KnownInv, [Next]_vars PROVE MutexInv'
  OBVIOUS
<1> USE ThreadFacts DEF MutexInv
<1>1. CASE CacheStep
  <2>1. PICK t \in Thread : UpdateDecides(t)
    BY <1>1 DEF CacheStep
  <2>2. /\ mu = Free /\ mu' = t /\ pc[t] = "update" /\ pc' = [pc EXCEPT ![t] = "tell"]
        /\ fresh' = TRUE => cache[item[t].addr].q = Unknown
    BY <2>1, Decided
  <2>3. fresh' => t = Main
    BY <2>2 DEF KnownInv
  <2> QED
    BY <2>2, <2>3
<1>2. CASE NotifyStep
  BY <1>2 DEF NotifyStep, UpdateNotifies, Notify, verifyVars
<1>3. CASE LeaveCacheStep
  <2>1. PICK t \in Thread : UpdateBailsOut(t) \/ UpdateReturns(t)
    BY <1>3 DEF LeaveCacheStep
  <2>2. CASE UpdateBailsOut(t)
    BY <2>2 DEF UpdateBailsOut, BailOut, verifyVars
  <2>3. CASE UpdateReturns(t)
    <3>1. /\ pc[t] = "tell" /\ mu = t /\ outbox = {}
          /\ mu' = Free /\ outbox' = {} /\ fresh' = FALSE
      BY <2>3 DEF UpdateReturns, At, Return
    <3>2. pc' = [pc EXCEPT ![t] = "announce"] \/ pc' = [pc EXCEPT ![t] = "select"]
      BY <2>3 DEF UpdateReturns, Goto, Continue
    <3> QED
      BY <3>1, <3>2
  <2> QED
    BY <2>1, <2>2, <2>3
<1>4. CASE PingerStep
  <2>1. UNCHANGED cacheVars
    BY <1>4, CacheFrame
  <2>2. CASE AnnounceItem \/ SubmitItem \/ StopPinger \/ PingerStopped \/ Slurp
    BY <2>1, <2>2 DEF AnnounceItem, SubmitItem, StopPinger, PingerStopped, Slurp, At, Goto,
       Continue, cacheVars
  <2>3. CASE \E w \in Workers : PoolStep(w)
    BY <2>1, <2>3 DEF PoolStep, verifyVars, cacheVars
  <2> QED
    BY <1>4, <2>2, <2>3 DEF PingerStep
<1>5. CASE ControlStep \/ PassOn \/ CloseAndReturn
  <2>1. UNCHANGED cacheVars
    BY <1>5, CacheFrame
  <2>2. CASE Receive
    <3>1. pc[Main] = "select" /\ (pc' = [pc EXCEPT ![Main] = "pass"]
                                    \/ pc' = [pc EXCEPT ![Main] = "update"])
      BY <2>2 DEF Receive, At, Goto
    <3> QED
      BY <2>1, <3>1 DEF cacheVars
  <2>3. CASE LeaveLoop \/ PassOnCancelled \/ AnnounceCancelled \/ Join \/ SlurperDone
               \/ SlurperExits \/ PassOn \/ CloseAndReturn
    BY <2>1, <2>3 DEF LeaveLoop, PassOnCancelled, AnnounceCancelled, Join, SlurperDone,
       SlurperExits, PassOn, CloseAndReturn, At, Goto, Continue, cacheVars
  <2> QED
    BY <1>5, <2>2, <2>3 DEF ControlStep
<1>6. CASE EnvironmentStep \/ ReadNews \/ UNCHANGED vars
  BY <1>6 DEF EnvironmentStep, CloseInput, CancelContext, ReadNews, vars, cacheVars, verifyVars
<1> QED
  BY <1>1, <1>2, <1>3, <1>4, <1>5, <1>6, StepGroups

LEMMA EntryInvStep == TypeOK /\ EntryInv /\ [Next]_vars => EntryInv'
<1> SUFFICES ASSUME TypeOK, EntryInv, [Next]_vars PROVE EntryInv'
  OBVIOUS
<1> USE ThreadFacts DEF EntryInv
<1>1. CASE Receive
  <2>1. PICK na \in Inputs :
          /\ item' = [item EXCEPT ![Main] = na]
          /\ pc' = [pc EXCEPT ![Main] = IF na.addr = NoAddr THEN "pass" ELSE "update"]
    BY <1>1 DEF Receive, Goto
  <2>2. na.q \in {Unverified, Verifying} /\ (na.addr = NoAddr => na.q = Unverified)
    BY InputsTyped
  <2> QED
    BY <2>1, <2>2
<1>2. CASE ControlStep /\ ~Receive
  BY <1>2 DEF ControlStep, LeaveLoop, PassOnCancelled, AnnounceCancelled, Join, SlurperDone,
     SlurperExits, At, Goto, Continue
<1>3. CASE PingerStep
  <2>1. CASE AnnounceItem \/ SubmitItem \/ StopPinger \/ PingerStopped \/ Slurp
    BY <2>1 DEF AnnounceItem, SubmitItem, StopPinger, PingerStopped, Slurp, At, Goto, Continue
  <2>2. CASE \E w \in Workers : PoolStep(w)
    BY <2>2 DEF PoolStep, verifyVars
  <2> QED
    BY <1>3, <2>1, <2>2 DEF PingerStep
<1>4. CASE CacheStep \/ NotifyStep \/ LeaveCacheStep
  BY <1>4 DEF CacheStep, NotifyStep, LeaveCacheStep, UpdateDecides, UpdateNotifies,
     UpdateBailsOut, UpdateReturns, Goto, Continue, verifyVars
<1>5. CASE PassOn \/ CloseAndReturn \/ ReadNews \/ EnvironmentStep \/ UNCHANGED vars
  BY <1>5 DEF PassOn, CloseAndReturn, ReadNews, EnvironmentStep, CloseInput, CancelContext,
     Goto, Continue, vars, verifyVars
<1> QED
  BY <1>1, <1>2, <1>3, <1>4, <1>5, StepGroups

\* The decision of Update, seen from inside: the address gets the better of its old
\* and its new quality, and that is what everybody is going to be told.
LEMMA DecideEffect ==
  ASSUME TypeOK, NEW t \in Thread, UpdateDecides(t)
  PROVE  LET na == item[t]
         IN  /\ na \in DugAddresses /\ na.addr \in Addr /\ na.q \in Quality
             /\ \A a \in Addr \ {na.addr} : cache'[a] = cache[a]
             /\ na.q > cache[na.addr].q => cache'[na.addr].q = na.q
             /\ na.q <= cache[na.addr].q => cache'[na.addr].q = cache[na.addr].q
             /\ \A x \in outbox' : x.addr = na.addr /\ x.q = cache'[na.addr].q
<1> DEFINE na == item[t]
           e == cache[na.addr]
<1>1. na \in DugAddresses
  BY TypeOKParts DEF UpdateDecides, At, VerifyData
<1>2. na.addr \in Addr /\ na.name \in Name /\ na.q \in Quality /\ na \in QualifiedAddress
  BY <1>1 DEF DugAddresses, NamedAddresses, QualifiedAddress
<1>3. cache \in [Addr -> Entry] /\ e \in Entry
  BY <1>2, TypeOKParts DEF CacheData
<1>4. e.q \in Quality \cup {Unknown} /\ e.err \in BOOLEAN
  BY <1>3 DEF Entry
<1>5. Unknown < na.q
  BY <1>2 DEF Unknown, Quality, Unverified, Verified
<1> HIDE DEF na
<1>6. CASE FirstSight(t, na)
  <2>1. /\ e.q = Unknown /\ outbox' = {na}
        /\ cache' = [cache EXCEPT ![na.addr] =
                       [q |-> na.q, err |-> FALSE, consumers |-> {na.name}]]
    BY <1>6 DEF FirstSight
  <2>2. cache'[na.addr].q = na.q /\ \A a \in Addr \ {na.addr} : cache'[a] = cache[a]
    BY <1>2, <1>3, <2>1
  <2>3. ~(na.q <= e.q)
    BY <1>2, <1>5, <2>1 DEF Quality, Unverified, Verified, Unknown
  <2> QED
    BY <1>1, <1>2, <2>1, <2>2, <2>3 DEF na
<1>7. CASE Stale(t, na)
  <2> DEFINE told_ == WithNewQuality(na, e.q, e.err)
  <2>1. /\ e.q # Unknown /\ na.q <= e.q /\ outbox' \subseteq {told_}
        /\ cache' = [cache EXCEPT ![na.addr].consumers = @ \cup {na.name}]
    BY <1>7 DEF Stale
  <2>2. told_.addr = na.addr /\ told_.q = e.q
    BY <1>1, <1>4, <2>1, Requalified
  <2> HIDE DEF told_
  <2>3. cache'[na.addr].q = e.q /\ \A a \in Addr \ {na.addr} : cache'[a] = cache[a]
    BY <1>2, <1>3, <2>1 DEF Entry
  <2>4. ~(na.q > e.q)
    BY <1>2, <1>4, <2>1 DEF Quality, Unverified, Verified, Unknown
  <2> QED
    BY <1>1, <1>2, <2>1, <2>2, <2>3, <2>4 DEF na
<1>8. CASE Raise(t, na)
  <2> DEFINE waiting == IF na.q \in Final THEN e.consumers ELSE e.consumers \cup {na.name}
             remaining == IF na.q \in Final THEN {} ELSE waiting
  <2>1. /\ e.q # Unknown /\ na.q > e.q
        /\ cache' = [cache EXCEPT ![na.addr].q = na.q, ![na.addr].consumers = remaining]
        /\ outbox' = {[na EXCEPT !.name = n] : n \in waiting}
    BY <1>8 DEF Raise
  <2> HIDE DEF waiting, remaining
  <2>2. cache'[na.addr].q = na.q /\ \A a \in Addr \ {na.addr} : cache'[a] = cache[a]
    BY <1>2, <1>3, <2>1 DEF Entry
  <2>3. \A x \in outbox' : x.addr = na.addr /\ x.q = na.q
    BY <1>2, <2>1 DEF QualifiedAddress
  <2>4. ~(na.q <= e.q)
    BY <1>2, <1>4, <2>1 DEF Quality, Unverified, Verified, Unknown
  <2> QED
    BY <1>1, <1>2, <2>1, <2>2, <2>3, <2>4 DEF na
<1> QED
  BY <1>6, <1>7, <1>8 DEF UpdateDecides, Decide, na

\* The cache only changes when Update decides, and the quality of an address in it
\* never gets worse.
LEMMA CacheOnlyImproves ==
  ASSUME TypeOK, [Next]_vars, NEW a \in Addr
  PROVE  /\ cache[a].q \in Quality \cup {Unknown} /\ cache'[a].q \in Quality \cup {Unknown}
         /\ cache'[a].q >= cache[a].q
         /\ cache[a].q # Unknown => cache'[a].q # Unknown
         /\ CacheStep \/ cache' = cache
<1>1. cache[a].q \in Quality \cup {Unknown} /\ cache'[a].q \in Quality \cup {Unknown}
  BY TypeOKStep, TypeOKParts DEF TypeOK, CacheTypeOK, Entry
<1>2. cache[a].q >= cache[a].q
  BY <1>1 DEF Quality, Unverified, Verified, Unknown
<1>3. CASE CacheStep
  <2>1. PICK t \in Thread : UpdateDecides(t)
    BY <1>3 DEF CacheStep
  <2>2. cache'[a].q = cache[a].q \/ (item[t].q > cache[a].q /\ cache'[a].q = item[t].q)
    BY <2>1, <1>1, DecideEffect DEF Quality, Unverified, Verified, Unknown
  <2> QED
    BY <1>1, <1>3, <2>2 DEF Quality, Unverified, Verified, Unknown
<1>4. CASE ~CacheStep
  <2>1. UNCHANGED cache
    BY <1>4, StepGroups, CacheFrame DEF cacheVars, NotifyStep, UpdateNotifies, Notify,
       LeaveCacheStep, UpdateBailsOut, UpdateReturns, BailOut, Return
  <2> QED
    BY <1>1, <1>2, <2>1
<1> QED
  BY <1>3, <1>4

\* What is being pinged is known to the cache.
LEMMA PingedIsKnown ==
  ASSUME TypeOK, PingedOnlyOnce
  PROVE  /\ AboutToPing => cache[item[Main].addr].q # Unknown
         /\ \A w \in Workers : worker[w] # NoJob => cache[worker[w].addr].q # Unknown
<1>1. ASSUME AboutToPing PROVE cache[item[Main].addr].q # Unknown
  <2>1. item[Main].addr \in Addr
    BY <1>1, TypeOKParts DEF AboutToPing, VerifyData, DugAddresses, Thread
  <2>2. <<"main", 0>> \in PingsOf(item[Main].addr)
    BY <1>1 DEF PingsOf
  <2> QED
    BY <2>1, <2>2 DEF PingedOnlyOnce
<1>2. ASSUME NEW w \in Workers, worker[w] # NoJob PROVE cache[worker[w].addr].q # Unknown
  <2>1. worker[w].addr \in Addr
    BY <1>2, TypeOKParts DEF PingerData, DugAddresses
  <2>2. <<"worker", w>> \in PingsOf(worker[w].addr)
    BY <1>2 DEF PingsOf
  <2> QED
    BY <2>1, <2>2 DEF PingedOnlyOnce
<1> QED
  BY <1>1, <1>2

LEMMA CourtAddresses ==
  TypeOK => \A i \in DOMAIN courtTV : courtTV[i] \in DugAddresses /\ courtTV[i].addr \in Addr
<1> SUFFICES ASSUME TypeOK, NEW i \in DOMAIN courtTV
             PROVE  courtTV[i] \in DugAddresses /\ courtTV[i].addr \in Addr
  OBVIOUS
<1>1. courtTV \in Seq(DugAddresses)
  BY TypeOKParts DEF PingerData
<1>2. courtTV[i] \in DugAddresses
  BY <1>1
<1> QED
  BY <1>2 DEF DugAddresses

LEMMA KnownInvStep ==
  TypeOK /\ KnownInv /\ PingedOnlyOnce /\ [Next]_vars => KnownInv'
<1> SUFFICES ASSUME TypeOK, KnownInv, PingedOnlyOnce, [Next]_vars PROVE KnownInv'
  OBVIOUS
<1>1. courtTV \in Seq(DugAddresses) /\ worker \in [Workers -> DugAddresses \cup {NoJob}]
  BY TypeOKParts DEF PingerData
<1>2. \A a \in Addr : cache[a].q # Unknown => cache'[a].q # Unknown
  BY CacheOnlyImproves
<1>3. \A i \in DOMAIN courtTV : cache'[courtTV[i].addr].q # Unknown
  BY <1>2, CourtAddresses DEF KnownInv
<1>4. CASE AnnounceItem
  <2> DEFINE verdict == WithNewQuality(item[Main], Verifying, FALSE)
  <2>1. pc[Main] = "announce" /\ courtTV' = Append(courtTV, verdict)
        /\ pc' = [pc EXCEPT ![Main] = "submit"] /\ item' = [item EXCEPT ![Main] = verdict]
    BY <1>4 DEF AnnounceItem, At, Announce, Goto
  <2>2. item[Main] \in DugAddresses /\ item[Main].addr \in Addr
    BY <2>1, TypeOKParts DEF VerifyData, DugAddresses, Thread
  <2>3. verdict \in DugAddresses /\ verdict.addr = item[Main].addr
    BY <2>2, FinalQuality, Requalified
  <2> HIDE DEF verdict
  <2>4. cache[verdict.addr].q # Unknown
    BY <2>1, <2>3, PingedIsKnown DEF AboutToPing
  <2>5. \A i \in DOMAIN courtTV' : \/ i \in DOMAIN courtTV /\ courtTV'[i] = courtTV[i]
                                   \/ courtTV'[i] = verdict
    BY <1>1, <2>1, <2>3
  <2>6. \A i \in DOMAIN courtTV' : cache'[courtTV'[i].addr].q # Unknown
    BY <1>2, <1>3, <2>2, <2>3, <2>4, <2>5
  <2>7. pc'[Slurper] = "update" => cache'[item'[Slurper].addr].q # Unknown
    BY <2>1, <1>2, ThreadFacts, TypeOKParts DEF KnownInv, VerifyData, DugAddresses
  <2> QED
    BY <2>6, <2>7 DEF KnownInv
<1>5. CASE Slurp
  <2>1. /\ courtTV # << >> /\ courtTV' = Tail(courtTV)
        /\ item' = [item EXCEPT ![Slurper] = courtTV[1]]
    BY <1>5 DEF Slurp, TakeVerdict
  <2>2. 1 \in DOMAIN courtTV
        /\ \A i \in DOMAIN courtTV' : i + 1 \in DOMAIN courtTV /\ courtTV'[i] = courtTV[i + 1]
    BY <1>1, <2>1
  <2>3. cache'[item'[Slurper].addr].q # Unknown
    BY <1>3, <2>1, <2>2, ThreadFacts
  <2> QED
    BY <1>3, <2>2, <2>3 DEF KnownInv
<1>6. ASSUME NEW w \in Workers, PoolStep(w) PROVE KnownInv'
  <2>1. UNCHANGED <<pc, item>>
    BY <1>6 DEF PoolStep, verifyVars
  <2>2. \A i \in DOMAIN courtTV' : \/ i \in DOMAIN courtTV /\ courtTV'[i] = courtTV[i]
                                   \/ worker[w] # NoJob /\ courtTV'[i] = worker[w]
    <3>1. CASE Deliver(w)
      BY <1>1, <3>1 DEF Deliver, Judged
    <3>2. CASE courtTV' = courtTV
      BY <3>2
    <3> QED
      BY <1>6, <3>1, <3>2 DEF PoolStep, WorkerStep, Start, PingFails, PingOver, PingEnds, Drop
  <2>3. worker[w] # NoJob => worker[w].addr \in Addr /\ cache'[worker[w].addr].q # Unknown
    BY <1>1, <1>2, PingedIsKnown DEF DugAddresses
  <2>4. \A i \in DOMAIN courtTV' : cache'[courtTV'[i].addr].q # Unknown
    BY <1>3, <2>2, <2>3
  <2> QED
    BY <1>2, <2>1, <2>4, TypeOKParts DEF KnownInv, VerifyData, DugAddresses, Thread
<1>7. ASSUME courtTV' = courtTV, pc'[Slurper] = "update" => pc[Slurper] = "update" /\ item'[Slurper] = item[Slurper]
      PROVE  KnownInv'
  BY <1>2, <1>3, <1>7, TypeOKParts DEF KnownInv, VerifyData, DugAddresses, Thread
<1>8. CASE SubmitItem \/ StopPinger \/ PingerStopped
  BY <1>7, <1>8, ThreadFacts DEF SubmitItem, Submit, StopPinger, StopPool, PingerStopped,
     CloseCourt, Goto, Continue
<1>9. CASE CacheStep
  BY <1>7, <1>9, ThreadFacts, PingerFrame DEF CacheStep, UpdateDecides, Goto, pingerVars
<1>10. CASE NotifyStep \/ LeaveCacheStep
  BY <1>7, <1>10, ThreadFacts, PingerFrame DEF NotifyStep, UpdateNotifies, LeaveCacheStep,
     UpdateBailsOut, UpdateReturns, Goto, Continue, pingerVars, verifyVars
<1>11. CASE ControlStep
  BY <1>7, <1>11, ThreadFacts, PingerFrame DEF ControlStep, Receive, LeaveLoop,
     PassOnCancelled, AnnounceCancelled, Join, SlurperDone, SlurperExits, Goto, Continue,
     pingerVars
<1>12. CASE EnvironmentStep \/ PassOn \/ CloseAndReturn \/ ReadNews \/ UNCHANGED vars
  BY <1>7, <1>12, ThreadFacts, PingerFrame DEF EnvironmentStep, CloseInput, CancelContext,
     PassOn, CloseAndReturn, ReadNews, Goto, Continue, pingerVars, verifyVars, vars
<1> QED
  BY <1>4, <1>5, <1>6, <1>8, <1>9, <1>10, <1>11, <1>12, StepGroups DEF PingerStep

\* A set whose elements go one by one into a set of at most one element.
LEMMA Injected ==
  ASSUME NEW S, NEW T, NEW f,
         \A x \in T : f[x] \in S,
         \A x, y \in T : f[x] = f[y] => x = y,
         \A x, y \in S : x = y
  PROVE  (\A x, y \in T : x = y) /\ (S = {} => T = {})
OBVIOUS

\* A step that moves no ping of a forward leaves at most the pings there were.
LEMMA PingsShrink ==
  ASSUME NEW a,
         AboutToPing' /\ item'[Main].addr = a => AboutToPing /\ item[Main].addr = a,
         \A i \in DOMAIN queue' : queue'[i].addr = a => i \in DOMAIN queue /\ queue[i].addr = a,
         \A w \in Workers : worker'[w] # NoJob /\ worker'[w].addr = a
                              => worker[w] # NoJob /\ worker[w].addr = a,
         \A i \in DOMAIN courtTV' : courtTV'[i].addr = a /\ courtTV'[i].q \in Final
                => i \in DOMAIN courtTV /\ courtTV[i].addr = a /\ courtTV[i].q \in Final,
         HoldsVerdict' /\ item'[Slurper].addr = a => HoldsVerdict /\ item[Slurper].addr = a
  PROVE  PingsOf(a)' \subseteq PingsOf(a)
BY DEF PingsOf

\* Submitting a task moves the ping from the main goroutine to the queue.
LEMMA SubmitMovesPing ==
  ASSUME TypeOK, MutexInv, SubmitItem, NEW a \in Addr, \A x, y \in PingsOf(a) : x = y
  PROVE  (\A x, y \in PingsOf(a)' : x = y) /\ (PingsOf(a) = {} => PingsOf(a)' = {})
<1>1. /\ pc[Main] = "submit" /\ queue' = Append(queue, item[Main])
      /\ pc' = [pc EXCEPT ![Main] = "select"] /\ item' = [item EXCEPT ![Main] = NoJob]
      /\ UNCHANGED <<worker, courtTV, fresh>>
  BY DEF SubmitItem, At, Submit, Goto, Continue, cacheVars
<1>2. queue \in Seq(DugAddresses) /\ item[Main] \in DugAddresses
  BY <1>1, ThreadFacts, TypeOKParts DEF PingerData, VerifyData
<1>3. /\ DOMAIN queue' = 1..Len(queue) + 1 /\ DOMAIN queue = 1..Len(queue)
      /\ queue'[Len(queue) + 1] = item[Main]
      /\ \A i \in DOMAIN queue : queue'[i] = queue[i]
      /\ Len(queue) \in Nat
  BY <1>1, <1>2
<1>4. ~AboutToPing' /\ AboutToPing /\ (HoldsVerdict' <=> HoldsVerdict)
      /\ item'[Slurper] = item[Slurper]
  BY <1>1, ThreadFacts DEF AboutToPing, HoldsVerdict
<1> DEFINE new == <<"queue", Len(queue) + 1>>
           f == [x \in PingsOf(a)' |-> IF x = new THEN <<"main", 0>> ELSE x]
<1>5. \A x \in PingsOf(a)' : (x = new /\ item[Main].addr = a) \/ (x # new /\ x \in PingsOf(a))
  BY <1>1, <1>3, <1>4 DEF PingsOf
<1>6. <<"main", 0>> \notin PingsOf(a)'
  BY <1>4 DEF PingsOf
<1>7. item[Main].addr = a => <<"main", 0>> \in PingsOf(a)
  BY <1>4 DEF PingsOf
<1>8. \A x \in PingsOf(a)' : f[x] \in PingsOf(a)
  BY <1>5, <1>7
<1>9. \A x, y \in PingsOf(a)' : f[x] = f[y] => x = y
  BY <1>6
<1> HIDE DEF f
<1> QED
  BY <1>8, <1>9, Injected

\* A worker that starts takes the ping from the head of the queue.
LEMMA StartMovesPing ==
  ASSUME TypeOK, NEW w \in Workers, Start(w), UNCHANGED verifyVars, UNCHANGED cacheVars,
         NEW a \in Addr, \A x, y \in PingsOf(a) : x = y
  PROVE  (\A x, y \in PingsOf(a)' : x = y) /\ (PingsOf(a) = {} => PingsOf(a)' = {})
<1>1. /\ worker[w] = NoJob /\ queue # << >>
      /\ worker' = [worker EXCEPT ![w] = Head(queue)] /\ queue' = Tail(queue)
      /\ UNCHANGED <<courtTV, pc, item, fresh>>
  BY DEF Start, verifyVars, cacheVars
<1>2. queue \in Seq(DugAddresses) /\ worker \in [Workers -> DugAddresses \cup {NoJob}]
  BY TypeOKParts DEF PingerData
<1>3. /\ \A i \in DOMAIN queue' : /\ i \in Nat \ {0} /\ i + 1 \in DOMAIN queue
                                  /\ queue'[i] = queue[i + 1]
      /\ 1 \in DOMAIN queue /\ Head(queue) = queue[1]
  BY <1>1, <1>2
<1>4. (AboutToPing' <=> AboutToPing) /\ (HoldsVerdict' <=> HoldsVerdict)
  BY <1>1 DEF AboutToPing, HoldsVerdict
<1> DEFINE first == <<"worker", w>>
           f == [x \in PingsOf(a)' |-> IF x = first THEN <<"queue", 1>>
                                       ELSE IF x[1] = "queue" THEN <<"queue", x[2] + 1>> ELSE x]
<1>5. \A x \in PingsOf(a)' :
        \/ x = first /\ queue[1].addr = a
        \/ \E i \in DOMAIN queue' : x = <<"queue", i>> /\ queue'[i].addr = a
        \/ x # first /\ x[1] # "queue" /\ x \in PingsOf(a)
  BY <1>1, <1>2, <1>3, <1>4 DEF PingsOf
<1>6. \A i \in DOMAIN queue : queue[i].addr = a => <<"queue", i>> \in PingsOf(a)
  BY DEF PingsOf
<1>7. \A x \in PingsOf(a)' : f[x] \in PingsOf(a)
  BY <1>3, <1>5, <1>6
<1>8. \A x, y \in PingsOf(a)' : f[x] = f[y] => x = y
  BY <1>3, <1>5
<1> HIDE DEF f
<1> QED
  BY <1>7, <1>8, Injected

\* A worker that delivers its verdict passes the ping on to the court TV channel.
LEMMA DeliverMovesPing ==
  ASSUME TypeOK, NEW w \in Workers, Deliver(w), UNCHANGED verifyVars, UNCHANGED cacheVars,
         NEW a \in Addr, \A x, y \in PingsOf(a) : x = y
  PROVE  (\A x, y \in PingsOf(a)' : x = y) /\ (PingsOf(a) = {} => PingsOf(a)' = {})
<1>1. /\ worker[w] # NoJob /\ courtTV' = Append(courtTV, worker[w])
      /\ worker' = [worker EXCEPT ![w] = NoJob]
      /\ UNCHANGED <<queue, pc, item, fresh>>
  BY DEF Deliver, Judged, verifyVars, cacheVars
<1>2. courtTV \in Seq(DugAddresses) /\ worker \in [Workers -> DugAddresses \cup {NoJob}]
  BY TypeOKParts DEF PingerData
<1>3. /\ DOMAIN courtTV' = 1..Len(courtTV) + 1 /\ DOMAIN courtTV = 1..Len(courtTV)
      /\ courtTV'[Len(courtTV) + 1] = worker[w]
      /\ \A i \in DOMAIN courtTV : courtTV'[i] = courtTV[i]
      /\ Len(courtTV) \in Nat
  BY <1>1, <1>2
<1>4. (AboutToPing' <=> AboutToPing) /\ (HoldsVerdict' <=> HoldsVerdict)
  BY <1>1 DEF AboutToPing, HoldsVerdict
<1> DEFINE new == <<"court", Len(courtTV) + 1>>
           f == [x \in PingsOf(a)' |-> IF x = new THEN <<"worker", w>> ELSE x]
<1>5. \A x \in PingsOf(a)' : (x = new /\ worker[w].addr = a) \/ (x # new /\ x \in PingsOf(a))
  BY <1>1, <1>2, <1>3, <1>4 DEF PingsOf
<1>6. <<"worker", w>> \notin PingsOf(a)'
  BY <1>1, <1>2 DEF PingsOf
<1>7. worker[w].addr = a => <<"worker", w>> \in PingsOf(a)
  BY <1>1 DEF PingsOf
<1>8. \A x \in PingsOf(a)' : f[x] \in PingsOf(a)
  BY <1>5, <1>7
<1>9. \A x, y \in PingsOf(a)' : f[x] = f[y] => x = y
  BY <1>6
<1> HIDE DEF f
<1> QED
  BY <1>8, <1>9, Injected

\* The slurper takes the ping out of the court TV channel.
LEMMA SlurpMovesPing ==
  ASSUME TypeOK, Slurp, NEW a \in Addr, \A x, y \in PingsOf(a) : x = y
  PROVE  (\A x, y \in PingsOf(a)' : x = y) /\ (PingsOf(a) = {} => PingsOf(a)' = {})
<1>1. /\ pc[Slurper] = "select" /\ courtTV # << >> /\ courtTV' = Tail(courtTV)
      /\ item' = [item EXCEPT ![Slurper] = Head(courtTV)]
      /\ pc' = [pc EXCEPT ![Slurper] = "update"]
      /\ UNCHANGED <<queue, worker, fresh>>
  BY DEF Slurp, At, TakeVerdict, Goto, cacheVars
<1>2. courtTV \in Seq(DugAddresses)
  BY TypeOKParts DEF PingerData
<1>3. /\ \A i \in DOMAIN courtTV' : /\ i \in Nat \ {0} /\ i + 1 \in DOMAIN courtTV
                                    /\ courtTV'[i] = courtTV[i + 1]
      /\ 1 \in DOMAIN courtTV /\ Head(courtTV) = courtTV[1]
  BY <1>1, <1>2
<1>4. /\ (AboutToPing' <=> AboutToPing) /\ item'[Main] = item[Main]
      /\ item'[Slurper] = courtTV[1]
  BY <1>1, <1>3, ThreadFacts DEF AboutToPing
<1> DEFINE first == <<"slurper", 0>>
           f == [x \in PingsOf(a)' |-> IF x = first THEN <<"court", 1>>
                                       ELSE IF x[1] = "court" THEN <<"court", x[2] + 1>> ELSE x]
<1>5. \A x \in PingsOf(a)' :
        \/ x = first /\ courtTV[1].addr = a /\ courtTV[1].q \in Final
        \/ \E i \in DOMAIN courtTV' : /\ x = <<"court", i>>
                                      /\ courtTV'[i].addr = a /\ courtTV'[i].q \in Final
        \/ x # first /\ x[1] # "court" /\ x \in PingsOf(a)
  BY <1>1, <1>3, <1>4 DEF PingsOf, HoldsVerdict
<1>6. \A i \in DOMAIN courtTV : courtTV[i].addr = a /\ courtTV[i].q \in Final
                                  => <<"court", i>> \in PingsOf(a)
  BY DEF PingsOf
<1>7. \A x \in PingsOf(a)' : f[x] \in PingsOf(a)
  BY <1>3, <1>5, <1>6
<1>8. \A x, y \in PingsOf(a)' : f[x] = f[y] => x = y
  BY <1>3, <1>5
<1> HIDE DEF f
<1> QED
  BY <1>7, <1>8, Injected

\* Deciding what to tell: a new address is going to be pinged by the main goroutine,
\* and a verdict that reaches the cache was the last trace of a ping.
LEMMA DecidingKeepsPingedOnlyOnce ==
  ASSUME TypeOK, MutexInv, EntryInv, KnownInv, PingedOnlyOnce,
         NEW t \in Thread, UpdateDecides(t), NEW a \in Addr
  PROVE  /\ \A x, y \in PingsOf(a)' : x = y
         /\ cache'[a].q \in Final \cup {Unknown} => PingsOf(a)' = {}
<1>1. /\ mu = Free /\ pc[t] = "update" /\ pc' = [pc EXCEPT ![t] = "tell"]
      /\ fresh' = TRUE => cache[item[t].addr].q = Unknown
      /\ fresh' \in BOOLEAN
      /\ UNCHANGED <<item, courtTV, queue, worker>>
  BY Decided
<1>2. /\ item[t].addr \in Addr /\ item[t].q \in Quality
      /\ a # item[t].addr => cache'[a] = cache[a]
      /\ item[t].q > cache[item[t].addr].q => cache'[item[t].addr].q = item[t].q
      /\ item[t].q <= cache[item[t].addr].q => cache'[item[t].addr].q = cache[item[t].addr].q
  BY DecideEffect
<1>3. cache[a].q \in Quality \cup {Unknown} /\ cache[item[t].addr].q \in Quality \cup {Unknown}
  BY <1>2, TypeOKParts DEF CacheData, Entry
<1>4. /\ \A x, y \in PingsOf(a) : x = y
      /\ cache[a].q \in Final \cup {Unknown} => PingsOf(a) = {}
  BY DEF PingedOnlyOnce
<1>5. pc[Main] # "tell" /\ pc[Slurper] # "tell"
  BY <1>1, ThreadFacts DEF MutexInv
<1>6. CASE t = Main /\ fresh' /\ item[Main].addr = a
  <2>1. cache[a].q = Unknown
    BY <1>1, <1>6
  <2>2. \A x \in PingsOf(a)' : x = <<"main", 0>> \/ x \in PingsOf(a)
    BY <1>1, <1>6, ThreadFacts DEF PingsOf, HoldsVerdict
  <2>3. cache'[a].q \in {Unverified, Verifying}
    BY <1>1, <1>2, <1>6, <2>1
    DEF EntryInv, Unknown, Unverified, Verifying, Quality, Verified
  <2>4. cache'[a].q \notin Final \cup {Unknown}
    BY <2>3 DEF Final, Unknown, Unverified, Verifying, Invalid, Verified
  <2> QED
    BY <1>4, <2>1, <2>2, <2>4
<1>7. CASE ~(t = Main /\ fresh' /\ item[Main].addr = a)
  <2>1. fresh' => t = Main
    BY <1>1, ThreadFacts DEF KnownInv
  <2>2. AboutToPing' /\ item'[Main].addr = a => AboutToPing /\ item[Main].addr = a
    BY <1>1, <1>7, <2>1, ThreadFacts DEF AboutToPing
  <2>3. HoldsVerdict' /\ item'[Slurper].addr = a => HoldsVerdict /\ item[Slurper].addr = a
    BY <1>1, ThreadFacts DEF HoldsVerdict
  <2>4. PingsOf(a)' \subseteq PingsOf(a)
    BY <1>1, <2>2, <2>3, PingsShrink
  <2>5. ASSUME cache'[a].q \in Final \cup {Unknown}, cache[a].q \notin Final \cup {Unknown}
        PROVE  PingsOf(a)' = {}
    <3>1. item[t].addr = a /\ item[t].q \in Final
      BY <1>2, <1>3, <2>5
      DEF Final, Unknown, Quality, Unverified, Verified, Verifying, Invalid
    <3>2. t = Slurper
      BY <1>1, <3>1, ThreadFacts
      DEF EntryInv, Final, Unverified, Verifying, Invalid, Verified
    <3>3. <<"slurper", 0>> \in PingsOf(a)
      BY <1>1, <3>1, <3>2 DEF PingsOf, HoldsVerdict
    <3>4. <<"slurper", 0>> \notin PingsOf(a)'
      BY <1>1, <3>2, ThreadFacts DEF PingsOf, HoldsVerdict
    <3> QED
      BY <1>4, <2>4, <3>3, <3>4
  <2> QED
    BY <1>4, <2>4, <2>5
<1> QED
  BY <1>6, <1>7

\* The steps that neither move a ping on nor decide what to tell.
LEMMA OtherStepsShrinkPings ==
  ASSUME TypeOK, MutexInv, [Next]_vars, ~CacheStep, ~SubmitItem, ~Slurp,
         \A w \in Workers : PoolStep(w) => ~Start(w) /\ ~Deliver(w),
         NEW a \in Addr
  PROVE  PingsOf(a)' \subseteq PingsOf(a)
<1> USE ThreadFacts
<1>1. courtTV \in Seq(DugAddresses) /\ worker \in [Workers -> DugAddresses \cup {NoJob}]
  BY TypeOKParts DEF PingerData
<1>2. ASSUME UNCHANGED <<queue, worker, courtTV>>,
             AboutToPing' /\ item'[Main].addr = a => AboutToPing /\ item[Main].addr = a,
             HoldsVerdict' => HoldsVerdict, item'[Slurper] = item[Slurper] \/ ~HoldsVerdict'
      PROVE  PingsOf(a)' \subseteq PingsOf(a)
  BY <1>2, PingsShrink
<1>3. CASE AnnounceItem
  <2> DEFINE verdict == WithNewQuality(item[Main], Verifying, FALSE)
  <2>1. /\ pc[Main] = "announce" /\ courtTV' = Append(courtTV, verdict)
        /\ pc' = [pc EXCEPT ![Main] = "submit"] /\ item' = [item EXCEPT ![Main] = verdict]
        /\ UNCHANGED <<queue, worker, fresh>>
    BY <1>3 DEF AnnounceItem, At, Announce, Goto, cacheVars
  <2>2. item[Main] \in DugAddresses
    BY <2>1, TypeOKParts DEF VerifyData
  <2>3. verdict \in DugAddresses /\ verdict.addr = item[Main].addr /\ verdict.q = Verifying
    BY <2>2, FinalQuality, Requalified
  <2> HIDE DEF verdict
  <2>4. \A i \in DOMAIN courtTV' : \/ i \in DOMAIN courtTV /\ courtTV'[i] = courtTV[i]
                                   \/ courtTV'[i] = verdict
    BY <1>1, <2>1, <2>3
  <2>5. \A i \in DOMAIN courtTV' : courtTV'[i].addr = a /\ courtTV'[i].q \in Final
                => i \in DOMAIN courtTV /\ courtTV[i].addr = a /\ courtTV[i].q \in Final
    BY <2>3, <2>4 DEF Final, Verifying, Invalid, Verified
  <2>6. AboutToPing' /\ item'[Main].addr = a => AboutToPing /\ item[Main].addr = a
    BY <2>1, <2>3 DEF AboutToPing
  <2>7. HoldsVerdict' /\ item'[Slurper].addr = a => HoldsVerdict /\ item[Slurper].addr = a
    BY <2>1 DEF HoldsVerdict
  <2> QED
    BY <2>1, <2>5, <2>6, <2>7, PingsShrink
<1>4. ASSUME NEW w \in Workers, PoolStep(w) PROVE PingsOf(a)' \subseteq PingsOf(a)
  <2>1. PingFails(w) \/ PingOver(w) \/ Drop(w)
    BY <1>4 DEF PoolStep, WorkerStep
  <2>2. UNCHANGED <<queue, courtTV, pc, item, fresh>>
    BY <1>4, <2>1 DEF PoolStep, PingFails, PingOver, PingEnds, Drop, verifyVars, cacheVars
  <2>3. /\ \A v \in Workers \ {w} : worker'[v] = worker[v]
        /\ \/ worker'[w] = NoJob
           \/ worker[w] # NoJob /\ worker'[w].addr = worker[w].addr
    <3>1. CASE PingFails(w)
      <4>1. worker[w] # NoJob /\ worker[w] \in DugAddresses
        BY <1>1, <3>1 DEF PingFails, Pinging
      <4>2. WithNewQuality(worker[w], Invalid, TRUE).addr = worker[w].addr
        BY <4>1, FinalQuality, Requalified DEF Final
      <4> QED
        BY <1>1, <3>1, <4>1, <4>2 DEF PingFails
    <3>2. CASE PingOver(w)
      <4>1. worker[w] # NoJob /\ worker[w] \in DugAddresses
        BY <1>1, <3>2 DEF PingOver, PingEnds, Pinging
      <4>2. PICK received \in 0..Count :
              worker' = [worker EXCEPT ![w] = WithNewQuality(@, Judge(received),
                                                             Judge(received) = Invalid)]
        BY <3>2 DEF PingOver, PingEnds
      <4>3. Judge(received) \in Quality /\ (Judge(received) = Invalid) \in BOOLEAN
        BY FinalQuality DEF Judge, Final
      <4>4. WithNewQuality(worker[w], Judge(received), Judge(received) = Invalid).addr
              = worker[w].addr
        BY <4>1, <4>3, Requalified
      <4> QED
        BY <1>1, <4>1, <4>2, <4>4
    <3>3. CASE Drop(w)
      BY <1>1, <3>3 DEF Drop
    <3> QED
      BY <2>1, <3>1, <3>2, <3>3
  <2>4. \A v \in Workers : worker'[v] # NoJob /\ worker'[v].addr = a
                             => worker[v] # NoJob /\ worker[v].addr = a
    BY <2>3
  <2> QED
    BY <2>2, <2>4, PingsShrink DEF AboutToPing, HoldsVerdict
<1>5. CASE StopPinger \/ PingerStopped
  BY <1>2, <1>5 DEF StopPinger, StopPool, PingerStopped, CloseCourt, At, Goto, cacheVars,
     AboutToPing, HoldsVerdict
<1>6. CASE NotifyStep
  BY <1>2, <1>6, PingerFrame DEF NotifyStep, UpdateNotifies, Notify, verifyVars, pingerVars,
     AboutToPing, HoldsVerdict
<1>7. CASE LeaveCacheStep
  <2>1. PICK t \in Thread : UpdateBailsOut(t) \/ UpdateReturns(t)
    BY <1>7 DEF LeaveCacheStep
  <2>2. UNCHANGED pingerVars
    BY <1>7, PingerFrame
  <2>3. CASE UpdateBailsOut(t)
    BY <1>2, <2>2, <2>3 DEF UpdateBailsOut, BailOut, verifyVars, pingerVars, AboutToPing,
       HoldsVerdict
  <2>4. CASE UpdateReturns(t)
    <3>1. /\ pc[t] = "tell" /\ mu = t /\ fresh' = FALSE
          /\ IF t = Main /\ fresh THEN pc' = [pc EXCEPT ![t] = "announce"] /\ item' = item
             ELSE /\ pc' = [pc EXCEPT ![t] = "select"]
                  /\ item' = [item EXCEPT ![t] = NoJob]
      BY <2>4 DEF UpdateReturns, At, Return, Goto, Continue
    <3>2. AboutToPing' /\ item'[Main].addr = a => AboutToPing /\ item[Main].addr = a
      BY <3>1 DEF AboutToPing, MutexInv
    <3>3. (HoldsVerdict' => HoldsVerdict) /\ (item'[Slurper] = item[Slurper] \/ ~HoldsVerdict')
      BY <3>1 DEF HoldsVerdict
    <3> QED
      BY <1>2, <2>2, <3>2, <3>3 DEF pingerVars
  <2> QED
    BY <2>1, <2>3, <2>4
<1>8. CASE ControlStep
  <2>1. UNCHANGED <<pingerVars, cacheVars>>
    BY <1>8, PingerFrame, CacheFrame
  <2>2. CASE Receive
    <3>1. /\ pc[Main] = "select" /\ item'[Slurper] = item[Slurper]
          /\ pc' = [pc EXCEPT ![Main] = "pass"] \/ pc' = [pc EXCEPT ![Main] = "update"]
      BY <2>2 DEF Receive, At, Goto
    <3> QED
      BY <1>2, <2>1, <3>1 DEF pingerVars, cacheVars, AboutToPing, HoldsVerdict
  <2>3. CASE ~Receive
    BY <1>2, <1>8, <2>1, <2>3 DEF ControlStep, LeaveLoop, PassOnCancelled, AnnounceCancelled,
       Join, SlurperDone, SlurperExits, At, Goto, Continue, pingerVars, cacheVars, AboutToPing,
       HoldsVerdict
  <2> QED
    BY <2>2, <2>3
<1>9. CASE EnvironmentStep \/ ReadNews \/ UNCHANGED vars
  BY <1>2, <1>9, PingerFrame, CacheFrame DEF EnvironmentStep, CloseInput, CancelContext,
     ReadNews, pingerVars, cacheVars, verifyVars, vars, AboutToPing, HoldsVerdict
<1>10. CASE PassOn \/ CloseAndReturn
  BY <1>2, <1>10, PingerFrame, CacheFrame DEF PassOn, CloseAndReturn, At, Goto, Continue,
     pingerVars, cacheVars, AboutToPing, HoldsVerdict
<1> QED
  BY <1>3, <1>4, <1>5, <1>6, <1>7, <1>8, <1>9, <1>10, StepGroups DEF PingerStep

LEMMA PingedOnlyOnceStep ==
  TypeOK /\ MutexInv /\ EntryInv /\ KnownInv /\ PingedOnlyOnce /\ [Next]_vars => PingedOnlyOnce'
<1> SUFFICES ASSUME TypeOK, MutexInv, EntryInv, KnownInv, PingedOnlyOnce, [Next]_vars,
                    NEW a \in Addr
             PROVE  /\ \A x, y \in PingsOf(a)' : x = y
                    /\ cache'[a].q \in Final \cup {Unknown} => PingsOf(a)' = {}
  BY DEF PingedOnlyOnce
<1>1. CASE CacheStep
  BY <1>1, DecidingKeepsPingedOnlyOnce DEF CacheStep
<1>2. CASE ~CacheStep
  <2>1. cache' = cache
    BY <1>2, CacheOnlyImproves
  <2>2. /\ \A x, y \in PingsOf(a) : x = y
        /\ cache[a].q \in Final \cup {Unknown} => PingsOf(a) = {}
    BY DEF PingedOnlyOnce
  <2>3. (\A x, y \in PingsOf(a)' : x = y) /\ (PingsOf(a) = {} => PingsOf(a)' = {})
    <3>1. CASE SubmitItem
      BY <2>2, <3>1, SubmitMovesPing
    <3>2. CASE Slurp
      BY <2>2, <3>2, SlurpMovesPing
    <3>3. ASSUME NEW w \in Workers, PoolStep(w), Start(w) \/ Deliver(w)
          PROVE  (\A x, y \in PingsOf(a)' : x = y) /\ (PingsOf(a) = {} => PingsOf(a)' = {})
      <4>1. UNCHANGED verifyVars /\ UNCHANGED cacheVars
        BY <3>3 DEF PoolStep
      <4> QED
        BY <2>2, <3>3, <4>1, StartMovesPing, DeliverMovesPing
    <3>4. CASE /\ ~SubmitItem /\ ~Slurp
               /\ \A w \in Workers : PoolStep(w) => ~Start(w) /\ ~Deliver(w)
      <4>1. PingsOf(a)' \subseteq PingsOf(a)
        BY <1>2, <3>4, OtherStepsShrinkPings
      <4> QED
        BY <2>2, <4>1
    <3> QED
      BY <3>1, <3>2, <3>3, <3>4
  <2> QED
    BY <2>1, <2>2, <2>3
<1> QED
  BY <1>1, <1>2

\* A verdict in the cache stands: a second verdict could only come from a second
\* ping of the address.
LEMMA VerdictStands ==
  ASSUME TypeOK, MutexInv, EntryInv, KnownInv, PingedOnlyOnce, [Next]_vars,
         NEW a \in Addr, cache[a].q \in Final
  PROVE  cache'[a].q = cache[a].q
<1>1. CASE ~CacheStep
  BY <1>1, CacheOnlyImproves
<1>2. ASSUME NEW t \in Thread, UpdateDecides(t), cache'[a].q # cache[a].q PROVE FALSE
  <2>1. item[t].addr = a /\ item[t].q \in Quality /\ item[t].q > cache[a].q
    BY <1>2, DecideEffect DEF Final, Quality, Unverified, Invalid, Verified
  <2>2. item[t].q \in Final
    BY <2>1 DEF Final, Quality, Unverified, Invalid, Verified
  <2>3. pc[t] = "update"
    BY <1>2, Decided
  <2>4. t = Slurper
    BY <2>2, <2>3, ThreadFacts DEF EntryInv, Final, Unverified, Verifying, Invalid, Verified
  <2>5. <<"slurper", 0>> \in PingsOf(a)
    BY <2>1, <2>2, <2>3, <2>4 DEF PingsOf, HoldsVerdict
  <2> QED
    BY <2>5 DEF PingedOnlyOnce
<1> QED
  BY <1>1, <1>2 DEF CacheStep

\* What one send changes in the history of the news.
LEMMA SendEffect ==
  ASSUME TypeOK, NEW na \in NamedAddresses, Send(na)
  PROVE  /\ <<na.name, na.addr>> \in Pairs
         /\ told' = [told EXCEPT ![<<na.name, na.addr>>] = na.q] \/ told' = told
BY DEF Send, newsVars, Pairs, NamedAddresses, QualifiedAddress

\* Every step tells nothing, or one pair the quality that is in the cache, or a name
\* without an address that it is unverified.
LEMMA WhatIsTold ==
  ASSUME TypeOK, EntryInv, NewsInv, [Next]_vars
  PROVE  \/ told' = told
         \/ \E na \in outbox : /\ na.name \in Name /\ na.addr \in Addr
                               /\ na.q = cache[na.addr].q /\ cache' = cache
                               /\ told' = [told EXCEPT ![<<na.name, na.addr>>] = na.q]
         \/ \E n \in Name : /\ told' = [told EXCEPT ![<<n, NoAddr>>] = Unverified]
                            /\ cache' = cache
<1>1. CASE NotifyStep
  <2>1. PICK na \in outbox : Send(na) /\ cache' = cache
    BY <1>1 DEF NotifyStep, UpdateNotifies, Notify
  <2>2. na \in DugAddresses /\ na \in NamedAddresses
    BY <2>1, TypeOKParts DEF CacheData, DugAddresses
  <2>3. na.name \in Name /\ na.addr \in Addr
    BY <2>2 DEF DugAddresses, NamedAddresses
  <2> QED
    BY <2>1, <2>2, <2>3, SendEffect DEF NewsInv
<1>2. CASE PassOn
  <2>1. Send(item[Main]) /\ pc[Main] = "pass" /\ cache' = cache
    BY <1>2 DEF PassOn, At, cacheVars
  <2>2. item[Main] \in NamedAddresses
    BY <2>1, TypeOKParts DEF VerifyData
  <2>3. item[Main].name \in Name /\ item[Main].addr = NoAddr /\ item[Main].q = Unverified
    BY <2>1, <2>2 DEF EntryInv, NamedAddresses
  <2> QED
    BY <2>1, <2>2, <2>3, SendEffect
<1>3. CASE CloseAndReturn \/ ReadNews
  BY <1>3 DEF CloseAndReturn, CloseNews, ReadNews, TakeNews
<1>4. CASE UNCHANGED newsVars
  BY <1>4 DEF newsVars
<1> QED
  BY <1>1, <1>2, <1>3, <1>4, StepGroups, NewsFrame

LEMMA OutboxStep ==
  ASSUME TypeOK, NewsInv, [Next]_vars
  PROVE  \A na \in outbox' : na.q = cache'[na.addr].q
<1>1. CASE CacheStep
  BY <1>1, DecideEffect DEF CacheStep
<1>2. CASE ~CacheStep
  <2>1. outbox' \subseteq outbox
    <3>1. CASE NotifyStep \/ LeaveCacheStep
      BY <3>1 DEF NotifyStep, UpdateNotifies, Notify, LeaveCacheStep, UpdateBailsOut,
         UpdateReturns, BailOut, Return
    <3>2. CASE UNCHANGED cacheVars
      BY <3>2 DEF cacheVars
    <3> QED
      BY <1>2, <3>1, <3>2, StepGroups, CacheFrame
  <2>2. \A a \in Addr : cache'[a].q = cache[a].q
    BY <1>2, CacheOnlyImproves
  <2>3. \A na \in outbox : na.addr \in Addr
    BY TypeOKParts DEF CacheData, DugAddresses
  <2> QED
    BY <2>1, <2>2, <2>3 DEF NewsInv
<1> QED
  BY <1>1, <1>2

LEMMA ToldTyped ==
  TypeOK => told \in [Pairs -> Quality \cup {Unknown}]
BY TypeOKParts DEF NewsData

LEMMA NewsInvStep ==
  IInv /\ [Next]_vars => NewsInv'
<1> SUFFICES ASSUME IInv, [Next]_vars PROVE NewsInv'
  OBVIOUS
<1> USE DEF IInv
<1>1. ASSUME NEW n \in Name, NEW a \in Addr
      PROVE  /\ told'[<<n, a>>] <= cache'[a].q
             /\ told'[<<n, a>>] \in Final => told'[<<n, a>>] = cache'[a].q
  <2>1. /\ <<n, a>> \in Pairs /\ told[<<n, a>>] \in Quality \cup {Unknown}
        /\ told[<<n, a>>] <= cache[a].q
        /\ told[<<n, a>>] \in Final => told[<<n, a>>] = cache[a].q
        /\ cache[a].q \in Quality \cup {Unknown} /\ cache'[a].q \in Quality \cup {Unknown}
        /\ cache'[a].q >= cache[a].q
    BY ToldTyped, CacheOnlyImproves DEF Pairs, NewsInv
  <2>2. CASE told'[<<n, a>>] = told[<<n, a>>]
    <3>1. told'[<<n, a>>] <= cache'[a].q
      BY <2>1, <2>2 DEF Quality, Unknown, Unverified, Verified
    <3>2. told'[<<n, a>>] \in Final => told'[<<n, a>>] = cache'[a].q
      BY <2>1, <2>2, VerdictStands
    <3> QED
      BY <3>1, <3>2
  <2>3. CASE told'[<<n, a>>] = cache[a].q /\ cache' = cache
    BY <2>1, <2>3 DEF Quality, Unknown, Unverified, Verified
  <2>4. told'[<<n, a>>] = told[<<n, a>>] \/ (told'[<<n, a>>] = cache[a].q /\ cache' = cache)
    BY <2>1, WhatIsTold, ToldTyped, NamedAddressAssumption
  <2> QED
    BY <2>2, <2>3, <2>4
<1>2. ASSUME NEW n \in Name PROVE told'[<<n, NoAddr>>] \in {Unknown, Unverified}
  <2>1. <<n, NoAddr>> \in Pairs /\ told[<<n, NoAddr>>] \in {Unknown, Unverified}
    BY DEF Pairs, NewsInv
  <2> QED
    BY <2>1, WhatIsTold, ToldTyped, NamedAddressAssumption
<1> QED
  BY <1>1, <1>2, OutboxStep DEF NewsInv

\* IInv is inductive.
LEMMA IInvStep == IInv /\ [Next]_vars => IInv'
<1> SUFFICES ASSUME IInv, [Next]_vars PROVE IInv'
  OBVIOUS
<1>1. TypeOK' /\ MutexInv' /\ EntryInv' /\ KnownInv' /\ PingedOnlyOnce'
  BY TypeOKStep, MutexInvStep, EntryInvStep, KnownInvStep, PingedOnlyOnceStep DEF IInv
<1>2. NewsInv'
  BY NewsInvStep
<1> QED
  BY <1>1, <1>2 DEF IInv

LEMMA Invariance == Spec => []IInv
<1>1. Init => IInv
  BY IInvInit
<1>2. IInv /\ [Next]_vars => IInv'
  BY IInvStep
<1> QED
  BY <1>1, <1>2, PTL DEF Spec

-----------------------------------------------------------------------------
(* The theorems.                                                             *)

\* An address is never pinged twice: it has at most one ping between the decision of
\* the main goroutine and the arrival of the verdict in the cache, and none before
\* and after.
THEOREM PingedOnce == Spec => []PingedOnlyOnce
<1>1. IInv => PingedOnlyOnce
  BY DEF IInv
<1> QED
  BY <1>1, Invariance, PTL

\* Whatever names an address has, whenever they asked: they hear one verdict.
THEOREM OneVerdict == Spec => []SameVerdictForAllNames
<1>1. IInv => SameVerdictForAllNames
  <2> SUFFICES ASSUME IInv, NEW p1 \in Pairs, NEW p2 \in Pairs, p1[2] = p2[2],
                      told[p1] \in Final, told[p2] \in Final
               PROVE  told[p1] = told[p2]
    BY DEF SameVerdictForAllNames
  <2>1. /\ p1 = <<p1[1], p1[2]>> /\ p1[1] \in Name /\ p1[2] \in Addr \cup {NoAddr}
        /\ p2 = <<p2[1], p2[2]>> /\ p2[1] \in Name
    BY DEF Pairs
  <2>2. p1[2] # NoAddr
    BY <2>1 DEF IInv, NewsInv, Final, Unknown, Unverified, Invalid, Verified
  <2> QED
    BY <2>1, <2>2 DEF IInv, NewsInv
<1> QED
  BY <1>1, Invariance, PTL

\* What a name is told about an address never gets worse, and a verdict it was told
\* is never taken back.
THEOREM NoWorseNews == Spec => NewsNeverWorsen
<1> DEFINE Kept(p) == /\ told'[p] >= told[p]
                      /\ told[p] \in Final => told'[p] = told[p]
<1>1. IInv /\ [Next]_vars => [\A p \in Pairs : Kept(p)]_vars
  <2> SUFFICES ASSUME IInv, [Next]_vars, NEW p \in Pairs PROVE Kept(p)
    OBVIOUS
  <2>1. /\ p = <<p[1], p[2]>> /\ p[1] \in Name /\ p[2] \in Addr \cup {NoAddr}
        /\ told[p] \in Quality \cup {Unknown}
    BY ToldTyped DEF Pairs, IInv
  <2>2. CASE told'[p] = told[p]
    BY <2>1, <2>2 DEF Quality, Unknown, Unverified, Verified
  <2>3. CASE p[2] \in Addr /\ told'[p] = cache[p[2]].q
    <3>1. told[p] <= cache[p[2]].q /\ (told[p] \in Final => told[p] = cache[p[2]].q)
      BY <2>1, <2>3 DEF IInv, NewsInv
    <3>2. cache[p[2]].q \in Quality \cup {Unknown}
      BY <2>3, CacheOnlyImproves DEF IInv
    <3> QED
      BY <2>1, <2>3, <3>1, <3>2 DEF Quality, Unknown, Unverified, Verified
  <2>4. CASE p[2] = NoAddr /\ told'[p] = Unverified
    <3>1. told[p] \in {Unknown, Unverified}
      BY <2>1, <2>4 DEF IInv, NewsInv
    <3> QED
      BY <2>4, <3>1 DEF Unknown, Unverified, Final, Invalid, Verified
  <2>5. \/ told'[p] = told[p]
        \/ p[2] \in Addr /\ told'[p] = cache[p[2]].q
        \/ p[2] = NoAddr /\ told'[p] = Unverified
    BY <2>1, WhatIsTold, ToldTyped DEF IInv
  <2> QED
    BY <2>2, <2>3, <2>4, <2>5
<1> QED
  BY <1>1, Invariance, PTL DEF Spec, NewsNeverWorsen

=============================================================================
