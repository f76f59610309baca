------------------------------ MODULE Verifier ------------------------------
(***************************************************************************)
(* verifier.Verifier.Verify: the main goroutine reads named addresses,       *)
(* has each new address pinged and finally shuts everything down; the        *)
(* slurper goroutine feeds the pinger's verdicts back into the address       *)
(* cache; the pinger's workers run concurrently, and a reader drains the     *)
(* news channel.                                                             *)
(***************************************************************************)
EXTENDS Pinger, AddrCache

CONSTANTS Main, Slurper,  \* the two goroutines of Verify
          EntryQuality,   \* qualities of the named addresses fed in
          MaxIn           \* bound: how many named addresses are fed in

Thread == {Main, Slurper}

ASSUME VerifierAssumption ==
  /\ Main # Slurper /\ Free \notin Thread
  /\ EntryQuality \subseteq {Unverified, Verifying}
  /\ MaxIn \in Nat

VARIABLES pc,        \* where each goroutine of Verify is
          item,      \* the named address each goroutine holds
          inClosed,  \* the input channel is closed
          fed,       \* how many named addresses were read from the input
          asked      \* history: the names and addresses read from the input

verifyVars == <<pc, item, inClosed, fed, asked>>
vars == <<runtimeVars, pingerVars, cacheVars, newsVars, verifyVars>>

MainPC == {"select", "pass", "update", "tell", "announce", "submit",
           "stop", "stopping", "join", "wait", "close", "returned"}
SlurperPC == {"select", "update", "tell", "exited"}

\* In particular the type assertion of the slurper never fails: the pinger is only
\* given named addresses, and no name without an address gets into the cache.
TypeOK ==
  /\ RuntimeTypeOK
  /\ PingerTypeOK(DugAddresses)
  /\ CacheTypeOK
  /\ mu \in Thread \cup {Free}
  /\ NewsTypeOK
  /\ pc \in [Thread -> MainPC \cup SlurperPC]
  /\ pc[Main] \in MainPC /\ pc[Slurper] \in SlurperPC
  /\ item \in [Thread -> NamedAddresses \cup {NoJob}]
  /\ pc[Main] = "pass" => item[Main] \in NamedAddresses
  /\ \A t \in Thread : pc[t] \in {"update", "tell", "announce", "submit"}
                         => item[t] \in DugAddresses
  /\ inClosed \in BOOLEAN
  /\ fed \in 0..MaxIn
  /\ asked \subseteq Pairs

Init ==
  /\ RuntimeInit /\ PingerInit /\ CacheInit /\ NewsInit
  /\ pc = [t \in Thread |-> "select"]
  /\ item = [t \in Thread |-> NoJob]
  /\ inClosed = FALSE
  /\ fed = 0
  /\ asked = {}

-----------------------------------------------------------------------------
(* What the diggers may feed in: names still without an address, and names   *)
(* with one of their addresses.                                              *)
Inputs == {NA(n, NoAddr, Unverified) : n \in Name}
            \cup {NA(n, a, q) : n \in Name, a \in Addr, q \in EntryQuality}

At(t, label) == pc[t] = label /\ ~panicked
Goto(t, label) == pc' = [pc EXCEPT ![t] = label]

\* Back to the select of the goroutine's loop: the item it held is out of scope.
Continue(t) == Goto(t, "select") /\ item' = [item EXCEPT ![t] = NoJob]

\* The digger closes its channel, which is the input of Verify.
CloseInput ==
  /\ ~inClosed /\ ~panicked
  /\ inClosed' = TRUE
  /\ UNCHANGED <<runtimeVars, pingerVars, cacheVars, newsVars, pc, item, fed, asked>>

\* Whoever tracks the news reads on, whatever becomes of Verify.
ReadNews ==
  /\ ~panicked /\ TakeNews
  /\ UNCHANGED <<runtimeVars, pingerVars, cacheVars, verifyVars>>

CancelContext ==
  /\ Cancel
  /\ UNCHANGED <<pingerVars, cacheVars, newsVars, verifyVars>>

-----------------------------------------------------------------------------
(* Both goroutines: NamedAddressCache.Update.                                *)

UpdateDecides(t) ==
  /\ At(t, "update")
  /\ Decide(t, item[t])
  /\ Goto(t, "tell")
  /\ UNCHANGED <<runtimeVars, pingerVars, newsVars, item, inClosed, fed, asked>>

UpdateNotifies(t) ==
  /\ At(t, "tell")
  /\ Notify(t)
  /\ UNCHANGED <<cancelled, pingerVars, verifyVars>>

UpdateBailsOut(t) ==
  /\ At(t, "tell")
  /\ BailOut(t)
  /\ UNCHANGED <<runtimeVars, pingerVars, newsVars, verifyVars>>

\* Mutant: the main goroutine ignores what Update returned.
UpdateReturnIgnored(t) ==
  /\ At(t, "tell")
  /\ Return(t)
  /\ IF t = Main THEN Goto(t, "announce") /\ UNCHANGED item ELSE Continue(t)
  /\ UNCHANGED <<runtimeVars, pingerVars, newsVars, inClosed, fed, asked>>

UpdateReturns(t) ==
  /\ At(t, "tell")
  /\ Return(t)
  /\ IF t = Main /\ fresh THEN Goto(t, "announce") /\ UNCHANGED item ELSE Continue(t)
  /\ UNCHANGED <<runtimeVars, pingerVars, newsVars, inClosed, fed, asked>>

Update(t) ==
  UpdateDecides(t) \/ UpdateNotifies(t) \/ UpdateBailsOut(t) \/ UpdateReturns(t)

-----------------------------------------------------------------------------
(* The main goroutine.                                                       *)

\* case addr := <-in, up to the choice between passing on and updating
Receive ==
  /\ At(Main, "select") /\ ~inClosed /\ fed < MaxIn
  /\ \E na \in Inputs :
       /\ item' = [item EXCEPT ![Main] = na]
       /\ asked' = asked \cup {<<na.name, na.addr>>}
       /\ Goto(Main, IF na.addr = NoAddr THEN "pass" ELSE "update")
  /\ fed' = fed + 1
  /\ UNCHANGED <<runtimeVars, pingerVars, cacheVars, newsVars, inClosed>>

\* case _, ok := <-in with ok false, and case <-ctx.Done()
LeaveLoop ==
  /\ At(Main, "select") /\ (inClosed \/ cancelled)
  /\ Goto(Main, "stop")
  /\ UNCHANGED <<runtimeVars, pingerVars, cacheVars, newsVars, item, inClosed, fed, asked>>

\* A name that is not dug yet goes to the news channel past the cache.
PassOn ==
  /\ At(Main, "pass")
  /\ Send(item[Main])
  /\ Continue(Main)
  /\ UNCHANGED <<cancelled, pingerVars, cacheVars, inClosed, fed, asked>>

PassOnCancelled ==
  /\ At(Main, "pass") /\ cancelled
  /\ Goto(Main, "stop") /\ item' = [item EXCEPT ![Main] = NoJob]
  /\ UNCHANGED <<runtimeVars, pingerVars, cacheVars, newsVars, inClosed, fed, asked>>

\* ValidateQA hands validate a Verifying copy: send it to the court TV ...
AnnounceItem ==
  LET verdict == WithNewQuality(item[Main], Verifying, FALSE)
  IN  /\ At(Main, "announce")
      /\ Announce(verdict)
      /\ item' = [item EXCEPT ![Main] = verdict]
      /\ Goto(Main, "submit")
      /\ UNCHANGED <<runtimeVars, cacheVars, newsVars, inClosed, fed, asked>>

\* ... or, the context being done, do not ping at all ...
AnnounceCancelled ==
  /\ At(Main, "announce") /\ cancelled
  /\ Continue(Main)
  /\ UNCHANGED <<runtimeVars, pingerVars, cacheVars, newsVars, inClosed, fed, asked>>

\* ... and submit the task to the pool.
SubmitItem ==
  /\ At(Main, "submit")
  /\ Submit(item[Main])
  /\ Continue(Main)
  /\ UNCHANGED <<runtimeVars, cacheVars, newsVars, inClosed, fed, asked>>

\* v.pinger.StopWait()
StopPinger ==
  /\ At(Main, "stop")
  /\ StopPool
  /\ Goto(Main, "stopping")
  /\ UNCHANGED <<runtimeVars, cacheVars, newsVars, item, inClosed, fed, asked>>

PingerStopped ==
  /\ At(Main, "stopping")
  /\ CloseCourt
  /\ Goto(Main, "join")
  /\ UNCHANGED <<runtimeVars, cacheVars, newsVars, item, inClosed, fed, asked>>

\* Mutant: Verify does not wait for the slurper.
JoinNobody ==
  /\ At(Main, "join")
  /\ Goto(Main, "close")
  /\ UNCHANGED <<runtimeVars, pingerVars, cacheVars, newsVars, item, inClosed, fed, asked>>

\* select { case <-ctx.Done(): default: <-done }: the slurper is waited for only
\* if the context is not done yet.
Join ==
  /\ At(Main, "join")
  /\ Goto(Main, IF cancelled THEN "close" ELSE "wait")
  /\ UNCHANGED <<runtimeVars, pingerVars, cacheVars, newsVars, item, inClosed, fed, asked>>

SlurperDone ==
  /\ At(Main, "wait") /\ pc[Slurper] = "exited"
  /\ Goto(Main, "close")
  /\ UNCHANGED <<runtimeVars, pingerVars, cacheVars, newsVars, item, inClosed, fed, asked>>

CloseAndReturn ==
  /\ At(Main, "close")
  /\ CloseNews
  /\ Goto(Main, "returned")
  /\ UNCHANGED <<runtimeVars, pingerVars, cacheVars, item, inClosed, fed, asked>>

MainStep ==
  \/ Update(Main)
  \/ LeaveLoop \/ PassOn \/ PassOnCancelled
  \/ AnnounceItem \/ AnnounceCancelled \/ SubmitItem
  \/ StopPinger \/ PingerStopped \/ Join \/ SlurperDone \/ CloseAndReturn

-----------------------------------------------------------------------------
(* The slurper goroutine.                                                    *)

Slurp ==
  /\ At(Slurper, "select")
  /\ TakeVerdict
  /\ item' = [item EXCEPT ![Slurper] = Head(courtTV)]
  /\ Goto(Slurper, "update")
  /\ UNCHANGED <<runtimeVars, cacheVars, newsVars, inClosed, fed, asked>>

\* Mutant: the slurper leaves with verdicts still in the channel.
SlurperExitsEarly ==
  /\ At(Slurper, "select")
  /\ courtClosed \/ cancelled
  /\ Goto(Slurper, "exited")
  /\ UNCHANGED <<runtimeVars, pingerVars, cacheVars, newsVars, item, inClosed, fed, asked>>

\* The court TV channel is closed and drained, or the context is done.
SlurperExits ==
  /\ At(Slurper, "select")
  /\ (courtClosed /\ courtTV = << >>) \/ cancelled
  /\ Goto(Slurper, "exited")
  /\ UNCHANGED <<runtimeVars, pingerVars, cacheVars, newsVars, item, inClosed, fed, asked>>

SlurperStep == Update(Slurper) \/ Slurp \/ SlurperExits

\* The workers of the pinger's pool.
PoolStep(w) ==
  /\ WorkerStep(w)
  /\ UNCHANGED <<runtimeVars, cacheVars, newsVars, verifyVars>>

\* Verify has returned and everything came to rest, or the process is gone.
Terminated ==
  \/ panicked
  \/ pc[Main] = "returned" /\ pc[Slurper] = "exited" /\ news = << >>

Finished == Terminated /\ UNCHANGED vars

Next ==
  \/ CloseInput \/ ReadNews \/ CancelContext
  \/ Receive \/ MainStep \/ SlurperStep
  \/ \E w \in Workers : PoolStep(w)
  \/ Finished

(***************************************************************************)
(* The Go scheduler runs every goroutine that can run.  The reader is only   *)
(* obliged to read while the context is alive: who cancels may stop reading. *)
(* Nobody is obliged to feed, to close the input or to cancel.               *)
(***************************************************************************)
Fairness ==
  /\ WF_vars(MainStep) /\ WF_vars(SlurperStep)
  /\ \A w \in Workers : WF_vars(PoolStep(w))
  /\ WF_vars(~cancelled /\ ReadNews)

Spec == Init /\ [][Next]_vars
FairSpec == Spec /\ Fairness

-----------------------------------------------------------------------------
(* Properties.                                                               *)

\* A named address that has got all the news there will ever be about it.
Answered(p) == IF p[2] = NoAddr THEN told[p] # Unknown ELSE told[p] \in Final

\* What a name is told about one of its addresses never gets worse, and once it
\* was told a verdict it is never told another one - although Update may be
\* entered with outdated qualities by two goroutines at once, and although its
\* comparison of qualities would let Verified supersede Invalid.
NewsNeverWorsen ==
  [][\A p \in Pairs : /\ told'[p] >= told[p]
                      /\ told[p] \in Final => told'[p] = told[p]]_vars

\* A name that was told of an unverified address next hears that it is being verified,
\* before it hears the verdict, also if it joined in the middle of the ping; a map of
\* the news needs no other updates than the comment on NamedAddressesMap.Update names.
NewsInSteps ==
  [][\A p \in Pairs :
       told[p] = Unverified /\ told'[p] # told[p] => told'[p] = Verifying]_vars

\* All names of an address are told the same verdict, whether they waited for it
\* or came only after it had been reached.
SameVerdictForAllNames ==
  \A p1, p2 \in Pairs :
    p1[2] = p2[2] /\ told[p1] \in Final /\ told[p2] \in Final => told[p1] = told[p2]

\* The main goroutine is going to have its address pinged.
AboutToPing == pc[Main] \in {"announce", "submit"} \/ (pc[Main] = "tell" /\ fresh)

\* The slurper holds a verdict that is not in the cache yet.
HoldsVerdict == pc[Slurper] = "update" /\ item[Slurper].q \in Final

\* Everywhere a ping of address a can be: with the main goroutine that is going to
\* have it pinged, queued, with a worker, as a verdict on its way into the cache.
PingsOf(a) ==
  {x \in {<<"main", 0>>} : AboutToPing /\ item[Main].addr = a}
    \cup {<<"queue", i>> : i \in {j \in DOMAIN queue : queue[j].addr = a}}
    \cup {<<"worker", w>> : w \in {v \in Workers : worker[v] # NoJob /\ worker[v].addr = a}}
    \cup {<<"court", i>> : i \in {j \in DOMAIN courtTV :
                                    courtTV[j].addr = a /\ courtTV[j].q \in Final}}
    \cup {x \in {<<"slurper", 0>>} : HoldsVerdict /\ item[Slurper].addr = a}

\* An address is pinged at most once at a time, not before the cache knows it and
\* never again once its verdict has reached the cache.
PingedOnlyOnce ==
  \A a \in Addr :
    /\ \A x, y \in PingsOf(a) : x = y
    /\ cache[a].q \in Final \cup {Unknown} => PingsOf(a) = {}

\* As long as the context is alive, whoever asked and has no verdict yet is either
\* registered for an address that is being pinged, or its verdict is about to be
\* sent, or its update has not got the mutex yet.  A verdict that arrives between
\* the steps of Update must not leave a name behind.
NobodyForgotten ==
  cancelled \/ panicked \/
  \A p \in asked :
    \/ Answered(p)
    \/ /\ pc[Main] \in {"pass", "update"}
       /\ item[Main].name = p[1] /\ item[Main].addr = p[2]
    \/ \E na \in outbox : na.name = p[1] /\ na.addr = p[2] /\ na.q \in Final
    \/ /\ p[2] # NoAddr
       /\ p[1] \in cache[p[2]].consumers
       /\ cache[p[2]].q \notin Final
       /\ PingsOf(p[2]) # {}

\* No goroutine sends to the news channel once Verify has closed it.
NoPanic == ~panicked

\* The promise of verification: see VerificationLedger.  The verdict of an address
\* is the final quality in the cache.
Ledger == INSTANCE VerificationLedger WITH
            Pending <- {Unverified, Verifying},
            Verdicts <- Final,
            Undug <- {p \in Pairs : p[2] = NoAddr},
            AskedOf <- [p \in Pairs |-> p[2]],
            verdict <- [a \in Addr |-> IF cache[a].q \in Final THEN cache[a].q ELSE Unknown],
            aborted <- cancelled,
            closed <- newsClosed

\* Every step of Verify is a step of the ledger or changes nothing in it; its news
\* channel is closed only when everybody was answered, or after a cancellation.
KeepsLedger == Ledger!Spec

\* Everybody who asks gets an answer, even while the input stays open, unless the
\* context is cancelled.
EverybodyAnswered ==
  \A p \in Pairs : p \in asked ~> Answered(p) \/ cancelled

\* News of an invalid address carry the reason of its invalidity.
InvalidNewsExplained ==
  \A i \in DOMAIN news : news[i].q = Invalid => news[i].err

\* Once its input is closed Verify ends.
EndsWithInput == inClosed ~> pc[Main] = "returned" \/ cancelled

\* Verify returns after a cancellation, though nobody may be reading the news any
\* more, and no goroutine is left over: not the slurper, not a worker.
CancelledEnds ==
  cancelled ~> panicked \/ (pc[Main] = "returned" /\ pc[Slurper] = "exited" /\ PoolDrained)

=============================================================================
