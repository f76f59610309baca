------------------------------- MODULE Digger -------------------------------
(***************************************************************************)
(* dig.Digger: a goroutine announces the names it was given and has them     *)
(* resolved by the DNS pool, whose tasks send the addresses they find to the *)
(* same channel, and finally stops the pool and closes the channel.          *)
(***************************************************************************)
EXTENDS DnsPool

CONSTANTS MaxNames  \* bound: how many names are dug

ASSUME DiggerAssumption == MaxNames \in Nat

VARIABLES dig,         \* where the digging goroutine is
          names,       \* the names it has not announced yet
          diggernews,  \* the channel of the digger's news
          newsClosed,  \* close(d.news) was called
          wanted,      \* history: the names it was given
          answers,     \* history: the addresses the DNS pool found for the names
          named, dug   \* history: the names and the addresses that were sent

digVars == <<dig, names, diggernews, newsClosed>>
history == <<wanted, answers, named, dug>>
vars == <<runtimeVars, poolVars, digVars, history>>

DigSteps == {"new", "announce", "resolve", "stop", "close", "done"}

TypeOK ==
  /\ RuntimeTypeOK /\ PoolTypeOK
  /\ dig \in DigSteps
  /\ names \in Seq(Name)
  /\ diggernews \in Seq(NamedAddresses) /\ Len(diggernews) <= ChanSize
  /\ newsClosed \in BOOLEAN
  /\ {wanted, named} \subseteq SUBSET Name
  /\ {answers, dug} \subseteq SUBSET (Name \X Addr)
  /\ dig = "resolve" => names # << >>

Lists == UNION {[1..k -> Name] : k \in 0..MaxNames}

Init ==
  /\ RuntimeInit /\ PoolInit
  /\ dig = "new"
  /\ names \in Lists
  /\ diggernews = << >>
  /\ newsClosed = FALSE
  /\ wanted = {names[i] : i \in DOMAIN names}
  /\ answers = {} /\ named = {} /\ dug = {}

-----------------------------------------------------------------------------
Go(step) == dig' = step /\ ~panicked

\* Mutant: a send does not wait for room.
SendUnbounded(na) ==
  /\ diggernews' = Append(diggernews, na)
  /\ UNCHANGED panicked

\* A send to the news channel, which panics if the channel is closed.
Send(na) ==
  \/ /\ ~newsClosed /\ HasRoom(diggernews)
     /\ diggernews' = Append(diggernews, na)
     /\ UNCHANGED panicked
  \/ /\ newsClosed
     /\ panicked' = TRUE
     /\ UNCHANGED diggernews

\* New dials the connections of the pool ...
NewDials ==
  /\ dig = "new" /\ NewPool
  /\ Go(CASE phase' = "ready" -> "announce" [] phase' = "failed" -> "done" [] OTHER -> "new")
  /\ UNCHANGED <<runtimeVars, names, diggernews, newsClosed, history>>

\* ... then DigFQDNs announces the next name ...
AnnounceName ==
  /\ dig = "announce" /\ names # << >>
  /\ Go("resolve")
  /\ Send(NA(Head(names), NoAddr, Unverified))
  /\ named' = named \cup {Head(names)}
  /\ UNCHANGED <<cancelled, poolVars, names, newsClosed, wanted, answers, dug>>

\* ... and has it resolved, ...
ResolveIt ==
  /\ dig = "resolve"
  /\ ResolveName(Head(names))
  /\ Go("announce") /\ names' = Tail(names)
  /\ UNCHANGED <<runtimeVars, diggernews, newsClosed, history>>

\* ... until there is no name left or the context is done.
DigEnds ==
  /\ dig = "announce" /\ (names = << >> \/ cancelled)
  /\ Go("stop")
  /\ UNCHANGED <<runtimeVars, poolVars, names, diggernews, newsClosed, history>>

\* Mutant: StopWait closes the channel without waiting for the pool.
CloseAtOnce ==
  /\ dig \in {"stop", "close"}
  /\ newsClosed' = TRUE
  /\ Go("done")
  /\ UNCHANGED <<runtimeVars, poolVars, names, diggernews, history>>

\* StopWait waits for the pool ...
StopPool ==
  /\ dig = "stop"
  /\ ClosePool
  /\ Go("close")
  /\ UNCHANGED <<runtimeVars, names, diggernews, newsClosed, history>>

\* ... before it closes the channel.
CloseNews ==
  /\ dig = "close"
  /\ newsClosed' = TRUE
  /\ Go("done")
  /\ UNCHANGED <<runtimeVars, poolVars, names, diggernews, history>>

DigStep ==
  NewDials \/ AnnounceName \/ ResolveIt \/ DigEnds \/ StopPool \/ CloseNews

-----------------------------------------------------------------------------
(* The DNS pool and the callbacks DigFQDNs passes to ResolveName.            *)

Resolve(w) ==
  /\ ~panicked /\ TaskStep(w)
  /\ UNCHANGED <<cancelled, digVars, history>>

Answered(w) ==
  /\ ~panicked
  /\ \E answer \in SUBSET Addr :
       /\ Exchange(w, answer)
       /\ answers' = answers \cup ({resolver[w].name} \X answer)
  /\ UNCHANGED <<cancelled, digVars, wanted, named, dug>>

\* The callback sends an address; a plain error is not passed on to anyone.
SendAddress(w) ==
  /\ ~panicked /\ resolver[w].step = "callback"
  /\ \E a \in resolver[w].found :
       /\ Send(NA(resolver[w].name, a, Unverified))
       /\ resolver' = [resolver EXCEPT ![w].found = @ \ {a}]
       /\ dug' = dug \cup {<<resolver[w].name, a>>}
  /\ UNCHANGED <<cancelled, phase, conn, free, tasks, running, dig, names, newsClosed,
                 wanted, answers, named>>

\* Mutant: no addresses are sent if there was an error.
CallbackHeedsError(w) ==
  /\ ~panicked /\ resolver[w].step = "callback"
  /\ resolver[w].found = {} \/ cancelled \/ resolver[w].err
  /\ CallbackOver(w)
  /\ UNCHANGED <<runtimeVars, phase, conn, free, tasks, running, digVars, history>>

\* Mutant: the callback does not look at the context.
CallbackStubborn(w) ==
  /\ ~panicked /\ resolver[w].step = "callback"
  /\ resolver[w].found = {}
  /\ CallbackOver(w)
  /\ UNCHANGED <<runtimeVars, phase, conn, free, tasks, running, digVars, history>>

\* The callback returns when it has sent all addresses or the context is done.
CallbackReturns(w) ==
  /\ ~panicked /\ resolver[w].step = "callback"
  /\ resolver[w].found = {} \/ cancelled
  /\ CallbackOver(w)
  /\ UNCHANGED <<runtimeVars, phase, conn, free, tasks, running, digVars, history>>

ResolverStep(w) == Resolve(w) \/ Answered(w) \/ SendAddress(w) \/ CallbackReturns(w)

\* The consumer of the news, which is a Verifier.
ReadNews ==
  /\ ~panicked /\ diggernews # << >>
  /\ diggernews' = Tail(diggernews)
  /\ UNCHANGED <<runtimeVars, poolVars, dig, names, newsClosed, history>>

CancelContext ==
  /\ Cancel
  /\ UNCHANGED <<poolVars, digVars, history>>

Terminated == panicked \/ (dig = "done" /\ diggernews = << >>)

Finished == Terminated /\ UNCHANGED vars

Next ==
  \/ DigStep
  \/ \E w \in Resolver : ResolverStep(w)
  \/ ReadNews \/ CancelContext
  \/ Finished

(***************************************************************************)
(* Every goroutine that can run does, and DNS exchanges end (they have a     *)
(* timeout).  The consumer need not read on after a cancellation.            *)
(***************************************************************************)
Fairness ==
  /\ WF_vars(DigStep)
  /\ \A w \in Resolver : WF_vars(ResolverStep(w))
  /\ WF_vars(~cancelled /\ ReadNews)

Spec == Init /\ [][Next]_vars
FairSpec == Spec /\ Fairness

-----------------------------------------------------------------------------
(* Properties.                                                               *)

\* No task finds the free list empty, no callback sends to the closed channel.
NoPanic == ~panicked

\* The news of the digger are a stream as DigStream has it: also a partial result
\* of a resolution that failed is sent, also what is found last before the end.
Stream == INSTANCE DigStream WITH aborted <- cancelled, closed <- newsClosed
KeepsStream == Stream!Spec

\* Digging comes to its end, be the names resolved or not; how it leaves the pool then
\* is said by NoConnLeft.
DiggingEnds == <>(dig = "done" \/ cancelled)

\* After a cancellation digging ends though nobody may be reading the news, and no
\* task and no goroutine of the pool is left; those of a New that failed are excused,
\* as FailureLeavesNothing is about them.
CancelledEnds ==
  cancelled ~> dig = "done" /\ TasksDone /\ (phase = "failed" \/ ~running)

=============================================================================
