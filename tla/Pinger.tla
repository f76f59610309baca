------------------------------- MODULE Pinger -------------------------------
(***************************************************************************)
(* ping.Pinger: a pool of workers that pings submitted addresses and sends   *)
(* first their Verifying notice and later the final verdict to the "court    *)
(* TV" channel.  The callers of validate (a Verifier, a validation stream)   *)
(* are processes of the modules that extend this one: Announce and Submit    *)
(* are the two blocking steps of validate, taken by the caller.              *)
(***************************************************************************)
EXTENDS Runtime, NamedAddress

CONSTANTS Workers,             \* the goroutines of the worker pool
          NoJob,               \* what an idle worker is working on
          Count,               \* pings sent to one address
          ThresholdPercentage  \* percentage of replies that verifies an address

ASSUME PingerAssumption ==
  /\ Workers # {}
  /\ NoJob \notin QualifiedAddress
  /\ Count \in Nat /\ ThresholdPercentage \in 0..100

VARIABLES courtTV,      \* the verdict channel
          courtClosed,  \* close(courtTV) was called
          queue,        \* tasks submitted to the pool and not yet picked up
          worker,       \* the verdict each worker is about: its quality is Verifying
                        \* while pinging and final once the pinging is over
          stopping      \* the pool was told to stop

pingerVars == <<courtTV, courtClosed, queue, worker, stopping>>

\* Task is what the callers of validate pass in.
PingerTypeOK(Task) ==
  /\ courtTV \in Seq(Task)
  /\ Len(courtTV) <= ChanSize
  /\ courtClosed \in BOOLEAN
  /\ queue \in Seq(Task)
  /\ worker \in [Workers -> Task \cup {NoJob}]
  /\ stopping \in BOOLEAN

PingerInit ==
  /\ courtTV = << >>
  /\ courtClosed = FALSE
  /\ queue = << >>
  /\ worker = [w \in Workers |-> NoJob]
  /\ stopping = FALSE

Pinging(w) == worker[w] # NoJob /\ worker[w].q = Verifying
Judged(w) == worker[w] # NoJob /\ worker[w].q \in Final

\* The number of replies below which pinging failed, in the integer arithmetic
\* of the code.
Threshold == (Count * ThresholdPercentage) \div 100

Judge(received) == IF received < Threshold THEN Invalid ELSE Verified

\* Mutant: the notice is sent without waiting for room.
AnnounceUnbounded(qa) ==
  /\ courtTV' = Append(courtTV, qa)
  /\ UNCHANGED <<courtClosed, queue, worker, stopping>>

\* validate's first step: send the Verifying notice, wait for room in the channel.
Announce(qa) ==
  /\ HasRoom(courtTV)
  /\ courtTV' = Append(courtTV, qa)
  /\ UNCHANGED <<courtClosed, queue, worker, stopping>>

\* validate's second step: the pool takes any number of tasks without blocking.
Submit(qa) ==
  /\ queue' = Append(queue, qa)
  /\ UNCHANGED <<courtTV, courtClosed, worker, stopping>>

\* An idle worker picks up the oldest task.
Start(w) ==
  /\ ~panicked
  /\ worker[w] = NoJob /\ queue # << >>
  /\ worker' = [worker EXCEPT ![w] = Head(queue)]
  /\ queue' = Tail(queue)
  /\ UNCHANGED <<courtTV, courtClosed, stopping>>

\* Pinging fails with an error: the context is done, the network namespace or
\* the socket is not available, the run timed out.
PingFails(w) ==
  /\ ~panicked /\ Pinging(w)
  /\ worker' = [worker EXCEPT ![w] = WithNewQuality(@, Invalid, TRUE)]
  /\ UNCHANGED <<courtTV, courtClosed, queue, stopping>>

\* Pinging ran to its end with the context still alive: count the replies.
PingEnds(w, received) ==
  /\ ~panicked /\ Pinging(w) /\ ~cancelled
  /\ worker' = [worker EXCEPT ![w] = WithNewQuality(@, Judge(received), Judge(received) = Invalid)]
  /\ UNCHANGED <<courtTV, courtClosed, queue, stopping>>

\* The deferred send of the final verdict ...
Deliver(w) ==
  /\ ~panicked /\ Judged(w) /\ HasRoom(courtTV)
  /\ courtTV' = Append(courtTV, worker[w])
  /\ worker' = [worker EXCEPT ![w] = NoJob]
  /\ UNCHANGED <<courtClosed, queue, stopping>>

\* Mutant: a verdict is dropped when the channel is full.
DropWhenFull(w) ==
  /\ ~panicked /\ Judged(w) /\ ~HasRoom(courtTV)
  /\ worker' = [worker EXCEPT ![w] = NoJob]
  /\ UNCHANGED <<courtTV, courtClosed, queue, stopping>>

\* Mutant: the send of the final verdict does not look at the context.
DropNever(w) ==
  /\ ~panicked /\ Judged(w) /\ cancelled /\ HasRoom(courtTV)
  /\ worker' = [worker EXCEPT ![w] = NoJob]
  /\ UNCHANGED <<courtTV, courtClosed, queue, stopping>>

\* ... that gives up when the context is done.
Drop(w) ==
  /\ ~panicked /\ Judged(w) /\ cancelled
  /\ worker' = [worker EXCEPT ![w] = NoJob]
  /\ UNCHANGED <<courtTV, courtClosed, queue, stopping>>

PingOver(w) == \E received \in 0..Count : PingEnds(w, received)

WorkerStep(w) == Start(w) \/ PingFails(w) \/ PingOver(w) \/ Deliver(w) \/ Drop(w)

\* StopWait: the pool drains its tasks, waits for its workers, and only then is
\* the court TV channel closed.
StopPool ==
  /\ stopping' = TRUE
  /\ UNCHANGED <<courtTV, courtClosed, queue, worker>>

PoolDrained == queue = << >> /\ \A w \in Workers : worker[w] = NoJob

\* Mutant: the pool is stopped, the channel stays open.
CourtLeftOpen ==
  /\ stopping /\ PoolDrained
  /\ UNCHANGED <<courtTV, courtClosed, queue, worker, stopping>>

\* Mutant: the channel is closed while workers still have verdicts to send.
CourtClosedEarly ==
  /\ stopping /\ queue = << >>
  /\ courtClosed' = TRUE
  /\ UNCHANGED <<courtTV, queue, worker, stopping>>

CloseCourt ==
  /\ stopping /\ PoolDrained
  /\ courtClosed' = TRUE
  /\ UNCHANGED <<courtTV, queue, worker, stopping>>

\* The reader of the verdict channel.
TakeVerdict ==
  /\ courtTV # << >>
  /\ courtTV' = Tail(courtTV)
  /\ UNCHANGED <<courtClosed, queue, worker, stopping>>

=============================================================================
