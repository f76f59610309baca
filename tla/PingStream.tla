----------------------------- MODULE PingStream -----------------------------
(***************************************************************************)
(* A Pinger used on its own: goroutines that validate a stream of addresses, *)
(* goroutines that validate a single plain address, any number of goroutines *)
(* that stop the pinger once these have returned, and the reader of the      *)
(* verdict channel.                                                          *)
(***************************************************************************)
EXTENDS Pinger, FiniteSets

CONSTANTS Streams,      \* goroutines in ValidateStreamContext
          Callers,      \* goroutines that call Validate once
          Stoppers,     \* goroutines that call StopWait
          InputQuality, \* qualities the streamed addresses come with
          MaxIn         \* bound: how many addresses are streamed

Clients == Streams \cup Callers

ASSUME PingStreamAssumption ==
  /\ Streams \cap Callers = {} /\ IsFiniteSet(Clients) /\ IsFiniteSet(Workers)
  /\ InputQuality \subseteq Quality
  /\ MaxIn \in Nat

VARIABLES at,        \* where each client is
          held,      \* the verdict each client passes to validate
          inClosed,  \* the channel of streamed addresses is closed
          fed,       \* how many addresses were streamed
          once,      \* stopOnce
          stopper,   \* where each stopper is
          accepted,  \* history: how often an address was passed to validate
          notices,   \* history: how often its notice was read
          verdicts,  \* history: how often its verdict was read
          replies    \* history: replies received in the ping each worker has a verdict of

clientVars == <<at, held, inClosed, fed, accepted>>
stopperVars == <<once, stopper>>
readerVars == <<notices, verdicts>>
vars == <<runtimeVars, pingerVars, clientVars, stopperVars, readerVars, replies>>

Key(qa) == <<qa.name, qa.addr>>
Keys == (Name \cup {NoName}) \X Addr
Verdict == {qa \in QualifiedAddress : qa.addr \in Addr}

TypeOK ==
  /\ RuntimeTypeOK
  /\ PingerTypeOK(Verdict)
  /\ at \in [Clients -> {"select", "announce", "submit", "returned"}]
  /\ held \in [Clients -> Verdict \cup {NoJob}]
  /\ inClosed \in BOOLEAN
  /\ fed \in 0..MaxIn
  /\ once \in {"new", "running", "done"}
  /\ stopper \in [Stoppers -> {"idle", "stopping", "waiting", "returned"}]
  /\ {accepted, notices, verdicts} \subseteq [Keys -> Nat]
  /\ replies \in [Workers -> 0..Count]

Init ==
  /\ RuntimeInit /\ PingerInit
  /\ at = [c \in Clients |-> "select"]
  /\ held = [c \in Clients |-> NoJob]
  /\ inClosed = FALSE
  /\ fed = 0
  /\ once = "new"
  /\ stopper = [s \in Stoppers |-> "idle"]
  /\ accepted = [k \in Keys |-> 0]
  /\ notices = accepted /\ verdicts = accepted
  /\ replies = [w \in Workers |-> 0]

-----------------------------------------------------------------------------
(* The clients.                                                              *)

Inputs == {[name |-> n, addr |-> a, q |-> q, err |-> FALSE] :
             n \in Name \cup {NoName}, a \in Addr, q \in InputQuality}

\* A client enters validate with the verdict it is to announce.
Enter(c, verdict) ==
  /\ at' = [at EXCEPT ![c] = "announce"]
  /\ held' = [held EXCEPT ![c] = verdict]
  /\ accepted' = [accepted EXCEPT ![Key(verdict)] = @ + 1]

\* Where a client goes when validate returns.
Leave(c) ==
  /\ at' = [at EXCEPT ![c] = IF c \in Streams THEN "select" ELSE "returned"]
  /\ held' = [held EXCEPT ![c] = NoJob]
  /\ UNCHANGED <<inClosed, fed, accepted>>

\* Mutant: a streamed address is passed on with the quality it came with.
StreamedAsIs(c) ==
  /\ c \in Streams /\ at[c] = "select"
  /\ ~inClosed /\ fed < MaxIn
  /\ fed' = fed + 1
  /\ \E qa \in Inputs : Enter(c, qa)
  /\ UNCHANGED <<runtimeVars, pingerVars, stopperVars, readerVars, replies, inClosed>>

\* Whatever quality a streamed address comes with, it is announced as Verifying.
Streamed(c) ==
  /\ c \in Streams /\ at[c] = "select"
  /\ ~inClosed /\ fed < MaxIn
  /\ fed' = fed + 1
  /\ \E qa \in Inputs : Enter(c, WithNewQuality(qa, Verifying, FALSE))
  /\ UNCHANGED <<runtimeVars, pingerVars, stopperVars, readerVars, replies, inClosed>>

StreamEnds(c) ==
  /\ c \in Streams /\ at[c] = "select"
  /\ inClosed \/ cancelled
  /\ at' = [at EXCEPT ![c] = "returned"]
  /\ UNCHANGED <<runtimeVars, pingerVars, stopperVars, readerVars, replies,
                 held, inClosed, fed, accepted>>

Validate(c) ==
  /\ c \in Callers /\ at[c] = "select"
  /\ \E a \in Addr : Enter(c, [name |-> NoName, addr |-> a, q |-> Verifying, err |-> FALSE])
  /\ UNCHANGED <<runtimeVars, pingerVars, stopperVars, readerVars, replies, inClosed, fed>>

Announces(c) ==
  /\ at[c] = "announce"
  /\ Announce(held[c])
  /\ at' = [at EXCEPT ![c] = "submit"]
  /\ UNCHANGED <<runtimeVars, stopperVars, readerVars, replies, held, inClosed, fed, accepted>>

GivesUp(c) ==
  /\ at[c] = "announce" /\ cancelled
  /\ Leave(c)
  /\ UNCHANGED <<runtimeVars, pingerVars, stopperVars, readerVars, replies>>

Submits(c) ==
  /\ at[c] = "submit"
  /\ Submit(held[c])
  /\ Leave(c)
  /\ UNCHANGED <<runtimeVars, stopperVars, readerVars, replies>>

ClientStep(c) ==
  \/ StreamEnds(c) \/ Announces(c) \/ GivesUp(c) \/ Submits(c)
  \/ Validate(c)

CloseInput ==
  /\ ~inClosed
  /\ inClosed' = TRUE
  /\ UNCHANGED <<runtimeVars, pingerVars, stopperVars, readerVars, replies,
                 at, held, fed, accepted>>

-----------------------------------------------------------------------------
(* StopWait, called when nobody is going to validate any more: the first     *)
(* caller does the work, the others wait for it.                             *)

BeginStop(s) ==
  /\ stopper[s] = "idle"
  /\ \A c \in Clients : at[c] = "returned"
  /\ once = "new"
  /\ once' = "running"
  /\ stopper' = [stopper EXCEPT ![s] = "stopping"]
  /\ StopPool
  /\ UNCHANGED <<runtimeVars, clientVars, readerVars, replies>>

\* Mutant: a flag instead of sync.Once, whoever comes second does not wait.
ReturnAtOnce(s) ==
  /\ stopper[s] = "idle" /\ once # "new"
  /\ stopper' = [stopper EXCEPT ![s] = "returned"]
  /\ UNCHANGED <<runtimeVars, pingerVars, clientVars, readerVars, replies, once>>

JoinStop(s) ==
  /\ stopper[s] = "idle" /\ once # "new"
  /\ stopper' = [stopper EXCEPT ![s] = "waiting"]
  /\ UNCHANGED <<runtimeVars, pingerVars, clientVars, readerVars, replies, once>>

EndStop(s) ==
  /\ stopper[s] = "stopping"
  /\ CloseCourt
  /\ once' = "done"
  /\ stopper' = [stopper EXCEPT ![s] = "returned"]
  /\ UNCHANGED <<runtimeVars, clientVars, readerVars, replies>>

Stopped(s) ==
  /\ stopper[s] = "waiting" /\ once = "done"
  /\ stopper' = [stopper EXCEPT ![s] = "returned"]
  /\ UNCHANGED <<runtimeVars, pingerVars, clientVars, readerVars, replies, once>>

StopperStep(s) == BeginStop(s) \/ JoinStop(s) \/ EndStop(s) \/ Stopped(s)

-----------------------------------------------------------------------------
\* The reader of the verdict channel.
Read ==
  LET v == Head(courtTV)
  IN  /\ TakeVerdict
      /\ IF v.q \in Final
           THEN /\ verdicts' = [verdicts EXCEPT ![Key(v)] = @ + 1]
                /\ UNCHANGED notices
           ELSE /\ notices' = [notices EXCEPT ![Key(v)] = @ + 1]
                /\ UNCHANGED verdicts
      /\ UNCHANGED <<runtimeVars, clientVars, stopperVars, replies>>

\* The workers of the pool.
PoolStep(w) ==
  /\ \/ /\ Start(w) \/ PingFails(w) \/ Deliver(w) \/ Drop(w)
        /\ replies' = [replies EXCEPT ![w] = 0]
     \/ \E received \in 0..Count :
          PingEnds(w, received) /\ replies' = [replies EXCEPT ![w] = received]
  /\ UNCHANGED <<runtimeVars, clientVars, stopperVars, readerVars>>

CancelContext ==
  /\ Cancel
  /\ UNCHANGED <<pingerVars, clientVars, stopperVars, readerVars, replies>>

Terminated ==
  /\ \A s \in Stoppers : stopper[s] = "returned"
  /\ courtTV = << >>

Finished == Terminated /\ UNCHANGED vars

Next ==
  \/ \E c \in Clients : Streamed(c) \/ ClientStep(c)
  \/ \E s \in Stoppers : StopperStep(s)
  \/ \E w \in Workers : PoolStep(w)
  \/ CloseInput \/ Read \/ CancelContext
  \/ Finished

(***************************************************************************)
(* Every goroutine that can run does; the reader need not read on after a    *)
(* cancellation, and nobody needs to stream addresses.                       *)
(***************************************************************************)
Fairness ==
  /\ \A c \in Clients : WF_vars(ClientStep(c))
  /\ \A s \in Stoppers : WF_vars(StopperStep(s))
  /\ \A w \in Workers : WF_vars(PoolStep(w))
  /\ WF_vars(~cancelled /\ Read)

Spec == Init /\ [][Next]_vars
FairSpec == Spec /\ Fairness

-----------------------------------------------------------------------------
(* Properties.                                                               *)

\* The reader saw the verdict channel closed.
ReaderDone == courtClosed /\ courtTV = << >>

\* The reader never knows more verdicts about an address than it was given notices
\* of, although a worker may be done before its client runs again.
NoticeFirst == \A k \in Keys : verdicts[k] <= notices[k]

\* When the channel ends, the reader has got one notice and one verdict for each
\* time an address was passed in: nothing was lost or doubled on the way through
\* the clients, the pool and the shutdown - unless the context was cancelled.
OneVerdictEach ==
  ReaderDone /\ ~cancelled => notices = accepted /\ verdicts = accepted

\* Nobody sends to the verdict channel when it is closed, which would be a panic.
NoSendAfterClose == [][courtClosed => Len(courtTV') <= Len(courtTV)]_vars

\* No caller of StopWait is back before the pool is drained and the channel closed,
\* also not those that found another one stopping already.
StopWaitWaits ==
  (\E s \in Stoppers : stopper[s] = "returned") => courtClosed /\ PoolDrained

\* Once the input is closed every StopWait returns and the reader comes to the
\* closed end of the verdict channel.
StreamEndsForAll ==
  inClosed ~> (\A s \in Stoppers : stopper[s] = "returned") /\ (ReaderDone \/ cancelled)

\* After a cancellation every StopWait returns, though the input may stay open and
\* the verdicts unread.
CancelledStops == cancelled ~> \A s \in Stoppers : stopper[s] = "returned"

\* What the documentation of the Pinger says of its verdicts: an address is verified
\* only if the percentage of replies reaches the threshold.  The integer division gives
\* away up to one reply.
VerifiedReachesThreshold ==
  \A w \in Workers :
    worker[w] # NoJob /\ worker[w].q = Verified
      => 100 * replies[w] >= ThresholdPercentage * Count

=============================================================================
