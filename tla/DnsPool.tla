------------------------------ MODULE DnsPool ------------------------------
(***************************************************************************)
(* dnsworker.DnsPool: a worker pool whose tasks each take a DNS connection   *)
(* from a free list, here for the tasks of ResolveName.  What the callback   *)
(* of ResolveName does is left to the modules that extend this one: they     *)
(* take a resolver from its step "callback" to the step "giveback".          *)
(***************************************************************************)
EXTENDS Runtime, NamedAddress, FiniteSets

CONSTANTS Conn,      \* the connections New dials
          NoConn,    \* what a resolver without a connection has
          Resolver   \* the goroutines of the worker pool

\* New passes the same size to the pool and to the dialing.
ASSUME DnsPoolAssumption ==
  /\ NoConn \notin Conn
  /\ IsFiniteSet(Conn)
  /\ IsFiniteSet(Resolver) /\ Cardinality(Resolver) <= Cardinality(Conn)

VARIABLES phase,     \* how far New got
          conn,      \* the state of each connection
          free,      \* p.free; until New returns, its local variable of that name
          tasks,     \* names submitted and not yet picked up
          resolver,  \* what each goroutine of the pool is doing
          running    \* the worker pool runs: New started it, StopWait ends it

poolVars == <<phase, conn, free, tasks, resolver, running>>

Steps == {"idle", "grab", "check", "exchange", "callback", "giveback"}

Idle == [step |-> "idle", name |-> NoName, conn |-> NoConn,
         family |-> "A", found |-> {}, err |-> FALSE]

\* found is the list of addresses without its order; err tells an error from nil.
ResolverState == [step: Steps, name: Name \cup {NoName}, conn: Conn \cup {NoConn},
                  family: {"A", "AAAA"}, found: SUBSET Addr, err: BOOLEAN]

PoolTypeOK ==
  /\ phase \in {"dialing", "failed", "ready", "stopped"}
  /\ conn \in [Conn -> {"none", "open", "closed"}]
  /\ free \in Seq(Conn)
  /\ tasks \in Seq(Name)
  /\ resolver \in [Resolver -> ResolverState]
  /\ running \in BOOLEAN

PoolInit ==
  /\ phase = "dialing"
  /\ conn = [c \in Conn |-> "none"]
  /\ free = << >>
  /\ tasks = << >>
  /\ resolver = [w \in Resolver |-> Idle]
  /\ running = TRUE

-----------------------------------------------------------------------------
(* New: dial one connection after the other.                                 *)

Dial ==
  /\ phase = "dialing"
  /\ \E c \in Conn :
       /\ conn[c] = "none"
       /\ conn' = [conn EXCEPT ![c] = "open"]
       /\ free' = Append(free, c)
  /\ UNCHANGED <<phase, tasks, resolver, running>>

\* Dialing fails, so all connections created so far are released.
DialFails ==
  /\ phase = "dialing" /\ \E c \in Conn : conn[c] = "none"
  /\ conn' = [c \in Conn |-> IF conn[c] = "open" THEN "closed" ELSE conn[c]]
  /\ free' = << >>
  /\ phase' = "failed"
  /\ UNCHANGED <<tasks, resolver, running>>

Dialed ==
  /\ phase = "dialing" /\ \A c \in Conn : conn[c] # "none"
  /\ phase' = "ready"
  /\ UNCHANGED <<conn, free, tasks, resolver, running>>

NewPool == Dial \/ DialFails \/ Dialed

-----------------------------------------------------------------------------
(* The tasks.                                                                *)

\* ResolveName only submits its task, which never blocks.
ResolveName(n) ==
  /\ tasks' = Append(tasks, n)
  /\ UNCHANGED <<phase, conn, free, resolver, running>>

\* An idle goroutine of the pool picks up the oldest task.
Pick(w) ==
  /\ resolver[w].step = "idle" /\ tasks # << >>
  /\ resolver' = [resolver EXCEPT ![w] = [Idle EXCEPT !.step = "grab", !.name = Head(tasks)]]
  /\ tasks' = Tail(tasks)
  /\ UNCHANGED <<phase, conn, free, running, panicked>>

Hold(w, c) ==
  resolver' = [resolver EXCEPT ![w] = [@ EXCEPT !.conn = c, !.step = "check"]]

\* Mutant: the connection is used without taking it off the free list.
GrabShared(w) ==
  /\ resolver[w].step = "grab"
  /\ \/ /\ free # << >>
        /\ Hold(w, free[Len(free)])
        /\ UNCHANGED panicked
     \/ /\ free = << >>
        /\ panicked' = TRUE
        /\ UNCHANGED resolver
  /\ UNCHANGED <<phase, conn, free, tasks, running>>

\* Take the connection that was given back last; there had better be one.
Grab(w) ==
  /\ resolver[w].step = "grab"
  /\ \/ /\ free # << >>
        /\ Hold(w, free[Len(free)])
        /\ free' = SubSeq(free, 1, Len(free) - 1)
        /\ UNCHANGED panicked
     \/ /\ free = << >>
        /\ panicked' = TRUE
        /\ UNCHANGED <<resolver, free>>
  /\ UNCHANGED <<phase, conn, tasks, running>>

\* The end of the task's function: its deferred callback gets what was found.
CallBack(w, found, err) ==
  resolver' = [resolver EXCEPT ![w] =
                 [@ EXCEPT !.step = "callback", !.found = found, !.err = err]]

\* Before each query the context is looked at.
Check(w) ==
  /\ resolver[w].step = "check"
  /\ IF cancelled
       THEN CallBack(w, resolver[w].found, TRUE)
       ELSE resolver' = [resolver EXCEPT ![w].step = "exchange"]
  /\ UNCHANGED <<phase, conn, free, tasks, running, panicked>>

\* A query that fails ends the task; what the query before it found is kept.
ExchangeFails(w) ==
  /\ resolver[w].step = "exchange"
  /\ CallBack(w, resolver[w].found, TRUE)
  /\ UNCHANGED <<phase, conn, free, tasks, running, panicked>>

\* A query is answered, by any addresses; A goes before AAAA, and it is an error if
\* neither of them has an answer.
Exchange(w, answer) ==
  LET found == resolver[w].found \cup answer
  IN  /\ resolver[w].step = "exchange"
      /\ IF resolver[w].family = "A"
           THEN resolver' = [resolver EXCEPT ![w] =
                               [@ EXCEPT !.step = "check", !.family = "AAAA", !.found = found]]
           ELSE CallBack(w, found, found = {})
      /\ UNCHANGED <<phase, conn, free, tasks, running, panicked>>

CallbackOver(w) ==
  resolver' = [resolver EXCEPT ![w] = [@ EXCEPT !.step = "giveback", !.found = {}]]

\* Mutant: a connection is given back only after a resolution without an error.
GiveBackGood(w) ==
  /\ resolver[w].step = "giveback"
  /\ free' = IF resolver[w].err THEN free ELSE Append(free, resolver[w].conn)
  /\ resolver' = [resolver EXCEPT ![w] = Idle]
  /\ UNCHANGED <<phase, conn, tasks, running, panicked>>

GiveBack(w) ==
  /\ resolver[w].step = "giveback"
  /\ free' = Append(free, resolver[w].conn)
  /\ resolver' = [resolver EXCEPT ![w] = Idle]
  /\ UNCHANGED <<phase, conn, tasks, running, panicked>>

\* All of a task but its callback.
TaskStep(w) ==
  \/ Pick(w) \/ Grab(w) \/ Check(w) \/ ExchangeFails(w)
  \/ GiveBack(w)

-----------------------------------------------------------------------------
(* StopWait: wait until all tasks are done, close the connections.           *)

TasksDone == tasks = << >> /\ \A w \in Resolver : resolver[w].step = "idle"

\* Mutant: the connections are closed while tasks are still running.
CloseTooEarly ==
  /\ phase = "ready" /\ tasks = << >>
  /\ conn' = [c \in Conn |-> IF \E i \in DOMAIN free : free[i] = c THEN "closed" ELSE conn[c]]
  /\ free' = << >>
  /\ running' = FALSE /\ phase' = "stopped"
  /\ UNCHANGED <<tasks, resolver>>

ClosePool ==
  /\ phase = "ready" /\ TasksDone
  /\ conn' = [c \in Conn |-> IF \E i \in DOMAIN free : free[i] = c THEN "closed" ELSE conn[c]]
  /\ free' = << >>
  /\ running' = FALSE /\ phase' = "stopped"
  /\ UNCHANGED <<tasks, resolver>>

-----------------------------------------------------------------------------
(* Properties.                                                               *)

Holds(w) == resolver[w].step \in {"check", "exchange", "callback", "giveback"}

\* A connection is used by one task at a time, is never used while it is on the free
\* list, where it is only once, and is open all the while.
ConnExclusive ==
  /\ \A w \in Resolver : Holds(w) =>
       /\ conn[resolver[w].conn] = "open"
       /\ \A i \in DOMAIN free : free[i] # resolver[w].conn
       /\ \A v \in Resolver \ {w} : Holds(v) => resolver[v].conn # resolver[w].conn
  /\ \A i, j \in DOMAIN free : free[i] = free[j] => i = j

\* When the pool is gone, be it stopped or never finished, so are its connections.
NoConnLeft == phase \in {"failed", "stopped"} => \A c \in Conn : conn[c] # "open"

\* A pool that could not be created leaves no goroutine behind.
FailureLeavesNothing == phase = "failed" => ~running

=============================================================================
