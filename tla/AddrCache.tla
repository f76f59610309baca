------------------------------ MODULE AddrCache ------------------------------
(***************************************************************************)
(* verifier.NamedAddressCache: per address the best quality known so far and *)
(* the names that wait to hear of a better one.  Update runs under a mutex   *)
(* that it keeps while it sends to the news channel, so that several         *)
(* goroutines may be kept waiting by one slow reader.  Update is taken apart *)
(* into the locked decision (FirstSight, Stale, Raise), the sends it decided *)
(* on (Notify, BailOut) and the unlocking (Return), for a goroutine t.       *)
(***************************************************************************)
EXTENDS Runtime, NamedAddress

CONSTANTS Free  \* the holder of a mutex nobody holds

VARIABLES cache,       \* c.m
          mu,          \* the goroutine that holds c.mu
          outbox,      \* what the holder still has to send
          fresh,       \* what the holder's Update returns
          news,        \* the channel of the Verifier's results
          newsClosed,  \* close(news) was called
          told         \* history: the last quality sent for a name and address

cacheVars == <<cache, mu, outbox, fresh>>
newsVars == <<news, newsClosed, told>>

Unknown == -1

\* The waiting names are a set: the code adds a name only once.  It notifies the names
\* in the order in which they registered, of which no property speaks: here any order
\* may be taken.
Entry == [q: Quality \cup {Unknown}, err: BOOLEAN, consumers: SUBSET Name]

Pairs == Name \X (Addr \cup {NoAddr})

CacheTypeOK ==
  /\ cache \in [Addr -> Entry]
  /\ outbox \in SUBSET DugAddresses
  /\ fresh \in BOOLEAN

NewsTypeOK ==
  /\ news \in Seq(NamedAddresses)
  /\ Len(news) <= ChanSize
  /\ newsClosed \in BOOLEAN
  /\ told \in [Pairs -> Quality \cup {Unknown}]

CacheInit ==
  /\ cache = [a \in Addr |-> [q |-> Unknown, err |-> FALSE, consumers |-> {}]]
  /\ mu = Free
  /\ outbox = {}
  /\ fresh = FALSE

NewsInit ==
  /\ news = << >>
  /\ newsClosed = FALSE
  /\ told = [p \in Pairs |-> Unknown]

\* A send to the news channel: it panics when the channel is closed.
Send(na) ==
  \/ /\ ~newsClosed /\ HasRoom(news)
     /\ news' = Append(news, na)
     /\ told' = [told EXCEPT ![<<na.name, na.addr>>] = na.q]
     /\ UNCHANGED <<newsClosed, panicked>>
  \/ /\ newsClosed
     /\ panicked' = TRUE
     /\ UNCHANGED newsVars

CloseNews ==
  /\ newsClosed' = TRUE
  /\ UNCHANGED <<news, told>>

TakeNews ==
  /\ news # << >>
  /\ news' = Tail(news)
  /\ UNCHANGED <<newsClosed, told>>

Lock(t) == mu = Free /\ mu' = t

\* An address nobody asked for before: cache it and pass the named address on.
FirstSight(t, na) ==
  /\ Lock(t)
  /\ cache[na.addr].q = Unknown
  /\ cache' = [cache EXCEPT ![na.addr] =
                 [q |-> na.q, err |-> FALSE, consumers |-> {na.name}]]
  /\ outbox' = {na}
  /\ fresh' = TRUE

\* Mutant: a newcomer is told the outdated quality it came with.
StaleEchoed(t, na) ==
  LET e == cache[na.addr]
      newcomer == na.name \notin e.consumers
  IN  /\ Lock(t)
      /\ e.q # Unknown /\ na.q <= e.q
      /\ cache' = [cache EXCEPT ![na.addr].consumers = @ \cup {na.name}]
      /\ outbox' = IF newcomer THEN {na} ELSE {}
      /\ fresh' = FALSE

\* Mutant: a newcomer is told the quality so far but not registered for the next.
StaleUnregistered(t, na) ==
  LET e == cache[na.addr]
      newcomer == na.name \notin e.consumers
  IN  /\ Lock(t)
      /\ e.q # Unknown /\ na.q <= e.q
      /\ outbox' = IF newcomer THEN {WithNewQuality(na, e.q, e.err)} ELSE {}
      /\ fresh' = FALSE
      /\ UNCHANGED cache

\* Mutant: a newcomer's address is pinged again.
StaleFresh(t, na) ==
  LET e == cache[na.addr]
      newcomer == na.name \notin e.consumers
  IN  /\ Lock(t)
      /\ e.q # Unknown /\ na.q <= e.q
      /\ cache' = [cache EXCEPT ![na.addr].consumers = @ \cup {na.name}]
      /\ outbox' = IF newcomer THEN {WithNewQuality(na, e.q, e.err)} ELSE {}
      /\ fresh' = newcomer

\* The cache knows as much or more: only a name it did not know is told.
Stale(t, na) ==
  LET e == cache[na.addr]
      newcomer == na.name \notin e.consumers
  IN  /\ Lock(t)
      /\ e.q # Unknown /\ na.q <= e.q
      /\ cache' = [cache EXCEPT ![na.addr].consumers = @ \cup {na.name}]
      /\ outbox' = IF newcomer THEN {WithNewQuality(na, e.q, e.err)} ELSE {}
      /\ fresh' = FALSE

\* Mutant: the waiting names are only told of the verdict.
RaiseQuietly(t, na) ==
  LET e == cache[na.addr]
      waiting == IF na.q \in Final THEN e.consumers ELSE e.consumers \cup {na.name}
      remaining == IF na.q \in Final THEN {} ELSE waiting
  IN  /\ Lock(t)
      /\ e.q # Unknown /\ na.q > e.q
      /\ cache' = [cache EXCEPT ![na.addr].q = na.q, ![na.addr].consumers = remaining]
      /\ outbox' = IF na.q \in Final THEN {[na EXCEPT !.name = n] : n \in waiting} ELSE {}
      /\ fresh' = FALSE

\* A better quality: all waiting names are told, and a final one ends their wait.
\* Only a quality that is not final yet registers the updated name.
Raise(t, na) ==
  LET e == cache[na.addr]
      waiting == IF na.q \in Final THEN e.consumers ELSE e.consumers \cup {na.name}
      remaining == IF na.q \in Final THEN {} ELSE waiting
  IN  /\ Lock(t)
      /\ e.q # Unknown /\ na.q > e.q
      /\ cache' = [cache EXCEPT ![na.addr].q = na.q, ![na.addr].consumers = remaining]
      /\ outbox' = {[na EXCEPT !.name = n] : n \in waiting}
      /\ fresh' = FALSE

Decide(t, na) == FirstSight(t, na) \/ Stale(t, na) \/ Raise(t, na)

\* The holder sends one of the notifications it decided on ...
Notify(t) ==
  /\ mu = t
  /\ \E na \in outbox : Send(na) /\ outbox' = outbox \ {na}
  /\ UNCHANGED <<cache, mu, fresh>>

\* ... or finds the context done and leaves the others out.
BailOut(t) ==
  /\ mu = t /\ cancelled /\ outbox # {}
  /\ outbox' = {}
  /\ UNCHANGED <<cache, mu, fresh>>

\* Everything is sent: the deferred unlock.
Return(t) ==
  /\ mu = t /\ outbox = {}
  /\ mu' = Free
  /\ fresh' = FALSE
  /\ UNCHANGED <<cache, outbox>>

=============================================================================
