-------------------------- MODULE PingStreamProofs --------------------------
(***************************************************************************)
(* Theorems about a Pinger used on its own, for any number of clients,       *)
(* workers and stoppers, all channel sizes and all thresholds.  Besides the  *)
(* types and the shutdown they count: what passes the verdict channel is     *)
(* accounted for, address by address, on its way from client to reader.      *)
(***************************************************************************)
EXTENDS PingStream, FiniteSetTheorems, TLAPS

-----------------------------------------------------------------------------
(* Lemmas about the values on their way.                                     *)

\* What a client hands over, and what may stand in the verdict channel.
Asked == {v \in Verdict : v.q = Verifying}
Underway == {Verifying} \cup Final
Told == {v \in Verdict : v.q \in Underway}

\* A new quality changes neither the name nor the address.
LEMMA Requalified ==
  ASSUME NEW v \in Verdict, NEW q \in Quality, NEW err \in BOOLEAN
  PROVE  /\ WithNewQuality(v, q, err) \in Verdict
         /\ WithNewQuality(v, q, err).q = q
         /\ Key(WithNewQuality(v, q, err)) = Key(v)
BY DEF WithNewQuality, NamedWithNewQuality, PlainWithNewQuality, Verdict, QualifiedAddress, Key

LEMMA KeyTyped == \A v \in Verdict : Key(v) \in Keys
BY DEF Key, Keys, Verdict, QualifiedAddress

LEMMA QualityValues ==
  /\ Verifying \in Quality /\ Final \subseteq Quality
  /\ Invalid \in Final /\ Verified \in Final /\ Verifying \notin Final
BY DEF Quality, Final, Unverified, Verifying, Invalid, Verified

LEMMA JobsAreAddresses == NoJob \notin Verdict
BY PingerAssumption DEF Verdict

LEMMA JudgeFinal == \A received \in 0..Count : Judge(received) \in Final
BY DEF Judge, Final

LEMMA InputsTyped == Inputs \subseteq Verdict
<1> SUFFICES ASSUME NEW n \in Name \cup {NoName}, NEW a \in Addr, NEW q \in InputQuality
             PROVE  [name |-> n, addr |-> a, q |-> q, err |-> FALSE] \in Verdict
  BY DEF Inputs
<1>1. q \in Quality
  BY PingStreamAssumption
<1> QED
  BY <1>1 DEF Verdict, QualifiedAddress

-----------------------------------------------------------------------------
(* The inductive invariant.                                                  *)

\* Only a client inside validate is bound to a verdict, and until a worker is done
\* pinging it is a Verifying one.
HeldInv ==
  /\ \A c \in Clients : at[c] \in {"announce", "submit"} => held[c] \in Asked
  /\ queue \in Seq(Asked)
  /\ worker \in [Workers -> Told \cup {NoJob}]
  /\ courtTV \in Seq(Told)

\* The first stopper finds all clients gone, and the channel is closed behind the
\* drained pool.
StopInv ==
  /\ stopping <=> once # "new"
  /\ once # "new" => \A c \in Clients : at[c] = "returned"
  /\ courtClosed <=> once = "done"
  /\ courtClosed => PoolDrained
  /\ \A s \in Stoppers : /\ stopper[s] = "stopping" => once = "running"
                         /\ stopper[s] = "returned" => once = "done"
  /\ \A s, t \in Stoppers : stopper[s] = "stopping" /\ stopper[t] = "stopping" => s = t

IInv == TypeOK /\ HeldInv /\ StopInv

LEMMA IInvInit == Init => IInv
<1> SUFFICES ASSUME Init PROVE IInv
  OBVIOUS
<1>1. /\ courtTV = << >> /\ queue = << >> /\ worker = [w \in Workers |-> NoJob]
      /\ courtClosed = FALSE /\ stopping = FALSE /\ cancelled = FALSE /\ panicked = FALSE
  BY DEF Init, PingerInit, RuntimeInit
<1>2. RuntimeTypeOK /\ PingerTypeOK(Verdict)
  <2>1. courtTV \in Seq(Verdict) /\ queue \in Seq(Verdict) /\ Len(courtTV) <= ChanSize
    BY <1>1, RuntimeAssumption
  <2>2. worker \in [Workers -> Verdict \cup {NoJob}]
    BY <1>1
  <2> QED
    BY <1>1, <2>1, <2>2 DEF RuntimeTypeOK, PingerTypeOK
<1>3. 0 \in 0..MaxIn /\ 0 \in 0..Count
  BY PingStreamAssumption, PingerAssumption
<1>4. {accepted, notices, verdicts} \subseteq [Keys -> Nat]
  BY DEF Init
<1>5. TypeOK
  <2>1. /\ at \in [Clients -> {"select", "announce", "submit", "returned"}]
        /\ held \in [Clients -> Verdict \cup {NoJob}]
        /\ stopper \in [Stoppers -> {"idle", "stopping", "waiting", "returned"}]
        /\ inClosed \in BOOLEAN /\ once \in {"new", "running", "done"}
    BY DEF Init
  <2>2. replies \in [Workers -> 0..Count] /\ fed \in 0..MaxIn
    BY <1>3 DEF Init
  <2> QED
    BY <1>2, <1>4, <2>1, <2>2 DEF TypeOK
<1>6. HeldInv
  BY <1>1 DEF Init, HeldInv
<1>7. StopInv
  BY <1>1 DEF Init, StopInv
<1> QED
  BY <1>5, <1>6, <1>7 DEF IInv

-----------------------------------------------------------------------------
(* Each step keeps each part of the invariant.                               *)

\* The parts of the type invariant that some step changes together.
ClientData ==
  /\ at \in [Clients -> {"select", "announce", "submit", "returned"}]
  /\ held \in [Clients -> Verdict \cup {NoJob}]
  /\ inClosed \in BOOLEAN /\ fed \in 0..MaxIn
  /\ accepted \in [Keys -> Nat]
  /\ \A c \in Clients : at[c] \in {"announce", "submit"} => held[c] \in Asked

PoolData ==
  /\ courtTV \in Seq(Told) /\ Len(courtTV) <= ChanSize
  /\ queue \in Seq(Asked)
  /\ worker \in [Workers -> Told \cup {NoJob}]
  /\ replies \in [Workers -> 0..Count]

ReaderData == notices \in [Keys -> Nat] /\ verdicts \in [Keys -> Nat]

Flags ==
  /\ cancelled \in BOOLEAN /\ panicked \in BOOLEAN
  /\ courtClosed \in BOOLEAN /\ stopping \in BOOLEAN
  /\ once \in {"new", "running", "done"}
  /\ stopper \in [Stoppers -> {"idle", "stopping", "waiting", "returned"}]

LEMMA DataParts == TypeOK /\ HeldInv <=> ClientData /\ PoolData /\ ReaderData /\ Flags
<1>1. Asked \subseteq Verdict /\ Told \subseteq Verdict
  BY DEF Asked, Told, Underway
<1>2. TypeOK /\ HeldInv => ClientData /\ ReaderData
  BY DEF TypeOK, HeldInv, ClientData, ReaderData
<1>3. TypeOK /\ HeldInv => PoolData /\ Flags
  BY DEF TypeOK, HeldInv, PoolData, Flags, RuntimeTypeOK, PingerTypeOK
<1>4. ASSUME ClientData, PoolData, ReaderData, Flags PROVE TypeOK
  <2>1. /\ courtTV \in Seq(Verdict) /\ Len(courtTV) <= ChanSize
        /\ queue \in Seq(Verdict)
    BY <1>1, <1>4 DEF PoolData
  <2>2. worker \in [Workers -> Verdict \cup {NoJob}]
    BY <1>1, <1>4 DEF PoolData
  <2>3. RuntimeTypeOK /\ PingerTypeOK(Verdict)
    BY <1>4, <2>1, <2>2 DEF Flags, RuntimeTypeOK, PingerTypeOK
  <2> QED
    BY <1>4, <2>3 DEF TypeOK, ClientData, PoolData, ReaderData, Flags
<1>5. ClientData /\ PoolData => HeldInv
  BY DEF HeldInv, ClientData, PoolData
<1> QED
  BY <1>2, <1>3, <1>4, <1>5

\* Who changes what.
LEMMA Frames ==
  ASSUME [Next]_vars
  PROVE  /\ UNCHANGED clientVars \/ CloseInput \/ \E c \in Clients : Streamed(c) \/ ClientStep(c)
         /\ \/ UNCHANGED <<courtTV, queue, worker, replies>>
            \/ \E c \in Clients : Announces(c) \/ Submits(c)
            \/ \E w \in Workers : PoolStep(w)
            \/ Read
         /\ UNCHANGED readerVars \/ Read
         /\ UNCHANGED <<courtClosed, stopping, once, stopper>> \/ \E s \in Stoppers : StopperStep(s)
         /\ UNCHANGED runtimeVars \/ CancelContext
<1>1. CASE \E c \in Clients : Streamed(c) \/ ClientStep(c)
  BY <1>1 DEF Streamed, ClientStep, StreamEnds, Validate, Announces, GivesUp, Submits, Announce,
              Submit, pingerVars, stopperVars, readerVars
<1>2. CASE \E s \in Stoppers : StopperStep(s)
  BY <1>2 DEF StopperStep, BeginStop, JoinStop, EndStop, Stopped, StopPool, CloseCourt,
              pingerVars, readerVars
<1>3. CASE \E w \in Workers : PoolStep(w)
  BY <1>3 DEF PoolStep, Start, PingFails, PingEnds, Deliver, Drop, stopperVars, readerVars
<1>4. CASE CloseInput \/ CancelContext \/ Read \/ UNCHANGED vars
  BY <1>4 DEF CloseInput, CancelContext, Read, TakeVerdict, vars, pingerVars, stopperVars, readerVars
<1> QED
  BY <1>1, <1>2, <1>3, <1>4 DEF Next, Finished

LEMMA FlagsStep == Flags /\ [Next]_vars => Flags'
<1> SUFFICES ASSUME Flags, [Next]_vars PROVE Flags'
  OBVIOUS
<1>1. cancelled' \in BOOLEAN /\ panicked' \in BOOLEAN
  BY Frames DEF Flags, runtimeVars, CancelContext, Cancel
<1>2. CASE UNCHANGED <<courtClosed, stopping, once, stopper>>
  BY <1>1, <1>2 DEF Flags
<1>3. ASSUME NEW s \in Stoppers, StopperStep(s) PROVE Flags'
  BY <1>1, <1>3 DEF Flags, StopperStep, BeginStop, JoinStop, EndStop, Stopped, StopPool, CloseCourt,
                    pingerVars
<1> QED
  BY <1>2, <1>3, Frames

LEMMA ReaderDataStep == PoolData /\ ReaderData /\ [Next]_vars => ReaderData'
<1> SUFFICES ASSUME PoolData, ReaderData, [Next]_vars PROVE ReaderData'
  OBVIOUS
<1>1. CASE Read
  <2>1. Head(courtTV) \in Told
    BY <1>1 DEF Read, TakeVerdict, PoolData
  <2>2. Key(Head(courtTV)) \in Keys
    BY <2>1, KeyTyped DEF Told, Underway
  <2> QED
    BY <1>1, <2>2 DEF Read, ReaderData
<1> QED
  BY <1>1, Frames DEF ReaderData, readerVars

\* A client that enters validate is bound to a Verifying verdict.
LEMMA ClientDataStep == ClientData /\ [Next]_vars => ClientData'
<1> SUFFICES ASSUME ClientData, [Next]_vars PROVE ClientData'
  OBVIOUS
<1>1. ASSUME NEW c \in Clients, NEW v \in Asked, Enter(c, v) PROVE
        /\ at' \in [Clients -> {"select", "announce", "submit", "returned"}]
        /\ held' \in [Clients -> Verdict \cup {NoJob}]
        /\ accepted' \in [Keys -> Nat]
        /\ \A d \in Clients : at'[d] \in {"announce", "submit"} => held'[d] \in Asked
  <2>1. v \in Verdict /\ Key(v) \in Keys
    BY KeyTyped DEF Asked
  <2>2. accepted' \in [Keys -> Nat]
    BY <1>1, <2>1 DEF Enter, ClientData
  <2> QED
    BY <1>1, <2>1, <2>2 DEF Enter, ClientData
<1>2. ASSUME NEW c \in Clients, Leave(c) PROVE ClientData'
  BY <1>2 DEF Leave, ClientData
<1>3. ASSUME NEW c \in Clients, Streamed(c) PROVE ClientData'
  <2>1. PICK qa \in Inputs : Enter(c, WithNewQuality(qa, Verifying, FALSE))
    BY <1>3 DEF Streamed
  <2>2. WithNewQuality(qa, Verifying, FALSE) \in Asked
    BY InputsTyped, QualityValues, Requalified DEF Asked
  <2>3. fed' \in 0..MaxIn
    BY <1>3, PingStreamAssumption DEF Streamed, ClientData
  <2> QED
    BY <1>1, <1>3, <2>1, <2>2, <2>3 DEF Streamed, ClientData
<1>4. ASSUME NEW c \in Clients, Validate(c) PROVE ClientData'
  <2>1. PICK a \in Addr : Enter(c, [name |-> NoName, addr |-> a, q |-> Verifying, err |-> FALSE])
    BY <1>4 DEF Validate
  <2>2. [name |-> NoName, addr |-> a, q |-> Verifying, err |-> FALSE] \in Asked
    BY QualityValues DEF Asked, Verdict, QualifiedAddress
  <2> QED
    BY <1>1, <1>4, <2>1, <2>2 DEF Validate, ClientData
<1>5. ASSUME NEW c \in Clients, ClientStep(c) PROVE ClientData'
  <2>1. CASE StreamEnds(c)
    BY <2>1 DEF StreamEnds, ClientData
  <2>2. CASE Announces(c)
    BY <2>2 DEF Announces, ClientData
  <2> QED
    BY <1>2, <1>4, <1>5, <2>1, <2>2 DEF ClientStep, GivesUp, Submits
<1>6. CASE CloseInput
  BY <1>6 DEF CloseInput, ClientData
<1>7. CASE UNCHANGED clientVars
  BY <1>7 DEF clientVars, ClientData
<1> QED
  BY <1>3, <1>5, <1>6, <1>7, Frames

\* What the pool and the channel carry is a Verifying notice or a final verdict.
LEMMA PoolDataStep == ClientData /\ PoolData /\ [Next]_vars => PoolData'
<1> SUFFICES ASSUME ClientData, PoolData, [Next]_vars PROVE PoolData'
  OBVIOUS
<1>1. Asked \subseteq Told /\ Told \subseteq Verdict /\ NoJob \notin Told
  BY JobsAreAddresses DEF Asked, Told, Underway
<1>2. ASSUME NEW w \in Workers, PoolStep(w) PROVE PoolData'
  <2>1. replies' \in [Workers -> 0..Count]
    BY <1>2, PingerAssumption DEF PoolStep, PoolData
  <2>2. CASE Start(w)
    <3>1. Head(queue) \in Asked /\ Tail(queue) \in Seq(Asked)
      BY <2>2 DEF Start, PoolData
    <3> QED
      BY <1>1, <2>1, <2>2, <3>1 DEF Start, PoolData
  <2>3. ASSUME NEW q \in Final, NEW err \in BOOLEAN, Pinging(w),
               worker' = [worker EXCEPT ![w] = WithNewQuality(@, q, err)],
               UNCHANGED <<courtTV, queue>>
        PROVE  PoolData'
    <3>1. worker[w] \in Verdict
      BY <1>1, <2>3 DEF Pinging, PoolData
    <3>2. WithNewQuality(worker[w], q, err) \in Told
      BY <3>1, QualityValues, Requalified DEF Told, Underway
    <3> QED
      BY <2>1, <2>3, <3>2 DEF PoolData
  <2>4. CASE PingFails(w)
    BY <2>3, <2>4, QualityValues DEF PingFails
  <2>5. ASSUME NEW received \in 0..Count, PingEnds(w, received) PROVE PoolData'
    <3>1. Judge(received) \in Final /\ (Judge(received) = Invalid) \in BOOLEAN
      BY JudgeFinal
    <3> QED
      BY <2>3, <2>5, <3>1 DEF PingEnds
  <2>6. CASE Deliver(w)
    <3>1. worker[w] \in Told
      BY <2>6 DEF Deliver, Judged, PoolData
    <3>2. Append(courtTV, worker[w]) \in Seq(Told) /\ Len(Append(courtTV, worker[w])) <= ChanSize
      BY <2>6, <3>1, RuntimeAssumption DEF Deliver, HasRoom, PoolData
    <3> QED
      BY <2>1, <2>6, <3>2 DEF Deliver, PoolData
  <2>7. CASE Drop(w)
    BY <2>1, <2>7 DEF Drop, PoolData
  <2> QED
    BY <1>2, <2>2, <2>4, <2>5, <2>6, <2>7 DEF PoolStep
<1>3. ASSUME NEW c \in Clients, Announces(c) PROVE PoolData'
  <2>1. held[c] \in Told
    BY <1>1, <1>3 DEF Announces, ClientData
  <2>2. Append(courtTV, held[c]) \in Seq(Told) /\ Len(Append(courtTV, held[c])) <= ChanSize
    BY <1>3, <2>1, RuntimeAssumption DEF Announces, Announce, HasRoom, PoolData
  <2> QED
    BY <1>3, <2>2 DEF Announces, Announce, PoolData
<1>4. ASSUME NEW c \in Clients, Submits(c) PROVE PoolData'
  BY <1>4 DEF Submits, Submit, ClientData, PoolData
<1>5. CASE Read
  <2>1. Tail(courtTV) \in Seq(Told) /\ Len(Tail(courtTV)) <= ChanSize
    BY <1>5, RuntimeAssumption DEF Read, TakeVerdict, PoolData
  <2> QED
    BY <1>5, <2>1 DEF Read, TakeVerdict, PoolData
<1>6. CASE UNCHANGED <<courtTV, queue, worker, replies>>
  BY <1>6 DEF PoolData
<1> QED
  BY <1>2, <1>3, <1>4, <1>5, <1>6, Frames

LEMMA TypeStep == TypeOK /\ HeldInv /\ [Next]_vars => TypeOK' /\ HeldInv'
<1>1. ClientData /\ PoolData /\ ReaderData /\ Flags /\ [Next]_vars
        => (ClientData /\ PoolData /\ ReaderData /\ Flags)'
  BY ClientDataStep, PoolDataStep, ReaderDataStep, FlagsStep
<1> QED
  BY <1>1, DataParts, PTL

\* The pool stays drained once no client is left, and only the first stopper gets to
\* close the channel.
LEMMA StopInvStep == TypeOK /\ StopInv /\ [Next]_vars => StopInv'
<1> SUFFICES ASSUME TypeOK, StopInv, [Next]_vars PROVE StopInv'
  OBVIOUS
<1>1. once # "new" => UNCHANGED at /\ \A c \in Clients : at[c] = "returned"
  <2>1. ASSUME NEW c \in Clients, Streamed(c) \/ ClientStep(c) PROVE once = "new"
    BY <2>1 DEF Streamed, ClientStep, StreamEnds, Validate, Announces, GivesUp, Submits, StopInv
  <2> QED
    BY <2>1, Frames DEF CloseInput, clientVars, StopInv
<1>2. courtClosed => UNCHANGED <<queue, worker>> /\ PoolDrained
  <2> SUFFICES ASSUME courtClosed PROVE UNCHANGED <<queue, worker>> /\ PoolDrained
    OBVIOUS
  <2>1. PoolDrained /\ \A c \in Clients : at[c] = "returned"
    BY DEF StopInv
  <2>2. ASSUME NEW w \in Workers, PoolStep(w) PROVE FALSE
    BY <2>1, <2>2 DEF PoolStep, Start, PingFails, PingEnds, Deliver, Drop, Pinging, Judged, PoolDrained
  <2> QED
    BY <2>1, <2>2, Frames DEF Announces, Submits, Read, TakeVerdict
<1>3. CASE UNCHANGED <<courtClosed, stopping, once, stopper>>
  BY <1>1, <1>2, <1>3 DEF StopInv, PoolDrained
<1>4. ASSUME NEW s \in Stoppers, StopperStep(s) PROVE StopInv'
  <2>1. UNCHANGED <<queue, worker, at>> /\ stopper \in [Stoppers -> {"idle", "stopping", "waiting", "returned"}]
    BY <1>4 DEF StopperStep, BeginStop, JoinStop, EndStop, Stopped, StopPool, CloseCourt, pingerVars,
                clientVars, TypeOK
  <2>2. CASE BeginStop(s)
    BY <2>1, <2>2 DEF BeginStop, StopPool, StopInv, PoolDrained
  <2>3. CASE JoinStop(s)
    BY <2>1, <2>3 DEF JoinStop, pingerVars, StopInv, PoolDrained
  <2>4. CASE EndStop(s)
    BY <2>1, <2>4 DEF EndStop, CloseCourt, StopInv, PoolDrained
  <2>5. CASE Stopped(s)
    BY <2>1, <2>5 DEF Stopped, pingerVars, StopInv, PoolDrained
  <2> QED
    BY <1>4, <2>2, <2>3, <2>4, <2>5 DEF StopperStep
<1> QED
  BY <1>3, <1>4, Frames

LEMMA IInvStep == IInv /\ [Next]_vars => IInv'
BY TypeStep, StopInvStep DEF IInv

LEMMA Invariance == Spec => []IInv
<1> QED
  BY IInvInit, IInvStep, PTL DEF Spec

\* In every state the verdict channel is within its capacity and carries addresses
\* only, whatever qualities the streamed addresses came with.
THEOREM TypeCorrect == Spec => []TypeOK
<1>1. IInv => TypeOK
  BY DEF IInv
<1> QED
  BY <1>1, Invariance, PTL

\* No caller of StopWait is back before the pool is drained and the channel closed,
\* however many call it at the same time.
THEOREM StopsTogether == Spec => []StopWaitWaits
<1>1. IInv => StopWaitWaits
  BY DEF IInv, StopInv, StopWaitWaits
<1> QED
  BY <1>1, Invariance, PTL

\* Nobody sends to the verdict channel once it is closed: all clients are gone before
\* the pool is stopped, and all workers are done before the channel is closed.
THEOREM SendsBeforeClose == Spec => NoSendAfterClose
<1>1. IInv /\ [Next]_vars => [courtClosed => Len(courtTV') <= Len(courtTV)]_vars
  <2> SUFFICES ASSUME IInv, [Next]_vars, courtClosed PROVE Len(courtTV') <= Len(courtTV)
    OBVIOUS
  <2>1. courtTV \in Seq(Told)
    BY DEF IInv, HeldInv
  <2>2. PoolDrained /\ \A c \in Clients : at[c] = "returned"
    BY DEF IInv, StopInv
  <2>3. CASE Read
    BY <2>1, <2>3 DEF Read, TakeVerdict
  <2>4. CASE \E w \in Workers : PoolStep(w)
    BY <2>1, <2>2, <2>4 DEF PoolStep, Start, PingFails, PingEnds, Deliver, Drop, Pinging, Judged,
                            PoolDrained
  <2>5. CASE \E c \in Clients : Announces(c) \/ Submits(c)
    BY <2>2, <2>5 DEF Announces, Submits
  <2>6. CASE UNCHANGED <<courtTV, queue, worker, replies>>
    BY <2>1, <2>6
  <2> QED
    BY <2>3, <2>4, <2>5, <2>6, Frames
<1> QED
  BY <1>1, Invariance, PTL DEF Spec, NoSendAfterClose

-----------------------------------------------------------------------------
(* Lemmas about counting: how many entries of a sequence, or of a function   *)
(* with a finite domain, are elements of S.                                  *)

Tally(f, S) == Cardinality({x \in DOMAIN f : f[x] \in S})
OneIf(v, S) == IF v \in S THEN 1 ELSE 0

LEMMA OneIfType == \A v, S : OneIf(v, S) \in 0..1
BY DEF OneIf

LEMMA TallyType ==
  ASSUME NEW f, NEW S, IsFiniteSet(DOMAIN f)
  PROVE  IsFiniteSet({x \in DOMAIN f : f[x] \in S}) /\ Tally(f, S) \in Nat
<1>1. {x \in DOMAIN f : f[x] \in S} \in SUBSET (DOMAIN f)
  OBVIOUS
<1>2. IsFiniteSet({x \in DOMAIN f : f[x] \in S})
  BY <1>1, FS_Subset
<1> QED
  BY <1>2, FS_CardinalityType DEF Tally

LEMMA SeqDomain == ASSUME NEW T, NEW s \in Seq(T) PROVE IsFiniteSet(DOMAIN s)
<1>1. DOMAIN s = 1..Len(s) /\ Len(s) \in Int
  OBVIOUS
<1> QED
  BY <1>1, FS_Interval

LEMMA TallyEmpty == \A S : Tally(<< >>, S) = 0
<1> SUFFICES ASSUME NEW S PROVE Tally(<< >>, S) = 0
  OBVIOUS
<1>1. {x \in DOMAIN << >> : << >>[x] \in S} = {}
  OBVIOUS
<1> QED
  BY <1>1, FS_EmptySet DEF Tally

LEMMA TallyAppend ==
  ASSUME NEW T, NEW s \in Seq(T), NEW e \in T, NEW S
  PROVE  Tally(Append(s, e), S) = Tally(s, S) + OneIf(e, S)
<1> DEFINE P == {x \in DOMAIN s : s[x] \in S}
           A == Append(s, e)
           Q == {x \in DOMAIN A : A[x] \in S}
<1>1. /\ DOMAIN A = DOMAIN s \cup {Len(s) + 1} /\ Len(s) + 1 \notin DOMAIN s
      /\ \A x \in DOMAIN s : A[x] = s[x]
      /\ A[Len(s) + 1] = e
  OBVIOUS
<1> HIDE DEF A
<1>2. IsFiniteSet(P) /\ Tally(s, S) \in Nat
  BY SeqDomain, TallyType
<1>3. CASE e \in S
  <2>1. Q = P \cup {Len(s) + 1} /\ Len(s) + 1 \notin P
    BY <1>1, <1>3
  <2>2. Cardinality(Q) = Cardinality(P) + 1
    BY <1>2, <2>1, FS_AddElement
  <2> QED
    BY <1>3, <2>2 DEF Tally, OneIf, A
<1>4. CASE e \notin S
  <2>1. Q = P
    BY <1>1, <1>4
  <2>2. Tally(A, S) = Tally(s, S) /\ OneIf(e, S) = 0
    BY <1>4, <2>1 DEF Tally, OneIf
  <2> QED
    BY <1>2, <2>2 DEF A
<1> QED
  BY <1>3, <1>4

LEMMA TallyTail ==
  ASSUME NEW T, NEW s \in Seq(T), s # << >>, NEW S
  PROVE  /\ Tally(s, S) = Tally(Tail(s), S) + OneIf(Head(s), S)
         /\ Tally(Tail(s), S) \in Nat
<1> DEFINE P == {x \in DOMAIN s : s[x] \in S}
           t == Tail(s)
           Q == {x \in DOMAIN t : t[x] \in S}
           f == [x \in Q |-> x + 1]
<1>1. /\ DOMAIN s = 1..Len(s) /\ Len(s) \in Nat \ {0}
      /\ t \in Seq(T) /\ DOMAIN t = 1..(Len(s) - 1)
      /\ \A x \in DOMAIN t : t[x] = s[x + 1]
      /\ Head(s) = s[1]
  OBVIOUS
<1> HIDE DEF t
<1>2. IsFiniteSet(P) /\ IsFiniteSet(Q) /\ Cardinality(Q) \in Nat
  BY <1>1, SeqDomain, TallyType DEF Tally
<1>3. f \in Bijection(Q, P \ {1})
  <2>1. \A x \in Q : f[x] \in P \ {1}
    BY <1>1
  <2>2. \A x, y \in Q : f[x] = f[y] => x = y
    BY <1>1
  <2>3. \A y \in P \ {1} : y - 1 \in Q /\ f[y - 1] = y
    BY <1>1
  <2>4. f \in [Q -> P \ {1}]
    BY <2>1
  <2> HIDE DEF f, P, Q
  <2> QED
    BY <2>2, <2>3, <2>4 DEF Bijection, Injection, Surjection, IsInjective
<1>4. Cardinality(P \ {1}) = Cardinality(Q)
  BY <1>2, <1>3, FS_Bijection DEF ExistsBijection
<1>5. Cardinality(P) = Cardinality(P \ {1}) + OneIf(s[1], S)
  <2>1. 1 \in P <=> s[1] \in S
    BY <1>1
  <2>2. Cardinality(P) \in Nat
    BY <1>2, FS_CardinalityType
  <2>3. Cardinality(P \ {1}) = IF 1 \in P THEN Cardinality(P) - 1 ELSE Cardinality(P)
    BY <1>2, FS_RemoveElement
  <2> HIDE DEF P
  <2> QED
    BY <2>1, <2>2, <2>3 DEF OneIf
<1> QED
  BY <1>1, <1>2, <1>4, <1>5 DEF Tally, t

LEMMA TallyExcept ==
  ASSUME NEW D, IsFiniteSet(D), NEW V, NEW f \in [D -> V], NEW d \in D, NEW v, NEW S
  PROVE  /\ Tally([f EXCEPT ![d] = v], S) + OneIf(f[d], S) = Tally(f, S) + OneIf(v, S)
         /\ Tally([f EXCEPT ![d] = v], S) \in Nat
<1> DEFINE P == {x \in DOMAIN f : f[x] \in S}
           g == [f EXCEPT ![d] = v]
           Q == {x \in DOMAIN g : g[x] \in S}
<1>1. DOMAIN f = D /\ DOMAIN g = D /\ g[d] = v /\ \A x \in D \ {d} : g[x] = f[x]
  OBVIOUS
<1> HIDE DEF g
<1>2. /\ IsFiniteSet(P) /\ Cardinality(P) \in Nat
      /\ IsFiniteSet(Q) /\ Cardinality(Q) \in Nat
  BY <1>1, TallyType DEF Tally
<1>3. P \ {d} = Q \ {d} /\ (d \in P <=> f[d] \in S) /\ (d \in Q <=> v \in S)
  BY <1>1
<1>4. Tally(f, S) = Cardinality(P) /\ Tally(g, S) = Cardinality(Q)
  BY DEF Tally
<1> HIDE DEF P, Q
<1>5. Cardinality(P \ {d}) = IF d \in P THEN Cardinality(P) - 1 ELSE Cardinality(P)
  BY <1>2, FS_RemoveElement
<1>6. Cardinality(Q \ {d}) = IF d \in Q THEN Cardinality(Q) - 1 ELSE Cardinality(Q)
  BY <1>2, FS_RemoveElement
<1>7. Cardinality(P \ {d}) = Cardinality(Q \ {d})
  BY <1>3
<1>8. Cardinality(P) + OneIf(v, S) = Cardinality(Q) + OneIf(f[d], S)
  BY <1>2, <1>3, <1>5, <1>6, <1>7 DEF OneIf
<1>9. OneIf(v, S) \in Int /\ OneIf(f[d], S) \in Int
  BY DEF OneIf
<1> QED
  BY <1>2, <1>4, <1>8, <1>9 DEF g

LEMMA PrefixOfAppend ==
  ASSUME NEW T, NEW s \in Seq(T), NEW e \in T, NEW i \in 0..Len(s)
  PROVE  SubSeq(Append(s, e), 1, i) = SubSeq(s, 1, i)
OBVIOUS

LEMMA PrefixOfTail ==
  ASSUME NEW T, NEW s \in Seq(T), s # << >>, NEW i \in 0..(Len(s) - 1)
  PROVE  /\ SubSeq(s, 1, i + 1) \in Seq(T) /\ SubSeq(s, 1, i + 1) # << >>
         /\ Head(SubSeq(s, 1, i + 1)) = Head(s)
         /\ Tail(SubSeq(s, 1, i + 1)) = SubSeq(Tail(s), 1, i)
OBVIOUS

LEMMA WholePrefix == ASSUME NEW T, NEW s \in Seq(T) PROVE SubSeq(s, 1, Len(s)) = s
OBVIOUS

-----------------------------------------------------------------------------
(* What is accounted for.                                                    *)

\* The notices and the verdicts about k, in the channel, the queue or with a worker.
Of(k, Qualities) == {v \in Told : Key(v) = k /\ v.q \in Qualities}
NoticesIn(ch, k) == Tally(ch, Of(k, {Verifying}))
VerdictsIn(ch, k) == Tally(ch, Of(k, Final))
InWork(k) == Tally(worker, Of(k, Underway))

\* The clients at a step of validate that are bound to a verdict about k.
Whereabouts == [c \in Clients |-> <<at[c], held[c]>>]
BoundAt(step, k) == {step} \X Of(k, {Verifying})
InValidate(step, k) == Tally(Whereabouts, BoundAt(step, k))

\* Each time k was passed to validate, its notice was read, is in the channel, or is
\* about to be sent - or was given up.
NoticedInv(k) ==
  cancelled \/ accepted[k] = notices[k] + NoticesIn(courtTV, k) + InValidate("announce", k)

\* The notices about k that were sent, and what has become of them: a verdict that
\* was read or is in the channel, or an address on its way to its verdict.
Sent(k) == notices[k] + NoticesIn(courtTV, k)
Pursued(k) == verdicts[k] + VerdictsIn(courtTV, k)
                + (InValidate("submit", k) + NoticesIn(queue, k) + InWork(k))

\* To each notice that was sent belongs at most one verdict, and exactly one as long
\* as none is dropped.
JudgedInv(k) == Pursued(k) <= Sent(k) /\ (cancelled \/ Pursued(k) = Sent(k))

\* However far the reader gets in the channel, he does not see a verdict without a
\* notice.
OrderInv(k) ==
  \A i \in 0..Len(courtTV) :
    verdicts[k] + VerdictsIn(SubSeq(courtTV, 1, i), k)
      <= notices[k] + NoticesIn(SubSeq(courtTV, 1, i), k)

CountInv == \A k \in Keys : NoticedInv(k) /\ JudgedInv(k) /\ OrderInv(k)

\* 1 if the value is about k.
About(v, k) == IF Key(v) = k THEN 1 ELSE 0

LEMMA AskedCounts ==
  ASSUME NEW k \in Keys, NEW v \in Asked
  PROVE  /\ OneIf(v, Of(k, {Verifying})) = About(v, k)
         /\ OneIf(v, Of(k, Final)) = 0
         /\ OneIf(v, Of(k, Underway)) = About(v, k)
         /\ About(v, k) \in 0..1
BY QualityValues DEF OneIf, Of, About, Asked, Told, Underway

LEMMA FinalCounts ==
  ASSUME NEW k \in Keys, NEW v \in Told, v.q \in Final
  PROVE  /\ OneIf(v, Of(k, {Verifying})) = 0
         /\ OneIf(v, Of(k, Final)) = About(v, k)
         /\ OneIf(v, Of(k, Underway)) = About(v, k)
         /\ About(v, k) \in 0..1
BY QualityValues DEF OneIf, Of, About, Told, Underway

LEMMA NoJobCounts == \A k, Q : OneIf(NoJob, Of(k, Q)) = 0
BY JobsAreAddresses DEF OneIf, Of, Told, Underway

LEMMA StepCounts ==
  ASSUME NEW k \in Keys, NEW s, NEW step, NEW v
  PROVE  /\ s = step => OneIf(<<s, v>>, BoundAt(step, k)) = OneIf(v, Of(k, {Verifying}))
         /\ s # step => OneIf(<<s, v>>, BoundAt(step, k)) = 0
BY DEF OneIf, BoundAt

\* All that is counted is finite.
LEMMA ValidateType == \A step, k : InValidate(step, k) \in Nat
<1>1. DOMAIN Whereabouts = Clients /\ IsFiniteSet(Clients)
  BY PingStreamAssumption DEF Whereabouts
<1> QED
  BY <1>1, TallyType DEF InValidate

CountsTyped ==
  \A k \in Keys :
    /\ NoticesIn(courtTV, k) \in Nat /\ VerdictsIn(courtTV, k) \in Nat
    /\ NoticesIn(queue, k) \in Nat /\ InWork(k) \in Nat
    /\ InValidate("announce", k) \in Nat /\ InValidate("submit", k) \in Nat
    /\ accepted[k] \in Nat /\ notices[k] \in Nat /\ verdicts[k] \in Nat

LEMMA CountTypes == ClientData /\ PoolData /\ ReaderData => CountsTyped
<1> SUFFICES ASSUME ClientData, PoolData, ReaderData PROVE CountsTyped
  OBVIOUS
<1>1. IsFiniteSet(DOMAIN courtTV) /\ IsFiniteSet(DOMAIN queue)
  BY SeqDomain DEF PoolData
<1>2. DOMAIN worker = Workers
  BY DEF PoolData
<1>3. IsFiniteSet(DOMAIN worker)
  BY <1>2, PingStreamAssumption
<1>4. \A k \in Keys : accepted[k] \in Nat /\ notices[k] \in Nat /\ verdicts[k] \in Nat
  BY DEF ClientData, ReaderData
<1> QED
  BY <1>1, <1>3, <1>4, TallyType, ValidateType DEF CountsTyped, NoticesIn, VerdictsIn, InWork

\* What a step of one client does to the counts of the clients.
LEMMA ClientMoves ==
  ASSUME ClientData, NEW c \in Clients, NEW s, NEW v, NEW k \in Keys, NEW step,
         at' = [at EXCEPT ![c] = s], held' = [held EXCEPT ![c] = v]
  PROVE  /\ InValidate(step, k)' + OneIf(<<at[c], held[c]>>, BoundAt(step, k))
              = InValidate(step, k) + OneIf(<<s, v>>, BoundAt(step, k))
         /\ InValidate(step, k)' \in Nat
<1> DEFINE V == {"select", "announce", "submit", "returned"} \X (Verdict \cup {NoJob})
<1>1. Whereabouts \in [Clients -> V] /\ Whereabouts[c] = <<at[c], held[c]>>
  BY DEF Whereabouts, ClientData
<1>2. Whereabouts' = [Whereabouts EXCEPT ![c] = <<s, v>>]
  BY DEF Whereabouts, ClientData
<1> HIDE DEF V
<1>3. IsFiniteSet(Clients)
  BY PingStreamAssumption
<1> DEFINE S == BoundAt(step, k)
<1>4. InValidate(step, k) = Tally(Whereabouts, S) /\ InValidate(step, k)' = Tally(Whereabouts', S)
  BY DEF InValidate
<1> HIDE DEF S
<1>5. \A f \in [Clients -> V] :
        /\ Tally([f EXCEPT ![c] = <<s, v>>], S) + OneIf(f[c], S)
             = Tally(f, S) + OneIf(<<s, v>>, S)
        /\ Tally([f EXCEPT ![c] = <<s, v>>], S) \in Nat
  BY <1>3, TallyExcept
<1>6. /\ InValidate(step, k)' + OneIf(<<at[c], held[c]>>, S)
           = InValidate(step, k) + OneIf(<<s, v>>, S)
      /\ InValidate(step, k)' \in Nat
  BY <1>1, <1>2, <1>4, <1>5
<1> QED
  BY <1>6 DEF S

\* What a step of one worker does to the count of the workers.
LEMMA WorkerMoves ==
  ASSUME PoolData, NEW w \in Workers, NEW v, NEW k \in Keys,
         worker' = [worker EXCEPT ![w] = v]
  PROVE  /\ InWork(k)' + OneIf(worker[w], Of(k, Underway))
              = InWork(k) + OneIf(v, Of(k, Underway))
         /\ InWork(k)' \in Nat
<1> DEFINE S == Of(k, Underway)
           V == Told \cup {NoJob}
<1>1. InWork(k) = Tally(worker, S) /\ InWork(k)' = Tally(worker', S)
  BY DEF InWork
<1>2. worker \in [Workers -> V]
  BY DEF PoolData
<1> HIDE DEF S, V
<1>3. IsFiniteSet(Workers)
  BY PingStreamAssumption
<1>4. \A f \in [Workers -> V] :
        /\ Tally([f EXCEPT ![w] = v], S) + OneIf(f[w], S) = Tally(f, S) + OneIf(v, S)
        /\ Tally([f EXCEPT ![w] = v], S) \in Nat
  BY <1>3, TallyExcept
<1>5. InWork(k)' + OneIf(worker[w], S) = InWork(k) + OneIf(v, S) /\ InWork(k)' \in Nat
  BY <1>1, <1>2, <1>4
<1> QED
  BY <1>5 DEF S

\* Sending to a channel and receiving from it.
LEMMA ChannelMoves ==
  ASSUME NEW k \in Keys, NEW ch \in Seq(Told)
  PROVE  /\ \A v \in Asked :
              /\ NoticesIn(Append(ch, v), k) = NoticesIn(ch, k) + About(v, k)
              /\ VerdictsIn(Append(ch, v), k) = VerdictsIn(ch, k)
         /\ \A v \in Told : v.q \in Final =>
              /\ NoticesIn(Append(ch, v), k) = NoticesIn(ch, k)
              /\ VerdictsIn(Append(ch, v), k) = VerdictsIn(ch, k) + About(v, k)
         /\ ch # << >> /\ Head(ch) \in Asked =>
              /\ NoticesIn(ch, k) = NoticesIn(Tail(ch), k) + About(Head(ch), k)
              /\ VerdictsIn(ch, k) = VerdictsIn(Tail(ch), k)
         /\ ch # << >> /\ Head(ch).q \in Final =>
              /\ NoticesIn(ch, k) = NoticesIn(Tail(ch), k)
              /\ VerdictsIn(ch, k) = VerdictsIn(Tail(ch), k) + About(Head(ch), k)
         /\ ch # << >> => NoticesIn(Tail(ch), k) \in Nat /\ VerdictsIn(Tail(ch), k) \in Nat
         /\ NoticesIn(ch, k) \in Nat /\ VerdictsIn(ch, k) \in Nat
<1>1. NoticesIn(ch, k) \in Nat /\ VerdictsIn(ch, k) \in Nat
  BY SeqDomain, TallyType DEF NoticesIn, VerdictsIn
<1>2. ASSUME NEW v \in Told
      PROVE  /\ NoticesIn(Append(ch, v), k) = NoticesIn(ch, k) + OneIf(v, Of(k, {Verifying}))
             /\ VerdictsIn(Append(ch, v), k) = VerdictsIn(ch, k) + OneIf(v, Of(k, Final))
  BY TallyAppend DEF NoticesIn, VerdictsIn
<1>3. ASSUME ch # << >>
      PROVE  /\ NoticesIn(ch, k) = NoticesIn(Tail(ch), k) + OneIf(Head(ch), Of(k, {Verifying}))
             /\ VerdictsIn(ch, k) = VerdictsIn(Tail(ch), k) + OneIf(Head(ch), Of(k, Final))
             /\ NoticesIn(Tail(ch), k) \in Nat /\ VerdictsIn(Tail(ch), k) \in Nat
             /\ Head(ch) \in Told
  BY <1>3, TallyTail DEF NoticesIn, VerdictsIn
<1>4. Asked \subseteq Told
  BY DEF Asked, Told, Underway
<1>5. ASSUME NEW v \in Asked
      PROVE  /\ NoticesIn(Append(ch, v), k) = NoticesIn(ch, k) + About(v, k)
             /\ VerdictsIn(Append(ch, v), k) = VerdictsIn(ch, k)
  <2>1. OneIf(v, Of(k, {Verifying})) = About(v, k) /\ OneIf(v, Of(k, Final)) = 0
    BY AskedCounts
  <2>2. v \in Told
    BY <1>4
  <2> QED
    BY <1>1, <1>2, <2>1, <2>2
<1>6. ASSUME NEW v \in Told, v.q \in Final
      PROVE  /\ NoticesIn(Append(ch, v), k) = NoticesIn(ch, k)
             /\ VerdictsIn(Append(ch, v), k) = VerdictsIn(ch, k) + About(v, k)
  <2>1. OneIf(v, Of(k, {Verifying})) = 0 /\ OneIf(v, Of(k, Final)) = About(v, k)
    BY <1>6, FinalCounts
  <2> QED
    BY <1>1, <1>2, <2>1
<1>7. ASSUME ch # << >>, Head(ch) \in Asked
      PROVE  /\ NoticesIn(ch, k) = NoticesIn(Tail(ch), k) + About(Head(ch), k)
             /\ VerdictsIn(ch, k) = VerdictsIn(Tail(ch), k)
  <2>1. /\ OneIf(Head(ch), Of(k, {Verifying})) = About(Head(ch), k)
        /\ OneIf(Head(ch), Of(k, Final)) = 0
    BY <1>7, AskedCounts
  <2> QED
    BY <1>3, <1>7, <2>1
<1>8. ASSUME ch # << >>, Head(ch).q \in Final
      PROVE  /\ NoticesIn(ch, k) = NoticesIn(Tail(ch), k)
             /\ VerdictsIn(ch, k) = VerdictsIn(Tail(ch), k) + About(Head(ch), k)
  <2>1. /\ OneIf(Head(ch), Of(k, {Verifying})) = 0
        /\ OneIf(Head(ch), Of(k, Final)) = About(Head(ch), k)
    BY <1>3, <1>8, FinalCounts
  <2> QED
    BY <1>3, <1>8, <2>1
<1> QED
  BY <1>1, <1>3, <1>5, <1>6, <1>7, <1>8

\* The counts of clients that go to or come from a step of validate.
LEMMA EnterMoves ==
  ASSUME ClientData, NEW c \in Clients, NEW v \in Asked, NEW k \in Keys,
         at[c] = "select", Enter(c, v)
  PROVE  /\ InValidate("announce", k)' = InValidate("announce", k) + About(v, k)
         /\ InValidate("submit", k)' = InValidate("submit", k)
         /\ accepted[k]' = accepted[k] + About(v, k)
<1>1. /\ at' = [at EXCEPT ![c] = "announce"] /\ held' = [held EXCEPT ![c] = v]
      /\ accepted' = [accepted EXCEPT ![Key(v)] = @ + 1]
  BY DEF Enter
<1>2. About(v, k) \in 0..1 /\ OneIf(v, Of(k, {Verifying})) = About(v, k)
  BY AskedCounts
<1>3. \A step \in {"announce", "submit"} :
        OneIf(<<at[c], held[c]>>, BoundAt(step, k)) = 0
  BY StepCounts
<1>4. /\ OneIf(<<"announce", v>>, BoundAt("announce", k)) = About(v, k)
      /\ OneIf(<<"announce", v>>, BoundAt("submit", k)) = 0
  BY <1>2, StepCounts
<1>5. \A step : InValidate(step, k) \in Nat
  BY ValidateType
<1>6. \A step \in {"announce", "submit"} :
        /\ InValidate(step, k)' + OneIf(<<at[c], held[c]>>, BoundAt(step, k))
             = InValidate(step, k) + OneIf(<<"announce", v>>, BoundAt(step, k))
        /\ InValidate(step, k)' \in Nat
  BY <1>1, ClientMoves
<1>7. accepted[k]' = accepted[k] + About(v, k)
  BY <1>1 DEF About, ClientData
<1> QED
  BY <1>2, <1>3, <1>4, <1>5, <1>6, <1>7

LEMMA SubmitNext ==
  ASSUME ClientData, NEW c \in Clients, at[c] = "announce", NEW k \in Keys,
         at' = [at EXCEPT ![c] = "submit"], UNCHANGED held
  PROVE  /\ InValidate("announce", k) = InValidate("announce", k)' + About(held[c], k)
         /\ InValidate("submit", k)' = InValidate("submit", k) + About(held[c], k)
         /\ InValidate("announce", k)' \in Nat /\ InValidate("submit", k)' \in Nat
<1>1. held[c] \in Asked /\ held' = [held EXCEPT ![c] = held[c]]
  BY DEF ClientData
<1>2. OneIf(held[c], Of(k, {Verifying})) = About(held[c], k) /\ About(held[c], k) \in 0..1
  BY <1>1, AskedCounts
<1>3. /\ OneIf(<<at[c], held[c]>>, BoundAt("announce", k)) = About(held[c], k)
      /\ OneIf(<<at[c], held[c]>>, BoundAt("submit", k)) = 0
      /\ OneIf(<<"submit", held[c]>>, BoundAt("announce", k)) = 0
      /\ OneIf(<<"submit", held[c]>>, BoundAt("submit", k)) = About(held[c], k)
  BY <1>2, StepCounts
<1>4. \A step \in {"announce", "submit"} :
        /\ InValidate(step, k)' + OneIf(<<at[c], held[c]>>, BoundAt(step, k))
             = InValidate(step, k) + OneIf(<<"submit", held[c]>>, BoundAt(step, k))
        /\ InValidate(step, k)' \in Nat
  BY <1>1, ClientMoves
<1>5. \A step : InValidate(step, k) \in Nat
  BY ValidateType
<1> QED
  BY <1>2, <1>3, <1>4, <1>5

LEMMA LeaveMoves ==
  ASSUME ClientData, NEW c \in Clients, NEW k \in Keys, Leave(c),
         NEW here \in {"announce", "submit"}, NEW there \in {"announce", "submit"},
         at[c] = here, there # here
  PROVE  /\ InValidate(here, k) = InValidate(here, k)' + About(held[c], k)
         /\ InValidate(there, k)' = InValidate(there, k)
         /\ InValidate(here, k)' \in Nat
<1>1. PICK to \in {"select", "returned"} :
           at' = [at EXCEPT ![c] = to] /\ held' = [held EXCEPT ![c] = NoJob]
  BY DEF Leave
<1>2. OneIf(held[c], Of(k, {Verifying})) = About(held[c], k) /\ About(held[c], k) \in 0..1
  BY AskedCounts DEF ClientData
<1>3. /\ OneIf(<<at[c], held[c]>>, BoundAt(here, k)) = About(held[c], k)
      /\ OneIf(<<at[c], held[c]>>, BoundAt(there, k)) = 0
  BY <1>2, StepCounts
<1>4. OneIf(<<to, NoJob>>, BoundAt(here, k)) = 0 /\ OneIf(<<to, NoJob>>, BoundAt(there, k)) = 0
  BY StepCounts
<1>5. \A step \in {here, there} :
        /\ InValidate(step, k)' + OneIf(<<at[c], held[c]>>, BoundAt(step, k))
             = InValidate(step, k) + OneIf(<<to, NoJob>>, BoundAt(step, k))
        /\ InValidate(step, k)' \in Nat
  BY <1>1, ClientMoves
<1>6. InValidate(here, k) \in Nat /\ InValidate(there, k) \in Nat
  BY ValidateType
<1> QED
  BY <1>2, <1>3, <1>4, <1>5, <1>6

-----------------------------------------------------------------------------
(* Each step keeps the accounts.                                             *)

\* A step of a client moves an address into validate, from there to the channel, and
\* on to the pool.
LEMMA ClientAccounts ==
  ASSUME ClientData, PoolData, ReaderData, NEW k \in Keys, NoticedInv(k), JudgedInv(k),
         NEW c \in Clients, Streamed(c) \/ ClientStep(c)
  PROVE  NoticedInv(k)' /\ JudgedInv(k)'
<1> DEFINE Goal == NoticedInv(k)' /\ JudgedInv(k)'
<1>1. /\ NoticesIn(courtTV, k) \in Nat /\ VerdictsIn(courtTV, k) \in Nat
      /\ NoticesIn(queue, k) \in Nat /\ InWork(k) \in Nat
      /\ InValidate("announce", k) \in Nat /\ InValidate("submit", k) \in Nat
      /\ accepted[k] \in Nat /\ notices[k] \in Nat /\ verdicts[k] \in Nat
  BY CountTypes DEF CountsTyped
<1>2. UNCHANGED <<cancelled, notices, verdicts, worker, courtClosed, stopping>>
  BY DEF Streamed, ClientStep, StreamEnds, Validate, Announces, GivesUp, Submits, Announce,
         Submit, runtimeVars, pingerVars, readerVars
<1>3. InWork(k)' = InWork(k)
  BY <1>2 DEF InWork
<1>4. ASSUME NEW v \in Asked, at[c] = "select", Enter(c, v), UNCHANGED <<courtTV, queue>>
      PROVE  Goal
  <2>1. About(v, k) \in 0..1
    BY AskedCounts
  <2>2. /\ InValidate("announce", k)' = InValidate("announce", k) + About(v, k)
        /\ InValidate("submit", k)' = InValidate("submit", k)
        /\ accepted[k]' = accepted[k] + About(v, k)
        /\ UNCHANGED <<courtTV, queue>>
    BY <1>4, EnterMoves
  <2>3. Pursued(k)' = Pursued(k)
    BY <1>2, <1>3, <2>2 DEF Pursued
  <2> QED
    BY <1>1, <1>2, <2>1, <2>2, <2>3 DEF NoticedInv, JudgedInv, Sent
<1>5. CASE Streamed(c)
  <2>1. PICK qa \in Inputs : Enter(c, WithNewQuality(qa, Verifying, FALSE))
    BY <1>5 DEF Streamed
  <2>2. WithNewQuality(qa, Verifying, FALSE) \in Asked
    BY InputsTyped, QualityValues, Requalified DEF Asked
  <2> QED
    BY <1>4, <1>5, <2>1, <2>2 DEF Streamed, pingerVars
<1>6. CASE Validate(c)
  <2>1. PICK a \in Addr : Enter(c, [name |-> NoName, addr |-> a, q |-> Verifying, err |-> FALSE])
    BY <1>6 DEF Validate
  <2>2. [name |-> NoName, addr |-> a, q |-> Verifying, err |-> FALSE] \in Asked
    BY QualityValues DEF Asked, Verdict, QualifiedAddress
  <2> QED
    BY <1>4, <1>6, <2>1, <2>2 DEF Validate, pingerVars
<1>7. CASE StreamEnds(c)
  <2>1. /\ at' = [at EXCEPT ![c] = "returned"] /\ held' = [held EXCEPT ![c] = held[c]]
        /\ UNCHANGED <<courtTV, queue, accepted>> /\ at[c] = "select"
    BY <1>7 DEF StreamEnds, pingerVars, ClientData
  <2>2. \A step \in {"announce", "submit"} :
          /\ OneIf(<<at[c], held[c]>>, BoundAt(step, k)) = 0
          /\ OneIf(<<"returned", held[c]>>, BoundAt(step, k)) = 0
    BY <2>1, StepCounts
  <2>3. \A step \in {"announce", "submit"} :
          /\ InValidate(step, k)' + OneIf(<<at[c], held[c]>>, BoundAt(step, k))
               = InValidate(step, k) + OneIf(<<"returned", held[c]>>, BoundAt(step, k))
          /\ InValidate(step, k)' \in Nat
    BY <2>1, ClientMoves
  <2>4. \A step \in {"announce", "submit"} : InValidate(step, k)' = InValidate(step, k)
    BY <1>1, <2>2, <2>3
  <2> QED
    BY <1>2, <1>3, <2>1, <2>4 DEF NoticedInv, JudgedInv, Sent, Pursued
<1>8. CASE Announces(c)
  <2>1. held[c] \in Asked /\ courtTV \in Seq(Told)
    BY <1>8 DEF Announces, ClientData, PoolData
  <2>2. About(held[c], k) \in 0..1
    BY <2>1, AskedCounts
  <2>3. /\ courtTV' = Append(courtTV, held[c]) /\ UNCHANGED <<queue, held, accepted>>
        /\ at[c] = "announce" /\ at' = [at EXCEPT ![c] = "submit"]
    BY <1>8 DEF Announces, Announce
  <2>4. /\ NoticesIn(courtTV, k)' = NoticesIn(courtTV, k) + About(held[c], k)
        /\ VerdictsIn(courtTV, k)' = VerdictsIn(courtTV, k)
    BY <2>1, <2>3, ChannelMoves
  <2>5. /\ InValidate("announce", k) = InValidate("announce", k)' + About(held[c], k)
        /\ InValidate("submit", k)' = InValidate("submit", k) + About(held[c], k)
        /\ InValidate("announce", k)' \in Nat
    BY <2>3, SubmitNext
  <2>6. NoticesIn(queue, k)' = NoticesIn(queue, k) /\ UNCHANGED accepted
    BY <2>3
  <2>7. NoticedInv(k)'
    BY <1>1, <1>2, <2>2, <2>4, <2>5, <2>6 DEF NoticedInv
  <2>8. Sent(k)' = Sent(k) + About(held[c], k) /\ Sent(k) \in Nat
    BY <1>1, <1>2, <2>2, <2>4 DEF Sent
  <2>9. Pursued(k)' = Pursued(k) + About(held[c], k) /\ Pursued(k) \in Nat
    BY <1>1, <1>2, <1>3, <2>2, <2>4, <2>5, <2>6 DEF Pursued
  <2> QED
    BY <1>2, <2>2, <2>7, <2>8, <2>9 DEF JudgedInv
<1>9. CASE GivesUp(c)
  <2>1. held[c] \in Asked /\ at[c] = "announce" /\ Leave(c)
    BY <1>9 DEF GivesUp, ClientData
  <2>2. UNCHANGED <<courtTV, queue, accepted>> /\ cancelled
    BY <1>9 DEF GivesUp, Leave, pingerVars
  <2>3. InValidate("submit", k)' = InValidate("submit", k)
    BY <2>1, LeaveMoves
  <2> QED
    BY <1>1, <1>2, <1>3, <2>2, <2>3 DEF NoticedInv, JudgedInv, Sent, Pursued
<1>10. CASE Submits(c)
  <2>1. held[c] \in Asked /\ at[c] = "submit" /\ Leave(c) /\ queue \in Seq(Told)
    BY <1>10 DEF Submits, ClientData, PoolData, Asked, Told, Underway
  <2>2. UNCHANGED <<courtTV, accepted>> /\ queue' = Append(queue, held[c])
    BY <1>10 DEF Submits, Submit, Leave
  <2>3. /\ InValidate("submit", k) = InValidate("submit", k)' + About(held[c], k)
        /\ InValidate("announce", k)' = InValidate("announce", k)
        /\ InValidate("submit", k)' \in Nat
    BY <2>1, LeaveMoves
  <2>4. NoticesIn(queue, k)' = NoticesIn(queue, k) + About(held[c], k)
    BY <2>1, <2>2, ChannelMoves
  <2>5. About(held[c], k) \in 0..1
    BY <2>1, AskedCounts
  <2>6. UNCHANGED <<courtTV, accepted>>
    BY <2>2
  <2> QED
    BY <1>1, <1>2, <1>3, <2>3, <2>4, <2>5, <2>6 DEF NoticedInv, JudgedInv, Sent, Pursued
<1> QED
  BY <1>5, <1>6, <1>7, <1>8, <1>9, <1>10 DEF ClientStep

\* A step of a worker takes an address from the queue to the channel, or drops it once
\* the context is done.
LEMMA PoolAccounts ==
  ASSUME ClientData, PoolData, ReaderData, NEW k \in Keys, NoticedInv(k), JudgedInv(k),
         NEW w \in Workers, PoolStep(w)
  PROVE  NoticedInv(k)' /\ JudgedInv(k)'
<1>1. /\ NoticesIn(courtTV, k) \in Nat /\ VerdictsIn(courtTV, k) \in Nat
      /\ NoticesIn(queue, k) \in Nat /\ InWork(k) \in Nat
      /\ InValidate("announce", k) \in Nat /\ InValidate("submit", k) \in Nat
      /\ accepted[k] \in Nat /\ notices[k] \in Nat /\ verdicts[k] \in Nat
  BY CountTypes DEF CountsTyped
<1>2. UNCHANGED <<cancelled, notices, verdicts, accepted, at, held>>
  BY DEF PoolStep, runtimeVars, clientVars, readerVars
<1>3. InValidate("announce", k)' = InValidate("announce", k)
        /\ InValidate("submit", k)' = InValidate("submit", k)
  BY <1>2 DEF InValidate, Whereabouts
<1>4. Asked \subseteq Told /\ Told \subseteq Verdict /\ NoJob \notin Told
  BY JobsAreAddresses DEF Asked, Told, Underway
<1>5. courtTV \in Seq(Told) /\ queue \in Seq(Told)
  BY <1>4 DEF PoolData
<1>6. OneIf(NoJob, Of(k, Underway)) = 0
  BY NoJobCounts
<1>7. CASE Start(w)
  <2>1. Head(queue) \in Asked /\ queue # << >> /\ UNCHANGED courtTV /\ queue' = Tail(queue)
    BY <1>7 DEF Start, PoolData
  <2>2. worker' = [worker EXCEPT ![w] = Head(queue)] /\ worker[w] = NoJob
    BY <1>7 DEF Start
  <2>3. /\ OneIf(Head(queue), Of(k, Underway)) = About(Head(queue), k)
        /\ About(Head(queue), k) \in 0..1
    BY <2>1, AskedCounts
  <2>4. /\ NoticesIn(queue, k) = NoticesIn(queue, k)' + About(Head(queue), k)
        /\ NoticesIn(queue, k)' \in Nat
    BY <1>5, <2>1, ChannelMoves
  <2>5. InWork(k)' = InWork(k) + About(Head(queue), k)
    <3>1. /\ InWork(k)' + OneIf(worker[w], Of(k, Underway))
                = InWork(k) + OneIf(Head(queue), Of(k, Underway))
          /\ InWork(k)' \in Nat
      BY <2>2, WorkerMoves
    <3> QED
      BY <1>1, <1>6, <2>2, <2>3, <3>1
  <2>6. UNCHANGED courtTV
    BY <2>1
  <2>7. Pursued(k)' = Pursued(k) /\ Sent(k)' = Sent(k)
    BY <1>1, <1>2, <1>3, <2>3, <2>4, <2>5, <2>6 DEF Pursued, Sent
  <2> QED
    BY <1>2, <1>3, <2>6, <2>7 DEF NoticedInv, JudgedInv
<1>8. ASSUME NEW q \in Final, NEW err \in BOOLEAN, Pinging(w),
             worker' = [worker EXCEPT ![w] = WithNewQuality(@, q, err)],
             UNCHANGED <<courtTV, queue>>
      PROVE  NoticedInv(k)' /\ JudgedInv(k)'
  <2>1. worker[w] \in Asked
    BY <1>4, <1>8 DEF Pinging, PoolData, Asked
  <2>2. /\ WithNewQuality(worker[w], q, err) \in Told
        /\ WithNewQuality(worker[w], q, err).q \in Final
        /\ Key(WithNewQuality(worker[w], q, err)) = Key(worker[w])
    BY <1>4, <2>1, QualityValues, Requalified DEF Told, Underway
  <2>3. /\ OneIf(worker[w], Of(k, Underway)) = About(worker[w], k)
        /\ OneIf(WithNewQuality(worker[w], q, err), Of(k, Underway))
             = About(worker[w], k)
        /\ About(worker[w], k) \in 0..1
    BY <2>1, <2>2, AskedCounts, FinalCounts DEF About
  <2>4. InWork(k)' = InWork(k)
    <3>1. /\ InWork(k)' + OneIf(worker[w], Of(k, Underway))
                = InWork(k) + OneIf(WithNewQuality(worker[w], q, err), Of(k, Underway))
          /\ InWork(k)' \in Nat
      BY <1>8, WorkerMoves
    <3> QED
      BY <1>1, <2>3, <3>1
  <2>5. Pursued(k)' = Pursued(k) /\ Sent(k)' = Sent(k)
    BY <1>2, <1>3, <1>8, <2>4 DEF Pursued, Sent
  <2> QED
    BY <1>2, <1>3, <1>8, <2>5 DEF NoticedInv, JudgedInv
<1>9. CASE PingFails(w)
  BY <1>8, <1>9, QualityValues DEF PingFails
<1>10. ASSUME NEW received \in 0..Count, PingEnds(w, received) PROVE NoticedInv(k)' /\ JudgedInv(k)'
  <2>1. Judge(received) \in Final /\ (Judge(received) = Invalid) \in BOOLEAN
    BY JudgeFinal
  <2> QED
    BY <1>8, <1>10, <2>1 DEF PingEnds
<1>11. ASSUME Judged(w)
       PROVE  /\ worker[w] \in Told /\ worker[w].q \in Final
              /\ OneIf(worker[w], Of(k, Underway)) = About(worker[w], k)
              /\ About(worker[w], k) \in 0..1
  <2>1. worker[w] \in Told /\ worker[w].q \in Final
    BY <1>4, <1>11 DEF Judged, PoolData
  <2> QED
    BY <2>1, FinalCounts
<1>12. CASE Deliver(w)
  <2>1. /\ Judged(w) /\ courtTV' = Append(courtTV, worker[w]) /\ UNCHANGED queue
        /\ worker' = [worker EXCEPT ![w] = NoJob]
    BY <1>12 DEF Deliver
  <2>2. /\ NoticesIn(courtTV, k)' = NoticesIn(courtTV, k)
        /\ VerdictsIn(courtTV, k)' = VerdictsIn(courtTV, k) + About(worker[w], k)
    BY <1>5, <1>11, <2>1, ChannelMoves
  <2>3. InWork(k) = InWork(k)' + About(worker[w], k) /\ InWork(k)' \in Nat
    <3>1. /\ InWork(k)' + OneIf(worker[w], Of(k, Underway)) = InWork(k) + OneIf(NoJob, Of(k, Underway))
          /\ InWork(k)' \in Nat
      BY <2>1, WorkerMoves
    <3> QED
      BY <1>1, <1>6, <1>11, <2>1, <3>1
  <2>4. UNCHANGED queue /\ About(worker[w], k) \in 0..1
    BY <1>11, <2>1
  <2>5. Pursued(k)' = Pursued(k) /\ Sent(k)' = Sent(k)
    BY <1>1, <1>2, <1>3, <2>2, <2>3, <2>4 DEF Pursued, Sent
  <2> QED
    BY <1>2, <1>3, <2>2, <2>5 DEF NoticedInv, JudgedInv
<1>13. CASE Drop(w)
  <2>1. /\ Judged(w) /\ cancelled /\ UNCHANGED <<queue, courtTV>>
        /\ worker' = [worker EXCEPT ![w] = NoJob]
    BY <1>13 DEF Drop
  <2>2. InWork(k) = InWork(k)' + About(worker[w], k) /\ InWork(k)' \in Nat
    <3>1. /\ InWork(k)' + OneIf(worker[w], Of(k, Underway)) = InWork(k) + OneIf(NoJob, Of(k, Underway))
          /\ InWork(k)' \in Nat
      BY <2>1, WorkerMoves
    <3> QED
      BY <1>1, <1>6, <1>11, <2>1, <3>1
  <2>3. Pursued(k) = Pursued(k)' + About(worker[w], k) /\ Pursued(k)' \in Nat
    BY <1>1, <1>2, <1>3, <1>11, <2>1, <2>2 DEF Pursued
  <2>4. Sent(k)' = Sent(k) /\ Sent(k) \in Nat
    BY <1>1, <1>2, <2>1 DEF Sent
  <2> QED
    BY <1>2, <1>11, <2>1, <2>3, <2>4 DEF NoticedInv, JudgedInv
<1> QED
  BY <1>7, <1>9, <1>10, <1>12, <1>13 DEF PoolStep

\* What the reader takes from the channel it has got.
LEMMA ReaderAccounts ==
  ASSUME ClientData, PoolData, ReaderData, NEW k \in Keys, Read
  PROVE  /\ notices[k]' + NoticesIn(Tail(courtTV), k) = notices[k] + NoticesIn(courtTV, k)
         /\ verdicts[k]' + VerdictsIn(Tail(courtTV), k) = verdicts[k] + VerdictsIn(courtTV, k)
         /\ Head(courtTV) \in Told /\ courtTV' = Tail(courtTV) /\ courtTV # << >>
         /\ Head(courtTV).q \in Final =>
              /\ verdicts[k]' = verdicts[k] + About(Head(courtTV), k)
              /\ notices[k]' = notices[k]
         /\ Head(courtTV).q \notin Final =>
              /\ verdicts[k]' = verdicts[k]
              /\ notices[k]' = notices[k] + About(Head(courtTV), k)
              /\ Head(courtTV) \in Asked
<1>1. courtTV \in Seq(Told) /\ courtTV # << >> /\ courtTV' = Tail(courtTV)
  BY DEF Read, TakeVerdict, PoolData
<1>2. Head(courtTV) \in Told
  BY <1>1
<1>3. PICK v \in Told : v = Head(courtTV)
  BY <1>2
<1>4. notices[k] \in Nat /\ verdicts[k] \in Nat
  BY DEF ReaderData
<1>5. /\ NoticesIn(Tail(courtTV), k) \in Nat /\ VerdictsIn(Tail(courtTV), k) \in Nat
      /\ NoticesIn(courtTV, k) \in Nat /\ VerdictsIn(courtTV, k) \in Nat
  BY <1>1, ChannelMoves
<1>6. CASE v.q \in Final
  <2>1. verdicts' = [verdicts EXCEPT ![Key(v)] = @ + 1] /\ UNCHANGED notices
    BY <1>3, <1>6 DEF Read
  <2>2. verdicts[k]' = verdicts[k] + About(v, k) /\ notices[k]' = notices[k]
    BY <1>4, <2>1 DEF ReaderData, About
  <2>3. /\ NoticesIn(courtTV, k) = NoticesIn(Tail(courtTV), k)
        /\ VerdictsIn(courtTV, k) = VerdictsIn(Tail(courtTV), k) + About(v, k)
    BY <1>1, <1>3, <1>6, ChannelMoves
  <2>4. About(v, k) \in 0..1
    BY <1>6, FinalCounts
  <2>5. /\ notices[k]' + NoticesIn(Tail(courtTV), k) = notices[k] + NoticesIn(courtTV, k)
        /\ verdicts[k]' + VerdictsIn(Tail(courtTV), k) = verdicts[k] + VerdictsIn(courtTV, k)
    BY <1>4, <1>5, <2>2, <2>3, <2>4
  <2> QED
    BY <1>1, <1>2, <1>3, <1>6, <2>2, <2>5
<1>7. CASE v.q \notin Final
  <2>1. notices' = [notices EXCEPT ![Key(v)] = @ + 1] /\ UNCHANGED verdicts
    BY <1>3, <1>7 DEF Read
  <2>2. notices[k]' = notices[k] + About(v, k) /\ verdicts[k]' = verdicts[k]
    BY <1>4, <2>1 DEF ReaderData, About
  <2>3. v \in Asked
    BY <1>7 DEF Asked, Told, Underway
  <2>4. /\ NoticesIn(courtTV, k) = NoticesIn(Tail(courtTV), k) + About(v, k)
        /\ VerdictsIn(courtTV, k) = VerdictsIn(Tail(courtTV), k)
    BY <1>1, <1>3, <2>3, ChannelMoves
  <2>5. About(v, k) \in 0..1
    BY <2>3, AskedCounts
  <2>6. /\ notices[k]' + NoticesIn(Tail(courtTV), k) = notices[k] + NoticesIn(courtTV, k)
        /\ verdicts[k]' + VerdictsIn(Tail(courtTV), k) = verdicts[k] + VerdictsIn(courtTV, k)
    BY <1>4, <1>5, <2>2, <2>4, <2>5
  <2> QED
    BY <1>1, <1>2, <1>3, <1>7, <2>2, <2>3, <2>6
<1> QED
  BY <1>6, <1>7

LEMMA Accounts ==
  ASSUME ClientData, PoolData, ReaderData, NEW k \in Keys, NoticedInv(k), JudgedInv(k), [Next]_vars
  PROVE  NoticedInv(k)' /\ JudgedInv(k)'
<1>1. CASE Read
  <2>1. UNCHANGED <<cancelled, accepted, at, held, queue, worker>>
    BY <1>1 DEF Read, TakeVerdict, runtimeVars, clientVars
  <2>2. /\ InWork(k)' = InWork(k)
        /\ InValidate("announce", k)' = InValidate("announce", k)
        /\ InValidate("submit", k)' = InValidate("submit", k)
    BY <2>1 DEF InWork, InValidate, Whereabouts
  <2>3. /\ notices[k]' + NoticesIn(courtTV', k) = notices[k] + NoticesIn(courtTV, k)
        /\ verdicts[k]' + VerdictsIn(courtTV', k) = verdicts[k] + VerdictsIn(courtTV, k)
    BY <1>1, ReaderAccounts
  <2>4. Pursued(k)' = Pursued(k) /\ Sent(k)' = Sent(k)
    BY <2>1, <2>2, <2>3 DEF Pursued, Sent
  <2> QED
    BY <2>1, <2>2, <2>3, <2>4 DEF NoticedInv, JudgedInv
<1>2. CASE CancelContext
  BY <1>2 DEF CancelContext, Cancel, pingerVars, clientVars, readerVars, NoticedInv, JudgedInv, Sent,
              Pursued, InWork, InValidate, Whereabouts
<1>3. CASE UNCHANGED <<cancelled, accepted, at, held, queue, worker, courtTV, notices, verdicts>>
  BY <1>3 DEF NoticedInv, JudgedInv, Sent, Pursued, InWork, InValidate, Whereabouts
<1>4. CASE CloseInput \/ (\E s \in Stoppers : StopperStep(s)) \/ UNCHANGED vars
  <2>1. UNCHANGED <<cancelled, accepted, at, held, queue, worker, courtTV, notices, verdicts>>
    BY <1>4 DEF CloseInput, StopperStep, BeginStop, JoinStop, EndStop, Stopped, StopPool, CloseCourt,
                runtimeVars, pingerVars, clientVars, readerVars, vars
  <2> QED
    BY <1>3, <2>1
<1> QED
  BY <1>1, <1>2, <1>4, ClientAccounts, PoolAccounts DEF Next, Finished

\* A verdict comes to the end of the channel only while its notice was sent before,
\* and reading moves all that is in the channel one place forward.
LEMMA OrderKept ==
  ASSUME ClientData, PoolData, ReaderData, (PoolData /\ CountsTyped)', [Next]_vars,
         NEW k \in Keys, OrderInv(k), JudgedInv(k)'
  PROVE  OrderInv(k)'
<1>1. courtTV \in Seq(Told) /\ courtTV' \in Seq(Told)
  BY DEF PoolData
<1>2. ASSUME NEW e \in Told, courtTV' = Append(courtTV, e), UNCHANGED readerVars
      PROVE  OrderInv(k)'
  <2> SUFFICES ASSUME NEW i \in 0..Len(courtTV')
               PROVE  verdicts'[k] + VerdictsIn(SubSeq(courtTV', 1, i), k)
                        <= notices'[k] + NoticesIn(SubSeq(courtTV', 1, i), k)
    BY DEF OrderInv
  <2>1. CASE i <= Len(courtTV)
    <3>1. i \in 0..Len(courtTV)
      BY <1>1, <2>1
    <3>2. SubSeq(courtTV', 1, i) = SubSeq(courtTV, 1, i)
      BY <1>1, <1>2, <3>1, PrefixOfAppend
    <3> QED
      BY <1>2, <3>1, <3>2 DEF OrderInv, readerVars
  <2>2. CASE ~(i <= Len(courtTV))
    <3>1. i = Len(courtTV')
      BY <1>1, <1>2, <2>2
    <3>2. SubSeq(courtTV', 1, i) = courtTV'
      BY <1>1, <3>1, WholePrefix
    <3>3. /\ NoticesIn(courtTV', k) \in Nat /\ VerdictsIn(courtTV', k) \in Nat
          /\ InValidate("submit", k)' \in Nat /\ NoticesIn(queue', k) \in Nat /\ InWork(k)' \in Nat
          /\ notices'[k] \in Nat /\ verdicts'[k] \in Nat
      BY DEF CountsTyped
    <3>4. verdicts'[k] + VerdictsIn(courtTV', k)
             + (InValidate("submit", k)' + NoticesIn(queue', k) + InWork(k)')
            <= notices'[k] + NoticesIn(courtTV', k)
      BY DEF JudgedInv, Sent, Pursued
    <3>5. verdicts'[k] + VerdictsIn(courtTV', k) <= notices'[k] + NoticesIn(courtTV', k)
      BY <3>3, <3>4
    <3> QED
      BY <3>2, <3>5
  <2> QED
    BY <2>1, <2>2
<1>3. CASE Read
  <2> SUFFICES ASSUME NEW i \in 0..Len(courtTV')
               PROVE  verdicts'[k] + VerdictsIn(SubSeq(courtTV', 1, i), k)
                        <= notices'[k] + NoticesIn(SubSeq(courtTV', 1, i), k)
    BY DEF OrderInv
  <2> DEFINE p == SubSeq(courtTV, 1, i + 1)
  <2>1. /\ Head(courtTV) \in Told /\ courtTV' = Tail(courtTV) /\ courtTV # << >>
    BY <1>3, ReaderAccounts
  <2>2. i \in 0..(Len(courtTV) - 1) /\ i + 1 \in 0..Len(courtTV)
    BY <1>1, <2>1
  <2>3. /\ p \in Seq(Told) /\ p # << >> /\ Head(p) = Head(courtTV)
        /\ Tail(p) = SubSeq(courtTV', 1, i)
    BY <1>1, <2>1, <2>2, PrefixOfTail
  <2>4. verdicts[k] + VerdictsIn(p, k) <= notices[k] + NoticesIn(p, k)
    BY <2>2 DEF OrderInv
  <2> HIDE DEF p
  <2>5. /\ NoticesIn(Tail(p), k) \in Nat /\ VerdictsIn(Tail(p), k) \in Nat
        /\ notices[k] \in Nat /\ verdicts[k] \in Nat
    BY <2>3, ChannelMoves DEF ReaderData
  <2>6. CASE Head(courtTV).q \in Final
    <3>1. /\ NoticesIn(p, k) = NoticesIn(Tail(p), k)
          /\ VerdictsIn(p, k) = VerdictsIn(Tail(p), k) + About(Head(courtTV), k)
      BY <2>3, <2>6, ChannelMoves
    <3>2. verdicts[k]' = verdicts[k] + About(Head(courtTV), k) /\ notices[k]' = notices[k]
      BY <1>3, <2>6, ReaderAccounts
    <3>3. About(Head(courtTV), k) \in 0..1
      BY <2>1, <2>6, FinalCounts
    <3>4. verdicts'[k] + VerdictsIn(Tail(p), k) <= notices'[k] + NoticesIn(Tail(p), k)
      BY <2>4, <2>5, <3>1, <3>2, <3>3
    <3> QED
      BY <2>3, <3>4
  <2>7. CASE Head(courtTV).q \notin Final
    <3>1. /\ verdicts[k]' = verdicts[k] /\ Head(courtTV) \in Asked
          /\ notices[k]' = notices[k] + About(Head(courtTV), k)
      BY <1>3, <2>7, ReaderAccounts
    <3>2. /\ NoticesIn(p, k) = NoticesIn(Tail(p), k) + About(Head(courtTV), k)
          /\ VerdictsIn(p, k) = VerdictsIn(Tail(p), k)
      BY <2>3, <3>1, ChannelMoves
    <3>3. About(Head(courtTV), k) \in 0..1
      BY <3>1, AskedCounts
    <3>4. verdicts'[k] + VerdictsIn(Tail(p), k) <= notices'[k] + NoticesIn(Tail(p), k)
      BY <2>4, <2>5, <3>1, <3>2, <3>3
    <3> QED
      BY <2>3, <3>4
  <2> QED
    BY <2>6, <2>7
<1>4. ASSUME NEW c \in Clients, Announces(c) PROVE OrderInv(k)'
  <2>1. held[c] \in Told /\ courtTV' = Append(courtTV, held[c]) /\ UNCHANGED readerVars
    BY <1>4 DEF Announces, Announce, ClientData, Asked, Told, Underway
  <2> QED
    BY <1>2, <2>1
<1>5. ASSUME NEW w \in Workers, Deliver(w), UNCHANGED readerVars PROVE OrderInv(k)'
  <2>1. worker[w] \in Told /\ courtTV' = Append(courtTV, worker[w])
    BY <1>5 DEF Deliver, Judged, PoolData
  <2> QED
    BY <1>2, <1>5, <2>1
<1>6. CASE UNCHANGED <<courtTV, notices, verdicts>>
  BY <1>6 DEF OrderInv
<1>7. UNCHANGED readerVars \/ Read
  BY Frames
<1>8. ASSUME UNCHANGED readerVars, NEW w \in Workers, PoolStep(w) PROVE OrderInv(k)'
  BY <1>5, <1>6, <1>8 DEF PoolStep, Start, PingFails, PingEnds, Drop, readerVars
<1>9. ASSUME UNCHANGED readerVars, NEW c \in Clients, Announces(c) \/ Submits(c) PROVE OrderInv(k)'
  BY <1>4, <1>6, <1>9 DEF Submits, Submit, readerVars
<1> QED
  BY <1>3, <1>6, <1>7, <1>8, <1>9, Frames DEF readerVars

LEMMA CountInvInit == Init => CountInv
<1> SUFFICES ASSUME Init, NEW k \in Keys PROVE NoticedInv(k) /\ JudgedInv(k) /\ OrderInv(k)
  BY DEF CountInv
<1>1. /\ courtTV = << >> /\ queue = << >> /\ worker = [w \in Workers |-> NoJob]
      /\ accepted[k] = 0 /\ notices[k] = 0 /\ verdicts[k] = 0
  BY DEF Init, PingerInit
<1>2. NoticesIn(courtTV, k) = 0 /\ VerdictsIn(courtTV, k) = 0 /\ NoticesIn(queue, k) = 0
  BY <1>1, TallyEmpty DEF NoticesIn, VerdictsIn
<1>3. InWork(k) = 0
  <2>1. {w \in DOMAIN worker : worker[w] \in Of(k, Underway)} = {}
    BY <1>1, JobsAreAddresses DEF Of, Told
  <2> QED
    BY <2>1, FS_EmptySet DEF InWork, Tally
<1>4. ASSUME NEW step \in {"announce", "submit"} PROVE InValidate(step, k) = 0
  <2>1. {c \in DOMAIN Whereabouts : Whereabouts[c] \in BoundAt(step, k)} = {}
    BY DEF Init, Whereabouts, BoundAt
  <2> QED
    BY <2>1, FS_EmptySet DEF InValidate, Tally
<1>5. NoticedInv(k) /\ JudgedInv(k)
  BY <1>1, <1>2, <1>3, <1>4 DEF NoticedInv, JudgedInv, Sent, Pursued
<1>6. OrderInv(k)
  <2> SUFFICES ASSUME NEW i \in 0..Len(courtTV)
               PROVE  verdicts[k] + VerdictsIn(SubSeq(courtTV, 1, i), k)
                        <= notices[k] + NoticesIn(SubSeq(courtTV, 1, i), k)
    BY DEF OrderInv
  <2>1. SubSeq(courtTV, 1, i) = courtTV
    BY <1>1
  <2>2. verdicts[k] = 0 /\ notices[k] = 0
    BY <1>1
  <2>3. /\ VerdictsIn(SubSeq(courtTV, 1, i), k) = 0
        /\ NoticesIn(SubSeq(courtTV, 1, i), k) = 0
    BY <1>2, <2>1, Zenon
  <2> QED
    BY <2>2, <2>3
<1> QED
  BY <1>5, <1>6

LEMMA CountInvStep == IInv /\ CountInv /\ [Next]_vars => CountInv'
<1> SUFFICES ASSUME IInv, CountInv, [Next]_vars PROVE CountInv'
  OBVIOUS
<1>1. ClientData /\ PoolData /\ ReaderData
  BY DataParts DEF IInv
<1>2. (PoolData /\ CountsTyped)'
  <2>1. (TypeOK /\ HeldInv)'
    BY TypeStep DEF IInv
  <2>2. (TypeOK /\ HeldInv => PoolData /\ CountsTyped)'
    BY DataParts, CountTypes, PTL
  <2> QED
    BY <2>1, <2>2
<1>3. ASSUME NEW k \in Keys PROVE NoticedInv(k)' /\ JudgedInv(k)' /\ OrderInv(k)'
  <2>1. NoticedInv(k)' /\ JudgedInv(k)'
    BY <1>1, Accounts DEF CountInv
  <2> QED
    BY <1>1, <1>2, <2>1, OrderKept DEF CountInv
<1> QED
  BY <1>3 DEF CountInv

LEMMA CountInvariance == Spec => [](IInv /\ CountInv)
<1>1. Init => IInv /\ CountInv
  BY IInvInit, CountInvInit
<1>2. (IInv /\ CountInv) /\ [Next]_vars => (IInv /\ CountInv)'
  BY IInvStep, CountInvStep
<1> QED
  BY <1>1, <1>2, PTL DEF Spec

\* The reader of the verdict channel never knows more verdicts about an address than
\* it was given notices of, however clients and workers overtake each other.
THEOREM NoticesLead == Spec => []NoticeFirst
<1>1. IInv /\ CountInv => NoticeFirst
  <2> SUFFICES ASSUME IInv, CountInv, NEW k \in Keys PROVE verdicts[k] <= notices[k]
    BY DEF NoticeFirst
  <2>1. courtTV \in Seq(Told) /\ notices[k] \in Nat /\ verdicts[k] \in Nat
    BY DEF IInv, HeldInv, TypeOK
  <2>2. 0 \in 0..Len(courtTV) /\ SubSeq(courtTV, 1, 0) = << >>
    BY <2>1
  <2>3. verdicts[k] + VerdictsIn(<< >>, k) <= notices[k] + NoticesIn(<< >>, k)
    BY <2>2 DEF CountInv, OrderInv
  <2> QED
    BY <2>1, <2>3, TallyEmpty DEF VerdictsIn, NoticesIn
<1> QED
  BY <1>1, CountInvariance, PTL

\* When the verdict channel ends and the context was not cancelled, the reader has got
\* one notice and one verdict for each time an address was passed to validate.
THEOREM NoVerdictLost == Spec => []OneVerdictEach
<1>1. IInv /\ CountInv => OneVerdictEach
  <2> SUFFICES ASSUME IInv, CountInv, ReaderDone, ~cancelled
               PROVE  notices = accepted /\ verdicts = accepted
    BY DEF OneVerdictEach
  <2>1. /\ courtTV = << >> /\ queue = << >> /\ \A w \in Workers : worker[w] = NoJob
        /\ \A c \in Clients : at[c] = "returned"
    BY DEF ReaderDone, IInv, StopInv, PoolDrained
  <2>2. /\ accepted \in [Keys -> Nat] /\ notices \in [Keys -> Nat] /\ verdicts \in [Keys -> Nat]
        /\ worker \in [Workers -> Told \cup {NoJob}]
    BY DEF IInv, TypeOK, HeldInv
  <2>3. ASSUME NEW k \in Keys PROVE notices[k] = accepted[k] /\ verdicts[k] = accepted[k]
    <3>1. NoticesIn(courtTV, k) = 0 /\ VerdictsIn(courtTV, k) = 0 /\ NoticesIn(queue, k) = 0
      BY <2>1, TallyEmpty DEF NoticesIn, VerdictsIn
    <3>2. InWork(k) = 0
      <4>1. {w \in DOMAIN worker : worker[w] \in Of(k, Underway)} = {}
        BY <2>1, <2>2, JobsAreAddresses DEF Of, Told
      <4> QED
        BY <4>1, FS_EmptySet DEF InWork, Tally
    <3>3. ASSUME NEW step \in {"announce", "submit"} PROVE InValidate(step, k) = 0
      <4>1. {c \in DOMAIN Whereabouts : Whereabouts[c] \in BoundAt(step, k)} = {}
        BY <2>1 DEF Whereabouts, BoundAt
      <4> QED
        BY <4>1, FS_EmptySet DEF InValidate, Tally
    <3> QED
      BY <2>2, <3>1, <3>2, <3>3 DEF CountInv, NoticedInv, JudgedInv, Sent, Pursued
  <2> QED
    BY <2>2, <2>3
<1> QED
  BY <1>1, CountInvariance, PTL

=============================================================================
