--------------------------- MODULE PipelineProofs ---------------------------
(***************************************************************************)
(* Theorems about Pipeline, for any names, addresses and channel capacity.   *)
(***************************************************************************)
EXTENDS Pipeline, FiniteSetTheorems, TLAPS

-----------------------------------------------------------------------------
(* Sequences.                                                                *)

\* What is in a channel.
Carried(s) == {s[i] : i \in DOMAIN s}

\* Sending puts one more element into a channel.
LEMMA SendingAdds ==
  ASSUME NEW S, NEW s \in Seq(S), NEW e \in S
  PROVE  /\ Append(s, e) \in Seq(S) /\ Len(Append(s, e)) = Len(s) + 1
         /\ Append(s, e) # << >>
         /\ Carried(Append(s, e)) = Carried(s) \cup {e}
<1> DEFINE t == Append(s, e)
<1>1. t \in Seq(S) /\ Len(t) = Len(s) + 1 /\ t # << >> /\ t[Len(t)] = e
  OBVIOUS
<1>2. \A i \in 1..Len(s) : t[i] = s[i]
  OBVIOUS
<1>3. DOMAIN s = 1..Len(s) /\ DOMAIN t = 1..(Len(s) + 1) /\ Len(s) \in Nat
  BY <1>1
<1> HIDE DEF t
<1>4. ASSUME NEW i \in DOMAIN t PROVE t[i] \in Carried(s) \cup {e}
  <2>1. i \in 1..Len(s) \/ i = Len(t)
    BY <1>1, <1>3
  <2> QED
    BY <2>1, <1>1, <1>2, <1>3 DEF Carried
<1>5. ASSUME NEW i \in DOMAIN s PROVE s[i] \in Carried(t)
  <2>1. i \in DOMAIN t /\ t[i] = s[i]
    BY <1>2, <1>3
  <2> QED
    BY <2>1 DEF Carried
<1>6. e \in Carried(t)
  <2>1. Len(t) \in DOMAIN t
    BY <1>1, <1>3
  <2> QED
    BY <2>1, <1>1 DEF Carried
<1>7. Carried(t) = Carried(s) \cup {e}
  BY <1>4, <1>5, <1>6 DEF Carried
<1> QED
  BY <1>1, <1>7 DEF t

\* Receiving takes the first element out of a channel.
LEMMA ReceivingTakes ==
  ASSUME NEW S, NEW s \in Seq(S), s # << >>
  PROVE  /\ Head(s) \in S /\ Tail(s) \in Seq(S) /\ Len(Tail(s)) = Len(s) - 1
         /\ Carried(s) = {Head(s)} \cup Carried(Tail(s))
<1> DEFINE t == Tail(s)
<1>1. Head(s) \in S /\ t \in Seq(S) /\ Len(t) = Len(s) - 1 /\ Len(s) \in Nat \ {0}
  OBVIOUS
<1>2. s[1] = Head(s) /\ \A i \in 1..Len(t) : t[i] = s[i + 1]
  OBVIOUS
<1>3. DOMAIN s = 1..Len(s) /\ DOMAIN t = 1..(Len(s) - 1)
  BY <1>1
<1> HIDE DEF t
<1>4. ASSUME NEW i \in DOMAIN s PROVE s[i] \in {Head(s)} \cup Carried(t)
  <2>1. CASE i = 1
    BY <2>1, <1>2
  <2>2. CASE i # 1
    <3>1. i - 1 \in DOMAIN t /\ i - 1 \in 1..Len(t) /\ (i - 1) + 1 = i
      BY <2>2, <1>1, <1>3
    <3>2. t[i - 1] = s[i]
      BY <3>1, <1>2
    <3> QED
      BY <3>1, <3>2 DEF Carried
  <2> QED
    BY <2>1, <2>2
<1>5. ASSUME NEW i \in DOMAIN t PROVE t[i] \in Carried(s)
  <2>1. i + 1 \in DOMAIN s /\ i \in 1..Len(t)
    BY <1>1, <1>3
  <2>2. t[i] = s[i + 1]
    BY <2>1, <1>2
  <2> QED
    BY <2>1, <2>2 DEF Carried
<1>6. Head(s) \in Carried(s)
  <2>1. 1 \in DOMAIN s
    BY <1>1, <1>3
  <2> QED
    BY <2>1, <1>2 DEF Carried
<1>7. Carried(s) = {Head(s)} \cup Carried(t)
  BY <1>4, <1>5, <1>6 DEF Carried
<1> QED
  BY <1>1, <1>7 DEF t

\* Nothing is in an empty channel.
LEMMA NothingCarried == Carried(<< >>) = {}
BY DEF Carried

\* What is in a channel is of the channel's type.
LEMMA CarriedType ==
  ASSUME NEW S, NEW s \in Seq(S)
  PROVE  Carried(s) \subseteq S
BY DEF Carried

\* Replacing one element of an array.
LEMMA StoredAt ==
  ASSUME NEW S, NEW s \in Seq(S), NEW i \in 1..Len(s), NEW e \in S
  PROVE  /\ [s EXCEPT ![i] = e] \in Seq(S)
         /\ Len([s EXCEPT ![i] = e]) = Len(s)
         /\ [s EXCEPT ![i] = e][i] = e
         /\ \A j \in 1..Len(s) : j # i => [s EXCEPT ![i] = e][j] = s[j]
OBVIOUS

\* A slice of an array.
LEMMA Sliced ==
  ASSUME NEW S, NEW s \in Seq(S), NEW k \in 0..Len(s)
  PROVE  /\ SubSeq(s, 1, k) \in Seq(S)
         /\ Len(SubSeq(s, 1, k)) = k
         /\ \A i \in 1..k : SubSeq(s, 1, k)[i] = s[i]
OBVIOUS

\* The slice of all of an array is the array.
LEMMA SlicedAll ==
  ASSUME NEW S, NEW s \in Seq(S)
  PROVE  SubSeq(s, 1, Len(s)) = s
OBVIOUS

-----------------------------------------------------------------------------
(* The types of the channels, of digging and of verification.                *)

DigTypes ==
  /\ main \in {"discover", "new", "wait", "ok", "failed"}
  /\ diggernews \in Seq(News) /\ Len(diggernews) <= ChanSize
  /\ wanted \subseteq Name /\ named \subseteq Name
  /\ answers \subseteq Name \X Addr /\ dug \subseteq Name \X Addr
  /\ dugAll \in BOOLEAN

VerifyTypes ==
  /\ news \in Seq(News) /\ Len(news) <= ChanSize
  /\ asked \subseteq Pair
  /\ told \in [Pair -> Quality \cup {Unknown}]
  /\ verdict \in [Addr -> Final \cup {Unknown}]
  /\ newsClosed \in BOOLEAN

EndTypes ==
  /\ renderer \in {"start", "draw", "last", "over"}
  /\ trackingDone \in BOOLEAN /\ spinning \in BOOLEAN /\ raced \in BOOLEAN
  /\ aborted = FALSE

\* A step is one of a group's, and whatever it is it leaves the context alone.
LEMMA StepCases ==
  ASSUME [Next]_vars
  PROVE  /\ Main \/ Dig \/ Answers \/ Verify \/ Track \/ Renderer \/ UNCHANGED vars
         /\ aborted' = aborted
         /\ UNCHANGED vars \/ raced' = (raced \/ Colliding')
BY DEF Next, Watched, vars, Finished

\* The steps by which digging changes.
LEMMA DigFrame ==
  ASSUME [Next]_vars
  PROVE  \/ UNCHANGED <<main, digVars, diggernews>>
         \/ Main \/ Dig \/ Answers \/ VerifierReads
<1>1. CASE Main \/ Dig \/ Answers \/ VerifierReads
  BY <1>1
<1>2. CASE Decides \/ Tells \/ VerifierEnds
  BY <1>2 DEF Decides, Tells, VerifierEnds, digVars, chans
<1>3. CASE Track
  BY <1>3 DEF Track
<1>4. CASE Renderer
  BY <1>4 DEF Renderer, chans
<1>5. CASE UNCHANGED vars
  BY <1>5 DEF vars, chans
<1> QED
  BY StepCases, <1>1, <1>2, <1>3, <1>4, <1>5 DEF Verify

\* The steps by which verification changes.
LEMMA VerifyFrame ==
  ASSUME [Next]_vars
  PROVE  \/ UNCHANGED <<verifyVars, news>>
         \/ VerifierReads \/ Decides \/ Tells \/ VerifierEnds \/ (TrackReads /\ UNCHANGED verifyVars)
<1>1. CASE Verify
  BY <1>1 DEF Verify
<1>2. CASE Main
  BY <1>2 DEF Main, Discovered, Fails, Started, Return, chans
<1>3. CASE Dig
  BY <1>3 DEF Dig
<1>4. CASE Answers
  BY <1>4 DEF Answers, chans
<1>5. CASE Track
  BY <1>5 DEF Track, TrackEnds
<1>6. CASE Renderer
  BY <1>6 DEF Renderer, chans
<1>7. CASE UNCHANGED vars
  BY <1>7 DEF vars, chans
<1> QED
  BY StepCases, <1>1, <1>2, <1>3, <1>4, <1>5, <1>6, <1>7

\* A piece of news of a pair.
LEMMA NewsType ==
  ASSUME NEW p \in Pair, NEW q \in Quality
  PROVE  /\ NA(p[1], p[2], q) \in News
         /\ NA(p[1], p[2], q).name = p[1] /\ NA(p[1], p[2], q).addr = p[2]
         /\ NA(p[1], p[2], q).q = q
<1>1. p[1] \in Name /\ p[2] \in Addr \cup {NoAddr}
  BY DEF Pair
<1>2. NA(p[1], p[2], q) \in News
  BY <1>1 DEF News
<1> QED
  BY <1>2 DEF NA

\* What a piece of news is made of.
LEMMA NewsParts ==
  ASSUME NEW na \in News
  PROVE  /\ na.name \in Name /\ na.addr \in Addr \cup {NoAddr} /\ na.q \in Quality
         /\ <<na.name, na.addr>> \in Pair
         /\ na = NA(na.name, na.addr, na.q)
BY DEF News, NA, Pair

LEMMA QualityValues ==
  /\ Quality = {Unverified, Verifying, Invalid, Verified} /\ Final \subseteq Quality
  /\ Quality \subseteq Int /\ Unknown \in Int /\ Unknown \notin Quality
  /\ \A q \in Quality : Unknown < q
BY DEF Quality, Final, Unverified, Verifying, Invalid, Verified, Unknown

LEMMA EmptyChannel == << >> \in Seq(News) /\ Len(<< >>) <= ChanSize
<1>1. << >> \in Seq(News) /\ Len(<< >>) = 0
  OBVIOUS
<1> QED
  BY <1>1, PipelineAssumption

LEMMA DigTypesStart == Init => DigTypes
BY EmptyChannel DEF Init, DigTypes, Stream!Init

LEMMA DigTypesKept ==
  ASSUME DigTypes, EndTypes, [Next]_vars
  PROVE  DigTypes'
<1>1. CASE UNCHANGED <<main, digVars, diggernews>>
  BY <1>1 DEF DigTypes, digVars
<1>2. CASE Main
  BY <1>2 DEF DigTypes, Main, Discovered, Fails, Started, Return, digVars, chans
<1>3. CASE Dig
  <2>1. ASSUME NEW n \in wanted \ named, Len(diggernews) < ChanSize, Stream!Announce(n),
               diggernews' = Append(diggernews, NA(n, NoAddr, Unverified)), main' = main
        PROVE  DigTypes'
    <3>1. NA(n, NoAddr, Unverified) \in News
      BY <2>1, QualityValues DEF DigTypes, News
    <3>2. diggernews' \in Seq(News) /\ Len(diggernews') = Len(diggernews) + 1
      BY <2>1, <3>1, SendingAdds DEF DigTypes
    <3>3. Len(diggernews) \in Nat
      BY DEF DigTypes
    <3>4. Len(diggernews') <= ChanSize
      BY <2>1, <3>2, <3>3, PipelineAssumption
    <3> QED
      BY <2>1, <3>2, <3>4 DEF DigTypes, Stream!Announce
  <2>2. ASSUME NEW p \in answers \ dug, Len(diggernews) < ChanSize, Stream!Dug(p),
               diggernews' = Append(diggernews, NA(p[1], p[2], Unverified)), main' = main
        PROVE  DigTypes'
    <3>1. NA(p[1], p[2], Unverified) \in News
      BY <2>2, QualityValues DEF DigTypes, News
    <3>2. diggernews' \in Seq(News) /\ Len(diggernews') = Len(diggernews) + 1
      BY <2>2, <3>1, SendingAdds DEF DigTypes
    <3>3. Len(diggernews) \in Nat
      BY DEF DigTypes
    <3>4. Len(diggernews') <= ChanSize
      BY <2>2, <3>2, <3>3, PipelineAssumption
    <3> QED
      BY <2>2, <3>2, <3>4 DEF DigTypes, Stream!Dug
  <2>3. ASSUME Stream!Close, UNCHANGED diggernews, main' = main PROVE DigTypes'
    BY <2>3 DEF DigTypes, Stream!Close
  <2> QED
    BY <1>3, <2>1, <2>2, <2>3 DEF Dig
<1>4. CASE Answers
  BY <1>4 DEF DigTypes, Answers, Stream!Answer, chans
<1>5. CASE VerifierReads
  <2>1. diggernews' \in Seq(News) /\ Len(diggernews') = Len(diggernews) - 1
    BY <1>5, ReceivingTakes DEF VerifierReads, DigTypes
  <2>2. Len(diggernews) \in Nat
    BY DEF DigTypes
  <2>3. Len(diggernews') <= ChanSize
    BY <2>1, <2>2, PipelineAssumption DEF DigTypes
  <2> QED
    BY <1>5, <2>1, <2>3 DEF VerifierReads, DigTypes, digVars
<1> QED
  BY DigFrame, <1>1, <1>2, <1>3, <1>4, <1>5

LEMMA VerifyTypesStart == Init => VerifyTypes
BY EmptyChannel DEF Init, VerifyTypes, Ledger!Init

\* What telling about a pair changes: what was told is never taken back.
LEMMA TellsSteps ==
  ASSUME VerifyTypes, NEW p \in Pair, Ledger!TellPending(p) \/ Ledger!TellVerdict(p)
  PROVE  /\ told' \in [Pair -> Quality \cup {Unknown}]
         /\ told'[p] \in Quality /\ told'[p] > told[p] /\ told[p] \notin Final
         /\ told' = [told EXCEPT ![p] = told'[p]]
         /\ told'[p] \in Final => p[2] # NoAddr /\ verdict[p[2]] = told'[p]
         /\ p \in asked /\ ~newsClosed
         /\ UNCHANGED <<asked, verdict, newsClosed>>
<1>1. told[p] \in Quality \cup {Unknown}
  BY DEF VerifyTypes
<1>2. CASE Ledger!TellPending(p)
  BY <1>1, <1>2, QualityValues
     DEF VerifyTypes, Ledger!TellPending, Final, Unverified, Verifying, Invalid, Verified
<1>3. CASE Ledger!TellVerdict(p)
  <2>1. p \in asked /\ p \notin Name \X {NoAddr} /\ verdict[p[2]] # Unknown
        /\ told[p] \notin Final /\ told' = [told EXCEPT ![p] = verdict[p[2]]]
        /\ ~newsClosed /\ UNCHANGED <<asked, verdict, newsClosed>>
    BY <1>3 DEF Ledger!TellVerdict
  <2>2. p[2] \in Addr /\ p[2] # NoAddr
    BY <2>1, NamedAddressAssumption DEF Pair
  <2>3. verdict[p[2]] \in Final
    BY <2>1, <2>2 DEF VerifyTypes
  <2>4. verdict[p[2]] > told[p]
    BY <2>3, <2>1, <1>1 DEF Final, Quality, Unverified, Verifying, Invalid, Verified, Unknown
  <2>5. told'[p] = verdict[p[2]]
    BY <2>1 DEF VerifyTypes
  <2> QED
    BY <2>1, <2>2, <2>3, <2>4, <2>5, QualityValues DEF VerifyTypes
<1> QED
  BY <1>2, <1>3

LEMMA VerifyTypesKept ==
  ASSUME VerifyTypes, DigTypes, [Next]_vars
  PROVE  VerifyTypes'
<1>1. CASE UNCHANGED <<verifyVars, news>>
  BY <1>1 DEF VerifyTypes, verifyVars
<1>2. CASE VerifierReads
  <2>1. <<Head(diggernews).name, Head(diggernews).addr>> \in Pair
    BY <1>2, ReceivingTakes, NewsParts DEF VerifierReads, DigTypes
  <2> QED
    BY <1>2, <2>1 DEF VerifierReads, Ledger!Ask, VerifyTypes
<1>3. CASE Decides
  BY <1>3 DEF Decides, Ledger!Decide, VerifyTypes, chans
<1>4. CASE Tells
  <2>1. PICK p \in Pair : /\ Ledger!TellPending(p) \/ Ledger!TellVerdict(p)
                          /\ news' = Append(news, NA(p[1], p[2], told'[p]))
    BY <1>4 DEF Tells
  <2>2. told'[p] \in Quality /\ told' \in [Pair -> Quality \cup {Unknown}]
        /\ UNCHANGED <<asked, verdict, newsClosed>>
    BY <2>1, TellsSteps
  <2>3. NA(p[1], p[2], told'[p]) \in News
    BY <2>2, NewsType
  <2>4. news' \in Seq(News) /\ Len(news') = Len(news) + 1
    BY <2>1, <2>3, SendingAdds DEF VerifyTypes
  <2>5. Len(news) \in Nat /\ Len(news) < ChanSize
    BY <1>4 DEF VerifyTypes, Tells
  <2>6. Len(news') <= ChanSize
    BY <2>4, <2>5, PipelineAssumption
  <2> QED
    BY <2>2, <2>4, <2>6 DEF VerifyTypes
<1>5. CASE VerifierEnds
  BY <1>5 DEF VerifierEnds, Ledger!Close, VerifyTypes, chans
<1>6. CASE TrackReads /\ UNCHANGED verifyVars
  <2>1. news' \in Seq(News) /\ Len(news') = Len(news) - 1
    BY <1>6, ReceivingTakes DEF TrackReads, VerifyTypes
  <2>2. Len(news) \in Nat
    BY DEF VerifyTypes
  <2>3. Len(news') <= ChanSize
    BY <2>1, <2>2, PipelineAssumption DEF VerifyTypes
  <2> QED
    BY <1>6, <2>1, <2>3 DEF VerifyTypes, verifyVars
<1> QED
  BY VerifyFrame, <1>1, <1>2, <1>3, <1>4, <1>5, <1>6

\* A set of numbers that is not empty has a least element.
LEMMA LeastOfNats ==
  ASSUME NEW S \in SUBSET Nat, S # {}
  PROVE  \E i \in S : \A j \in S : i <= j
<1> DEFINE T == {0..i : i \in S}
           R == StrictSubsetOrdering(Nat)
<1>1. T # {}
  OBVIOUS
<1>2. ASSUME NEW t \in T PROVE t \in FiniteSubsetsOf(Nat)
  <2>1. PICK i \in S : t = 0..i
    OBVIOUS
  <2>2. IsFiniteSet(0..i)
    BY FS_Interval
  <2> QED
    BY <2>1, <2>2 DEF FiniteSubsetsOf
<1>3. IsWellFoundedOn(R, FiniteSubsetsOf(Nat))
  BY FS_StrictSubsetOrderingWellFounded
<1>4. T \subseteq FiniteSubsetsOf(Nat)
  BY <1>2
<1> HIDE DEF R
<1>5. PICK t \in T : \A u \in T : ~(<<u, t>> \in R)
  <2> HIDE DEF T
  <2> QED
    BY <1>1, <1>3, <1>4, WFMin
<1>6. PICK i \in S : t = 0..i
  BY <1>5
<1>7. ASSUME NEW j \in S, j < i PROVE FALSE
  <2>1. 0..j \subseteq 0..i /\ 0..j # 0..i /\ 0..i \subseteq Nat
    BY <1>7
  <2>2. <<0..j, 0..i>> \in R
    BY <2>1 DEF R, StrictSubsetOrdering
  <2> QED
    BY <2>2, <1>5, <1>6
<1> QED
  BY <1>7

-----------------------------------------------------------------------------
(* The shape of the map, of the renderer's slices and of what both           *)
(* goroutines remember between their steps.                                  *)

ArraysInv ==
  /\ IsArrays(m, Name) /\ IsArrays(screen, Name) /\ IsArrays(old, DOMAIN view)
  /\ \A n \in DOMAIN view : n \in DOMAIN m /\ view[n] \in 0..Len(m[n])
  /\ \A n \in DOMAIN old : Len(old[n]) = view[n]

TrackerInv ==
  /\ tracker \in [at: Doing, news: News \cup {Idle.news}, idx: Nat]
  /\ tracker.at = "idle" => tracker = Idle
  /\ tracker.at # "idle" => tracker.news \in News
  /\ tracker.at = "search" => tracker.idx = 0
  /\ tracker.at \in {"look", "write"} =>
       tracker.news.addr \in Addr /\ tracker.news.name \in DOMAIN m
  /\ tracker.at = "look" => tracker.idx \in 0..Len(m[tracker.news.name])
  /\ tracker.at = "write" => tracker.idx \in 1..Len(m[tracker.news.name])

DrawingInv ==
  /\ drawing.at \in {"wait", "sort", "swap"}
  /\ drawing.at = "swap" =>
       /\ drawing.name \in DOMAIN view
       /\ drawing.idx \in 1..(view[drawing.name] - 1)
       /\ drawing.tmp[1] \in Entry

ShapeInv == ArraysInv /\ TrackerInv /\ DrawingInv

\* The steps by which the map and what the renderer has of it change.
LEMMA MapFrame ==
  ASSUME [Next]_vars
  PROVE  UNCHANGED mapVars \/ TrackReads \/ Update \/ (drawing.at = "wait" /\ Get) \/ Render
<1>1. CASE Main
  BY <1>1 DEF Main, Discovered, Fails, Started, Return
<1>2. CASE Dig
  BY <1>2 DEF Dig
<1>3. CASE Answers
  BY <1>3 DEF Answers
<1>4. CASE Verify
  BY <1>4 DEF Verify, VerifierReads, Decides, Tells, VerifierEnds
<1>5. CASE Track
  BY <1>5 DEF Track, TrackEnds
<1>6. CASE Renderer
  BY <1>6 DEF Renderer, Draws, LastDraw, Renders
<1>7. CASE UNCHANGED vars
  BY <1>7 DEF vars
<1> QED
  BY StepCases, <1>1, <1>2, <1>3, <1>4, <1>5, <1>6, <1>7

\* What a map is with one more array.
LEMMA PutParts ==
  ASSUME NEW f, NEW n, NEW array
  PROVE  /\ DOMAIN Put(f, n, array) = DOMAIN f \cup {n}
         /\ Put(f, n, array)[n] = array
         /\ \A k \in DOMAIN f : k # n => Put(f, n, array)[k] = f[k]
BY DEF Put

\* Entering a name: no array in the map changes, and the new one has an entry if the
\* news has an address.
LEMMA NewNameEffect ==
  ASSUME ShapeInv, NewName
  PROVE  /\ tracker.news \in News
         /\ DOMAIN m' = DOMAIN m \cup {tracker.news.name}
         /\ \A k \in DOMAIN m : m'[k] = m[k]
         /\ tracker.news.name \notin DOMAIN m => m'[tracker.news.name] = FirstEntry
         /\ FirstEntry \in Seq(Entry)
         /\ tracker' = Idle /\ UNCHANGED <<view, old, drawing, screen>>
<1>1. tracker.news \in News
  BY DEF NewName, ShapeInv, TrackerInv
<1>2. tracker.news.addr \in Addr \cup {NoAddr} /\ tracker.news.q \in Quality
  BY <1>1, NewsParts
<1>3. FirstEntry \in Seq(Entry)
  <2>1. << >> \in Seq(Entry)
    OBVIOUS
  <2>2. ASSUME tracker.news.addr # NoAddr
        PROVE  <<[addr |-> tracker.news.addr, q |-> tracker.news.q]>> \in Seq(Entry)
    <3>1. [addr |-> tracker.news.addr, q |-> tracker.news.q] \in Entry
      BY <1>2, <2>2 DEF Entry
    <3> QED
      BY <3>1
  <2> QED
    BY <2>1, <2>2 DEF FirstEntry
<1>4. CASE tracker.news.name \in DOMAIN m
  BY <1>1, <1>3, <1>4 DEF NewName
<1>5. CASE tracker.news.name \notin DOMAIN m
  <2>1. m' = Put(m, tracker.news.name, FirstEntry)
    BY <1>5 DEF NewName
  <2>2. /\ DOMAIN m' = DOMAIN m \cup {tracker.news.name}
        /\ m'[tracker.news.name] = FirstEntry
        /\ \A k \in DOMAIN m : k # tracker.news.name => m'[k] = m[k]
    BY <2>1 DEF Put
  <2>3. \A k \in DOMAIN m : m'[k] = m[k]
    BY <2>2, <1>5, Zenon
  <2> QED
    BY <1>1, <1>3, <2>2, <2>3 DEF NewName
<1> QED
  BY <1>4, <1>5

\* The search begins before the first entry, ...
LEMMA SearchEffect ==
  ASSUME ShapeInv, Search
  PROVE  /\ tracker.news \in News /\ tracker.news.addr \in Addr
         /\ tracker.news.name \in DOMAIN m
         /\ tracker' = [tracker EXCEPT !.at = "look"] /\ tracker.idx = 0
         /\ UNCHANGED <<m, view, old, drawing, screen>>
<1>1. /\ tracker.news \in News /\ tracker.news.name \in DOMAIN m
      /\ tracker.news.addr # NoAddr /\ tracker.idx = 0
  BY DEF Search, ShapeInv, TrackerInv
<1>2. tracker.news.addr \in Addr
  BY <1>1, NewsParts
<1> QED
  BY <1>1, <1>2 DEF Search

\* ... and passes entries of other addresses, until it finds the one of the address.
LEMMA LookEffect ==
  ASSUME ShapeInv, Look
  PROVE  LET n == tracker.news.name
             i == tracker.idx + 1
         IN  /\ tracker.news \in News /\ tracker.news.addr \in Addr /\ n \in DOMAIN m
             /\ m[n] \in Seq(Entry) /\ i \in 1..Len(m[n])
             /\ UNCHANGED <<m, view, old, drawing, screen>>
             /\ \/ /\ m[n][i].addr # tracker.news.addr
                   /\ tracker' = [tracker EXCEPT !.idx = i]
                \/ /\ m[n][i].addr = tracker.news.addr
                   /\ tracker.news.q > m[n][i].q
                   /\ tracker' = [tracker EXCEPT !.at = "write", !.idx = i]
                \/ /\ m[n][i].addr = tracker.news.addr
                   /\ ~(tracker.news.q > m[n][i].q)
                   /\ tracker' = Idle
<1> DEFINE n == tracker.news.name
           i == tracker.idx + 1
<1>1. /\ tracker.news \in News /\ tracker.news.addr \in Addr /\ n \in DOMAIN m
      /\ tracker.idx \in 0..Len(m[n])
  BY DEF Look, ShapeInv, TrackerInv
<1>2. m[n] \in Seq(Entry)
  BY <1>1 DEF ShapeInv, ArraysInv, IsArrays
<1>3. i \in 1..Len(m[n])
  BY <1>1, <1>2 DEF Look
<1> QED
  BY <1>1, <1>2, <1>3 DEF Look, Supersedes

\* What Update writes into an entry: another quality of the same address.
LEMMA WriteEffect ==
  ASSUME ShapeInv, Write
  PROVE  LET n == tracker.news.name
             e == [addr |-> m[n][tracker.idx].addr, q |-> tracker.news.q]
         IN  /\ tracker.news \in News /\ n \in DOMAIN m
             /\ tracker.idx \in 1..Len(m[n]) /\ e \in Entry
             /\ DOMAIN m' = DOMAIN m
             /\ \A k \in DOMAIN m : k # n => m'[k] = m[k]
             /\ m'[n] = [m[n] EXCEPT ![tracker.idx] = e]
             /\ tracker' = Idle /\ UNCHANGED <<view, old, drawing, screen>>
<1> DEFINE n == tracker.news.name
           e == [addr |-> m[n][tracker.idx].addr, q |-> tracker.news.q]
<1>1. tracker.news \in News /\ n \in DOMAIN m /\ tracker.idx \in 1..Len(m[n])
      /\ tracker.news.q \in Quality
  BY NewsParts DEF Write, ShapeInv, TrackerInv
<1>2. m[n] \in Seq(Entry)
  BY <1>1 DEF ShapeInv, ArraysInv, IsArrays
<1>3. m[n][tracker.idx] \in Entry
  BY <1>1, <1>2
<1>4. [m[n][tracker.idx] EXCEPT !.q = tracker.news.q] = e /\ e \in Entry
  BY <1>1, <1>3 DEF Entry
<1>5. m' = [m EXCEPT ![n] = [m[n] EXCEPT ![tracker.idx] =
                               [m[n][tracker.idx] EXCEPT !.q = tracker.news.q]]]
      /\ tracker' = Idle /\ UNCHANGED <<view, old, drawing, screen>>
  BY DEF Write
<1>6. m' = [m EXCEPT ![n] = [m[n] EXCEPT ![tracker.idx] = e]]
  BY <1>4, <1>5
<1> HIDE DEF e
<1>7. /\ DOMAIN m' = DOMAIN m
      /\ \A k \in DOMAIN m : k # n => m'[k] = m[k]
      /\ m'[n] = [m[n] EXCEPT ![tracker.idx] = e]
  BY <1>1, <1>6
<1> QED
  BY <1>1, <1>4, <1>5, <1>7 DEF e

\* Update appends to no array that the renderer is swapping elements of, if the two have not
\* met: it has looked at all of the array, and an array to swap elements of is not empty.
LEMMA AppendsAlone ==
  ASSUME ShapeInv, AppendNew, ~Colliding
  PROVE  ~(drawing.at = "swap" /\ drawing.name = tracker.news.name
             /\ drawing.name \notin DOMAIN old)
<1> SUFFICES ASSUME drawing.at = "swap", drawing.name = tracker.news.name,
                    drawing.name \notin DOMAIN old
             PROVE  FALSE
  OBVIOUS
<1> DEFINE n == tracker.news.name
<1>1. tracker.at = "look" /\ tracker.idx = Len(m[n]) /\ tracker.idx \in Nat
  BY DEF AppendNew, ShapeInv, TrackerInv
<1>2. view[n] \in 0..Len(m[n]) /\ drawing.idx \in 1..(view[n] - 1)
  BY DEF ShapeInv, ArraysInv, DrawingInv
<1>3. tracker.idx > 0
  BY <1>1, <1>2
<1> QED
  BY <1>1, <1>3 DEF Colliding

\* What Update appends, and that the array may move by it.
LEMMA AppendEffect ==
  ASSUME ShapeInv, AppendNew
  PROVE  LET n == tracker.news.name
             e == [addr |-> tracker.news.addr, q |-> tracker.news.q]
         IN  /\ tracker.news \in News /\ tracker.news.addr \in Addr /\ n \in DOMAIN m
             /\ e \in Entry
             /\ DOMAIN m' = DOMAIN m
             /\ \A k \in DOMAIN m : k # n => m'[k] = m[k]
             /\ m'[n] = Append(m[n], e)
             /\ \/ old' = old
                \/ /\ n \in DOMAIN view /\ n \notin DOMAIN old
                   /\ DOMAIN old' = DOMAIN old \cup {n}
                   /\ \A k \in DOMAIN old : old'[k] = old[k]
                   /\ old'[n] = SubSeq(m[n], 1, view[n])
             /\ tracker' = Idle /\ UNCHANGED <<view, drawing, screen>>
<1> DEFINE n == tracker.news.name
           e == [addr |-> tracker.news.addr, q |-> tracker.news.q]
<1>1. tracker.news \in News /\ tracker.news.addr \in Addr /\ n \in DOMAIN m
      /\ tracker.news.q \in Quality
  BY NewsParts DEF AppendNew, ShapeInv, TrackerInv
<1>2. e \in Entry
  BY <1>1 DEF Entry
<1>3. m' = [m EXCEPT ![n] = Append(m[n], e)]
      /\ tracker' = Idle /\ UNCHANGED <<view, drawing, screen>>
  BY DEF AppendNew
<1>4. \/ old' = old
      \/ /\ n \in DOMAIN view /\ n \notin DOMAIN old
         /\ DOMAIN old' = DOMAIN old \cup {n}
         /\ \A k \in DOMAIN old : old'[k] = old[k]
         /\ old'[n] = SubSeq(m[n], 1, view[n])
  <2>1. CASE n \in DOMAIN view /\ n \notin DOMAIN old
    <3>1. old' = old \/ old' = Put(old, n, SubSeq(m[n], 1, view[n]))
      BY DEF AppendNew
    <3>2. CASE old' = Put(old, n, SubSeq(m[n], 1, view[n]))
      <4>1. /\ DOMAIN old' = DOMAIN old \cup {n}
            /\ old'[n] = SubSeq(m[n], 1, view[n])
            /\ \A k \in DOMAIN old : k # n => old'[k] = old[k]
        BY <3>2 DEF Put
      <4> QED
        BY <4>1, <2>1, Zenon
    <3> QED
      BY <3>1, <3>2
  <2>2. CASE ~(n \in DOMAIN view /\ n \notin DOMAIN old)
    BY <2>2 DEF AppendNew
  <2> QED
    BY <2>1, <2>2
<1> HIDE DEF e
<1>5. /\ DOMAIN m' = DOMAIN m
      /\ \A k \in DOMAIN m : k # n => m'[k] = m[k]
      /\ m'[n] = Append(m[n], e)
  BY <1>1, <1>3
<1> QED
  BY <1>1, <1>2, <1>3, <1>4, <1>5 DEF e

\* What a store of the sort changes: one element, of the map's array unless that moved.
LEMMA StoreEffect ==
  ASSUME ShapeInv, NEW n \in DOMAIN view, NEW i \in 1..view[n], NEW e \in Entry,
         Store(n, i, e)
  PROVE  /\ n \in DOMAIN m /\ i \in 1..Len(m[n])
         /\ DOMAIN m' = DOMAIN m /\ DOMAIN old' = DOMAIN old
         /\ \A k \in DOMAIN m : m'[k] \in Seq(Entry) /\ Len(m'[k]) = Len(m[k])
         /\ \A k \in DOMAIN old : old'[k] \in Seq(Entry) /\ Len(old'[k]) = Len(old[k])
         /\ n \in DOMAIN old => m' = m
         /\ n \notin DOMAIN old =>
              /\ m'[n] = [m[n] EXCEPT ![i] = e]
              /\ \A k \in DOMAIN m : k # n => m'[k] = m[k]
<1>1. n \in DOMAIN m /\ view[n] \in 0..Len(m[n]) /\ m[n] \in Seq(Entry)
      /\ \A k \in DOMAIN m : m[k] \in Seq(Entry)
  BY DEF ShapeInv, ArraysInv, IsArrays
<1>2. i \in 1..Len(m[n])
  BY <1>1
<1>3. \A k \in DOMAIN old : old[k] \in Seq(Entry)
  BY DEF ShapeInv, ArraysInv, IsArrays
<1>4. CASE n \in DOMAIN old
  <2>1. old' = [old EXCEPT ![n] = [old[n] EXCEPT ![i] = e]] /\ m' = m
    BY <1>4 DEF Store
  <2>2. old[n] \in Seq(Entry) /\ i \in 1..Len(old[n])
    BY <1>3, <1>4 DEF ShapeInv, ArraysInv
  <2>3. [old[n] EXCEPT ![i] = e] \in Seq(Entry) /\ Len([old[n] EXCEPT ![i] = e]) = Len(old[n])
    BY <2>2, StoredAt
  <2>4. DOMAIN old' = DOMAIN old
        /\ \A k \in DOMAIN old : old'[k] = IF k = n THEN [old[n] EXCEPT ![i] = e] ELSE old[k]
    BY <2>1
  <2>5. ASSUME NEW k \in DOMAIN old
        PROVE  old'[k] \in Seq(Entry) /\ Len(old'[k]) = Len(old[k])
    BY <1>3, <2>3, <2>4, Zenon
  <2> QED
    BY <1>1, <1>2, <1>4, <2>1, <2>4, <2>5
<1>5. CASE n \notin DOMAIN old
  <2>1. m' = [m EXCEPT ![n] = [m[n] EXCEPT ![i] = e]] /\ old' = old
    BY <1>5 DEF Store
  <2>2. [m[n] EXCEPT ![i] = e] \in Seq(Entry) /\ Len([m[n] EXCEPT ![i] = e]) = Len(m[n])
    BY <1>1, <1>2, StoredAt
  <2>3. DOMAIN m' = DOMAIN m
        /\ \A k \in DOMAIN m : m'[k] = IF k = n THEN [m[n] EXCEPT ![i] = e] ELSE m[k]
    BY <2>1
  <2>4. ASSUME NEW k \in DOMAIN m
        PROVE  m'[k] \in Seq(Entry) /\ Len(m'[k]) = Len(m[k])
    BY <1>1, <2>2, <2>3, Zenon
  <2>5. m'[n] = [m[n] EXCEPT ![i] = e] /\ \A k \in DOMAIN m : k # n => m'[k] = m[k]
    BY <1>1, <2>3, Zenon
  <2> QED
    BY <1>1, <1>2, <1>3, <1>5, <2>1, <2>3, <2>4, <2>5
<1> QED
  BY <1>4, <1>5

\* What the renderer sees behind a slice is an array of the slice's length.
LEMMA SeenType ==
  ASSUME ShapeInv, NEW n \in DOMAIN view
  PROVE  Seen(n) \in Seq(Entry) /\ Len(Seen(n)) = view[n] /\ view[n] \in Nat
<1>1. n \in DOMAIN m /\ view[n] \in 0..Len(m[n]) /\ m[n] \in Seq(Entry)
  BY DEF ShapeInv, ArraysInv, IsArrays
<1>2. CASE n \in DOMAIN old
  BY <1>1, <1>2 DEF Seen, ShapeInv, ArraysInv, IsArrays
<1>3. CASE n \notin DOMAIN old
  BY <1>1, <1>3, Sliced DEF Seen
<1> QED
  BY <1>2, <1>3

\* The two stores of a swap, taken apart.
LEMMA SwapLeftEffect ==
  ASSUME ShapeInv, SwapLeft
  PROVE  \E n \in DOMAIN view : \E i \in 1..(view[n] - 1) :
           /\ drawing' = [at |-> "swap", name |-> n, idx |-> i, tmp |-> <<Seen(n)[i]>>]
           /\ Seen(n)[i] \in Entry /\ Seen(n)[i + 1] \in Entry
           /\ i \in 1..view[n] /\ Store(n, i, Seen(n)[i + 1])
           /\ drawing.at = "sort" /\ UNCHANGED <<tracker, view, screen>>
<1> PICK n \in DOMAIN view : \E i \in Inversions(Seen(n)) :
        /\ drawing' = [at |-> "swap", name |-> n, idx |-> i, tmp |-> <<Seen(n)[i]>>]
        /\ Store(n, i, Seen(n)[i + 1])
  BY DEF SwapLeft
<1>1. PICK i \in Inversions(Seen(n)) :
        /\ drawing' = [at |-> "swap", name |-> n, idx |-> i, tmp |-> <<Seen(n)[i]>>]
        /\ Store(n, i, Seen(n)[i + 1])
  OBVIOUS
<1>2. Seen(n) \in Seq(Entry) /\ Len(Seen(n)) = view[n] /\ view[n] \in Nat
  BY SeenType
<1>3. i \in 1..(view[n] - 1)
  BY <1>2 DEF Inversions
<1>4. i \in 1..view[n] /\ i + 1 \in 1..view[n]
  BY <1>2, <1>3
<1>5. Seen(n)[i] \in Entry /\ Seen(n)[i + 1] \in Entry
  BY <1>2, <1>4
<1> QED
  BY <1>1, <1>3, <1>4, <1>5 DEF SwapLeft

LEMMA SwapRightEffect ==
  ASSUME ShapeInv, SwapRight
  PROVE  /\ drawing.at = "swap" /\ drawing.name \in DOMAIN view
         /\ drawing.idx \in 1..(view[drawing.name] - 1)
         /\ drawing.idx + 1 \in 1..view[drawing.name] /\ drawing.tmp[1] \in Entry
         /\ Store(drawing.name, drawing.idx + 1, drawing.tmp[1])
         /\ drawing' = [Waiting EXCEPT !.at = "sort"]
         /\ UNCHANGED <<tracker, view, screen>>
<1>1. /\ drawing.at = "swap" /\ drawing.name \in DOMAIN view
      /\ drawing.idx \in 1..(view[drawing.name] - 1) /\ drawing.tmp[1] \in Entry
  BY DEF SwapRight, ShapeInv, DrawingInv
<1>2. view[drawing.name] \in Nat
  BY <1>1, SeenType
<1> QED
  BY <1>1, <1>2 DEF SwapRight

LEMMA IdleParts ==
  /\ Idle \in [at: Doing, news: News \cup {Idle.news}, idx: Nat]
  /\ Idle.at = "idle" /\ Idle.idx = 0
BY DEF Idle, Doing

LEMMA EmptyParts == DOMAIN Empty = {}
BY DEF Empty

LEMMA WaitingParts ==
  /\ Waiting.at = "wait"
  /\ [Waiting EXCEPT !.at = "sort"].at = "sort"
BY DEF Waiting

LEMMA ShapeStart == Init => ShapeInv
<1> SUFFICES ASSUME Init PROVE ShapeInv
  OBVIOUS
<1>1. m = Empty /\ tracker = Idle /\ view = Empty /\ old = Empty /\ drawing = Waiting
      /\ screen = Empty
  BY DEF Init, MapInit
<1>2. ArraysInv
  BY <1>1, EmptyParts DEF ArraysInv, IsArrays
<1>3. TrackerInv
  BY <1>1, IdleParts DEF TrackerInv
<1>4. DrawingInv
  BY <1>1, WaitingParts DEF DrawingInv
<1> QED
  BY <1>2, <1>3, <1>4 DEF ShapeInv

\* The tracking goroutine's steps keep the shapes ...
LEMMA ShapeKeptByTracking ==
  ASSUME ShapeInv, VerifyTypes, TrackReads \/ Update
  PROVE  ShapeInv'
<1>0. ArraysInv /\ TrackerInv /\ DrawingInv
  BY DEF ShapeInv
<1>1. CASE TrackReads
  <2>1. Head(news) \in News
    BY <1>1, ReceivingTakes DEF TrackReads, VerifyTypes
  <2>2. /\ tracker' \in [at: Doing, news: News \cup {Idle.news}, idx: Nat]
        /\ tracker'.at = "search" /\ tracker'.news = Head(news) /\ tracker'.idx = 0
    BY <1>1, <2>1, IdleParts DEF TrackReads, Receive, Doing
  <2>3. UNCHANGED <<m, view, old, drawing, screen>>
    BY <1>1 DEF TrackReads
  <2>4. TrackerInv'
    BY <2>1, <2>2 DEF TrackerInv
  <2>5. ArraysInv'
    BY <1>0, <2>3 DEF ArraysInv, IsArrays
  <2>6. DrawingInv'
    BY <1>0, <2>3 DEF DrawingInv
  <2> QED
    BY <2>4, <2>5, <2>6 DEF ShapeInv
<1>2. CASE NewName
  <2> DEFINE n == tracker.news.name
  <2>1. /\ DOMAIN m' = DOMAIN m \cup {n}
        /\ \A k \in DOMAIN m : m'[k] = m[k]
        /\ n \notin DOMAIN m => m'[n] = FirstEntry
        /\ FirstEntry \in Seq(Entry) /\ n \in Name
        /\ tracker' = Idle /\ UNCHANGED <<view, old, drawing, screen>>
    BY <1>2, NewNameEffect, NewsParts
  <2> HIDE DEF n
  <2>2. IsArrays(m', Name)
    BY <1>0, <2>1 DEF ArraysInv, IsArrays
  <2>3. ArraysInv'
    BY <1>0, <2>1, <2>2 DEF ArraysInv, IsArrays
  <2>4. TrackerInv'
    BY <2>1, IdleParts DEF TrackerInv
  <2>5. DrawingInv'
    BY <1>0, <2>1 DEF DrawingInv
  <2> QED
    BY <2>3, <2>4, <2>5 DEF ShapeInv
<1>3. CASE Search \/ Look
  <2> DEFINE n == tracker.news.name
  <2>1. /\ tracker.news \in News /\ tracker.news.addr \in Addr /\ n \in DOMAIN m
        /\ UNCHANGED <<m, view, old, drawing, screen>>
    BY <1>3, SearchEffect, LookEffect
  <2>2. \/ tracker' = [tracker EXCEPT !.at = "look"] /\ tracker.idx = 0
        \/ \E i \in 1..Len(m[n]) :
             \/ tracker.at = "look" /\ tracker' = [tracker EXCEPT !.idx = i]
             \/ tracker' = [tracker EXCEPT !.at = "write", !.idx = i]
        \/ tracker' = Idle
    <3>1. CASE Search
      BY <3>1, SearchEffect
    <3>2. CASE Look
      <4>1. tracker.at = "look"
        BY <3>2 DEF Look
      <4> QED
        BY <3>2, <4>1, LookEffect
    <3> QED
      BY <1>3, <3>1, <3>2
  <2>3. ArraysInv' /\ DrawingInv'
    BY <1>0, <2>1 DEF ArraysInv, IsArrays, DrawingInv
  <2>4. TrackerInv'
    <3>0. m[n] \in Seq(Entry)
      BY <1>0, <2>1 DEF ArraysInv, IsArrays
    <3>1. CASE tracker' = [tracker EXCEPT !.at = "look"] /\ tracker.idx = 0
      BY <1>0, <2>1, <3>0, <3>1 DEF TrackerInv, Doing
    <3>2. ASSUME NEW i \in 1..Len(m[n]), tracker.at = "look",
                 tracker' = [tracker EXCEPT !.idx = i]
          PROVE  TrackerInv'
      BY <1>0, <2>1, <3>0, <3>2 DEF TrackerInv, Doing
    <3>3. ASSUME NEW i \in 1..Len(m[n]), tracker' = [tracker EXCEPT !.at = "write", !.idx = i]
          PROVE  TrackerInv'
      <4>1. tracker' = [at |-> "write", news |-> tracker.news, idx |-> i]
        BY <1>0, <3>3 DEF TrackerInv
      <4>2. /\ tracker' \in [at: Doing, news: News \cup {Idle.news}, idx: Nat]
            /\ tracker'.at = "write" /\ tracker'.news = tracker.news /\ tracker'.idx = i
        BY <2>1, <3>0, <4>1 DEF Doing
      <4> QED
        BY <2>1, <3>3, <4>2 DEF TrackerInv
    <3>4. CASE tracker' = Idle
      BY <3>4, IdleParts DEF TrackerInv
    <3> QED
      BY <2>2, <3>1, <3>2, <3>3, <3>4
  <2> QED
    BY <2>3, <2>4 DEF ShapeInv
<1>4. CASE Write
  <2> DEFINE n == tracker.news.name
             e == [addr |-> m[n][tracker.idx].addr, q |-> tracker.news.q]
  <2>1. /\ n \in DOMAIN m /\ tracker.idx \in 1..Len(m[n]) /\ e \in Entry
        /\ DOMAIN m' = DOMAIN m
        /\ \A k \in DOMAIN m : k # n => m'[k] = m[k]
        /\ m'[n] = [m[n] EXCEPT ![tracker.idx] = e]
        /\ tracker' = Idle /\ UNCHANGED <<view, old, drawing, screen>>
    BY <1>4, WriteEffect
  <2> HIDE DEF n, e
  <2>2. m[n] \in Seq(Entry)
    BY <1>0, <2>1 DEF ArraysInv, IsArrays
  <2>3. m'[n] \in Seq(Entry) /\ Len(m'[n]) = Len(m[n])
    BY <2>1, <2>2, StoredAt
  <2>4. \A k \in DOMAIN m : m'[k] \in Seq(Entry) /\ Len(m'[k]) = Len(m[k])
    BY <1>0, <2>1, <2>3 DEF ArraysInv, IsArrays
  <2>5. ArraysInv'
    BY <1>0, <2>1, <2>4 DEF ArraysInv, IsArrays
  <2>6. TrackerInv'
    BY <2>1, IdleParts DEF TrackerInv
  <2>7. DrawingInv'
    BY <1>0, <2>1 DEF DrawingInv
  <2> QED
    BY <2>5, <2>6, <2>7 DEF ShapeInv
<1>5. CASE AppendNew
  <2> DEFINE n == tracker.news.name
             e == [addr |-> tracker.news.addr, q |-> tracker.news.q]
  <2>1. /\ n \in DOMAIN m /\ e \in Entry
        /\ DOMAIN m' = DOMAIN m
        /\ \A k \in DOMAIN m : k # n => m'[k] = m[k]
        /\ m'[n] = Append(m[n], e)
        /\ tracker' = Idle /\ UNCHANGED <<view, drawing, screen>>
    BY <1>5, AppendEffect
  <2>2. \/ old' = old
        \/ /\ n \in DOMAIN view /\ n \notin DOMAIN old
           /\ DOMAIN old' = DOMAIN old \cup {n}
           /\ \A k \in DOMAIN old : old'[k] = old[k]
           /\ old'[n] = SubSeq(m[n], 1, view[n])
    BY <1>5, AppendEffect
  <2> HIDE DEF n, e
  <2>3. m[n] \in Seq(Entry) /\ Len(m[n]) \in Nat
    BY <1>0, <2>1 DEF ArraysInv, IsArrays
  <2>4. m'[n] \in Seq(Entry) /\ Len(m'[n]) = Len(m[n]) + 1
    BY <2>1, <2>3, SendingAdds
  <2>5. IsArrays(m', Name)
    BY <1>0, <2>1, <2>4 DEF ArraysInv, IsArrays
  <2>6. \A k \in DOMAIN view : k \in DOMAIN m' /\ view[k] \in 0..Len(m'[k])
    BY <1>0, <2>1, <2>3, <2>4 DEF ArraysInv
  <2>7. IsArrays(old', DOMAIN view) /\ \A k \in DOMAIN old' : Len(old'[k]) = view[k]
    <3>1. CASE old' = old
      BY <1>0, <3>1 DEF ArraysInv, IsArrays
    <3>2. CASE old' # old
      <4>1. view[n] \in 0..Len(m[n])
        BY <1>0, <2>2, <3>2 DEF ArraysInv
      <4>2. SubSeq(m[n], 1, view[n]) \in Seq(Entry) /\ Len(SubSeq(m[n], 1, view[n])) = view[n]
        BY <4>1, <2>3, Sliced
      <4> QED
        BY <1>0, <2>2, <3>2, <4>2 DEF ArraysInv, IsArrays
    <3> QED
      BY <3>1, <3>2
  <2>8. ArraysInv'
    BY <1>0, <2>1, <2>5, <2>6, <2>7 DEF ArraysInv, IsArrays
  <2>9. TrackerInv'
    BY <2>1, IdleParts DEF TrackerInv
  <2>10. DrawingInv'
    BY <1>0, <2>1 DEF DrawingInv
  <2> QED
    BY <2>8, <2>9, <2>10 DEF ShapeInv
<1> QED
  BY <1>1, <1>2, <1>3, <1>4, <1>5 DEF Update

\* ... and so do the renderer's.
LEMMA ShapeKeptByRendering ==
  ASSUME ShapeInv, Get \/ Render
  PROVE  ShapeInv'
<1>0. ArraysInv /\ TrackerInv /\ DrawingInv
  BY DEF ShapeInv
<1>1. CASE Get
  <2>1. /\ view' = [n \in DOMAIN m |-> Len(m[n])] /\ old' = Empty
        /\ drawing' = [Waiting EXCEPT !.at = "sort"]
        /\ UNCHANGED <<m, tracker, screen>>
    BY <1>1 DEF Get
  <2>2. \A n \in DOMAIN m : Len(m[n]) \in Nat
    BY <1>0 DEF ArraysInv, IsArrays
  <2>3. ArraysInv'
    BY <1>0, <2>1, <2>2, EmptyParts DEF ArraysInv, IsArrays
  <2>4. TrackerInv'
    BY <1>0, <2>1 DEF TrackerInv
  <2>5. DrawingInv'
    BY <2>1, WaitingParts DEF DrawingInv
  <2> QED
    BY <2>3, <2>4, <2>5 DEF ShapeInv
<1>2. ASSUME NEW n \in DOMAIN view, NEW i \in 1..view[n], NEW e \in Entry, Store(n, i, e),
             UNCHANGED <<tracker, view, screen>>
      PROVE  ArraysInv' /\ TrackerInv'
  <2>1. /\ DOMAIN m' = DOMAIN m /\ DOMAIN old' = DOMAIN old
        /\ \A k \in DOMAIN m : m'[k] \in Seq(Entry) /\ Len(m'[k]) = Len(m[k])
        /\ \A k \in DOMAIN old : old'[k] \in Seq(Entry) /\ Len(old'[k]) = Len(old[k])
    BY <1>2, StoreEffect
  <2>2. ArraysInv'
    BY <1>0, <1>2, <2>1 DEF ArraysInv, IsArrays
  <2>3. TrackerInv'
    BY <1>0, <1>2, <2>1 DEF TrackerInv
  <2> QED
    BY <2>2, <2>3
<1>3. CASE SwapLeft
  <2> PICK n \in DOMAIN view : \E i \in 1..(view[n] - 1) :
        /\ drawing' = [at |-> "swap", name |-> n, idx |-> i, tmp |-> <<Seen(n)[i]>>]
        /\ Seen(n)[i] \in Entry /\ Seen(n)[i + 1] \in Entry
        /\ i \in 1..view[n] /\ Store(n, i, Seen(n)[i + 1])
        /\ UNCHANGED <<tracker, view, screen>>
    BY <1>3, SwapLeftEffect
  <2>1. PICK i \in 1..(view[n] - 1) :
        /\ drawing' = [at |-> "swap", name |-> n, idx |-> i, tmp |-> <<Seen(n)[i]>>]
        /\ Seen(n)[i] \in Entry /\ Seen(n)[i + 1] \in Entry
        /\ i \in 1..view[n] /\ Store(n, i, Seen(n)[i + 1])
        /\ UNCHANGED <<tracker, view, screen>>
    OBVIOUS
  <2>2. ArraysInv' /\ TrackerInv'
    BY <2>1, <1>2
  <2>3. DrawingInv'
    BY <2>1 DEF DrawingInv
  <2> QED
    BY <2>2, <2>3 DEF ShapeInv
<1>4. CASE SwapRight
  <2>1. ArraysInv' /\ TrackerInv'
    BY <1>4, <1>2, SwapRightEffect
  <2>2. DrawingInv'
    BY <1>4, SwapRightEffect, WaitingParts DEF DrawingInv
  <2> QED
    BY <2>1, <2>2 DEF ShapeInv
<1>5. CASE Show
  <2>1. /\ screen' = [n \in DOMAIN view |-> Seen(n)]
        /\ view' = Empty /\ old' = Empty /\ drawing' = Waiting
        /\ UNCHANGED <<m, tracker>>
    BY <1>5 DEF Show
  <2>2. \A n \in DOMAIN view : Seen(n) \in Seq(Entry) /\ n \in Name
    BY <1>0, SeenType DEF ArraysInv, IsArrays
  <2>3. IsArrays(screen', Name)
    BY <2>1, <2>2 DEF IsArrays
  <2>4. ArraysInv'
    BY <1>0, <2>1, <2>3, EmptyParts DEF ArraysInv, IsArrays
  <2>5. TrackerInv'
    BY <1>0, <2>1 DEF TrackerInv
  <2>6. DrawingInv'
    BY <2>1, WaitingParts DEF DrawingInv
  <2> QED
    BY <2>4, <2>5, <2>6 DEF ShapeInv
<1> QED
  BY <1>1, <1>3, <1>4, <1>5 DEF Render

LEMMA ShapeKept ==
  ASSUME ShapeInv, VerifyTypes, [Next]_vars
  PROVE  ShapeInv'
<1>1. CASE UNCHANGED mapVars
  BY <1>1 DEF ShapeInv, ArraysInv, IsArrays, TrackerInv, DrawingInv, mapVars
<1> QED
  BY <1>1, MapFrame, ShapeKeptByTracking, ShapeKeptByRendering

LEMMA EndTypesStart == Init => EndTypes
BY DEF Init, MapInit, EndTypes, Stream!Init

LEMMA EndTypesKept ==
  ASSUME EndTypes, [Next]_vars
  PROVE  EndTypes'
<1>1. aborted' = FALSE /\ raced' \in BOOLEAN
  BY StepCases DEF EndTypes, vars
<1>2. CASE UNCHANGED <<trackingDone, renderer, spinning>>
  BY <1>1, <1>2 DEF EndTypes
<1>3. CASE Main \/ Dig \/ Answers
  BY <1>3, <1>2 DEF Main, Discovered, Fails, Started, Return, Dig, Answers
<1>4. CASE Verify
  BY <1>4, <1>2 DEF Verify, VerifierReads, Decides, Tells, VerifierEnds
<1>5. CASE Track
  <2>1. trackingDone' \in BOOLEAN
    BY <1>5 DEF Track, TrackReads, TrackEnds, EndTypes
  <2> QED
    BY <1>1, <1>5, <2>1 DEF Track, EndTypes
<1>6. CASE Renderer
  <2>1. renderer' \in {"start", "draw", "last", "over"} /\ spinning' \in BOOLEAN
    BY <1>6 DEF Renderer, Draws, LastDraw, Renders, EndRendering, EndTypes
  <2> QED
    BY <1>1, <1>6, <2>1 DEF Renderer, EndTypes
<1>7. CASE UNCHANGED vars
  BY <1>7, <1>2 DEF vars
<1> QED
  BY StepCases, <1>3, <1>4, <1>5, <1>6, <1>7

Types == DigTypes /\ VerifyTypes /\ EndTypes /\ ShapeInv

LEMMA TypesHold == Spec => []Types
<1>1. Init => Types
  BY DigTypesStart, VerifyTypesStart, EndTypesStart, ShapeStart DEF Types
<1>2. Types /\ [Next]_vars => Types'
  BY DigTypesKept, VerifyTypesKept, EndTypesKept, ShapeKept DEF Types
<1> QED
  BY <1>1, <1>2, PTL DEF Spec

\* The variables stay of their types: the map holds arrays of entries, and the slices the
\* renderer works on never reach beyond the arrays behind them.
THEOREM TypeCorrect == Spec => []TypeOK
<1>1. Types => TypeOK
  <2> SUFFICES ASSUME Types PROVE TypeOK
    OBVIOUS
  <2>1. \A n \in DOMAIN view : n \in DOMAIN m /\ view[n] <= Len(m[n])
    BY DEF Types, ShapeInv, ArraysInv, IsArrays
  <2>2. IsArrays(m, Name) /\ IsArrays(screen, Name) /\ IsArrays(old, DOMAIN view)
        /\ tracker.at \in Doing /\ (tracker.at # "idle" => tracker.news \in News)
        /\ drawing.at \in {"wait", "sort", "swap"}
    BY DEF Types, ShapeInv, ArraysInv, TrackerInv, DrawingInv
  <2> QED
    BY <2>1, <2>2 DEF Types, DigTypes, VerifyTypes, EndTypes, TypeOK
<1> QED
  BY <1>1, TypesHold, PTL

-----------------------------------------------------------------------------
(* The order in which the goroutines come to their ends.                     *)

Early == main \in {"discover", "new"}

\* Nothing is dug before the digger is started, what it sends was found, and the
\* verifier ends after it.
DigPhase ==
  /\ Early => named = {} /\ ~dugAll
  /\ named \subseteq wanted /\ dug \subseteq answers
  /\ \A p \in answers : p[1] \in named
  /\ dugAll => named = wanted /\ dug = answers
  /\ newsClosed => dugAll /\ diggernews = << >>

\* The tracking ends after the verifier, the renderer after the tracking, and the main
\* goroutine after the renderer.
TrackPhase == trackingDone => newsClosed /\ news = << >> /\ tracker = Idle

RenderPhase ==
  /\ renderer \in {"start", "over"} => drawing.at = "wait"
  /\ renderer = "last" => drawing.at # "wait"
  /\ renderer \in {"last", "over"} => trackingDone
  /\ renderer = "over" => ~spinning
  /\ main = "ok" => renderer = "over"

RaceSeen == Colliding => raced

PhaseInv == DigPhase /\ TrackPhase /\ RenderPhase /\ RaceSeen

LEMMA PhaseStart == Init => PhaseInv
BY WaitingParts
   DEF Init, MapInit, PhaseInv, DigPhase, TrackPhase, RenderPhase, RaceSeen, Colliding,
       Early, Stream!Init, Ledger!Init

\* Only the verifier ends the news.
LEMMA ClosedFrame ==
  ASSUME [Next]_vars
  PROVE  newsClosed' = newsClosed \/ VerifierEnds
<1>1. CASE UNCHANGED <<verifyVars, news>>
  BY <1>1 DEF verifyVars
<1>2. CASE VerifierReads
  BY <1>2 DEF VerifierReads, Ledger!Ask
<1>3. CASE Decides
  BY <1>3 DEF Decides, Ledger!Decide
<1>4. CASE Tells
  BY <1>4 DEF Tells, Ledger!TellPending, Ledger!TellVerdict
<1>5. CASE TrackReads /\ UNCHANGED verifyVars
  BY <1>5 DEF verifyVars
<1> QED
  BY VerifyFrame, <1>1, <1>2, <1>3, <1>4, <1>5

LEMMA DigPhaseKept ==
  ASSUME Types, DigPhase, [Next]_vars
  PROVE  DigPhase'
<1>0. DigTypes /\ aborted = FALSE
  BY DEF Types, EndTypes
<1>1. CASE newsClosed' = newsClosed /\ UNCHANGED <<main, digVars, diggernews>>
  BY <1>1 DEF DigPhase, Early, digVars
<1>2. CASE Main
  <2>1. CASE Discovered
    BY <2>1 DEF Discovered, DigPhase, Early, chans, verifyVars
  <2>2. CASE Fails
    BY <2>2 DEF Fails, DigPhase, Early, chans, verifyVars, digVars
  <2>3. CASE Started
    BY <2>3 DEF Started, DigPhase, Early, chans, verifyVars, digVars
  <2>4. CASE Return
    BY <2>4 DEF Return, DigPhase, Early, chans, verifyVars, digVars
  <2> QED
    BY <1>2, <2>1, <2>2, <2>3, <2>4 DEF Main
<1>3. CASE Dig
  <2>0. main = "wait" /\ main' = main /\ newsClosed' = newsClosed
    BY <1>3 DEF Dig, verifyVars
  <2>1. ASSUME NEW n \in wanted \ named, Stream!Announce(n) PROVE DigPhase'
    BY <2>0, <2>1 DEF Stream!Announce, DigPhase, Early
  <2>2. ASSUME NEW p \in answers \ dug, Stream!Dug(p) PROVE DigPhase'
    BY <2>0, <2>2 DEF Stream!Dug, DigPhase, Early
  <2>3. ASSUME Stream!Close, UNCHANGED diggernews PROVE DigPhase'
    BY <1>0, <2>0, <2>3 DEF Stream!Close, DigPhase, Early
  <2> QED
    BY <1>3, <2>1, <2>2, <2>3 DEF Dig
<1>4. CASE Answers
  <2>1. main = "wait" /\ main' = main /\ UNCHANGED <<newsClosed, diggernews>>
    BY <1>4 DEF Answers, verifyVars, chans
  <2>2. PICK n \in named : \E found \in SUBSET Addr :
          answers' = answers \cup ({n} \X found) /\ Stream!Answer(n)
    BY <1>4 DEF Answers
  <2> QED
    BY <2>1, <2>2 DEF Stream!Answer, DigPhase, Early
<1>5. CASE VerifierReads
  BY <1>5 DEF VerifierReads, Ledger!Ask, DigPhase, Early, digVars
<1>6. CASE VerifierEnds
  BY <1>6 DEF VerifierEnds, Ledger!Close, DigPhase, Early, digVars, chans
<1>7. newsClosed' = newsClosed \/ VerifierEnds
  BY ClosedFrame
<1> QED
  BY DigFrame, <1>1, <1>2, <1>3, <1>4, <1>5, <1>6, <1>7

LEMMA TrackPhaseKept ==
  ASSUME Types, TrackPhase, [Next]_vars
  PROVE  TrackPhase'
<1>1. CASE Main
  BY <1>1 DEF Main, Discovered, Fails, Started, Return, TrackPhase, chans, verifyVars, mapVars
<1>2. CASE Dig
  BY <1>2 DEF Dig, TrackPhase, verifyVars, mapVars
<1>3. CASE Answers
  BY <1>3 DEF Answers, TrackPhase, chans, verifyVars, mapVars
<1>4. CASE Verify
  <2>1. CASE VerifierReads
    BY <2>1 DEF VerifierReads, Ledger!Ask, TrackPhase, mapVars
  <2>2. CASE Decides
    BY <2>2 DEF Decides, Ledger!Decide, TrackPhase, mapVars, chans
  <2>3. CASE Tells
    BY <2>3 DEF Tells, Ledger!TellPending, Ledger!TellVerdict, TrackPhase, mapVars
  <2>4. CASE VerifierEnds
    BY <2>4 DEF VerifierEnds, Ledger!Close, TrackPhase, mapVars, chans
  <2> QED
    BY <1>4, <2>1, <2>2, <2>3, <2>4 DEF Verify
<1>5. CASE Track
  <2>1. newsClosed' = newsClosed
    BY <1>5 DEF Track, verifyVars
  <2>2. CASE TrackReads
    BY <2>2 DEF TrackReads, TrackPhase
  <2>3. CASE TrackEnds
    BY <2>1, <2>3 DEF TrackEnds, TrackPhase, mapVars, Types, ShapeInv, TrackerInv
  <2>4. CASE Update /\ UNCHANGED <<news, trackingDone>>
    <3>1. tracker.at # "idle"
      BY <2>4 DEF Update, NewName, Search, Look, Write, AppendNew
    <3> QED
      BY <2>4, <3>1, IdleParts DEF TrackPhase
  <2> QED
    BY <1>5, <2>2, <2>3, <2>4 DEF Track
<1>6. CASE Renderer
  <2>1. UNCHANGED <<newsClosed, news, trackingDone>>
    BY <1>6 DEF Renderer, chans, verifyVars
  <2>2. tracker' = tracker
    BY <1>6 DEF Renderer, Draws, LastDraw, Renders, Render, Get, SwapLeft, SwapRight, Show
  <2> QED
    BY <2>1, <2>2 DEF TrackPhase
<1>7. CASE UNCHANGED vars
  BY <1>7 DEF vars, chans, verifyVars, mapVars, TrackPhase
<1> QED
  BY StepCases, <1>1, <1>2, <1>3, <1>4, <1>5, <1>6, <1>7

LEMMA RenderPhaseKept ==
  ASSUME Types, TrackPhase, RenderPhase, [Next]_vars
  PROVE  RenderPhase'
<1>1. CASE UNCHANGED <<renderer, drawing, spinning, main>> /\ (trackingDone => trackingDone')
  BY <1>1 DEF RenderPhase
<1>2. CASE Main
  BY <1>2 DEF Main, Discovered, Fails, Started, Return, RenderPhase, mapVars
<1>3. CASE Dig \/ Answers \/ Verify
  BY <1>3, <1>1 DEF Dig, Answers, Verify, VerifierReads, Decides, Tells, VerifierEnds, mapVars
<1>4. CASE Track
  <2>1. UNCHANGED <<renderer, spinning, main>>
    BY <1>4 DEF Track
  <2>2. CASE TrackReads
    BY <1>1, <2>1, <2>2 DEF TrackReads
  <2>3. CASE TrackEnds
    BY <1>1, <2>1, <2>3 DEF TrackEnds, mapVars
  <2>4. CASE Update /\ UNCHANGED <<news, trackingDone>>
    <3>1. drawing' = drawing
      BY <2>4 DEF Update, NewName, Search, Look, Write, AppendNew
    <3> QED
      BY <1>1, <2>1, <2>4, <3>1
  <2> QED
    BY <1>4, <2>2, <2>3, <2>4 DEF Track
<1>5. CASE Renderer
  <2>0. main \notin {"ok", "failed"} /\ main' = main /\ trackingDone' = trackingDone
    BY <1>5 DEF Renderer, Draws, LastDraw, Renders, Alive
  <2>1. CASE Draws
    BY <2>0, <2>1, WaitingParts DEF Draws, Get, RenderPhase
  <2>2. CASE LastDraw
    BY <2>0, <2>2, WaitingParts DEF LastDraw, Get, RenderPhase
  <2>3. CASE Renders
    <3>1. drawing.at # "wait"
      BY <2>3 DEF Renders, Render, SwapLeft, SwapRight, Show
    <3>2. CASE renderer = "last" /\ drawing'.at = "wait"
      BY <2>0, <2>3, <3>1, <3>2 DEF Renders, EndRendering, RenderPhase
    <3>3. CASE ~(renderer = "last" /\ drawing'.at = "wait")
      BY <2>0, <2>3, <3>1, <3>3 DEF Renders, RenderPhase
    <3> QED
      BY <3>2, <3>3
  <2> QED
    BY <1>5, <2>1, <2>2, <2>3 DEF Renderer
<1>6. CASE UNCHANGED vars
  BY <1>6, <1>1 DEF vars, mapVars
<1> QED
  BY StepCases, <1>2, <1>3, <1>4, <1>5, <1>6

LEMMA RaceSeenKept ==
  ASSUME RaceSeen, [Next]_vars
  PROVE  RaceSeen'
<1>1. CASE UNCHANGED vars
  BY <1>1 DEF RaceSeen, Colliding, vars, mapVars
<1>2. CASE raced' = (raced \/ Colliding')
  BY <1>2 DEF RaceSeen
<1> QED
  BY <1>1, <1>2, StepCases

LEMMA PhaseHolds == Spec => []PhaseInv
<1>1. Types /\ PhaseInv /\ [Next]_vars => PhaseInv'
  BY DigPhaseKept, TrackPhaseKept, RenderPhaseKept, RaceSeenKept DEF PhaseInv
<1> QED
  BY <1>1, PhaseStart, TypesHold, PTL DEF Spec

\* When the command returns without an error, everything it started is over, with
\* nothing left in the channels: the goroutines end in the order of the stream, each
\* after the one that it hears from.
THEOREM EndsInOrder == Spec => []OrderlyReturn
<1>1. PhaseInv => OrderlyReturn
  BY DEF PhaseInv, DigPhase, TrackPhase, RenderPhase, OrderlyReturn
<1> QED
  BY <1>1, PhaseHolds, PTL

-----------------------------------------------------------------------------
(* What was dug, what the verifier was asked and what it told.               *)

Pr(na) == <<na.name, na.addr>>

\* What the digger has sent, and what the verifier has not read of it.
Sent == {<<n, NoAddr>> : n \in named} \cup dug
Asking == {Pr(na) : na \in Carried(diggernews)}

AskInv == Sent = asked \cup Asking

\* Nobody is told of what was not asked, verdicts are told as they are, and all are told
\* before the news end.
ToldInv ==
  /\ \A p \in Pair : told[p] # Unknown => p \in asked
  /\ \A p \in Pair : told[p] \in Final => p[2] # NoAddr /\ verdict[p[2]] = told[p]
  /\ newsClosed => \A p \in asked : Ledger!Answered(p)

LEMMA AskStart == Init => AskInv
BY NothingCarried DEF Init, AskInv, Sent, Asking, Stream!Init, Ledger!Init

LEMMA AskKept ==
  ASSUME Types, AskInv, [Next]_vars
  PROVE  AskInv'
<1>0. DigTypes /\ diggernews \in Seq(News)
  BY DEF Types, DigTypes
<1>1. CASE asked' = asked /\ UNCHANGED <<named, dug, diggernews>>
  BY <1>1 DEF AskInv, Sent, Asking
<1>2. CASE Main \/ Answers
  BY <1>1, <1>2 DEF Main, Discovered, Fails, Started, Return, Answers, Stream!Answer, digVars,
                    verifyVars, chans
<1>3. CASE Dig
  <2>0. asked' = asked
    BY <1>3 DEF Dig, verifyVars
  <2>1. ASSUME NEW n \in wanted \ named, Stream!Announce(n),
               diggernews' = Append(diggernews, NA(n, NoAddr, Unverified))
        PROVE  AskInv'
    <3>0. n \in Name /\ Unverified \in Quality
      BY <1>0, QualityValues DEF DigTypes
    <3>1. NA(n, NoAddr, Unverified) \in News /\ Pr(NA(n, NoAddr, Unverified)) = <<n, NoAddr>>
      <4>1. NA(n, NoAddr, Unverified) \in News
        BY <3>0 DEF News
      <4> QED
        BY <4>1 DEF NA, Pr
    <3>2. Carried(diggernews') = Carried(diggernews) \cup {NA(n, NoAddr, Unverified)}
      BY <1>0, <2>1, <3>1, SendingAdds
    <3>3. Asking' = Asking \cup {<<n, NoAddr>>}
      BY <3>1, <3>2 DEF Asking
    <3>4. Sent' = Sent \cup {<<n, NoAddr>>}
      BY <2>1 DEF Sent, Stream!Announce
    <3> QED
      BY <2>0, <3>3, <3>4 DEF AskInv
  <2>2. ASSUME NEW p \in answers \ dug, Stream!Dug(p),
               diggernews' = Append(diggernews, NA(p[1], p[2], Unverified))
        PROVE  AskInv'
    <3>1. p \in Name \X Addr
      BY <1>0 DEF DigTypes
    <3>2. NA(p[1], p[2], Unverified) \in News /\ Pr(NA(p[1], p[2], Unverified)) = p
      <4>1. p \in Pair /\ p = <<p[1], p[2]>> /\ Unverified \in Quality
        BY <3>1, QualityValues DEF Pair
      <4> QED
        BY <4>1, NewsType DEF Pr
    <3>3. Carried(diggernews') = Carried(diggernews) \cup {NA(p[1], p[2], Unverified)}
      BY <1>0, <2>2, <3>2, SendingAdds
    <3>4. Asking' = Asking \cup {p}
      BY <3>2, <3>3 DEF Asking
    <3>5. Sent' = Sent \cup {p}
      BY <2>2 DEF Sent, Stream!Dug
    <3> QED
      BY <2>0, <3>4, <3>5 DEF AskInv
  <2>3. ASSUME Stream!Close, UNCHANGED diggernews PROVE AskInv'
    BY <1>1, <2>0, <2>3 DEF Stream!Close
  <2> QED
    BY <1>3, <2>1, <2>2, <2>3 DEF Dig
<1>4. CASE VerifierReads
  <2>1. diggernews # << >> /\ diggernews' = Tail(diggernews) /\ UNCHANGED <<named, dug>>
        /\ asked' = asked \cup {Pr(Head(diggernews))}
    BY <1>4 DEF VerifierReads, Ledger!Ask, Pr, digVars
  <2>2. Carried(diggernews) = {Head(diggernews)} \cup Carried(diggernews')
    BY <1>0, <2>1, ReceivingTakes
  <2>3. Asking = {Pr(Head(diggernews))} \cup Asking'
    BY <2>2 DEF Asking
  <2>4. Sent' = Sent
    BY <2>1 DEF Sent
  <2> QED
    BY <2>1, <2>3, <2>4 DEF AskInv
<1>5. CASE Verify \/ Track \/ Renderer \/ UNCHANGED vars
  <2>1. CASE Decides
    BY <1>1, <2>1 DEF Decides, Ledger!Decide, chans, digVars
  <2>2. CASE Tells
    BY <1>1, <2>2 DEF Tells, Ledger!TellPending, Ledger!TellVerdict, digVars
  <2>3. CASE VerifierEnds
    BY <1>1, <2>3 DEF VerifierEnds, Ledger!Close, chans, digVars
  <2>4. CASE Track
    BY <1>1, <2>4 DEF Track, digVars, verifyVars
  <2>5. CASE Renderer
    BY <1>1, <2>5 DEF Renderer, digVars, verifyVars, chans
  <2>6. CASE UNCHANGED vars
    BY <1>1, <2>6 DEF vars, digVars, verifyVars, chans
  <2> QED
    BY <1>4, <1>5, <2>1, <2>2, <2>3, <2>4, <2>5, <2>6 DEF Verify
<1> QED
  BY StepCases, <1>2, <1>3, <1>5

LEMMA ToldStart == Init => ToldInv
BY QualityValues DEF Init, ToldInv, Ledger!Init

LEMMA ToldKept ==
  ASSUME Types, ToldInv, [Next]_vars
  PROVE  ToldInv'
<1>0. VerifyTypes
  BY DEF Types
<1>1. CASE UNCHANGED verifyVars
  BY <1>1 DEF ToldInv, verifyVars, Ledger!Answered
<1>2. CASE VerifierReads
  BY <1>2 DEF VerifierReads, Ledger!Ask, ToldInv
<1>3. CASE Decides
  <2>1. PICK a \in Addr : Ledger!Decide(a)
    BY <1>3 DEF Decides
  <2>2. UNCHANGED <<asked, told, newsClosed>> /\ verdict[a] = Unknown
        /\ \E v \in Final : verdict' = [verdict EXCEPT ![a] = v]
    BY <2>1 DEF Ledger!Decide
  <2>3. ASSUME NEW p \in Pair, told[p] \in Final PROVE p[2] # NoAddr /\ verdict'[p[2]] = told[p]
    <3>1. p[2] # NoAddr /\ verdict[p[2]] = told[p]
      BY <2>3 DEF ToldInv
    <3>2. p[2] \in Addr /\ p[2] # a
      BY <2>2, <2>3, <3>1, QualityValues DEF Pair
    <3> QED
      BY <1>0, <2>2, <3>1, <3>2 DEF VerifyTypes
  <2> QED
    BY <2>2, <2>3 DEF ToldInv, Ledger!Answered
<1>4. CASE Tells
  <2>1. PICK p \in Pair : Ledger!TellPending(p) \/ Ledger!TellVerdict(p)
    BY <1>4 DEF Tells
  <2>2. /\ told'[p] \in Quality /\ told' = [told EXCEPT ![p] = told'[p]]
        /\ told'[p] \in Final => p[2] # NoAddr /\ verdict[p[2]] = told'[p]
        /\ p \in asked /\ ~newsClosed /\ UNCHANGED <<asked, verdict, newsClosed>>
    BY <1>0, <2>1, TellsSteps
  <2>3. \A r \in Pair : r # p => told'[r] = told[r]
    BY <1>0, <2>2 DEF VerifyTypes
  <2> QED
    BY <2>2, <2>3 DEF ToldInv
<1>5. CASE VerifierEnds
  <2>1. aborted = FALSE
    BY DEF Types, EndTypes
  <2>2. UNCHANGED <<asked, told, verdict>> /\ \A p \in asked : Ledger!Answered(p)
    BY <1>5, <2>1 DEF VerifierEnds, Ledger!Close
  <2> QED
    BY <2>2 DEF ToldInv, Ledger!Answered
<1> QED
  BY VerifyFrame, <1>1, <1>2, <1>3, <1>4, <1>5

-----------------------------------------------------------------------------
(* The news on their way into the map.                                       *)

InFlight == Carried(news) \cup (IF tracker.at = "idle" THEN {} ELSE {tracker.news})

\* A quality is behind another or the same; a verdict has nothing ahead of it.
NotAhead(q, t) == q <= t /\ (q \in Final => q = t)

LEMMA NotAheadOrder ==
  /\ \A q : q \in Quality => NotAhead(q, q)
  /\ \A q, r, t \in Quality \cup {Unknown} : NotAhead(q, r) /\ NotAhead(r, t) => NotAhead(q, t)
BY QualityValues DEF NotAhead

\* A piece of news that is not yet in the map is not ahead of what was told.
NewsInv == \A na \in InFlight : na \in News /\ NotAhead(na.q, told[Pr(na)])

ToldNames == {n \in Name : \E a \in Addr \cup {NoAddr} : told[<<n, a>>] # Unknown}

\* The map has the names that were told of, but for those still on their way.
NamesInv ==
  /\ DOMAIN m \subseteq ToldNames
  /\ ToldNames \subseteq DOMAIN m \cup {na.name : na \in InFlight}

\* The last drawing is of all that is in the map.
LastInv ==
  /\ renderer = "last" =>
       /\ DOMAIN old = {} /\ DOMAIN view = DOMAIN m
       /\ \A n \in DOMAIN m : view[n] = Len(m[n])
  /\ renderer = "over" => DOMAIN screen = DOMAIN m /\ \A n \in DOMAIN m : screen[n] = m[n]

\* The steps by which the map, the news or what was told change.
LEMMA JointFrame ==
  ASSUME [Next]_vars
  PROVE  \/ Tells
         \/ /\ told' = told
            /\ \/ TrackReads
               \/ /\ news' = news
                  /\ UNCHANGED mapVars \/ Update \/ (drawing.at = "wait" /\ Get) \/ Render
<1>1. CASE Main
  BY <1>1 DEF Main, Discovered, Fails, Started, Return, chans, verifyVars
<1>2. CASE Dig
  BY <1>2 DEF Dig, verifyVars
<1>3. CASE Answers
  BY <1>3 DEF Answers, verifyVars, chans
<1>4. CASE Verify
  <2>1. CASE VerifierReads
    BY <2>1 DEF VerifierReads, Ledger!Ask
  <2>2. CASE Decides
    BY <2>2 DEF Decides, Ledger!Decide, chans
  <2>3. CASE VerifierEnds
    BY <2>3 DEF VerifierEnds, Ledger!Close, chans
  <2> QED
    BY <1>4, <2>1, <2>2, <2>3 DEF Verify
<1>5. CASE Track
  BY <1>5 DEF Track, TrackEnds, verifyVars
<1>6. CASE Renderer
  BY <1>6 DEF Renderer, Draws, LastDraw, Renders, verifyVars, chans
<1>7. CASE UNCHANGED vars
  BY <1>7 DEF vars, verifyVars, chans
<1> QED
  BY StepCases, <1>1, <1>2, <1>3, <1>4, <1>5, <1>6, <1>7

\* What a step of the verifier's news puts on its way.
LEMMA TellsEffect ==
  ASSUME Types, Tells
  PROVE  \E p \in Pair :
           /\ NA(p[1], p[2], told'[p]) \in News
           /\ told'[p] \in Quality /\ told'[p] > told[p] /\ told[p] \notin Final
           /\ \A r \in Pair : r # p => told'[r] = told[r]
           /\ InFlight' = InFlight \cup {NA(p[1], p[2], told'[p])}
           /\ UNCHANGED mapVars
<1>1. PICK p \in Pair : /\ Ledger!TellPending(p) \/ Ledger!TellVerdict(p)
                        /\ news' = Append(news, NA(p[1], p[2], told'[p]))
  BY DEF Tells
<1>2. /\ told'[p] \in Quality /\ told'[p] > told[p] /\ told[p] \notin Final
      /\ told' = [told EXCEPT ![p] = told'[p]]
  BY <1>1, TellsSteps DEF Types
<1>3. NA(p[1], p[2], told'[p]) \in News
  BY <1>2, NewsType
<1>4. \A r \in Pair : r # p => told'[r] = told[r]
  BY <1>2 DEF Types, VerifyTypes
<1>5. Carried(news') = Carried(news) \cup {NA(p[1], p[2], told'[p])}
  BY <1>1, <1>3, SendingAdds DEF Types, VerifyTypes
<1>6. UNCHANGED mapVars
  BY DEF Tells
<1>7. InFlight' = InFlight \cup {NA(p[1], p[2], told'[p])}
  BY <1>5, <1>6 DEF InFlight, mapVars
<1> QED
  BY <1>2, <1>3, <1>4, <1>6, <1>7

\* Reading a piece of news leaves it on its way ...
LEMMA ReadsEffect ==
  ASSUME Types, TrackReads
  PROVE  InFlight' = InFlight /\ tracker.at = "idle" /\ tracker'.at = "search"
         /\ UNCHANGED <<m, view, old, drawing, screen>>
<1>1. Carried(news) = {Head(news)} \cup Carried(news')
  BY ReceivingTakes DEF TrackReads, Types, VerifyTypes
<1>2. tracker.at = "idle" /\ tracker'.at = "search" /\ tracker'.news = Head(news)
      /\ UNCHANGED <<m, view, old, drawing, screen>>
  BY DEF TrackReads, Receive, Idle
<1> QED
  BY <1>1, <1>2 DEF InFlight

\* ... until Update is through with it.
LEMMA UpdateEffect ==
  ASSUME Types, Update, news' = news
  PROVE  /\ tracker.at # "idle" /\ tracker.news \in News /\ tracker.news \in InFlight
         /\ \/ tracker'.at # "idle" /\ tracker'.news = tracker.news /\ InFlight' = InFlight
            \/ tracker' = Idle /\ InFlight = InFlight' \cup {tracker.news}
<1>1. tracker.at # "idle"
  BY DEF Update, NewName, Search, Look, Write, AppendNew
<1>2. tracker.news \in News /\ tracker.news \in InFlight
  BY <1>1 DEF Types, ShapeInv, TrackerInv, InFlight
<1>3. CASE tracker' = Idle
  BY <1>1, <1>2, <1>3, IdleParts DEF InFlight
<1>4. CASE tracker' # Idle
  <2>0. ShapeInv
    BY DEF Types
  <2>1. Search \/ Look
    BY <1>4 DEF Update, NewName, Write, AppendNew
  <2>2. \/ tracker' = [tracker EXCEPT !.at = "look"]
        \/ tracker.at = "look" /\ tracker' = [tracker EXCEPT !.idx = tracker.idx + 1]
        \/ tracker' = [tracker EXCEPT !.at = "write", !.idx = tracker.idx + 1]
    <3>1. CASE Search
      BY <2>0, <3>1, SearchEffect
    <3>2. CASE Look
      <4>1. tracker.at = "look"
        BY <3>2 DEF Look
      <4> QED
        BY <1>4, <2>0, <3>2, <4>1, LookEffect
    <3> QED
      BY <2>1, <3>1, <3>2
  <2>3. tracker'.at # "idle" /\ tracker'.news = tracker.news
    BY <2>2 DEF Types, ShapeInv, TrackerInv
  <2> QED
    BY <1>1, <1>2, <2>3 DEF InFlight
<1> QED
  BY <1>1, <1>2, <1>3, <1>4

LEMMA IdleFlight == tracker.at = "idle" => InFlight = Carried(news)
BY DEF InFlight

\* The renderer leaves the tracking goroutine and the names alone.
LEMMA DrawingFrame ==
  ASSUME Types, Get \/ Render
  PROVE  tracker' = tracker /\ DOMAIN m' = DOMAIN m
         /\ \A n \in DOMAIN m : Len(m'[n]) = Len(m[n])
<1>0. ShapeInv
  BY DEF Types
<1>1. CASE Get \/ Show
  BY <1>1 DEF Get, Show
<1>2. CASE SwapLeft
  <2> PICK n \in DOMAIN view : \E i \in 1..(view[n] - 1) :
        /\ Seen(n)[i + 1] \in Entry
        /\ i \in 1..view[n] /\ Store(n, i, Seen(n)[i + 1])
        /\ UNCHANGED <<tracker, view, screen>>
    BY <1>0, <1>2, SwapLeftEffect
  <2>1. PICK i \in 1..(view[n] - 1) :
        /\ Seen(n)[i + 1] \in Entry
        /\ i \in 1..view[n] /\ Store(n, i, Seen(n)[i + 1])
        /\ UNCHANGED <<tracker, view, screen>>
    OBVIOUS
  <2> QED
    BY <1>0, <2>1, StoreEffect
<1>3. CASE SwapRight
  <2>1. /\ drawing.name \in DOMAIN view /\ drawing.idx + 1 \in 1..view[drawing.name]
        /\ drawing.tmp[1] \in Entry /\ tracker' = tracker
        /\ Store(drawing.name, drawing.idx + 1, drawing.tmp[1])
    BY <1>0, <1>3, SwapRightEffect
  <2> QED
    BY <1>0, <2>1, StoreEffect
<1> QED
  BY <1>1, <1>2, <1>3 DEF Render

LEMMA NewsStart == Init => NewsInv /\ NamesInv /\ LastInv
<1> SUFFICES ASSUME Init PROVE NewsInv /\ NamesInv /\ LastInv
  OBVIOUS
<1>1. tracker = Idle /\ news = << >> /\ m = Empty /\ renderer = "start"
      /\ told = [p \in Pair |-> Unknown]
  BY DEF Init, MapInit
<1>2. InFlight = {}
  BY <1>1, IdleParts, NothingCarried DEF InFlight
<1>3. ToldNames = {}
  BY <1>1 DEF ToldNames, Pair
<1> QED
  BY <1>1, <1>2, <1>3, EmptyParts DEF NewsInv, NamesInv, LastInv

LEMMA PairOf ==
  ASSUME NEW n \in Name, NEW a \in Addr \cup {NoAddr}
  PROVE  <<n, a>> \in Pair
BY DEF Pair

\* What was told only grows, and a verdict stays.
LEMMA ToldGrows ==
  ASSUME Types, [Next]_vars, NEW p \in Pair
  PROVE  /\ {told[p], told'[p]} \subseteq Quality \cup {Unknown}
         /\ NotAhead(told[p], told'[p])
<1>1. told[p] \in Quality \cup {Unknown}
  BY DEF Types, VerifyTypes
<1>2. CASE told' = told
  BY <1>1, <1>2, QualityValues DEF NotAhead
<1>3. CASE Tells
  <2>1. PICK r \in Pair : /\ told'[r] \in Quality /\ told'[r] > told[r] /\ told[r] \notin Final
                          /\ \A s \in Pair : s # r => told'[s] = told[s]
    BY <1>3, TellsEffect
  <2>2. CASE p = r
    BY <1>1, <2>1, <2>2, QualityValues DEF NotAhead
  <2>3. CASE p # r
    BY <1>1, <2>1, <2>3, QualityValues DEF NotAhead
  <2> QED
    BY <2>2, <2>3
<1> QED
  BY JointFrame, <1>2, <1>3

\* What was not ahead of what was told never is.
LEMMA StaysBehind ==
  ASSUME Types, [Next]_vars, NEW p \in Pair, NEW q \in Quality, NotAhead(q, told[p])
  PROVE  NotAhead(q, told'[p])
BY ToldGrows, NotAheadOrder

LEMMA NewsKept ==
  ASSUME Types, NewsInv, [Next]_vars
  PROVE  NewsInv'
<1>1. ASSUME NEW na \in InFlight PROVE na \in News /\ NotAhead(na.q, told'[Pr(na)])
  <2>1. na \in News /\ NotAhead(na.q, told[Pr(na)])
    BY DEF NewsInv
  <2>2. Pr(na) \in Pair /\ na.q \in Quality
    BY <2>1, NewsParts DEF Pr
  <2> QED
    BY <2>1, <2>2, StaysBehind
<1>2. CASE InFlight' \subseteq InFlight
  BY <1>1, <1>2 DEF NewsInv
<1>3. CASE Tells
  <2>1. PICK p \in Pair : /\ NA(p[1], p[2], told'[p]) \in News /\ told'[p] \in Quality
                          /\ InFlight' = InFlight \cup {NA(p[1], p[2], told'[p])}
    BY <1>3, TellsEffect
  <2>2. p = <<p[1], p[2]>>
    BY DEF Pair
  <2>3. Pr(NA(p[1], p[2], told'[p])) = p /\ NA(p[1], p[2], told'[p]).q = told'[p]
    BY <2>1, <2>2, NewsType DEF Pr
  <2>4. NotAhead(told'[p], told'[p])
    BY <2>1, NotAheadOrder
  <2> QED
    BY <1>1, <2>1, <2>3, <2>4 DEF NewsInv
<1>4. CASE TrackReads
  BY <1>2, <1>4, ReadsEffect
<1>5. CASE UNCHANGED mapVars /\ news' = news
  BY <1>2, <1>5 DEF InFlight, mapVars
<1>6. CASE Update /\ news' = news
  <2>1. InFlight' = InFlight \/ InFlight = InFlight' \cup {tracker.news}
    BY <1>6, UpdateEffect
  <2> QED
    BY <1>2, <2>1
<1>7. CASE (Get \/ Render) /\ news' = news
  BY <1>2, <1>7, DrawingFrame DEF InFlight
<1> QED
  BY JointFrame, <1>3, <1>4, <1>5, <1>6, <1>7

\* News that are on their way were told.
LEMMA FlightTold ==
  ASSUME Types, NewsInv, NEW na \in InFlight
  PROVE  /\ na \in News /\ Pr(na) \in Pair /\ told[Pr(na)] # Unknown
         /\ na.name \in ToldNames
<1>1. na \in News /\ na.q <= told[Pr(na)]
  BY DEF NewsInv, NotAhead
<1>2. na.name \in Name /\ na.addr \in Addr \cup {NoAddr} /\ na.q \in Quality /\ Pr(na) \in Pair
  BY <1>1, NewsParts DEF Pr
<1>3. told[Pr(na)] \in Quality \cup {Unknown}
  BY <1>2 DEF Types, VerifyTypes
<1>4. told[Pr(na)] # Unknown
  <2>1. Unknown < na.q /\ na.q \in Int /\ Unknown \in Int
    BY <1>2, QualityValues
  <2> QED
    BY <1>1, <2>1
<1> QED
  BY <1>1, <1>2, <1>4 DEF ToldNames, Pr

LEMMA NamesKept ==
  ASSUME Types, NewsInv, NamesInv, [Next]_vars
  PROVE  NamesInv'
<1>0. DOMAIN m \subseteq ToldNames /\ ToldNames \subseteq DOMAIN m \cup {na.name : na \in InFlight}
  BY DEF NamesInv
<1>1. CASE Tells
  <2>1. PICK p \in Pair :
           /\ NA(p[1], p[2], told'[p]) \in News /\ told'[p] \in Quality
           /\ \A r \in Pair : r # p => told'[r] = told[r]
           /\ InFlight' = InFlight \cup {NA(p[1], p[2], told'[p])}
           /\ UNCHANGED mapVars
    BY <1>1, TellsEffect
  <2>2. NA(p[1], p[2], told'[p]).name = p[1]
    BY <2>1, NewsType
  <2>3. ASSUME NEW n \in Name, NEW a \in Addr \cup {NoAddr}, told'[<<n, a>>] # Unknown
        PROVE  n \in ToldNames \cup {p[1]}
    <3>1. <<n, a>> \in Pair
      BY PairOf
    <3>2. CASE <<n, a>> = p
      BY <3>2
    <3>3. CASE <<n, a>> # p
      BY <2>1, <2>3, <3>1, <3>3 DEF ToldNames
    <3> QED
      BY <3>2, <3>3
  <2>4. ToldNames' \subseteq ToldNames \cup {p[1]}
    BY <2>3 DEF ToldNames
  <2>5. ASSUME NEW n \in Name, NEW a \in Addr \cup {NoAddr}, told[<<n, a>>] # Unknown
        PROVE  n \in ToldNames'
    <3>1. <<n, a>> \in Pair
      BY PairOf
    <3>2. told'[<<n, a>>] # Unknown
      <4>1. CASE <<n, a>> = p
        BY <2>1, <4>1, QualityValues
      <4>2. CASE <<n, a>> # p
        BY <2>1, <2>5, <3>1, <4>2
      <4> QED
        BY <4>1, <4>2
    <3> QED
      BY <3>2 DEF ToldNames
  <2>6. ToldNames \subseteq ToldNames'
    BY <2>5 DEF ToldNames
  <2>7. {na.name : na \in InFlight'} = {na.name : na \in InFlight} \cup {p[1]}
    BY <2>1, <2>2
  <2>8. DOMAIN m' = DOMAIN m
    BY <2>1 DEF mapVars
  <2> QED
    BY <1>0, <2>4, <2>6, <2>7, <2>8 DEF NamesInv
<1>2. CASE told' = told /\ DOMAIN m' = DOMAIN m /\ InFlight' = InFlight
  <2>1. ToldNames' = ToldNames
    BY <1>2 DEF ToldNames
  <2> QED
    BY <1>0, <1>2, <2>1 DEF NamesInv
<1>3. CASE told' = told /\ TrackReads
  BY <1>2, <1>3, ReadsEffect
<1>4. CASE told' = told /\ news' = news /\ UNCHANGED mapVars
  BY <1>2, <1>4 DEF InFlight, mapVars
<1>5. CASE told' = told /\ news' = news /\ (Get \/ Render)
  BY <1>2, <1>5, DrawingFrame DEF InFlight
<1>6. CASE told' = told /\ news' = news /\ Update
  <2>0. ShapeInv
    BY DEF Types
  <2>1. /\ tracker.news \in InFlight
        /\ InFlight' = InFlight \/ (tracker' = Idle /\ InFlight = InFlight' \cup {tracker.news})
    BY <1>6, UpdateEffect
  <2>2. tracker.news.name \in ToldNames
    BY <2>1, FlightTold
  <2>3. /\ DOMAIN m' = DOMAIN m \/ DOMAIN m' = DOMAIN m \cup {tracker.news.name}
        /\ tracker.news.name \in DOMAIN m'
    <3>1. CASE NewName
      BY <2>0, <3>1, NewNameEffect
    <3>2. CASE Search \/ Look
      BY <2>0, <3>2, SearchEffect, LookEffect
    <3>3. CASE Write
      BY <2>0, <3>3, WriteEffect
    <3>4. CASE AppendNew
      BY <2>0, <3>4, AppendEffect
    <3> QED
      BY <1>6, <3>1, <3>2, <3>3, <3>4 DEF Update
  <2>4. {na.name : na \in InFlight} \subseteq {na.name : na \in InFlight'} \cup {tracker.news.name}
    BY <2>1
  <2>5. ToldNames' = ToldNames
    BY <1>6 DEF ToldNames
  <2> QED
    BY <1>0, <2>2, <2>3, <2>4, <2>5 DEF NamesInv
<1> QED
  BY JointFrame, <1>1, <1>3, <1>4, <1>5, <1>6

LEMMA LastKept ==
  ASSUME Types, TrackPhase, RenderPhase, LastInv, [Next]_vars
  PROVE  LastInv'
<1>0. ShapeInv /\ renderer \in {"start", "draw", "last", "over"}
  BY DEF Types, EndTypes
<1>1. CASE UNCHANGED <<m, view, old, screen, renderer>>
  BY <1>1 DEF LastInv
<1>2. CASE Main \/ Dig \/ Answers \/ Verify
  BY <1>1, <1>2 DEF Main, Discovered, Fails, Started, Return, Dig, Answers, Verify,
                    VerifierReads, Decides, Tells, VerifierEnds, mapVars
<1>3. CASE Track
  <2>1. renderer' = renderer
    BY <1>3 DEF Track
  <2>2. CASE TrackReads
    BY <1>1, <2>1, <2>2 DEF TrackReads
  <2>3. CASE TrackEnds
    BY <1>1, <2>1, <2>3 DEF TrackEnds, mapVars
  <2>4. CASE Update
    <3>1. tracker.at # "idle"
      BY <2>4 DEF Update, NewName, Search, Look, Write, AppendNew
    <3>2. renderer \notin {"last", "over"}
      BY <3>1, IdleParts DEF TrackPhase, RenderPhase
    <3> QED
      BY <2>1, <3>2 DEF LastInv
  <2> QED
    BY <1>3, <2>2, <2>3, <2>4 DEF Track
<1>4. CASE Draws
  BY <1>4 DEF Draws, LastInv
<1>5. CASE LastDraw
  <2>1. renderer' = "last" /\ view' = [n \in DOMAIN m |-> Len(m[n])] /\ old' = Empty /\ m' = m
    BY <1>5 DEF LastDraw, Get
  <2>2. DOMAIN old' = {} /\ DOMAIN view' = DOMAIN m' /\ \A n \in DOMAIN m' : view'[n] = Len(m'[n])
    BY <2>1, EmptyParts
  <2> QED
    BY <2>1, <2>2 DEF LastInv
<1>6. CASE Renders
  <2>1. drawing.at # "wait" /\ Render
    BY <1>6 DEF Renders, Render, SwapLeft, SwapRight, Show
  <2>2. renderer \in {"draw", "last"}
    BY <1>0, <2>1 DEF RenderPhase
  <2>3. CASE renderer = "draw"
    BY <1>6, <2>3 DEF Renders, LastInv
  <2>4. CASE renderer = "last" /\ Show
    <3>1. /\ DOMAIN old = {} /\ DOMAIN view = DOMAIN m
          /\ \A n \in DOMAIN m : view[n] = Len(m[n])
      BY <2>4 DEF LastInv
    <3>2. screen' = [n \in DOMAIN view |-> Seen(n)] /\ drawing' = Waiting /\ m' = m
      BY <2>4 DEF Show
    <3>3. renderer' = "over"
      BY <1>6, <2>4, <3>2, WaitingParts DEF Renders, EndRendering
    <3>4. ASSUME NEW n \in DOMAIN m PROVE Seen(n) = m[n]
      <4>1. m[n] \in Seq(Entry)
        BY <1>0 DEF ShapeInv, ArraysInv, IsArrays
      <4>2. SubSeq(m[n], 1, Len(m[n])) = m[n]
        BY <4>1, SlicedAll
      <4> QED
        BY <3>1, <4>2 DEF Seen
    <3>5. DOMAIN screen' = DOMAIN m' /\ \A n \in DOMAIN m' : screen'[n] = m'[n]
      BY <3>1, <3>2, <3>4
    <3> QED
      BY <3>3, <3>5 DEF LastInv
  <2>5. CASE renderer = "last" /\ (SwapLeft \/ SwapRight)
    <3>1. drawing'.at # "wait" /\ view' = view
      <4>1. CASE SwapLeft
        <5>1. \E n, i, e : drawing' = [at |-> "swap", name |-> n, idx |-> i, tmp |-> e]
          BY <1>0, <4>1, SwapLeftEffect
        <5> QED
          BY <4>1, <5>1 DEF SwapLeft
      <4>2. CASE SwapRight
        BY <4>2 DEF SwapRight, Waiting
      <4> QED
        BY <2>5, <4>1, <4>2
    <3>2. DOMAIN m' = DOMAIN m /\ \A n \in DOMAIN m : Len(m'[n]) = Len(m[n])
      BY <2>1, DrawingFrame
    <3>3. DOMAIN old' = DOMAIN old
      BY <2>5 DEF SwapLeft, SwapRight, Store
    <3>4. renderer' = "last"
      BY <1>6, <2>5, <3>1 DEF Renders
    <3> QED
      BY <2>5, <3>1, <3>2, <3>3, <3>4 DEF LastInv
  <2> QED
    BY <2>1, <2>2, <2>3, <2>4, <2>5 DEF Render
<1>7. CASE UNCHANGED vars
  BY <1>1, <1>7 DEF vars, mapVars
<1> QED
  BY StepCases, <1>2, <1>3, <1>4, <1>5, <1>6, <1>7 DEF Renderer

FlowInv == AskInv /\ ToldInv /\ NewsInv /\ NamesInv /\ LastInv

LEMMA FlowHolds == Spec => []FlowInv
<1>1. Init => FlowInv
  BY AskStart, ToldStart, NewsStart DEF FlowInv
<1>2. Types /\ PhaseInv /\ FlowInv /\ [Next]_vars => FlowInv'
  BY AskKept, ToldKept, NewsKept, NamesKept, LastKept DEF FlowInv, PhaseInv
<1> QED
  BY <1>1, <1>2, TypesHold, PhaseHolds, PTL DEF Spec

\* When the command is about to return in order, all that was dug was told, and all that
\* was told is in the map and on the screen.
LEMMA AtTheEnd ==
  ASSUME Types, PhaseInv, FlowInv, main = "ok"
  PROVE  /\ newsClosed /\ named = wanted /\ dug = answers
         /\ news = << >> /\ tracker.at = "idle" /\ drawing.at = "wait" /\ InFlight = {}
         /\ asked = Sent /\ \A p \in asked : Ledger!Answered(p)
         /\ \A p \in Pair : told[p] # Unknown <=> p \in asked
         /\ DOMAIN screen = DOMAIN m /\ \A n \in DOMAIN m : screen[n] = m[n]
         /\ DOMAIN m = ToldNames
<1>1. /\ newsClosed /\ dugAll /\ named = wanted /\ dug = answers /\ diggernews = << >>
      /\ news = << >> /\ tracker = Idle /\ drawing.at = "wait" /\ renderer = "over"
  BY DEF PhaseInv, DigPhase, TrackPhase, RenderPhase
<1>2. tracker.at = "idle" /\ InFlight = {}
  BY <1>1, IdleParts, NothingCarried DEF InFlight
<1>3. asked = Sent /\ \A p \in asked : Ledger!Answered(p)
  BY <1>1, NothingCarried DEF FlowInv, AskInv, Asking, ToldInv
<1>4. \A p \in Pair : told[p] # Unknown <=> p \in asked
  BY <1>3, QualityValues DEF FlowInv, ToldInv, Ledger!Answered
<1>5. DOMAIN m = ToldNames
  BY <1>2 DEF FlowInv, NamesInv
<1>6. DOMAIN screen = DOMAIN m /\ \A n \in DOMAIN m : screen[n] = m[n]
  BY <1>1 DEF FlowInv, LastInv
<1> QED
  BY <1>1, <1>2, <1>3, <1>4, <1>5, <1>6

\* When the command returns without an error, the screen shows the very names that the
\* discovery found, whatever the goroutines did with the arrays of their addresses.
THEOREM EveryNameShown == Spec => []AllNamesShown
<1>1. Types /\ PhaseInv /\ FlowInv => AllNamesShown
  <2> SUFFICES ASSUME Types, PhaseInv, FlowInv, main = "ok" PROVE DOMAIN screen = wanted
    BY DEF AllNamesShown
  <2>0. /\ named = wanted /\ asked = Sent /\ DOMAIN screen = ToldNames
        /\ \A p \in Pair : told[p] # Unknown <=> p \in asked
    BY AtTheEnd
  <2>1. wanted \subseteq Name
    BY DEF Types, DigTypes
  <2>2. ASSUME NEW n \in wanted PROVE n \in ToldNames
    <3>1. <<n, NoAddr>> \in Pair /\ <<n, NoAddr>> \in asked
      BY <2>0, <2>1 DEF Sent, Pair
    <3> QED
      BY <2>0, <2>1, <3>1 DEF ToldNames
  <2>3. ASSUME NEW n \in ToldNames PROVE n \in wanted
    <3>1. PICK a \in Addr \cup {NoAddr} : told[<<n, a>>] # Unknown
      BY DEF ToldNames
    <3>2. <<n, a>> \in Sent
      BY <2>0, <3>1, PairOf DEF ToldNames
    <3>3. CASE <<n, a>> \in dug
      BY <2>0, <3>3 DEF PhaseInv, DigPhase
    <3>4. CASE <<n, a>> \notin dug
      BY <2>0, <3>2, <3>4 DEF Sent
    <3> QED
      BY <3>3, <3>4
  <2> QED
    BY <2>0, <2>2, <2>3
<1> QED
  BY <1>1, TypesHold, PhaseHolds, FlowHolds, PTL

-----------------------------------------------------------------------------
(* The entries of the arrays.                                                *)

\* The array of a name, with the entry that the renderer holds while it swaps two of
\* them put back.
Array(n) ==
  IF drawing.at = "swap" /\ drawing.name = n /\ n \notin DOMAIN old
    THEN [m[n] EXCEPT ![drawing.idx + 1] = drawing.tmp[1]]
    ELSE m[n]

\* No address is in an array twice.
Distinct(array) == \A i, j \in DOMAIN array : array[i].addr = array[j].addr => i = j

\* A swap of two entries changes nothing of what an array holds.
LEMMA Swapped ==
  ASSUME NEW s \in Seq(Entry), NEW t \in Seq(Entry), NEW i \in 1..(Len(s) - 1),
         Len(t) = Len(s), t[i] = s[i + 1], t[i + 1] = s[i],
         \A j \in 1..Len(s) : j # i /\ j # i + 1 => t[j] = s[j]
  PROVE  Carried(t) = Carried(s) /\ (Distinct(s) => Distinct(t))
<1> DEFINE o(j) == IF j = i THEN i + 1 ELSE IF j = i + 1 THEN i ELSE j
<1>1. DOMAIN s = 1..Len(s) /\ DOMAIN t = 1..Len(s) /\ Len(s) \in Nat
  OBVIOUS
<1>2. ASSUME NEW j \in 1..Len(s) PROVE o(j) \in 1..Len(s) /\ t[j] = s[o(j)] /\ s[j] = t[o(j)]
  <2>1. CASE j = i
    BY <1>1, <2>1
  <2>2. CASE j = i + 1
    BY <1>1, <2>2
  <2>3. CASE j # i /\ j # i + 1
    BY <1>1, <2>3
  <2> QED
    BY <2>1, <2>2, <2>3
<1>3. \A j, k \in 1..Len(s) : o(j) = o(k) => j = k
  BY <1>1
<1> HIDE DEF o
<1>4. Carried(t) = Carried(s)
  BY <1>1, <1>2 DEF Carried
<1>5. ASSUME Distinct(s), NEW j \in DOMAIN t, NEW k \in DOMAIN t, t[j].addr = t[k].addr
      PROVE  j = k
  <2>1. s[o(j)].addr = s[o(k)].addr /\ o(j) \in DOMAIN s /\ o(k) \in DOMAIN s
    BY <1>1, <1>2, <1>5
  <2>2. o(j) = o(k)
    BY <1>5, <2>1 DEF Distinct
  <2> QED
    BY <1>1, <1>3, <2>2
<1> QED
  BY <1>4, <1>5 DEF Distinct

\* Replacing an entry by another of the same address.
LEMMA Replaced ==
  ASSUME NEW s \in Seq(Entry), NEW i \in 1..Len(s), NEW e \in Entry, e.addr = s[i].addr
  PROVE  LET t == [s EXCEPT ![i] = e]
         IN  /\ Distinct(s) => Distinct(t)
             /\ e \in Carried(t)
             /\ \A x \in Carried(s) : x = s[i] \/ x \in Carried(t)
             /\ \A x \in Carried(t) : x = e \/ x \in Carried(s)
<1> DEFINE t == [s EXCEPT ![i] = e]
<1>1. t \in Seq(Entry) /\ Len(t) = Len(s) /\ t[i] = e
      /\ \A j \in 1..Len(s) : j # i => t[j] = s[j]
  BY StoredAt
<1>2. DOMAIN s = 1..Len(s) /\ DOMAIN t = 1..Len(s)
  BY <1>1
<1> HIDE DEF t
<1>3. \A j \in 1..Len(s) : t[j].addr = s[j].addr
  BY <1>1
<1>4. Distinct(s) => Distinct(t)
  BY <1>2, <1>3 DEF Distinct
<1>5. e \in Carried(t)
  BY <1>1, <1>2 DEF Carried
<1>6. ASSUME NEW j \in 1..Len(s) PROVE s[j] = s[i] \/ s[j] \in Carried(t)
  BY <1>1, <1>2 DEF Carried
<1>7. ASSUME NEW j \in 1..Len(s) PROVE t[j] = e \/ t[j] \in Carried(s)
  BY <1>1, <1>2 DEF Carried
<1>8. \A x \in Carried(s) : x = s[i] \/ x \in Carried(t)
  BY <1>2, <1>6 DEF Carried
<1>9. \A x \in Carried(t) : x = e \/ x \in Carried(s)
  BY <1>2, <1>7 DEF Carried
<1> QED
  BY <1>4, <1>5, <1>8, <1>9 DEF t

\* Appending an entry of an address that is not there yet.
LEMMA AppendedTo ==
  ASSUME NEW s \in Seq(Entry), NEW e \in Entry, Distinct(s),
         \A i \in DOMAIN s : s[i].addr # e.addr
  PROVE  Distinct(Append(s, e))
<1> DEFINE t == Append(s, e)
<1>1. DOMAIN s = 1..Len(s) /\ DOMAIN t = 1..(Len(s) + 1) /\ Len(s) \in Nat
      /\ t[Len(s) + 1] = e
  OBVIOUS
<1>2. \A i \in 1..Len(s) : t[i] = s[i]
  OBVIOUS
<1> HIDE DEF t
<1>3. ASSUME NEW i \in DOMAIN t, NEW j \in DOMAIN t, t[i].addr = t[j].addr PROVE i = j
  <2>1. CASE i \in DOMAIN s /\ j \in DOMAIN s
    BY <1>1, <1>2, <1>3, <2>1 DEF Distinct
  <2>2. CASE i \in DOMAIN s /\ j \notin DOMAIN s
    <3>1. j = Len(s) + 1
      BY <1>1, <2>2
    <3> QED
      BY <1>1, <1>2, <1>3, <2>2, <3>1
  <2>3. CASE i \notin DOMAIN s /\ j \in DOMAIN s
    <3>1. i = Len(s) + 1
      BY <1>1, <2>3
    <3> QED
      BY <1>1, <1>2, <1>3, <2>3, <3>1
  <2>4. CASE i \notin DOMAIN s /\ j \notin DOMAIN s
    BY <1>1, <2>4
  <2> QED
    BY <2>1, <2>2, <2>3, <2>4
<1> QED
  BY <1>3 DEF Distinct, t

LEMMA ArrayType ==
  ASSUME ShapeInv, NEW n \in DOMAIN m
  PROVE  Array(n) \in Seq(Entry) /\ Len(Array(n)) = Len(m[n]) /\ m[n] \in Seq(Entry)
<1>1. m[n] \in Seq(Entry)
  BY DEF ShapeInv, ArraysInv, IsArrays
<1>2. CASE drawing.at = "swap" /\ drawing.name = n /\ n \notin DOMAIN old
  <2>1. /\ n \in DOMAIN view /\ view[n] \in 0..Len(m[n])
        /\ drawing.idx \in 1..(view[n] - 1) /\ drawing.tmp[1] \in Entry
    BY <1>2 DEF ShapeInv, ArraysInv, DrawingInv
  <2>2. drawing.idx + 1 \in 1..Len(m[n])
    BY <1>1, <2>1
  <2>3. [m[n] EXCEPT ![drawing.idx + 1] = drawing.tmp[1]] \in Seq(Entry)
        /\ Len([m[n] EXCEPT ![drawing.idx + 1] = drawing.tmp[1]]) = Len(m[n])
    BY <1>1, <2>1, <2>2, StoredAt
  <2> QED
    BY <1>1, <1>2, <2>3 DEF Array
<1>3. CASE ~(drawing.at = "swap" /\ drawing.name = n /\ n \notin DOMAIN old)
  BY <1>1, <1>3 DEF Array
<1> QED
  BY <1>2, <1>3

\* Whatever the renderer does, the arrays hold what they held.
LEMMA DrawingKeepsEntries ==
  ASSUME ShapeInv, (drawing.at = "wait" /\ Get) \/ Render, NEW k \in DOMAIN m
  PROVE  /\ Carried(Array(k)') = Carried(Array(k))
         /\ Distinct(Array(k)) => Distinct(Array(k)')
<1>1. CASE (drawing.at = "wait" /\ Get) \/ Show
  <2>1. drawing.at # "swap" /\ drawing'.at # "swap" /\ m' = m
    BY <1>1 DEF Get, Show, Waiting
  <2> QED
    BY <2>1 DEF Array
<1>2. CASE SwapRight
  <2>1. /\ drawing.at = "swap" /\ drawing.name \in DOMAIN view
        /\ drawing.idx + 1 \in 1..view[drawing.name] /\ drawing.tmp[1] \in Entry
        /\ Store(drawing.name, drawing.idx + 1, drawing.tmp[1])
    BY <1>2, SwapRightEffect
  <2>2. drawing'.at = "sort"
    BY <1>2 DEF SwapRight, Waiting
  <2>3. /\ drawing.name \in DOMAIN old => m' = m
        /\ drawing.name \notin DOMAIN old =>
             /\ m'[drawing.name] = [m[drawing.name] EXCEPT ![drawing.idx + 1] = drawing.tmp[1]]
             /\ \A j \in DOMAIN m : j # drawing.name => m'[j] = m[j]
    BY <2>1, StoreEffect
  <2>4. Array(k)' = Array(k)
    BY <2>1, <2>2, <2>3 DEF Array
  <2> QED
    BY <2>4
<1>3. CASE SwapLeft
  <2> PICK n \in DOMAIN view : \E i \in 1..(view[n] - 1) :
        /\ drawing' = [at |-> "swap", name |-> n, idx |-> i, tmp |-> <<Seen(n)[i]>>]
        /\ Seen(n)[i] \in Entry /\ Seen(n)[i + 1] \in Entry
        /\ i \in 1..view[n] /\ Store(n, i, Seen(n)[i + 1]) /\ drawing.at = "sort"
    BY <1>3, SwapLeftEffect
  <2>1. PICK i \in 1..(view[n] - 1) :
        /\ drawing' = [at |-> "swap", name |-> n, idx |-> i, tmp |-> <<Seen(n)[i]>>]
        /\ Seen(n)[i] \in Entry /\ Seen(n)[i + 1] \in Entry
        /\ i \in 1..view[n] /\ Store(n, i, Seen(n)[i + 1]) /\ drawing.at = "sort"
    OBVIOUS
  <2>2. /\ n \in DOMAIN m /\ DOMAIN old' = DOMAIN old
        /\ n \in DOMAIN old => m' = m
        /\ n \notin DOMAIN old =>
             /\ m'[n] = [m[n] EXCEPT ![i] = Seen(n)[i + 1]]
             /\ \A j \in DOMAIN m : j # n => m'[j] = m[j]
    BY <2>1, StoreEffect
  <2>3. drawing'.at = "swap" /\ drawing'.name = n /\ drawing'.idx = i
        /\ drawing'.tmp[1] = Seen(n)[i] /\ Array(k) = m[k]
    BY <2>1 DEF Array
  <2>4. CASE n \in DOMAIN old
    <3>1. Array(k)' = m[k]
      BY <2>2, <2>3, <2>4 DEF Array
    <3> QED
      BY <2>3, <3>1
  <2>5. CASE n # k /\ n \notin DOMAIN old
    <3>1. Array(k)' = m[k]
      BY <2>2, <2>3, <2>5 DEF Array
    <3> QED
      BY <2>3, <3>1
  <2>6. CASE n = k /\ n \notin DOMAIN old
    <3> DEFINE s == m[n]
               u == [s EXCEPT ![i] = s[i + 1]]
               t == [u EXCEPT ![i + 1] = s[i]]
    <3>1. s \in Seq(Entry) /\ view[n] \in 0..Len(s)
      BY <2>2 DEF ShapeInv, ArraysInv, IsArrays
    <3>2. i \in 1..(Len(s) - 1) /\ i \in 1..Len(s) /\ i + 1 \in 1..Len(s)
          /\ i \in 1..view[n] /\ i + 1 \in 1..view[n]
      BY <2>1, <3>1
    <3>3. Seen(n)[i] = s[i] /\ Seen(n)[i + 1] = s[i + 1]
      BY <2>6, <3>1, <3>2, Sliced DEF Seen
    <3>4. s[i] \in Entry /\ s[i + 1] \in Entry
      BY <3>1, <3>2
    <3>5. m'[n] = u
      BY <2>2, <2>6, <3>3
    <3>6. Array(k)' = t
      BY <2>2, <2>3, <2>6, <3>3, <3>5 DEF Array
    <3> HIDE DEF s
    <3>7. u \in Seq(Entry) /\ Len(u) = Len(s) /\ u[i] = s[i + 1]
          /\ \A j \in 1..Len(s) : j # i => u[j] = s[j]
      BY <3>1, <3>2, <3>4, StoredAt
    <3> HIDE DEF u
    <3>8. t \in Seq(Entry) /\ Len(t) = Len(u) /\ t[i + 1] = s[i]
          /\ \A j \in 1..Len(u) : j # i + 1 => t[j] = u[j]
      BY <3>2, <3>4, <3>7, StoredAt
    <3> HIDE DEF t
    <3>9. /\ Len(t) = Len(s) /\ t[i] = s[i + 1] /\ t[i + 1] = s[i]
          /\ \A j \in 1..Len(s) : j # i /\ j # i + 1 => t[j] = s[j]
      BY <3>2, <3>7, <3>8
    <3>10. Carried(t) = Carried(s) /\ (Distinct(s) => Distinct(t))
      BY <3>1, <3>2, <3>8, <3>9, Swapped
    <3>11. Array(k) = s
      BY <2>3, <2>6 DEF s
    <3> QED
      BY <3>6, <3>10, <3>11
  <2> QED
    BY <2>4, <2>5, <2>6
<1> QED
  BY <1>1, <1>2, <1>3 DEF Render

DistinctInv == \A n \in DOMAIN m : Distinct(Array(n))

\* No entry is ahead of what was told of its address ...
TruthfulInv ==
  \A n \in DOMAIN m : \A e \in Carried(Array(n)) : NotAhead(e.q, told[<<n, e.addr>>])

\* ... and what was told last is in the array, or will be.
TheEntry(n, a) == [addr |-> a, q |-> told[<<n, a>>]]
Entered(n, a) == n \in DOMAIN m /\ TheEntry(n, a) \in Carried(Array(n))
ReportedInv ==
  \A n \in Name, a \in Addr :
    told[<<n, a>>] # Unknown => Entered(n, a) \/ NA(n, a, told[<<n, a>>]) \in InFlight

\* What the search has found is still so.
FoundInv ==
  LET n == tracker.news.name
  IN  /\ tracker.at = "write" =>
           /\ m[n][tracker.idx].addr = tracker.news.addr
           /\ m[n][tracker.idx].q < tracker.news.q
      /\ tracker.at = "look" => \A i \in 1..tracker.idx : m[n][i].addr # tracker.news.addr

\* The first store of a swap has doubled an entry.
HalfInv ==
  drawing.at = "swap" /\ drawing.name \notin DOMAIN old =>
    m[drawing.name][drawing.idx] = m[drawing.name][drawing.idx + 1]

EntriesRight == DistinctInv /\ TruthfulInv /\ ReportedInv /\ FoundInv /\ HalfInv
EntriesInv == ~raced => EntriesRight

LEMMA EntriesStart == Init => EntriesInv
<1> SUFFICES ASSUME Init PROVE EntriesRight
  BY DEF EntriesInv
<1>1. tracker = Idle /\ drawing = Waiting /\ DOMAIN m = {} /\ told = [p \in Pair |-> Unknown]
  BY EmptyParts DEF Init, MapInit
<1>2. \A n \in Name, a \in Addr : told[<<n, a>>] = Unknown
  BY <1>1, PairOf
<1> QED
  BY <1>1, <1>2, IdleParts, WaitingParts
     DEF EntriesRight, DistinctInv, TruthfulInv, ReportedInv, FoundInv, HalfInv

\* What a goroutine sees in an array is in it, in the middle of a swap also.
LEMMA SeenIsThere ==
  ASSUME ShapeInv, HalfInv, NEW n \in DOMAIN m, NEW i \in DOMAIN m[n]
  PROVE  m[n][i] \in Carried(Array(n))
<1>1. Array(n) \in Seq(Entry) /\ Len(Array(n)) = Len(m[n]) /\ m[n] \in Seq(Entry)
  BY ArrayType
<1>2. DOMAIN Array(n) = DOMAIN m[n] /\ DOMAIN m[n] = 1..Len(m[n])
  BY <1>1
<1>3. CASE drawing.at = "swap" /\ drawing.name = n /\ n \notin DOMAIN old
  <2>1. Array(n) = [m[n] EXCEPT ![drawing.idx + 1] = drawing.tmp[1]]
        /\ m[n][drawing.idx] = m[n][drawing.idx + 1]
    BY <1>3 DEF Array, HalfInv
  <2>2. /\ n \in DOMAIN view /\ view[n] \in 0..Len(m[n])
        /\ drawing.idx \in 1..(view[n] - 1)
    BY <1>3 DEF ShapeInv, ArraysInv, DrawingInv
  <2>3. drawing.idx \in 1..Len(m[n]) /\ drawing.idx # drawing.idx + 1
    BY <1>1, <2>2
  <2>4. CASE i = drawing.idx + 1
    <3>1. Array(n)[drawing.idx] = m[n][i]
      BY <1>1, <2>1, <2>3, <2>4
    <3> QED
      BY <1>2, <2>3, <3>1 DEF Carried
  <2>5. CASE i # drawing.idx + 1
    <3>1. Array(n)[i] = m[n][i]
      BY <1>1, <2>1, <2>5
    <3> QED
      BY <1>2, <3>1 DEF Carried
  <2> QED
    BY <2>4, <2>5
<1>4. CASE ~(drawing.at = "swap" /\ drawing.name = n /\ n \notin DOMAIN old)
  BY <1>4 DEF Array, Carried
<1> QED
  BY <1>3, <1>4

\* Entries that stay where they are stay right when more is told.
LEMMA EntriesKeptByTelling ==
  ASSUME Types, EntriesRight, [Next]_vars, Tells
  PROVE  EntriesRight'
<1>1. PICK p \in Pair :
        /\ \A r \in Pair : r # p => told'[r] = told[r]
        /\ InFlight' = InFlight \cup {NA(p[1], p[2], told'[p])}
        /\ UNCHANGED mapVars
  BY TellsEffect
<1>2. /\ UNCHANGED <<m, tracker, view, old, drawing>>
      /\ \A n : Array(n)' = Array(n)
  BY <1>1 DEF mapVars, Array
<1>3. DistinctInv' /\ FoundInv' /\ HalfInv'
  BY <1>2 DEF EntriesRight, DistinctInv, FoundInv, HalfInv
<1>4. TruthfulInv'
  <2>1. ASSUME NEW n \in DOMAIN m, NEW e \in Carried(Array(n))
        PROVE  NotAhead(e.q, told'[<<n, e.addr>>])
    <3>1. Array(n) \in Seq(Entry) /\ n \in Name
      BY ArrayType DEF Types, ShapeInv, ArraysInv, IsArrays
    <3>2. e \in Entry
      BY <3>1, CarriedType
    <3>3. <<n, e.addr>> \in Pair /\ e.q \in Quality
      BY <3>1, <3>2, PairOf DEF Entry
    <3>4. NotAhead(e.q, told[<<n, e.addr>>])
      BY DEF EntriesRight, TruthfulInv
    <3> QED
      BY <3>3, <3>4, StaysBehind
  <2> QED
    BY <1>2, <2>1 DEF TruthfulInv
<1>5. ReportedInv'
  <2>1. ASSUME NEW n \in Name, NEW a \in Addr, told'[<<n, a>>] # Unknown
        PROVE  Entered(n, a)' \/ NA(n, a, told'[<<n, a>>]) \in InFlight'
    <3>1. <<n, a>> \in Pair
      BY PairOf
    <3>2. CASE <<n, a>> = p
      <4>1. p[1] = n /\ p[2] = a
        BY <3>2
      <4> QED
        BY <1>1, <3>2, <4>1
    <3>3. CASE <<n, a>> # p
      <4>1. told'[<<n, a>>] = told[<<n, a>>]
        BY <1>1, <3>1, <3>3
      <4>2. Entered(n, a) \/ NA(n, a, told[<<n, a>>]) \in InFlight
        BY <2>1, <4>1 DEF EntriesRight, ReportedInv
      <4>3. Entered(n, a) => Entered(n, a)'
        BY <1>2, <4>1 DEF Entered, TheEntry
      <4> QED
        BY <1>1, <4>1, <4>2, <4>3
    <3> QED
      BY <3>2, <3>3
  <2> QED
    BY <2>1 DEF ReportedInv
<1> QED
  BY <1>3, <1>4, <1>5 DEF EntriesRight

\* When nothing is told, entries that stay stay right.
LEMMA EntriesKeptBySame ==
  ASSUME EntriesRight, told' = told, DOMAIN m' = DOMAIN m, InFlight' = InFlight,
         \A n \in DOMAIN m : /\ Carried(Array(n)') = Carried(Array(n))
                             /\ Distinct(Array(n)) => Distinct(Array(n)'),
         FoundInv', HalfInv'
  PROVE  EntriesRight'
<1>1. DistinctInv' /\ TruthfulInv'
  BY DEF EntriesRight, DistinctInv, TruthfulInv
<1>2. ReportedInv'
  <2>1. \A n, a : Entered(n, a) => Entered(n, a)'
    BY DEF Entered, TheEntry
  <2> QED
    BY <2>1 DEF EntriesRight, ReportedInv
<1> QED
  BY <1>1, <1>2 DEF EntriesRight

\* As long as the two never meet in an array, a swap neither takes from Update what its
\* search has found nor is it disturbed by Update.
LEMMA FoundKeptByDrawing ==
  ASSUME ShapeInv, EntriesRight, Get \/ Render, ~Colliding, ~Colliding'
  PROVE  FoundInv' /\ HalfInv'
<1> DEFINE k == tracker.news.name
<1>0. FoundInv /\ HalfInv
  BY DEF EntriesRight
<1>1. CASE Get \/ Show
  <2>1. drawing'.at # "swap" /\ m' = m /\ tracker' = tracker
    BY <1>1 DEF Get, Show, Waiting
  <2> QED
    BY <1>0, <2>1 DEF FoundInv, HalfInv
<1>2. CASE SwapRight
  <2>1. /\ drawing.at = "swap" /\ drawing.name \in DOMAIN view
        /\ drawing.idx + 1 \in 1..view[drawing.name] /\ drawing.tmp[1] \in Entry
        /\ Store(drawing.name, drawing.idx + 1, drawing.tmp[1]) /\ tracker' = tracker
    BY <1>2, SwapRightEffect
  <2>2. drawing'.at = "sort"
    BY <1>2 DEF SwapRight, Waiting
  <2>3. /\ drawing.name \in DOMAIN old => m' = m
        /\ drawing.name \notin DOMAIN old => \A j \in DOMAIN m : j # drawing.name => m'[j] = m[j]
    BY <2>1, StoreEffect
  <2>4. ASSUME tracker.at = "write" \/ (tracker.at = "look" /\ tracker.idx > 0)
        PROVE  k \in DOMAIN m /\ m'[k] = m[k]
    <3>1. k \in DOMAIN m
      BY <2>4 DEF ShapeInv, TrackerInv
    <3>2. drawing.name = k => drawing.name \in DOMAIN old
      BY <2>1, <2>4 DEF Colliding
    <3> QED
      BY <2>3, <3>1, <3>2
  <2>5. FoundInv'
    <3>1. CASE tracker.at = "write" \/ (tracker.at = "look" /\ tracker.idx > 0)
      BY <1>0, <2>1, <2>4, <3>1 DEF FoundInv
    <3>2. CASE tracker.at # "write" /\ ~(tracker.at = "look" /\ tracker.idx > 0)
      <4>1. tracker.idx \in Nat
        BY DEF ShapeInv, TrackerInv
      <4> QED
        BY <2>1, <3>2, <4>1 DEF FoundInv
    <3> QED
      BY <3>1, <3>2
  <2>6. HalfInv'
    BY <2>2 DEF HalfInv
  <2> QED
    BY <2>5, <2>6
<1>3. CASE SwapLeft
  <2> PICK n \in DOMAIN view : \E i \in 1..(view[n] - 1) :
        /\ drawing' = [at |-> "swap", name |-> n, idx |-> i, tmp |-> <<Seen(n)[i]>>]
        /\ Seen(n)[i] \in Entry /\ Seen(n)[i + 1] \in Entry
        /\ i \in 1..view[n] /\ Store(n, i, Seen(n)[i + 1]) /\ tracker' = tracker
    BY <1>3, SwapLeftEffect
  <2>1. PICK i \in 1..(view[n] - 1) :
        /\ drawing' = [at |-> "swap", name |-> n, idx |-> i, tmp |-> <<Seen(n)[i]>>]
        /\ Seen(n)[i] \in Entry /\ Seen(n)[i + 1] \in Entry
        /\ i \in 1..view[n] /\ Store(n, i, Seen(n)[i + 1]) /\ tracker' = tracker
    OBVIOUS
  <2>2. /\ n \in DOMAIN m /\ i \in 1..Len(m[n]) /\ DOMAIN old' = DOMAIN old
        /\ n \in DOMAIN old => m' = m
        /\ n \notin DOMAIN old =>
             /\ m'[n] = [m[n] EXCEPT ![i] = Seen(n)[i + 1]]
             /\ \A j \in DOMAIN m : j # n => m'[j] = m[j]
    BY <2>1, StoreEffect
  <2>3. drawing'.at = "swap" /\ drawing'.name = n /\ drawing'.idx = i
    BY <2>1
  <2>4. ASSUME tracker.at = "write" \/ (tracker.at = "look" /\ tracker.idx > 0)
        PROVE  k \in DOMAIN m /\ m'[k] = m[k]
    <3>1. k \in DOMAIN m
      BY <2>4 DEF ShapeInv, TrackerInv
    <3>2. n = k => n \in DOMAIN old
      BY <2>1, <2>2, <2>3, <2>4 DEF Colliding
    <3> QED
      BY <2>2, <3>1, <3>2
  <2>5. FoundInv'
    <3>1. CASE tracker.at = "write" \/ (tracker.at = "look" /\ tracker.idx > 0)
      BY <1>0, <2>1, <2>4, <3>1 DEF FoundInv
    <3>2. CASE tracker.at # "write" /\ ~(tracker.at = "look" /\ tracker.idx > 0)
      <4>1. tracker.idx \in Nat
        BY DEF ShapeInv, TrackerInv
      <4> QED
        BY <2>1, <3>2, <4>1 DEF FoundInv
    <3> QED
      BY <3>1, <3>2
  <2>6. ASSUME n \notin DOMAIN old PROVE m'[n][i] = m'[n][i + 1]
    <3>1. m[n] \in Seq(Entry) /\ view[n] \in 0..Len(m[n])
      BY <2>2 DEF ShapeInv, ArraysInv, IsArrays
    <3>2. i + 1 \in 1..view[n] /\ i + 1 \in 1..Len(m[n]) /\ i + 1 # i
      BY <2>1, <3>1
    <3>3. Seen(n)[i + 1] = m[n][i + 1]
      BY <2>6, <3>1, <3>2, Sliced DEF Seen
    <3>4. m'[n][i] = Seen(n)[i + 1] /\ m'[n][i + 1] = m[n][i + 1]
      BY <2>1, <2>2, <2>6, <3>1, <3>2, StoredAt
    <3> QED
      BY <3>3, <3>4
  <2>7. HalfInv'
    BY <2>2, <2>3, <2>6 DEF HalfInv
  <2> QED
    BY <2>5, <2>7
<1> QED
  BY <1>1, <1>2, <1>3 DEF Render

LEMMA EntriesKeptByDrawing ==
  ASSUME Types, EntriesRight, told' = told, news' = news,
         (drawing.at = "wait" /\ Get) \/ Render, ~Colliding, ~Colliding'
  PROVE  EntriesRight'
<1>1. ShapeInv
  BY DEF Types
<1>2. DOMAIN m' = DOMAIN m /\ InFlight' = InFlight
  BY DrawingFrame DEF InFlight
<1>3. \A n \in DOMAIN m : /\ Carried(Array(n)') = Carried(Array(n))
                          /\ Distinct(Array(n)) => Distinct(Array(n)')
  BY <1>1, DrawingKeepsEntries
<1>4. FoundInv' /\ HalfInv'
  BY <1>1, FoundKeptByDrawing
<1> QED
  BY <1>2, <1>3, <1>4, EntriesKeptBySame

\* Reading a piece of news and searching for its address change no array.
LEMMA EntriesKeptByReading ==
  ASSUME Types, EntriesRight, told' = told, TrackReads
  PROVE  EntriesRight'
<1>1. InFlight' = InFlight /\ tracker'.at = "search" /\ UNCHANGED <<m, old, drawing>>
  BY ReadsEffect
<1>2. \A n : Array(n)' = Array(n)
  BY <1>1 DEF Array
<1>3. FoundInv' /\ HalfInv'
  BY <1>1 DEF EntriesRight, FoundInv, HalfInv
<1> QED
  BY <1>1, <1>2, <1>3, EntriesKeptBySame

LEMMA EntriesKeptBySearching ==
  ASSUME Types, NewsInv, EntriesRight, told' = told, news' = news, Search \/ Look
  PROVE  EntriesRight'
<1> DEFINE n == tracker.news.name
           i == tracker.idx + 1
<1>0. ShapeInv /\ TrackerInv /\ DistinctInv /\ TruthfulInv /\ ReportedInv /\ FoundInv /\ HalfInv
  BY DEF Types, ShapeInv, EntriesRight
<1>1. /\ tracker.news \in News /\ tracker.news.addr \in Addr /\ n \in DOMAIN m
      /\ UNCHANGED <<m, view, old, drawing, screen>>
  BY <1>0, SearchEffect, LookEffect
<1>2. \A k : Array(k)' = Array(k)
  BY <1>1 DEF Array
<1>3. HalfInv' /\ DistinctInv' /\ TruthfulInv'
  BY <1>0, <1>1, <1>2 DEF HalfInv, DistinctInv, TruthfulInv
<1>4. \A k, a : Entered(k, a) => Entered(k, a)'
  BY <1>1, <1>2 DEF Entered, TheEntry
<1>5. ASSUME FoundInv', tracker.at # "idle", tracker'.at # "idle", tracker'.news = tracker.news
      PROVE  EntriesRight'
  <2>1. InFlight' = InFlight
    BY <1>5 DEF InFlight
  <2> QED
    BY <1>1, <1>2, <1>3, <1>5, <2>1, EntriesKeptBySame
<1>6. CASE Search
  <2>1. /\ tracker'.at = "look" /\ tracker'.news = tracker.news /\ tracker'.idx = 0
        /\ tracker.at # "idle"
    BY <1>0, <1>6, SearchEffect DEF TrackerInv, Search
  <2>2. FoundInv'
    BY <2>1 DEF FoundInv
  <2> QED
    BY <1>5, <2>1, <2>2
<1>8. ASSUME Look, m[n][i].addr # tracker.news.addr, tracker' = [tracker EXCEPT !.idx = i]
      PROVE  EntriesRight'
  <2>1. /\ tracker.at = "look" /\ tracker'.at = "look" /\ tracker'.news = tracker.news
        /\ tracker'.idx = i /\ tracker.idx \in Nat
    BY <1>0, <1>8 DEF TrackerInv, Look
  <2>2. \A j \in 1..i : m[n][j].addr # tracker.news.addr
    BY <1>0, <1>8, <2>1 DEF FoundInv
  <2>3. FoundInv'
    BY <1>1, <2>1, <2>2 DEF FoundInv
  <2> QED
    BY <1>5, <2>1, <2>3
<1>9. ASSUME Look, m[n][i].addr = tracker.news.addr, tracker.news.q > m[n][i].q,
             tracker' = [tracker EXCEPT !.at = "write", !.idx = i]
      PROVE  EntriesRight'
  <2>1. /\ tracker.at # "idle" /\ tracker'.at = "write" /\ tracker'.news = tracker.news
        /\ tracker'.idx = i
    BY <1>0, <1>9 DEF TrackerInv, Look
  <2>2. m[n][i].q \in Int /\ tracker.news.q \in Int
    <3>1. m[n] \in Seq(Entry) /\ i \in 1..Len(m[n])
      BY <1>0, <1>9, LookEffect
    <3>2. m[n][i] \in Entry
      BY <3>1
    <3>3. m[n][i].q \in Quality /\ tracker.news.q \in Quality
      BY <1>1, <3>2, NewsParts DEF Entry
    <3> QED
      BY <3>3, QualityValues
  <2>3. m[n][i].q < tracker.news.q
    BY <1>9, <2>2
  <2>4. FoundInv'
    BY <1>1, <1>9, <2>1, <2>3 DEF FoundInv
  <2> QED
    BY <1>5, <2>1, <2>4
<1>10. ASSUME Look, m[n][i].addr = tracker.news.addr,
              ~(tracker.news.q > m[n][i].q), tracker' = Idle
       PROVE  EntriesRight'
  <2> DEFINE a == tracker.news.addr
             e == m[n][i]
  <2>0. e \in Entry /\ n \in Name /\ a \in Addr
    <3>1. m[n] \in Seq(Entry) /\ n \in Name /\ i \in 1..Len(m[n])
      BY <1>0, <1>1, <1>10, LookEffect DEF ShapeInv, ArraysInv, IsArrays
    <3> QED
      BY <1>1, <3>1
  <2>1. e \in Carried(Array(n))
    <3>1. i \in DOMAIN m[n]
      BY <1>0, <1>10, LookEffect
    <3> QED
      BY <1>0, <1>1, <3>1, SeenIsThere
  <2>2. e.q <= told[<<n, a>>]
    BY <1>0, <1>1, <1>10, <2>1 DEF TruthfulInv, NotAhead
  <2>3. tracker.news \in InFlight /\ InFlight = InFlight' \cup {tracker.news}
    <3>1. Update
      BY DEF Update
    <3>2. tracker'.at = "idle"
      BY <1>10, IdleParts
    <3> QED
      BY <3>1, <3>2, UpdateEffect
  <2>4. FoundInv'
    BY <1>10, IdleParts DEF FoundInv
  <2>5. e.q \in Int /\ tracker.news.q \in Int /\ told[<<n, a>>] \in Int
    <3>1. <<n, a>> \in Pair
      BY <2>0, PairOf
    <3> QED
      BY <1>1, <2>0, <3>1, NewsParts, QualityValues DEF Entry, Types, VerifyTypes
  <2>6. ASSUME tracker.news.q = told[<<n, a>>] PROVE Entered(n, a)
    <3>1. e.q = told[<<n, a>>]
      BY <1>10, <2>2, <2>5, <2>6
    <3>2. e = TheEntry(n, a)
      BY <1>10, <2>0, <3>1 DEF TheEntry, Entry
    <3> QED
      BY <1>1, <2>1, <3>2 DEF Entered
  <2>7. ASSUME NEW k \in Name, NEW b \in Addr, told[<<k, b>>] # Unknown
        PROVE  Entered(k, b)' \/ NA(k, b, told[<<k, b>>]) \in InFlight'
    <3>1. Entered(k, b) \/ NA(k, b, told[<<k, b>>]) \in InFlight
      BY <1>0, <2>7 DEF ReportedInv
    <3>2. CASE NA(k, b, told[<<k, b>>]) = tracker.news
      <4>1. k = n /\ b = a /\ tracker.news.q = told[<<k, b>>]
        BY <3>2 DEF NA
      <4> QED
        BY <1>4, <2>6, <4>1
    <3> QED
      BY <1>4, <2>3, <3>1, <3>2
  <2>8. ReportedInv'
    BY <2>7 DEF ReportedInv
  <2> QED
    BY <1>3, <2>4, <2>8 DEF EntriesRight
<1> QED
  BY <1>0, <1>6, <1>8, <1>9, <1>10, LookEffect

\* A piece of news may leave the way when it has come into the map, and nothing that
\* was there has gone.
LEMMA ReportedByUpdate ==
  ASSUME Types, ReportedInv, told' = told, news' = news, Update, tracker' = Idle,
         \A k \in Name, b \in Addr : told[<<k, b>>] # Unknown /\ Entered(k, b) => Entered(k, b)',
         \A k \in Name, b \in Addr :
           tracker.news = NA(k, b, told[<<k, b>>]) => Entered(k, b)'
  PROVE  ReportedInv'
<1>1. InFlight = InFlight' \cup {tracker.news}
  <2>1. tracker'.at = "idle"
    BY IdleParts
  <2> QED
    BY <2>1, UpdateEffect
<1>2. ASSUME NEW k \in Name, NEW b \in Addr, told[<<k, b>>] # Unknown
      PROVE  Entered(k, b)' \/ NA(k, b, told[<<k, b>>]) \in InFlight'
  <2>1. Entered(k, b) \/ NA(k, b, told[<<k, b>>]) \in InFlight
    BY <1>2 DEF ReportedInv
  <2>2. CASE NA(k, b, told[<<k, b>>]) = tracker.news
    BY <2>2
  <2>3. CASE NA(k, b, told[<<k, b>>]) # tracker.news /\ ~Entered(k, b)
    BY <1>1, <2>1, <2>3
  <2>4. CASE Entered(k, b)
    BY <1>2, <2>4
  <2> QED
    BY <2>2, <2>3, <2>4
<1> QED
  BY <1>2 DEF ReportedInv

\* A name is entered with what its first news says.
LEMMA FirstEntryParts ==
  /\ Distinct(FirstEntry)
  /\ \A e \in Carried(FirstEntry) :
       e = [addr |-> tracker.news.addr, q |-> tracker.news.q]
  /\ tracker.news.addr # NoAddr =>
       [addr |-> tracker.news.addr, q |-> tracker.news.q] \in Carried(FirstEntry)
<1> DEFINE e == [addr |-> tracker.news.addr, q |-> tracker.news.q]
<1>1. CASE tracker.news.addr = NoAddr
  BY <1>1 DEF FirstEntry, Distinct, Carried
<1>2. CASE tracker.news.addr # NoAddr
  <2>1. FirstEntry = <<e>>
    BY <1>2 DEF FirstEntry
  <2> HIDE DEF e
  <2>2. DOMAIN FirstEntry = {1} /\ FirstEntry[1] = e
    BY <2>1
  <2>3. Distinct(FirstEntry) /\ Carried(FirstEntry) = {e}
    BY <2>2 DEF Distinct, Carried
  <2> QED
    BY <2>3 DEF e
<1> QED
  BY <1>1, <1>2

LEMMA EntriesKeptByNaming ==
  ASSUME Types, NewsInv, EntriesRight, told' = told, news' = news, NewName
  PROVE  EntriesRight'
<1> PICK n, a : n = tracker.news.name /\ a = tracker.news.addr
  OBVIOUS
<1>0. ShapeInv /\ ArraysInv /\ DrawingInv
      /\ DistinctInv /\ TruthfulInv /\ ReportedInv /\ HalfInv
  BY DEF Types, ShapeInv, EntriesRight
<1>1. /\ tracker.news \in News /\ DOMAIN m' = DOMAIN m \cup {n}
      /\ \A k \in DOMAIN m : m'[k] = m[k]
      /\ n \notin DOMAIN m => m'[n] = FirstEntry
      /\ tracker' = Idle /\ UNCHANGED <<view, old, drawing, screen>>
  BY <1>0, NewNameEffect
<1>2. n \in DOMAIN m => a = NoAddr
  BY DEF NewName
<1>3. Update /\ tracker.news \in InFlight
  <2>1. Update
    BY DEF Update
  <2> QED
    BY <2>1, UpdateEffect
<1>4. NotAhead(tracker.news.q, told[<<n, a>>])
  BY <1>3 DEF NewsInv, Pr
<1>5. \A k \in DOMAIN m : Array(k)' = Array(k)
  BY <1>1 DEF Array
<1>6. n \notin DOMAIN m => Array(n)' = FirstEntry
  <2>1. n \notin DOMAIN m => n \notin DOMAIN view
    BY <1>0 DEF ArraysInv
  <2>2. n \notin DOMAIN m => ~(drawing.at = "swap" /\ drawing.name = n)
    BY <1>0, <2>1 DEF DrawingInv
  <2> QED
    BY <1>1, <2>2 DEF Array
<1>7. DistinctInv'
  BY <1>0, <1>1, <1>5, <1>6, FirstEntryParts DEF DistinctInv
<1>8. TruthfulInv'
  <2>1. ASSUME n \notin DOMAIN m, NEW e \in Carried(FirstEntry) PROVE NotAhead(e.q, told[<<n, e.addr>>])
    <3>1. e = [addr |-> a, q |-> tracker.news.q]
      BY FirstEntryParts
    <3> QED
      BY <1>4, <3>1
  <2>2. ASSUME NEW k \in DOMAIN m', NEW e \in Carried(Array(k)') PROVE NotAhead(e.q, told[<<k, e.addr>>])
    <3>1. CASE k \in DOMAIN m
      BY <1>0, <1>5, <2>2, <3>1 DEF TruthfulInv
    <3>2. CASE k \notin DOMAIN m
      BY <1>1, <1>6, <2>1, <2>2, <3>2
    <3> QED
      BY <3>1, <3>2
  <2> QED
    BY <2>2 DEF TruthfulInv
<1>9. \A k, b : Entered(k, b) => Entered(k, b)'
  BY <1>1, <1>5 DEF Entered, TheEntry
<1>10. ASSUME NEW k \in Name, NEW b \in Addr, tracker.news = NA(k, b, told[<<k, b>>])
       PROVE  Entered(k, b)'
  <2>1. k = n /\ b = a /\ tracker.news.q = told[<<n, a>>] /\ a # NoAddr
    BY <1>10, NamedAddressAssumption DEF NA
  <2>2. n \notin DOMAIN m /\ TheEntry(k, b) \in Carried(FirstEntry)
    BY <1>2, <2>1, FirstEntryParts DEF TheEntry
  <2> QED
    BY <1>1, <1>6, <2>1, <2>2 DEF Entered, TheEntry
<1>11. ReportedInv'
  BY <1>0, <1>1, <1>3, <1>9, <1>10, ReportedByUpdate
<1>12. FoundInv'
  BY <1>1, IdleParts DEF FoundInv
<1>13. HalfInv'
  <2>1. drawing.at = "swap" => drawing.name \in DOMAIN m
    BY <1>0 DEF DrawingInv, ArraysInv
  <2> QED
    BY <1>0, <1>1, <2>1 DEF HalfInv
<1> QED
  BY <1>7, <1>8, <1>11, <1>12, <1>13 DEF EntriesRight

LEMMA EntriesKeptByWriting ==
  ASSUME Types, NewsInv, EntriesRight, told' = told, news' = news, Write, ~Colliding
  PROVE  EntriesRight'
<1> PICK n, a : n = tracker.news.name /\ a = tracker.news.addr
  OBVIOUS
<1> DEFINE s == m[n]
           e == [addr |-> s[tracker.idx].addr, q |-> tracker.news.q]
<1>0. ShapeInv /\ ArraysInv /\ DrawingInv
      /\ DistinctInv /\ TruthfulInv /\ ReportedInv /\ FoundInv /\ HalfInv
  BY DEF Types, ShapeInv, EntriesRight
<1>1. /\ tracker.news \in News /\ n \in DOMAIN m
      /\ tracker.idx \in 1..Len(s) /\ e \in Entry
      /\ DOMAIN m' = DOMAIN m
      /\ \A k \in DOMAIN m : k # n => m'[k] = m[k]
      /\ m'[n] = [s EXCEPT ![tracker.idx] = e]
      /\ tracker' = Idle /\ UNCHANGED <<view, old, drawing, screen>>
  BY <1>0, WriteEffect
<1>2. s[tracker.idx].addr = a /\ s[tracker.idx].q < tracker.news.q
  BY DEF Write, EntriesRight, FoundInv
<1>3. Update /\ tracker.news \in InFlight
  <2>1. Update
    BY DEF Update
  <2> QED
    BY <2>1, UpdateEffect
<1>4. NotAhead(tracker.news.q, told[<<n, a>>])
  BY <1>3 DEF NewsInv, Pr
<1>5. Array(n) = s /\ Array(n)' = m'[n]
  <2>1. ~(drawing.at = "swap" /\ drawing.name = n /\ n \notin DOMAIN old)
    BY DEF Write, Colliding
  <2> QED
    BY <1>1, <2>1 DEF Array
<1>6. \A k \in DOMAIN m : k # n => Array(k)' = Array(k)
  BY <1>1 DEF Array
<1>7. s \in Seq(Entry)
  BY <1>0, <1>1 DEF ArraysInv, IsArrays
<1>8. e.addr = s[tracker.idx].addr /\ e.addr = a /\ e.q = tracker.news.q
  BY <1>2
<1> HIDE DEF e, s
<1>9. /\ Distinct(s) => Distinct(m'[n])
      /\ e \in Carried(m'[n])
      /\ \A x \in Carried(s) : x = s[tracker.idx] \/ x \in Carried(m'[n])
      /\ \A x \in Carried(m'[n]) : x = e \/ x \in Carried(s)
  <2> DEFINE t == [s EXCEPT ![tracker.idx] = e]
  <2>1. /\ Distinct(s) => Distinct(t)
        /\ e \in Carried(t)
        /\ \A x \in Carried(s) : x = s[tracker.idx] \/ x \in Carried(t)
        /\ \A x \in Carried(t) : x = e \/ x \in Carried(s)
    <3>1. s \in Seq(Entry) /\ tracker.idx \in 1..Len(s) /\ e \in Entry
          /\ e.addr = s[tracker.idx].addr
      BY <1>1, <1>7, <1>8
    <3> QED
      BY <3>1, Replaced
  <2>2. m'[n] = t
    BY <1>1
  <2> HIDE DEF t
  <2> QED
    BY <2>1, <2>2
<1>10. DistinctInv'
  BY <1>0, <1>1, <1>5, <1>6, <1>9 DEF DistinctInv
<1>11. TruthfulInv'
  <2>1. ASSUME NEW k \in DOMAIN m, NEW x \in Carried(Array(k)')
        PROVE  NotAhead(x.q, told[<<k, x.addr>>])
    <3>1. CASE k = n /\ x = e
      BY <1>4, <1>8, <3>1
    <3>2. CASE k = n /\ x # e
      BY <1>0, <1>1, <1>5, <1>9, <2>1, <3>2 DEF TruthfulInv
    <3>3. CASE k # n
      BY <1>0, <1>6, <2>1, <3>3 DEF TruthfulInv
    <3> QED
      BY <3>1, <3>2, <3>3
  <2> QED
    BY <1>1, <2>1 DEF TruthfulInv
<1>12. ASSUME NEW k \in Name, NEW b \in Addr, Entered(k, b) PROVE Entered(k, b)'
  <2>1. CASE k # n
    BY <1>1, <1>6, <1>12, <2>1 DEF Entered, TheEntry
  <2>2. CASE k = n
    <3>1. TheEntry(k, b) \in Carried(s)
      BY <1>5, <1>12, <2>2 DEF Entered
    <3>2. TheEntry(k, b) # s[tracker.idx]
      <4>1. s[tracker.idx].q \in Int /\ tracker.news.q \in Int /\ told[<<n, a>>] \in Int
        <5>1. s[tracker.idx] \in Entry
          BY <1>1, <1>7
        <5>2. <<n, a>> \in Pair /\ tracker.news.q \in Quality
          BY <1>1, NewsParts
        <5> QED
          BY <5>1, <5>2, QualityValues DEF Entry, Types, VerifyTypes
      <4>2. s[tracker.idx].q < told[<<n, a>>]
        BY <1>2, <1>4, <4>1 DEF NotAhead
      <4>3. CASE b = a
        BY <2>2, <4>1, <4>2, <4>3 DEF TheEntry
      <4>4. CASE b # a
        BY <1>2, <4>4 DEF TheEntry
      <4> QED
        BY <4>3, <4>4
    <3>3. TheEntry(k, b) \in Carried(m'[n])
      BY <1>9, <3>1, <3>2
    <3> QED
      BY <1>1, <1>5, <2>2, <3>3 DEF Entered, TheEntry
  <2> QED
    BY <2>1, <2>2
<1>13. ASSUME NEW k \in Name, NEW b \in Addr, tracker.news = NA(k, b, told[<<k, b>>])
       PROVE  Entered(k, b)'
  <2>1. k = n /\ b = a /\ tracker.news.q = told[<<n, a>>]
    BY <1>13 DEF NA
  <2>2. e = TheEntry(k, b)
    BY <1>2, <2>1 DEF e, TheEntry
  <2> QED
    BY <1>1, <1>5, <1>9, <2>1, <2>2 DEF Entered, TheEntry
<1>14. ReportedInv'
  BY <1>0, <1>1, <1>3, <1>12, <1>13, ReportedByUpdate
<1>15. FoundInv'
  BY <1>1, IdleParts DEF FoundInv
<1>16. HalfInv'
  <2>1. drawing.at = "swap" /\ drawing.name \notin DOMAIN old =>
          drawing.name \in DOMAIN m /\ drawing.name # n
    BY <1>0 DEF DrawingInv, ArraysInv, Write, Colliding
  <2> QED
    BY <1>0, <1>1, <2>1 DEF HalfInv
<1> QED
  BY <1>10, <1>11, <1>14, <1>15, <1>16 DEF EntriesRight

LEMMA EntriesKeptByAppending ==
  ASSUME Types, NewsInv, EntriesRight, told' = told, news' = news, AppendNew, ~Colliding
  PROVE  EntriesRight'
<1> PICK n, a : n = tracker.news.name /\ a = tracker.news.addr
  OBVIOUS
<1> DEFINE s == m[n]
           e == [addr |-> a, q |-> tracker.news.q]
<1>0. ShapeInv /\ ArraysInv /\ DrawingInv
      /\ DistinctInv /\ TruthfulInv /\ ReportedInv /\ FoundInv /\ HalfInv
  BY DEF Types, ShapeInv, EntriesRight
<1>1. /\ tracker.news \in News /\ n \in DOMAIN m /\ e \in Entry
      /\ DOMAIN m' = DOMAIN m
      /\ \A k \in DOMAIN m : k # n => m'[k] = m[k]
      /\ m'[n] = Append(s, e)
      /\ tracker' = Idle /\ UNCHANGED <<view, drawing, screen>>
  BY <1>0, AppendEffect
<1>2. \/ old' = old
      \/ DOMAIN old' = DOMAIN old \cup {n}
  BY <1>0, AppendEffect
<1>3. Update /\ tracker.news \in InFlight
  <2>1. Update
    BY DEF Update
  <2> QED
    BY <2>1, UpdateEffect
<1>4. NotAhead(tracker.news.q, told[<<n, a>>])
  BY <1>3 DEF NewsInv, Pr
<1>5. Array(n) = s /\ Array(n)' = m'[n]
  <2>1. ~(drawing.at = "swap" /\ drawing.name = n /\ n \notin DOMAIN old)
    BY <1>0, AppendsAlone
  <2>2. ~(drawing'.at = "swap" /\ drawing'.name = n /\ n \notin DOMAIN old')
    BY <1>1, <1>2, <2>1
  <2> QED
    BY <2>1, <2>2 DEF Array
<1>6. \A k \in DOMAIN m : k # n => Array(k)' = Array(k)
  <2>1. ASSUME NEW k \in DOMAIN m, k # n PROVE Array(k)' = Array(k)
    <3>1. m'[k] = m[k] /\ drawing' = drawing /\ (k \in DOMAIN old' <=> k \in DOMAIN old)
      BY <1>1, <1>2, <2>1
    <3> QED
      BY <3>1 DEF Array
  <2> QED
    BY <2>1
<1>7. s \in Seq(Entry)
  BY <1>0, <1>1 DEF ArraysInv, IsArrays
<1>8. \A i \in DOMAIN s : s[i].addr # e.addr
  BY <1>7 DEF AppendNew, EntriesRight, FoundInv
<1>9. e.addr = a /\ e.q = tracker.news.q
  OBVIOUS
<1>10. ASSUME NEW k \in Name, NEW b \in Addr, tracker.news = NA(k, b, told[<<k, b>>])
       PROVE  k = n /\ e = TheEntry(k, b)
  BY <1>10 DEF NA, TheEntry
<1> HIDE DEF s, e
<1>11. Distinct(s)
  BY <1>0, <1>1, <1>5 DEF DistinctInv
<1>12. Distinct(m'[n]) /\ Carried(m'[n]) = Carried(s) \cup {e}
  <2>1. Distinct(Append(s, e))
    BY <1>1, <1>7, <1>8, <1>11, AppendedTo
  <2>2. Carried(Append(s, e)) = Carried(s) \cup {e}
    BY <1>1, <1>7, SendingAdds
  <2> QED
    BY <1>1, <2>1, <2>2
<1>13. DistinctInv'
  BY <1>0, <1>1, <1>5, <1>6, <1>12 DEF DistinctInv
<1>14. TruthfulInv'
  <2>1. ASSUME NEW k \in DOMAIN m, NEW x \in Carried(Array(k)')
        PROVE  NotAhead(x.q, told[<<k, x.addr>>])
    <3>1. CASE k = n /\ x = e
      BY <1>4, <1>9, <3>1
    <3>2. CASE k = n /\ x # e
      BY <1>0, <1>1, <1>5, <1>12, <2>1, <3>2 DEF TruthfulInv
    <3>3. CASE k # n
      BY <1>0, <1>6, <2>1, <3>3 DEF TruthfulInv
    <3> QED
      BY <3>1, <3>2, <3>3
  <2> QED
    BY <1>1, <2>1 DEF TruthfulInv
<1>15. ASSUME NEW k \in Name, NEW b \in Addr, Entered(k, b) PROVE Entered(k, b)'
  <2>1. CASE k # n
    BY <1>1, <1>6, <1>15, <2>1 DEF Entered, TheEntry
  <2>2. CASE k = n
    BY <1>1, <1>5, <1>12, <1>15, <2>2 DEF Entered, TheEntry
  <2> QED
    BY <2>1, <2>2
<1>16. ASSUME NEW k \in Name, NEW b \in Addr, tracker.news = NA(k, b, told[<<k, b>>])
       PROVE  Entered(k, b)'
  <2>1. k = n /\ e = TheEntry(k, b)
    BY <1>10, <1>16
  <2> QED
    BY <1>1, <1>5, <1>12, <2>1 DEF Entered, TheEntry
<1>17. ReportedInv'
  BY <1>0, <1>1, <1>3, <1>15, <1>16, ReportedByUpdate
<1>18. FoundInv'
  BY <1>1, IdleParts DEF FoundInv
<1>19. HalfInv'
  <2>1. drawing.at = "swap" /\ drawing.name \notin DOMAIN old =>
          drawing.name \in DOMAIN m /\ drawing.name # n
    BY <1>0, AppendsAlone DEF DrawingInv, ArraysInv
  <2>2. \A k : k \notin DOMAIN old' => k \notin DOMAIN old
    BY <1>2
  <2> QED
    BY <1>0, <1>1, <2>1, <2>2 DEF HalfInv
<1> QED
  BY <1>13, <1>14, <1>17, <1>18, <1>19 DEF EntriesRight

\* Until Update and a swap have met in an array, the entries are right.
LEMMA EntriesKept ==
  ASSUME Types, RaceSeen, NewsInv, EntriesInv, [Next]_vars
  PROVE  EntriesInv'
<1> SUFFICES ASSUME ~raced' PROVE EntriesRight'
  BY DEF EntriesInv
<1>1. ~raced /\ RaceSeen'
  <2>1. CASE UNCHANGED vars
    BY <2>1, RaceSeenKept DEF vars
  <2>2. CASE raced' = (raced \/ Colliding')
    BY <2>2, RaceSeenKept
  <2> QED
    BY <2>1, <2>2, StepCases
<1>2. EntriesRight /\ ~Colliding /\ ~Colliding'
  BY <1>1 DEF EntriesInv, RaceSeen
<1>3. CASE Tells
  BY <1>2, <1>3, EntriesKeptByTelling
<1>4. CASE told' = told /\ TrackReads
  BY <1>2, <1>4, EntriesKeptByReading
<1>5. CASE told' = told /\ news' = news /\ UNCHANGED mapVars
  <2>1. UNCHANGED <<m, tracker, view, old, drawing>> /\ InFlight' = InFlight
    BY <1>5 DEF mapVars, InFlight
  <2>2. \A n : Array(n)' = Array(n)
    BY <2>1 DEF Array
  <2>3. FoundInv' /\ HalfInv'
    BY <1>2, <2>1 DEF EntriesRight, FoundInv, HalfInv
  <2> QED
    BY <1>2, <1>5, <2>1, <2>2, <2>3, EntriesKeptBySame
<1>6. CASE told' = told /\ news' = news /\ Update
  BY <1>2, <1>6, EntriesKeptByNaming, EntriesKeptBySearching, EntriesKeptByWriting,
     EntriesKeptByAppending DEF Update
<1>7. CASE told' = told /\ news' = news /\ ((drawing.at = "wait" /\ Get) \/ Render)
  BY <1>2, <1>7, EntriesKeptByDrawing
<1> QED
  BY JointFrame, <1>3, <1>4, <1>5, <1>6, <1>7

LEMMA EntriesHold == Spec => []EntriesInv
<1>1. Types /\ PhaseInv /\ FlowInv /\ EntriesInv /\ [Next]_vars => EntriesInv'
  BY EntriesKept DEF PhaseInv, FlowInv
<1> QED
  BY <1>1, EntriesStart, TypesHold, PhaseHolds, FlowHolds, PTL DEF Spec

-----------------------------------------------------------------------------
(* What the map and the screen hold.                                         *)

\* An array of distinct addresses is as long as the set of them.
LEMMA LengthOfDistinct ==
  ASSUME NEW s \in Seq(Entry), Distinct(s), NEW A, {s[i].addr : i \in DOMAIN s} = A
  PROVE  IsFiniteSet(A) /\ Len(s) = Cardinality(A)
<1> DEFINE D == 1..Len(s)
           f == [i \in D |-> s[i].addr]
<1>1. Len(s) \in Nat /\ DOMAIN s = D
  OBVIOUS
<1>2. IsFiniteSet(D) /\ Cardinality(D) = Len(s)
  BY <1>1, FS_Interval
<1>3. f \in Bijection(D, A)
  <2>1. f \in [D -> A]
    BY <1>1
  <2>2. \A i, j \in D : f[i] = f[j] => i = j
    BY <1>1 DEF Distinct
  <2>3. \A a \in A : \E i \in D : f[i] = a
    BY <1>1
  <2> HIDE DEF f, D
  <2> QED
    BY <2>1, <2>2, <2>3 DEF Bijection, Injection, Surjection, IsInjective
<1> HIDE DEF f, D
<1>4. ExistsBijection(D, A)
  BY <1>3 DEF ExistsBijection
<1> QED
  BY <1>2, <1>4, FS_Bijection

\* The addresses of a name that were told of.
ToldAddrs(n) == {a \in Addr : told[<<n, a>>] # Unknown}

\* With nothing on its way and no swap under way, an array holds what was told last.
LEMMA ArraysComplete ==
  ASSUME Types, EntriesRight, InFlight = {}, drawing.at # "swap", NEW n \in DOMAIN m
  PROVE  Matches(m[n], n, ToldAddrs(n), [a \in Addr |-> told[<<n, a>>]])
<1>1. m[n] \in Seq(Entry) /\ n \in Name /\ Array(n) = m[n]
  BY DEF Types, ShapeInv, ArraysInv, IsArrays, Array
<1> DEFINE s == m[n]
           quality == [a \in Addr |-> told[<<n, a>>]]
<1>2. ASSUME NEW a \in ToldAddrs(n) PROVE TheEntry(n, a) \in Carried(s)
  <2>1. a \in Addr /\ told[<<n, a>>] # Unknown
    BY DEF ToldAddrs
  <2> QED
    BY <1>1, <2>1 DEF EntriesRight, ReportedInv, Entered
<1>3. ASSUME NEW i \in DOMAIN s PROVE s[i].addr \in ToldAddrs(n) /\ s[i] = TheEntry(n, s[i].addr)
  <2> DEFINE a == s[i].addr
  <2>1. s[i] \in Entry /\ s[i] \in Carried(s)
    BY <1>1 DEF Carried
  <2>2. a \in Addr /\ s[i].q \in Quality /\ s[i].q <= told[<<n, a>>]
    BY <1>1, <2>1 DEF Entry, EntriesRight, TruthfulInv, NotAhead
  <2>3. told[<<n, a>>] # Unknown
    <3>1. s[i].q \in Int /\ Unknown < s[i].q /\ Unknown \in Int
      BY <2>2, QualityValues
    <3> QED
      BY <2>2, <3>1
  <2>4. a \in ToldAddrs(n)
    BY <2>2, <2>3 DEF ToldAddrs
  <2>5. TheEntry(n, a) \in Carried(s)
    BY <1>2, <2>4
  <2>6. PICK j \in DOMAIN s : s[j] = TheEntry(n, a)
    BY <2>5 DEF Carried
  <2>7. s[j].addr = s[i].addr
    BY <2>6 DEF TheEntry
  <2>8. i = j
    BY <1>1, <2>7 DEF EntriesRight, DistinctInv, Distinct
  <2> QED
    BY <2>4, <2>6, <2>8
<1>4. {s[i] : i \in DOMAIN s} = {[addr |-> a, q |-> quality[a]] : a \in ToldAddrs(n)}
  <2>1. \A a \in ToldAddrs(n) : [addr |-> a, q |-> quality[a]] = TheEntry(n, a)
    BY DEF ToldAddrs, TheEntry
  <2>2. \A a \in ToldAddrs(n) : \E i \in DOMAIN s : s[i] = TheEntry(n, a)
    BY <1>2 DEF Carried
  <2> HIDE DEF s, quality
  <2> QED
    BY <1>3, <2>1, <2>2
<1>5. {s[i].addr : i \in DOMAIN s} = ToldAddrs(n)
  <2>1. ASSUME NEW a \in ToldAddrs(n) PROVE \E i \in DOMAIN s : s[i].addr = a
    <3>1. PICK i \in DOMAIN s : s[i] = TheEntry(n, a)
      BY <1>2 DEF Carried
    <3>2. s[i].addr = a
      BY <3>1 DEF TheEntry
    <3> QED
      BY <3>2
  <2> HIDE DEF s
  <2> QED
    BY <1>3, <2>1
<1>6. Len(s) = Cardinality(ToldAddrs(n))
  <2>1. Distinct(s)
    BY <1>1 DEF EntriesRight, DistinctInv
  <2> QED
    BY <1>1, <1>5, <2>1, LengthOfDistinct
<1> QED
  BY <1>4, <1>6 DEF Matches

\* When all that the verifier told has been tracked, the map holds each address told of
\* once, under its name, with the quality told last: for any number of updates and of
\* swaps between them, as long as no update met a swap in an array.
THEOREM MapHasTheNews == Spec => []MapFollowsNews
<1>1. Types /\ FlowInv /\ EntriesInv => MapFollowsNews
  <2> SUFFICES ASSUME Types, FlowInv, EntriesInv, tracker.at = "idle", news = << >>,
                      drawing.at # "swap", ~raced
               PROVE  /\ DOMAIN m = ToldNames
                      /\ \A n \in DOMAIN m :
                           Matches(m[n], n, ToldAddrs(n), [a \in Addr |-> told[<<n, a>>]])
    BY DEF MapFollowsNews, ToldNames, ToldAddrs
  <2>1. InFlight = {}
    BY NothingCarried DEF InFlight
  <2>2. DOMAIN m = ToldNames
    BY <2>1 DEF FlowInv, NamesInv
  <2>3. EntriesRight
    BY DEF EntriesInv
  <2> QED
    BY <2>1, <2>2, <2>3, ArraysComplete
<1> QED
  BY <1>1, TypesHold, FlowHolds, EntriesHold, PTL

\* When the command returns without an error, each name is on the screen with all
\* addresses the DNS had for it, each once and with its verdict, as long as no update
\* met a swap in an array.
THEOREM ReportIsRight == Spec => []ReportRightUnlessRaced
<1>1. Types /\ PhaseInv /\ FlowInv /\ EntriesInv /\ AllNamesShown => ReportRightUnlessRaced
  <2> SUFFICES ASSUME Types, PhaseInv, FlowInv, EntriesInv, AllNamesShown, ~raced,
                      main = "ok", NEW n \in wanted
               PROVE  /\ n \in DOMAIN screen
                      /\ Matches(screen[n], n, {a \in Addr : <<n, a>> \in answers}, verdict)
    BY DEF ReportRightUnlessRaced, ReportRight
  <2>0. /\ dug = answers /\ drawing.at = "wait" /\ InFlight = {}
        /\ asked = Sent /\ \A p \in asked : Ledger!Answered(p)
        /\ \A p \in Pair : told[p] # Unknown <=> p \in asked
        /\ DOMAIN screen = DOMAIN m /\ \A k \in DOMAIN m : screen[k] = m[k]
    BY AtTheEnd
  <2>1. n \in DOMAIN screen /\ n \in DOMAIN m /\ screen[n] = m[n] /\ n \in Name
    BY <2>0 DEF AllNamesShown, Types, DigTypes
  <2>2. EntriesRight
    BY DEF EntriesInv
  <2> DEFINE quality == [a \in Addr |-> told[<<n, a>>]]
             found == {a \in Addr : <<n, a>> \in answers}
  <2>3. Matches(m[n], n, ToldAddrs(n), quality)
    BY <2>0, <2>1, <2>2, ArraysComplete
  <2>4. ASSUME NEW a \in Addr PROVE told[<<n, a>>] # Unknown <=> <<n, a>> \in answers
    <3>1. <<n, a>> \in Pair /\ a # NoAddr
      BY <2>1, PairOf, NamedAddressAssumption
    <3>2. <<n, a>> \in Sent <=> <<n, a>> \in dug
      BY <3>1 DEF Sent
    <3> QED
      BY <2>0, <3>1, <3>2
  <2>5. ToldAddrs(n) = found
    BY <2>4 DEF ToldAddrs
  <2>6. ASSUME NEW a \in found PROVE quality[a] = verdict[a]
    <3>1. a \in Addr /\ <<n, a>> \in Pair /\ <<n, a>> \in asked /\ a # NoAddr
      BY <2>0, <2>1, <2>4, PairOf, NamedAddressAssumption
    <3>2. told[<<n, a>>] \in Final
      BY <2>0, <3>1 DEF Ledger!Answered
    <3>3. verdict[a] = told[<<n, a>>]
      BY <3>1, <3>2 DEF FlowInv, ToldInv
    <3> QED
      BY <3>1, <3>3
  <2> HIDE DEF quality, found
  <2>7. {[addr |-> a, q |-> quality[a]] : a \in found} = {[addr |-> a, q |-> verdict[a]] : a \in found}
    BY <2>6
  <2>8. Matches(m[n], n, found, verdict)
    BY <2>3, <2>5, <2>7 DEF Matches
  <2> QED
    BY <2>1, <2>8 DEF found
<1> QED
  BY <1>1, TypesHold, PhaseHolds, FlowHolds, EntriesHold, EveryNameShown, PTL

-----------------------------------------------------------------------------
(* What is drawn: the screen is never ahead of the arrays behind the         *)
(* renderer's slices, nor these of the map's.                                *)

\* Each entry of X is in Y, perhaps with a quality that came after its own.
Covered(X, Y) == \A e \in X : \E y \in Y : y.addr = e.addr /\ NotAhead(e.q, y.q)

LEMMA CoveredByMore ==
  ASSUME NEW X \in SUBSET Entry, NEW Y, X \subseteq Y
  PROVE  Covered(X, Y)
<1> SUFFICES ASSUME NEW e \in X PROVE \E y \in Y : y.addr = e.addr /\ NotAhead(e.q, y.q)
  BY DEF Covered
<1>1. e \in Y /\ NotAhead(e.q, e.q)
  BY NotAheadOrder DEF Entry
<1> QED
  BY <1>1

LEMMA CoveredByCovering ==
  ASSUME NEW X \in SUBSET Entry, NEW Y \in SUBSET Entry, NEW Z \in SUBSET Entry,
         Covered(X, Y), Covered(Y, Z)
  PROVE  Covered(X, Z)
<1> SUFFICES ASSUME NEW e \in X PROVE \E z \in Z : z.addr = e.addr /\ NotAhead(e.q, z.q)
  BY DEF Covered
<1>1. PICK y \in Y : y.addr = e.addr /\ NotAhead(e.q, y.q)
  BY DEF Covered
<1>2. PICK z \in Z : z.addr = y.addr /\ NotAhead(y.q, z.q)
  BY DEF Covered
<1>3. e.q \in Quality /\ y.q \in Quality /\ z.q \in Quality
  BY DEF Entry
<1> QED
  BY <1>1, <1>2, <1>3, NotAheadOrder

\* An array whose entries went ahead where they are.
LEMMA CoveredInPlace ==
  ASSUME NEW s \in Seq(Entry), NEW t \in Seq(Entry), Len(s) <= Len(t),
         \A j \in 1..Len(s) : t[j].addr = s[j].addr /\ NotAhead(s[j].q, t[j].q)
  PROVE  Covered(Carried(s), Carried(t))
<1>1. DOMAIN s = 1..Len(s) /\ DOMAIN s \subseteq DOMAIN t
  OBVIOUS
<1>2. \A j \in DOMAIN s : t[j] \in Carried(t)
  BY <1>1 DEF Carried
<1> QED
  BY <1>1, <1>2 DEF Covered, Carried

\* What sorting ends with.
Ascending(array) == \A i, j \in DOMAIN array : i < j => array[i].addr < array[j].addr

LEMMA Sorted ==
  ASSUME NEW s \in Seq(Entry), Distinct(s), Inversions(s) = {}
  PROVE  Ascending(s)
<1>1. DOMAIN s = 1..Len(s) /\ Len(s) \in Nat
  OBVIOUS
<1>2. \A i \in 1..Len(s) : s[i].addr \in Int
  <2>1. \A i \in 1..Len(s) : s[i] \in Entry
    OBVIOUS
  <2> QED
    BY <2>1, AddrMapAssumption DEF Entry
<1>3. ASSUME NEW i \in 1..(Len(s) - 1) PROVE s[i].addr < s[i + 1].addr
  <2>1. i \in 1..Len(s) /\ i + 1 \in 1..Len(s) /\ i # i + 1
    BY <1>1
  <2>2. s[i].addr # s[i + 1].addr
    BY <1>1, <2>1 DEF Distinct
  <2>3. ~(s[i].addr > s[i + 1].addr)
    BY <1>3 DEF Inversions
  <2> QED
    BY <1>2, <2>1, <2>2, <2>3
<1> SUFFICES ASSUME NEW i \in 1..Len(s),
                    {j \in 1..Len(s) : i < j /\ ~(s[i].addr < s[j].addr)} # {}
             PROVE  FALSE
  BY <1>1 DEF Ascending
<1> DEFINE S == {j \in 1..Len(s) : i < j /\ ~(s[i].addr < s[j].addr)}
<1>4. PICK j \in S : \A k \in S : j <= k
  <2>1. S \in SUBSET Nat /\ S # {}
    BY <1>1
  <2> HIDE DEF S
  <2> QED
    BY <2>1, LeastOfNats
<1>5. j - 1 \in 1..Len(s) /\ j - 1 \notin S /\ j - 1 \in 1..(Len(s) - 1) /\ j - 1 + 1 = j
  BY <1>1, <1>4
<1>6. s[j - 1].addr < s[j].addr
  BY <1>3, <1>5
<1>7. i = j - 1 \/ s[i].addr < s[j - 1].addr
  BY <1>1, <1>4, <1>5
<1> QED
  BY <1>2, <1>4, <1>5, <1>6, <1>7

\* The array behind a slice of the renderer, with the entry that it holds put back.
Slice(n) ==
  IF drawing.at = "swap" /\ drawing.name = n
    THEN [Seen(n) EXCEPT ![drawing.idx + 1] = drawing.tmp[1]]
    ELSE Seen(n)

LEMMA SliceType ==
  ASSUME ShapeInv, NEW n \in DOMAIN view
  PROVE  /\ n \in DOMAIN m /\ view[n] \in Nat
         /\ Slice(n) \in Seq(Entry) /\ Len(Slice(n)) = view[n]
<1>1. Seen(n) \in Seq(Entry) /\ Len(Seen(n)) = view[n] /\ view[n] \in Nat
  BY SeenType
<1>2. n \in DOMAIN m
  BY DEF ShapeInv, ArraysInv
<1>3. CASE drawing.at = "swap" /\ drawing.name = n
  <2>1. drawing.idx \in 1..(view[n] - 1) /\ drawing.tmp[1] \in Entry
    BY <1>3 DEF ShapeInv, DrawingInv
  <2>2. drawing.idx + 1 \in 1..Len(Seen(n))
    BY <1>1, <2>1
  <2>3. [Seen(n) EXCEPT ![drawing.idx + 1] = drawing.tmp[1]] \in Seq(Entry)
        /\ Len([Seen(n) EXCEPT ![drawing.idx + 1] = drawing.tmp[1]]) = Len(Seen(n))
    BY <1>1, <2>1, <2>2, StoredAt
  <2> QED
    BY <1>1, <1>2, <1>3, <2>3 DEF Slice
<1>4. CASE ~(drawing.at = "swap" /\ drawing.name = n)
  BY <1>1, <1>2, <1>4 DEF Slice
<1> QED
  BY <1>3, <1>4

\* As long as the map's array has not moved, a slice is its beginning.
LEMMA SliceOfArray ==
  ASSUME ShapeInv, NEW n \in DOMAIN view, n \notin DOMAIN old
  PROVE  /\ \A i \in 1..view[n] : Slice(n)[i] = Array(n)[i]
         /\ Carried(Slice(n)) \subseteq Carried(Array(n))
         /\ Distinct(Array(n)) => Distinct(Slice(n))
<1>1. n \in DOMAIN m /\ m[n] \in Seq(Entry) /\ view[n] \in 0..Len(m[n])
  BY DEF ShapeInv, ArraysInv, IsArrays
<1>2. Seen(n) \in Seq(Entry) /\ Len(Seen(n)) = view[n]
      /\ \A i \in 1..view[n] : Seen(n)[i] = m[n][i]
  BY <1>1, Sliced DEF Seen
<1>3. ASSUME NEW i \in 1..view[n] PROVE Slice(n)[i] = Array(n)[i]
  <2>1. i \in DOMAIN Seen(n) /\ i \in DOMAIN m[n]
    BY <1>1, <1>2
  <2>2. CASE drawing.at = "swap" /\ drawing.name = n
    BY <1>2, <2>1, <2>2 DEF Slice, Array
  <2>3. CASE ~(drawing.at = "swap" /\ drawing.name = n)
    BY <1>2, <2>3 DEF Slice, Array
  <2> QED
    BY <2>2, <2>3
<1>4. DOMAIN Slice(n) = 1..view[n] /\ DOMAIN Slice(n) \subseteq DOMAIN Array(n)
  <2>1. Slice(n) \in Seq(Entry) /\ Len(Slice(n)) = view[n]
    BY SliceType
  <2>2. Array(n) \in Seq(Entry) /\ Len(Array(n)) = Len(m[n])
    BY <1>1, ArrayType
  <2> QED
    BY <1>1, <2>1, <2>2
<1>5. Carried(Slice(n)) \subseteq Carried(Array(n))
  BY <1>3, <1>4 DEF Carried
<1>6. Distinct(Array(n)) => Distinct(Slice(n))
  BY <1>3, <1>4 DEF Distinct
<1> QED
  BY <1>3, <1>5, <1>6

\* What a store of the sort changes of what the renderer sees.
LEMMA StoreSeen ==
  ASSUME ShapeInv, NEW n \in DOMAIN view, NEW i \in 1..view[n], NEW e \in Entry,
         Store(n, i, e), view' = view
  PROVE  /\ Seen(n)' = [Seen(n) EXCEPT ![i] = e]
         /\ \A k \in DOMAIN view : k # n => Seen(k)' = Seen(k)
<1>1. n \in DOMAIN m /\ m[n] \in Seq(Entry) /\ view[n] \in 0..Len(m[n])
      /\ DOMAIN view \subseteq DOMAIN m
  BY DEF ShapeInv, ArraysInv, IsArrays
<1>2. CASE n \in DOMAIN old
  <2>1. m' = m /\ DOMAIN old' = DOMAIN old /\ old'[n] = [old[n] EXCEPT ![i] = e]
        /\ \A k \in DOMAIN old : k # n => old'[k] = old[k]
    BY <1>2 DEF Store
  <2> QED
    BY <1>2, <2>1 DEF Seen
<1>3. CASE n \notin DOMAIN old
  <2>1. old' = old /\ m'[n] = [m[n] EXCEPT ![i] = e]
        /\ \A k \in DOMAIN m : k # n => m'[k] = m[k]
    BY <1>1, <1>3 DEF Store
  <2>2. Seen(n) = SubSeq(m[n], 1, view[n]) /\ Seen(n)' = SubSeq(m'[n], 1, view[n])
    BY <1>3, <2>1 DEF Seen
  <2> DEFINE s == m[n]
             t == [s EXCEPT ![i] = e]
             u == SubSeq(s, 1, view[n])
             v == [u EXCEPT ![i] = e]
             w == SubSeq(t, 1, view[n])
  <2>3. i \in 1..Len(s) /\ s \in Seq(Entry)
    BY <1>1
  <2>4. t \in Seq(Entry) /\ Len(t) = Len(s) /\ t[i] = e
        /\ \A j \in 1..Len(s) : j # i => t[j] = s[j]
    BY <2>3, StoredAt
  <2>5. u \in Seq(Entry) /\ Len(u) = view[n] /\ \A j \in 1..view[n] : u[j] = s[j]
    BY <1>1, Sliced
  <2>6. m'[n] = t /\ Seen(n) = u
    BY <2>1, <2>2
  <2> HIDE DEF t, u
  <2>7. v \in Seq(Entry) /\ Len(v) = view[n] /\ v[i] = e
        /\ \A j \in 1..view[n] : j # i => v[j] = u[j]
    BY <2>5, StoredAt
  <2>8. w \in Seq(Entry) /\ Len(w) = view[n] /\ \A j \in 1..view[n] : w[j] = t[j]
    BY <1>1, <2>4, Sliced
  <2>9. w = v
    <3> HIDE DEF v, w
    <3>1. \A j \in 1..view[n] : w[j] = v[j]
      BY <1>1, <2>4, <2>5, <2>7, <2>8
    <3> QED
      BY <2>7, <2>8, <3>1
  <2>10. Seen(n)' = [Seen(n) EXCEPT ![i] = e]
    BY <2>2, <2>6, <2>9
  <2> QED
    BY <1>1, <2>1, <2>10 DEF Seen
<1> QED
  BY <1>2, <1>3

\* A swap leaves in the arrays behind the slices what they held.
SlicesStay ==
  \A n \in DOMAIN view : /\ Carried(Slice(n)') = Carried(Slice(n))
                         /\ Distinct(Slice(n)) => Distinct(Slice(n)')

LEMMA SwapRightKeepsSlices ==
  ASSUME ShapeInv, SwapRight
  PROVE  SlicesStay
<1>1. /\ drawing.at = "swap" /\ drawing.name \in DOMAIN view
      /\ drawing.idx + 1 \in 1..view[drawing.name] /\ drawing.tmp[1] \in Entry
      /\ Store(drawing.name, drawing.idx + 1, drawing.tmp[1]) /\ view' = view
  BY SwapRightEffect
<1>2. drawing'.at = "sort"
  BY DEF SwapRight, Waiting
<1> PICK n, i : n = drawing.name /\ i = drawing.idx + 1
  OBVIOUS
<1>3. /\ Seen(n)' = [Seen(n) EXCEPT ![i] = drawing.tmp[1]]
      /\ \A k \in DOMAIN view : k # n => Seen(k)' = Seen(k)
  BY <1>1, StoreSeen
<1>4. ASSUME NEW k \in DOMAIN view PROVE Slice(k)' = Slice(k)
  <2>1. CASE k = n
    <3>1. Slice(n) = [Seen(n) EXCEPT ![i] = drawing.tmp[1]] /\ Slice(n)' = Seen(n)'
      BY <1>1, <1>2 DEF Slice
    <3> QED
      BY <1>3, <2>1, <3>1
  <2>2. CASE k # n
    <3>1. Slice(k) = Seen(k) /\ Slice(k)' = Seen(k)'
      BY <1>1, <1>2, <2>2 DEF Slice
    <3> QED
      BY <1>3, <2>2, <3>1
  <2> QED
    BY <2>1, <2>2
<1> QED
  BY <1>4 DEF SlicesStay

LEMMA SwapLeftKeepsSlices ==
  ASSUME ShapeInv, SwapLeft
  PROVE  SlicesStay
<1> PICK n \in DOMAIN view : \E i \in 1..(view[n] - 1) :
      /\ drawing' = [at |-> "swap", name |-> n, idx |-> i, tmp |-> <<Seen(n)[i]>>]
      /\ Seen(n)[i] \in Entry /\ Seen(n)[i + 1] \in Entry
      /\ i \in 1..view[n] /\ Store(n, i, Seen(n)[i + 1]) /\ drawing.at = "sort"
      /\ view' = view
  BY SwapLeftEffect
<1>1. PICK i \in 1..(view[n] - 1) :
      /\ drawing' = [at |-> "swap", name |-> n, idx |-> i, tmp |-> <<Seen(n)[i]>>]
      /\ Seen(n)[i] \in Entry /\ Seen(n)[i + 1] \in Entry
      /\ i \in 1..view[n] /\ Store(n, i, Seen(n)[i + 1]) /\ drawing.at = "sort"
      /\ view' = view
  OBVIOUS
<1>2. /\ Seen(n)' = [Seen(n) EXCEPT ![i] = Seen(n)[i + 1]]
      /\ \A k \in DOMAIN view : k # n => Seen(k)' = Seen(k)
  BY <1>1, StoreSeen
<1>3. drawing'.at = "swap" /\ drawing'.name = n /\ drawing'.idx = i
      /\ drawing'.tmp[1] = Seen(n)[i] /\ \A k : Slice(k) = Seen(k)
  BY <1>1 DEF Slice
<1>4. ASSUME NEW k \in DOMAIN view, k # n PROVE Slice(k)' = Slice(k)
  BY <1>2, <1>3, <1>4 DEF Slice
<1>5. Carried(Slice(n)') = Carried(Slice(n)) /\ (Distinct(Slice(n)) => Distinct(Slice(n)'))
  <2> DEFINE s == Seen(n)
             u == [s EXCEPT ![i] = s[i + 1]]
             t == [u EXCEPT ![i + 1] = s[i]]
  <2>1. s \in Seq(Entry) /\ Len(s) = view[n] /\ view[n] \in Nat
    BY SeenType
  <2>2. i \in 1..(Len(s) - 1) /\ i \in 1..Len(s) /\ i + 1 \in 1..Len(s)
    BY <1>1, <2>1
  <2>3. s[i] \in Entry /\ s[i + 1] \in Entry
    BY <1>1
  <2>4. Slice(n)' = t /\ Slice(n) = s
    BY <1>2, <1>3 DEF Slice
  <2> HIDE DEF s
  <2>5. u \in Seq(Entry) /\ Len(u) = Len(s) /\ u[i] = s[i + 1]
        /\ \A j \in 1..Len(s) : j # i => u[j] = s[j]
    BY <2>1, <2>2, <2>3, StoredAt
  <2> HIDE DEF u
  <2>6. t \in Seq(Entry) /\ Len(t) = Len(u) /\ t[i + 1] = s[i]
        /\ \A j \in 1..Len(u) : j # i + 1 => t[j] = u[j]
    BY <2>2, <2>3, <2>5, StoredAt
  <2> HIDE DEF t
  <2>7. /\ Len(t) = Len(s) /\ t[i] = s[i + 1] /\ t[i + 1] = s[i]
        /\ \A j \in 1..Len(s) : j # i /\ j # i + 1 => t[j] = s[j]
    BY <2>2, <2>5, <2>6
  <2>8. Carried(t) = Carried(s) /\ (Distinct(s) => Distinct(t))
    BY <2>1, <2>2, <2>6, <2>7, Swapped
  <2> QED
    BY <2>4, <2>8
<1> QED
  BY <1>4, <1>5 DEF SlicesStay

\* No step takes an entry from the map, nor from what the renderer has of it before it
\* draws; the arrays that the map has left behind do not change at all.
ArraysGrow ==
  \A n \in DOMAIN m : n \in DOMAIN m' /\ Covered(Carried(Array(n)), Carried(Array(n)'))
SlicesGrow ==
  /\ view' = view
  /\ \A n \in DOMAIN view :
       /\ Covered(Carried(Slice(n)), Carried(Slice(n)'))
       /\ n \in DOMAIN old' => /\ Carried(Slice(n)') = Carried(Slice(n))
                               /\ Distinct(Slice(n)) => Distinct(Slice(n)')

LEMMA StayingGrows ==
  ASSUME ShapeInv, SlicesStay, view' = view
  PROVE  SlicesGrow
<1>1. ASSUME NEW n \in DOMAIN view PROVE Covered(Carried(Slice(n)), Carried(Slice(n)'))
  <2>1. Carried(Slice(n)) \in SUBSET Entry
    <3>1. Slice(n) \in Seq(Entry)
      BY SliceType
    <3> QED
      BY <3>1, CarriedType
  <2>2. Carried(Slice(n)') = Carried(Slice(n))
    BY DEF SlicesStay
  <2> QED
    BY <2>1, <2>2, CoveredByMore
<1> QED
  BY <1>1 DEF SlicesGrow, SlicesStay

LEMMA HoldingGrows ==
  ASSUME ShapeInv, DOMAIN m \subseteq DOMAIN m',
         \A n \in DOMAIN m : Carried(Array(n)) \subseteq Carried(Array(n)')
  PROVE  ArraysGrow
<1>1. ASSUME NEW n \in DOMAIN m PROVE Covered(Carried(Array(n)), Carried(Array(n)'))
  <2>1. Carried(Array(n)) \in SUBSET Entry
    <3>1. Array(n) \in Seq(Entry)
      BY ArrayType
    <3> QED
      BY <3>1, CarriedType
  <2> QED
    BY <2>1, CoveredByMore
<1> QED
  BY <1>1 DEF ArraysGrow

\* A quality that Update writes comes after the one that was there.
LEMMA WriteRaises ==
  ASSUME Types, NewsInv, EntriesRight, Write, ~Colliding
  PROVE  \E n \in DOMAIN m :
           /\ m[n] \in Seq(Entry) /\ m'[n] \in Seq(Entry) /\ Len(m'[n]) = Len(m[n])
           /\ \A j \in 1..Len(m[n]) : /\ m'[n][j].addr = m[n][j].addr
                                      /\ NotAhead(m[n][j].q, m'[n][j].q)
           /\ DOMAIN m' = DOMAIN m /\ \A k \in DOMAIN m : k # n => m'[k] = m[k]
           /\ UNCHANGED <<view, old, drawing, screen>>
           /\ ~(drawing.at = "swap" /\ drawing.name = n /\ n \notin DOMAIN old)
<1> PICK n, a, i : n = tracker.news.name /\ a = tracker.news.addr /\ i = tracker.idx
  OBVIOUS
<1> DEFINE s == m[n]
           e == [addr |-> s[i].addr, q |-> tracker.news.q]
<1>0. ShapeInv /\ HalfInv
  BY DEF Types, EntriesRight
<1>1. /\ tracker.news \in News /\ n \in DOMAIN m /\ i \in 1..Len(s) /\ e \in Entry
      /\ DOMAIN m' = DOMAIN m /\ \A k \in DOMAIN m : k # n => m'[k] = m[k]
      /\ m'[n] = [s EXCEPT ![i] = e]
      /\ UNCHANGED <<view, old, drawing, screen>>
  BY <1>0, WriteEffect
<1>2. s[i].addr = a /\ s[i].q < tracker.news.q
  BY DEF Write, EntriesRight, FoundInv
<1>3. s \in Seq(Entry) /\ n \in Name
  BY <1>0, <1>1 DEF ShapeInv, ArraysInv, IsArrays
<1>4. s[i] \in Entry
  BY <1>1, <1>3
<1>5. NotAhead(tracker.news.q, told[<<n, a>>])
  <2>1. tracker.news \in InFlight
    BY DEF Write, InFlight
  <2> QED
    BY <2>1 DEF NewsInv, Pr
<1>6. NotAhead(s[i].q, told[<<n, a>>])
  <2>1. i \in DOMAIN s
    BY <1>1, <1>3
  <2>2. s[i] \in Carried(Array(n))
    BY <1>0, <1>1, <2>1, SeenIsThere
  <2> QED
    BY <1>1, <1>2, <2>2 DEF EntriesRight, TruthfulInv
<1>7. NotAhead(s[i].q, tracker.news.q)
  <2>1. s[i].q \in Quality /\ tracker.news.q \in Quality
    BY <1>1, <1>4, NewsParts DEF Entry
  <2>2. told[<<n, a>>] \in Quality \cup {Unknown}
    <3>1. <<n, a>> \in Pair
      BY <1>1, NewsParts
    <3> QED
      BY <3>1 DEF Types, VerifyTypes
  <2>3. s[i].q \notin Final
    BY <1>2, <1>5, <1>6, <2>1, <2>2, QualityValues DEF NotAhead
  <2> QED
    BY <1>2, <2>1, <2>3, QualityValues DEF NotAhead
<1>8. ~(drawing.at = "swap" /\ drawing.name = n /\ n \notin DOMAIN old)
  BY DEF Write, Colliding
<1>9. e.addr = s[i].addr /\ e.q = tracker.news.q
  OBVIOUS
<1> HIDE DEF e, s
<1>10. m'[n] \in Seq(Entry) /\ Len(m'[n]) = Len(s) /\ m'[n][i] = e
       /\ \A j \in 1..Len(s) : j # i => m'[n][j] = s[j]
  BY <1>1, <1>3, StoredAt
<1>11. ASSUME NEW j \in 1..Len(s)
       PROVE  m'[n][j].addr = s[j].addr /\ NotAhead(s[j].q, m'[n][j].q)
  <2>1. CASE j = i
    BY <1>7, <1>9, <1>10, <2>1
  <2>2. CASE j # i
    <3>1. s[j] \in Entry
      BY <1>3
    <3>2. s[j].q \in Quality
      BY <3>1 DEF Entry
    <3> QED
      BY <1>10, <2>2, <3>2, NotAheadOrder
  <2> QED
    BY <2>1, <2>2
<1> QED
  BY <1>1, <1>3, <1>8, <1>10, <1>11 DEF s

LEMMA WritingGrows ==
  ASSUME Types, NewsInv, EntriesRight, Write, ~Colliding
  PROVE  ArraysGrow /\ SlicesGrow
<1>0. ShapeInv
  BY DEF Types
<1> PICK n \in DOMAIN m :
      /\ m[n] \in Seq(Entry) /\ m'[n] \in Seq(Entry) /\ Len(m'[n]) = Len(m[n])
      /\ \A j \in 1..Len(m[n]) : /\ m'[n][j].addr = m[n][j].addr
                                 /\ NotAhead(m[n][j].q, m'[n][j].q)
      /\ DOMAIN m' = DOMAIN m /\ \A k \in DOMAIN m : k # n => m'[k] = m[k]
      /\ UNCHANGED <<view, old, drawing, screen>>
      /\ ~(drawing.at = "swap" /\ drawing.name = n /\ n \notin DOMAIN old)
  BY WriteRaises
<1>1. ArraysGrow
  <2>1. ASSUME NEW k \in DOMAIN m, k # n PROVE Covered(Carried(Array(k)), Carried(Array(k)'))
    <3>1. Array(k)' = Array(k) /\ Array(k) \in Seq(Entry)
      BY <1>0, <2>1, ArrayType DEF Array
    <3>2. Carried(Array(k)) \in SUBSET Entry
      BY <3>1, CarriedType
    <3> QED
      BY <3>1, <3>2, CoveredByMore
  <2>2. Covered(Carried(Array(n)), Carried(Array(n)'))
    <3>1. Array(n) = m[n] /\ Array(n)' = m'[n]
      BY DEF Array
    <3>2. Covered(Carried(m[n]), Carried(m'[n]))
      <4> PICK s, t : s = m[n] /\ t = m'[n]
        OBVIOUS
      <4>1. s \in Seq(Entry) /\ t \in Seq(Entry) /\ Len(s) <= Len(t)
            /\ \A j \in 1..Len(s) : t[j].addr = s[j].addr /\ NotAhead(s[j].q, t[j].q)
        OBVIOUS
      <4>2. Covered(Carried(s), Carried(t))
        BY <4>1, CoveredInPlace
      <4> QED
        BY <4>2
    <3> QED
      BY <3>1, <3>2
  <2> QED
    BY <2>1, <2>2 DEF ArraysGrow
<1>2. ASSUME NEW k \in DOMAIN view, ~(k = n /\ n \notin DOMAIN old)
      PROVE  Slice(k)' = Slice(k)
  <2>1. k \in DOMAIN m
    BY <1>0 DEF ShapeInv, ArraysInv
  <2>2. Seen(k)' = Seen(k)
    BY <1>2, <2>1 DEF Seen
  <2> QED
    BY <2>2 DEF Slice
<1>3. ASSUME n \in DOMAIN view, n \notin DOMAIN old
      PROVE  Covered(Carried(Slice(n)), Carried(Slice(n)'))
  <2> PICK s, t, k : s = m[n] /\ t = m'[n] /\ k = view[n]
    OBVIOUS
  <2>1. k \in 0..Len(s) /\ s \in Seq(Entry) /\ t \in Seq(Entry) /\ k \in 0..Len(t)
    BY <1>0, <1>3 DEF ShapeInv, ArraysInv
  <2>2. Slice(n) = SubSeq(s, 1, k) /\ Slice(n)' = SubSeq(t, 1, k)
    BY <1>3 DEF Slice, Seen
  <2>3. /\ SubSeq(s, 1, k) \in Seq(Entry) /\ Len(SubSeq(s, 1, k)) = k
        /\ SubSeq(t, 1, k) \in Seq(Entry) /\ Len(SubSeq(t, 1, k)) = k
        /\ \A j \in 1..k : SubSeq(s, 1, k)[j] = s[j] /\ SubSeq(t, 1, k)[j] = t[j]
    BY <2>1, Sliced
  <2>4. \A j \in 1..k : t[j].addr = s[j].addr /\ NotAhead(s[j].q, t[j].q)
    BY <2>1
  <2> DEFINE u == SubSeq(s, 1, k)
             v == SubSeq(t, 1, k)
  <2> HIDE DEF u, v
  <2>5. u \in Seq(Entry) /\ v \in Seq(Entry) /\ Len(u) <= Len(v)
        /\ \A j \in 1..Len(u) : v[j].addr = u[j].addr /\ NotAhead(u[j].q, v[j].q)
    BY <2>1, <2>3, <2>4 DEF u, v
  <2>6. Covered(Carried(u), Carried(v))
    BY <2>5, CoveredInPlace
  <2> QED
    BY <2>2, <2>6 DEF u, v
<1>4. ASSUME NEW k \in DOMAIN view PROVE Covered(Carried(Slice(k)), Carried(Slice(k)'))
  <2>1. CASE k = n /\ n \notin DOMAIN old
    BY <1>3, <2>1
  <2>2. CASE ~(k = n /\ n \notin DOMAIN old)
    <3>1. Slice(k)' = Slice(k) /\ Slice(k) \in Seq(Entry)
      BY <1>0, <1>2, <2>2, SliceType
    <3>2. Carried(Slice(k)) \in SUBSET Entry
      BY <3>1, CarriedType
    <3> QED
      BY <3>1, <3>2, CoveredByMore
  <2> QED
    BY <2>1, <2>2
<1>5. SlicesGrow
  BY <1>2, <1>4 DEF SlicesGrow
<1> QED
  BY <1>1, <1>5

LEMMA AppendingGrows ==
  ASSUME ShapeInv, AppendNew, ~Colliding
  PROVE  ArraysGrow /\ SlicesGrow
<1> PICK n, e : n = tracker.news.name /\ e = [addr |-> tracker.news.addr, q |-> tracker.news.q]
  OBVIOUS
<1>1. /\ n \in DOMAIN m /\ e \in Entry
      /\ DOMAIN m' = DOMAIN m /\ \A k \in DOMAIN m : k # n => m'[k] = m[k]
      /\ m'[n] = Append(m[n], e)
      /\ \/ old' = old
         \/ /\ n \in DOMAIN view /\ n \notin DOMAIN old
            /\ DOMAIN old' = DOMAIN old \cup {n}
            /\ \A k \in DOMAIN old : old'[k] = old[k]
            /\ old'[n] = SubSeq(m[n], 1, view[n])
      /\ UNCHANGED <<view, drawing, screen>>
  BY AppendEffect
<1>2. ~(drawing.at = "swap" /\ drawing.name = n /\ n \notin DOMAIN old)
  BY AppendsAlone
<1>3. m[n] \in Seq(Entry)
  BY <1>1 DEF ShapeInv, ArraysInv, IsArrays
<1>4. \A k \in DOMAIN m : k # n => Array(k)' = Array(k)
  <2>1. ASSUME NEW k \in DOMAIN m, k # n PROVE Array(k)' = Array(k)
    <3>1. m'[k] = m[k] /\ drawing' = drawing /\ (k \in DOMAIN old' <=> k \in DOMAIN old)
      BY <1>1, <2>1
    <3> QED
      BY <3>1 DEF Array
  <2> QED
    BY <2>1
<1>5. Array(n) = m[n] /\ Array(n)' = m'[n]
  <2>1. ~(drawing'.at = "swap" /\ drawing'.name = n /\ n \notin DOMAIN old')
    BY <1>1, <1>2
  <2> QED
    BY <1>2, <2>1 DEF Array
<1>6. Carried(m[n]) \subseteq Carried(m'[n])
  <2> PICK s : s = m[n]
    OBVIOUS
  <2>1. Carried(Append(s, e)) = Carried(s) \cup {e}
    BY <1>1, <1>3, SendingAdds
  <2> QED
    BY <1>1, <2>1
<1>7. \A k \in DOMAIN m : Carried(Array(k)) \subseteq Carried(Array(k)')
  BY <1>4, <1>5, <1>6
<1>8. ArraysGrow
  BY <1>1, <1>7, HoldingGrows
<1>9. ASSUME NEW k \in DOMAIN view, k # n PROVE Slice(k)' = Slice(k)
  <2>1. k \in DOMAIN m
    BY DEF ShapeInv, ArraysInv
  <2>2. m'[k] = m[k] /\ drawing' = drawing /\ view' = view
        /\ (k \in DOMAIN old' <=> k \in DOMAIN old)
        /\ (k \in DOMAIN old => old'[k] = old[k])
    BY <1>1, <1>9, <2>1
  <2>3. Seen(k)' = Seen(k)
    BY <2>2 DEF Seen
  <2> QED
    BY <2>2, <2>3 DEF Slice
<1>10. ASSUME n \in DOMAIN view PROVE Slice(n)' = Slice(n)
  <2>1. Seen(n)' = Seen(n)
    <3>1. CASE n \in DOMAIN old
      BY <1>1, <3>1 DEF Seen
    <3>2. CASE n \notin DOMAIN old /\ n \in DOMAIN old'
      BY <1>1, <3>2 DEF Seen
    <3>3. CASE n \notin DOMAIN old /\ n \notin DOMAIN old'
      <4> PICK s, k : s = m[n] /\ k = view[n]
        OBVIOUS
      <4>1. s \in Seq(Entry) /\ k \in 0..Len(s) /\ k \in 0..(Len(s) + 1)
        BY <1>3, <1>10 DEF ShapeInv, ArraysInv
      <4> DEFINE t == Append(s, e)
                 u == SubSeq(s, 1, k)
                 v == SubSeq(t, 1, k)
      <4>2. t \in Seq(Entry) /\ Len(t) = Len(s) + 1 /\ \A j \in 1..Len(s) : t[j] = s[j]
        BY <1>1, <4>1
      <4> HIDE DEF t
      <4>3. u \in Seq(Entry) /\ Len(u) = k /\ \A j \in 1..k : u[j] = s[j]
        BY <4>1, Sliced
      <4>4. v \in Seq(Entry) /\ Len(v) = k /\ \A j \in 1..k : v[j] = t[j]
        BY <4>1, <4>2, Sliced
      <4>5. Seen(n) = u /\ Seen(n)' = v
        BY <1>1, <3>3 DEF Seen, t
      <4> HIDE DEF u, v
      <4>6. u = v
        <5>1. \A j \in 1..k : u[j] = v[j]
          BY <4>1, <4>2, <4>3, <4>4
        <5> QED
          BY <4>3, <4>4, <5>1
      <4> QED
        BY <4>5, <4>6
    <3> QED
      BY <3>1, <3>2, <3>3
  <2> QED
    BY <1>1, <2>1 DEF Slice
<1>11. SlicesStay
  <2>1. \A k \in DOMAIN view : Slice(k)' = Slice(k)
    BY <1>9, <1>10
  <2> QED
    BY <2>1 DEF SlicesStay
<1> QED
  BY <1>1, <1>8, <1>11, StayingGrows

\* The same for every step but those that begin and end a drawing.
LEMMA Growing ==
  ASSUME Types, NewsInv, EntriesRight, [Next]_vars, ~Colliding
  PROVE  ArraysGrow /\ (SlicesGrow \/ (drawing.at = "wait" /\ Get) \/ Show)
<1>0. ShapeInv /\ ArraysInv
  BY DEF Types, ShapeInv
<1>1. CASE UNCHANGED <<m, view, old, drawing>>
  <2>1. \A k : Array(k)' = Array(k) /\ Slice(k)' = Slice(k)
    <3>1. \A k : Seen(k)' = Seen(k)
      BY <1>1 DEF Seen
    <3> QED
      BY <1>1, <3>1 DEF Array, Slice
  <2>2. SlicesStay
    BY <2>1 DEF SlicesStay
  <2> QED
    BY <1>0, <1>1, <2>1, <2>2, HoldingGrows, StayingGrows
<1>2. CASE TrackReads
  BY <1>1, <1>2, ReadsEffect
<1>3. CASE NewName
  <2>1. /\ DOMAIN m' = DOMAIN m \cup {tracker.news.name}
        /\ \A k \in DOMAIN m : m'[k] = m[k]
        /\ UNCHANGED <<view, old, drawing, screen>>
    BY <1>0, <1>3, NewNameEffect
  <2>2. \A k \in DOMAIN m : Array(k)' = Array(k)
    BY <2>1 DEF Array
  <2>3. ASSUME NEW k \in DOMAIN view PROVE Slice(k)' = Slice(k)
    <3>1. m'[k] = m[k]
      BY <1>0, <2>1 DEF ArraysInv
    <3>2. Seen(k)' = Seen(k)
      BY <2>1, <3>1 DEF Seen
    <3> QED
      BY <2>1, <3>2 DEF Slice
  <2>4. SlicesStay
    BY <2>3 DEF SlicesStay
  <2> QED
    BY <1>0, <2>1, <2>2, <2>4, HoldingGrows, StayingGrows
<1>4. CASE Search \/ Look
  BY <1>1, <1>4 DEF Search, Look
<1>5. CASE Write
  BY <1>5, WritingGrows
<1>6. CASE AppendNew
  BY <1>0, <1>6, AppendingGrows
<1>7. CASE (drawing.at = "wait" /\ Get) \/ Render
  <2>1. DOMAIN m' = DOMAIN m
    BY <1>7, DrawingFrame
  <2>2. \A k \in DOMAIN m : Carried(Array(k)') = Carried(Array(k))
    BY <1>0, <1>7, DrawingKeepsEntries
  <2>3. ArraysGrow
    BY <1>0, <2>1, <2>2, HoldingGrows
  <2>4. CASE SwapLeft \/ SwapRight
    <3>1. SlicesStay
      BY <1>0, <2>4, SwapLeftKeepsSlices, SwapRightKeepsSlices
    <3>2. view' = view
      BY <2>4 DEF SwapLeft, SwapRight
    <3> QED
      BY <1>0, <2>3, <3>1, <3>2, StayingGrows
  <2> QED
    BY <1>7, <2>3, <2>4 DEF Render
<1> QED
  BY MapFrame, <1>1, <1>2, <1>3, <1>4, <1>5, <1>6, <1>7 DEF mapVars, Update

\* No address is twice in an array that the map has left behind, and what is in it is in
\* the map, perhaps with a later quality.
LeftBehindInv ==
  \A n \in DOMAIN old : Distinct(Slice(n)) /\ Covered(Carried(Slice(n)), Carried(Array(n)))

\* What is on the screen is in order, and in the map, and in what is to be drawn next.
ShownInv ==
  \A n \in DOMAIN screen :
    /\ n \in DOMAIN m /\ Ascending(screen[n])
    /\ Covered(Carried(screen[n]), Carried(Array(n)))
    /\ drawing.at # "wait" =>
         n \in DOMAIN view /\ Covered(Carried(screen[n]), Carried(Slice(n)))

DrawnRight == LeftBehindInv /\ ShownInv
DrawnInv == ~raced => DrawnRight

LEMMA DrawnStart == Init => DrawnInv
BY EmptyParts DEF Init, MapInit, DrawnInv, DrawnRight, LeftBehindInv, ShownInv

\* What holds of the arrays left behind holds of all that the renderer has.
LEMMA SlicesRight ==
  ASSUME ShapeInv, DistinctInv, LeftBehindInv, NEW n \in DOMAIN view
  PROVE  /\ Distinct(Slice(n)) /\ Covered(Carried(Slice(n)), Carried(Array(n)))
         /\ n \in DOMAIN m /\ Slice(n) \in Seq(Entry)
         /\ Carried(Slice(n)) \in SUBSET Entry /\ Carried(Array(n)) \in SUBSET Entry
<1>1. n \in DOMAIN m /\ Slice(n) \in Seq(Entry) /\ Array(n) \in Seq(Entry)
  BY SliceType, ArrayType
<1>2. Carried(Slice(n)) \in SUBSET Entry /\ Carried(Array(n)) \in SUBSET Entry
  BY <1>1, CarriedType
<1>3. CASE n \in DOMAIN old
  BY <1>1, <1>2, <1>3 DEF LeftBehindInv
<1>4. CASE n \notin DOMAIN old
  <2>1. Carried(Slice(n)) \subseteq Carried(Array(n)) /\ Distinct(Slice(n))
    BY <1>1, <1>4, SliceOfArray DEF DistinctInv
  <2> QED
    BY <1>1, <1>2, <2>1, CoveredByMore
<1> QED
  BY <1>3, <1>4

\* The next state's arrays, and the renderer's, have entries of the right type also.
LEMMA EntriesTypedNext ==
  (ShapeInv => /\ \A n \in DOMAIN m : Carried(Array(n)) \in SUBSET Entry
               /\ \A n \in DOMAIN view : Carried(Slice(n)) \in SUBSET Entry)'
<1>1. ShapeInv => /\ \A n \in DOMAIN m : Carried(Array(n)) \in SUBSET Entry
                  /\ \A n \in DOMAIN view : Carried(Slice(n)) \in SUBSET Entry
  BY ArrayType, SliceType, CarriedType
<1> QED
  BY <1>1, PTL

\* A step without a collision comes from a state that nothing has gone wrong before.
LEMMA NotRacedBefore ==
  ASSUME RaceSeen, [Next]_vars, ~raced'
  PROVE  ~raced /\ ~Colliding
<1>1. CASE UNCHANGED vars
  BY <1>1 DEF vars, RaceSeen
<1>2. CASE raced' = (raced \/ Colliding')
  BY <1>2 DEF RaceSeen
<1> QED
  BY <1>1, <1>2, StepCases

\* Only Show changes the screen, and only Get begins a drawing.
LEMMA ScreenFrame ==
  ASSUME [Next]_vars
  PROVE  \/ drawing.at = "wait" /\ Get
         \/ Show
         \/ screen' = screen /\ (drawing'.at # "wait" => drawing.at # "wait")
<1>1. CASE UNCHANGED mapVars \/ TrackReads \/ Update
  BY <1>1 DEF mapVars, TrackReads, Update, NewName, Search, Look, Write, AppendNew
<1>2. CASE SwapLeft \/ SwapRight
  BY <1>2 DEF SwapLeft, SwapRight
<1> QED
  BY MapFrame, <1>1, <1>2 DEF Render

\* A drawing begins with all that is in the map, ...
LEMMA DrawnKeptByGet ==
  ASSUME ShapeInv, ShownInv, drawing.at = "wait", Get
  PROVE  DrawnRight'
<1>1. /\ DOMAIN view' = DOMAIN m /\ \A n \in DOMAIN m : view'[n] = Len(m[n])
      /\ DOMAIN old' = {} /\ drawing'.at = "sort" /\ m' = m /\ screen' = screen
  BY EmptyParts DEF Get, Waiting
<1>2. LeftBehindInv'
  BY <1>1 DEF LeftBehindInv
<1>3. ASSUME NEW n \in DOMAIN screen
      PROVE  /\ n \in DOMAIN m /\ Ascending(screen[n])
             /\ Covered(Carried(screen[n]), Carried(Array(n)'))
             /\ Covered(Carried(screen[n]), Carried(Slice(n)'))
  <2>1. n \in DOMAIN m /\ Ascending(screen[n])
        /\ Covered(Carried(screen[n]), Carried(Array(n)))
    BY DEF ShownInv
  <2>2. m[n] \in Seq(Entry)
    BY <2>1 DEF ShapeInv, ArraysInv, IsArrays
  <2>3. Array(n) = m[n] /\ Array(n)' = m[n]
    BY <1>1 DEF Array
  <2>4. Slice(n)' = SubSeq(m[n], 1, Len(m[n]))
    BY <1>1, <2>1 DEF Slice, Seen
  <2>5. Slice(n)' = m[n]
    BY <2>2, <2>4, SlicedAll
  <2> QED
    BY <2>1, <2>3, <2>5
<1>4. ShownInv'
  BY <1>1, <1>3 DEF ShownInv
<1> QED
  BY <1>2, <1>4 DEF DrawnRight

\* ... and ends with the screen having all that the renderer had, in order.
LEMMA DrawnKeptByShow ==
  ASSUME ShapeInv, DistinctInv, LeftBehindInv, Show
  PROVE  /\ DrawnRight'
         /\ DOMAIN screen' = DOMAIN view /\ \A n \in DOMAIN view : screen'[n] = Slice(n)
<1>1. /\ drawing.at = "sort" /\ \A n \in DOMAIN view : Inversions(Seen(n)) = {}
      /\ screen' = [n \in DOMAIN view |-> Seen(n)]
      /\ DOMAIN old' = {} /\ drawing'.at = "wait" /\ m' = m
  BY EmptyParts, WaitingParts DEF Show
<1>2. LeftBehindInv'
  BY <1>1 DEF LeftBehindInv
<1>3. ASSUME NEW n \in DOMAIN view
      PROVE  /\ screen'[n] = Slice(n) /\ n \in DOMAIN m /\ Ascending(Slice(n))
             /\ Covered(Carried(Slice(n)), Carried(Array(n)'))
  <2>1. /\ Distinct(Slice(n)) /\ Covered(Carried(Slice(n)), Carried(Array(n)))
        /\ n \in DOMAIN m /\ Slice(n) \in Seq(Entry)
    BY SlicesRight
  <2>2. Slice(n) = Seen(n) /\ Array(n) = m[n] /\ Array(n)' = m[n]
    BY <1>1 DEF Slice, Array
  <2>3. Ascending(Slice(n))
    BY <1>1, <2>1, <2>2, Sorted
  <2> QED
    BY <1>1, <2>1, <2>2, <2>3
<1>4. DOMAIN screen' = DOMAIN view
  BY <1>1
<1>5. ShownInv'
  <2>1. ASSUME NEW n \in DOMAIN screen'
        PROVE  /\ n \in DOMAIN m' /\ Ascending(screen'[n])
               /\ Covered(Carried(screen'[n]), Carried(Array(n)'))
    BY <1>1, <1>3, <1>4
  <2> QED
    BY <1>1, <2>1 DEF ShownInv
<1> QED
  BY <1>2, <1>3, <1>4, <1>5 DEF DrawnRight

LEMMA DrawnKept ==
  ASSUME Types, Types', RaceSeen, NewsInv, EntriesInv, DrawnInv, [Next]_vars
  PROVE  DrawnInv'
<1> SUFFICES ASSUME ~raced' PROVE DrawnRight'
  BY DEF DrawnInv
<1>0. ShapeInv /\ ShapeInv'
  BY DEF Types
<1>1. /\ ~Colliding /\ EntriesRight /\ DistinctInv
      /\ LeftBehindInv /\ ShownInv
  BY NotRacedBefore DEF EntriesInv, EntriesRight, DrawnInv, DrawnRight
<1>2. ArraysGrow /\ (SlicesGrow \/ (drawing.at = "wait" /\ Get) \/ Show)
  BY <1>1, Growing
<1>3. CASE drawing.at = "wait" /\ Get
  BY <1>0, <1>1, <1>3, DrawnKeptByGet
<1>4. CASE Show
  BY <1>0, <1>1, <1>4, DrawnKeptByShow
<1>5. CASE SlicesGrow /\ screen' = screen /\ (drawing'.at # "wait" => drawing.at # "wait")
  <2>0. /\ \A n \in DOMAIN m' : Carried(Array(n)') \in SUBSET Entry
        /\ \A n \in DOMAIN view' : Carried(Slice(n)') \in SUBSET Entry
    BY <1>0, EntriesTypedNext
  <2>1. ASSUME NEW n \in DOMAIN old'
        PROVE  Distinct(Slice(n)') /\ Covered(Carried(Slice(n)'), Carried(Array(n)'))
    <3>1. n \in DOMAIN view
      BY <1>0, <1>5 DEF ShapeInv, ArraysInv, IsArrays, SlicesGrow
    <3>2. /\ Distinct(Slice(n)) /\ Covered(Carried(Slice(n)), Carried(Array(n)))
          /\ n \in DOMAIN m
          /\ Carried(Slice(n)) \in SUBSET Entry /\ Carried(Array(n)) \in SUBSET Entry
      BY <1>0, <1>1, <3>1, SlicesRight
    <3>3. n \in DOMAIN m' /\ Covered(Carried(Array(n)), Carried(Array(n)'))
      BY <1>2, <3>2 DEF ArraysGrow
    <3>4. Covered(Carried(Slice(n)), Carried(Array(n)'))
      BY <2>0, <3>2, <3>3, CoveredByCovering
    <3> QED
      BY <1>5, <3>1, <3>2, <3>4 DEF SlicesGrow
  <2>2. ASSUME NEW n \in DOMAIN screen
        PROVE  /\ n \in DOMAIN m' /\ Ascending(screen[n])
               /\ Covered(Carried(screen[n]), Carried(Array(n)'))
               /\ drawing'.at # "wait" =>
                    n \in DOMAIN view' /\ Covered(Carried(screen[n]), Carried(Slice(n)'))
    <3>1. /\ n \in DOMAIN m /\ Ascending(screen[n])
          /\ Covered(Carried(screen[n]), Carried(Array(n)))
          /\ drawing.at # "wait" =>
               n \in DOMAIN view /\ Covered(Carried(screen[n]), Carried(Slice(n)))
      BY <1>1 DEF ShownInv
    <3>2. Carried(screen[n]) \in SUBSET Entry /\ Carried(Array(n)) \in SUBSET Entry
      <4>1. screen[n] \in Seq(Entry) /\ Array(n) \in Seq(Entry)
        BY <1>0, <3>1, ArrayType DEF ShapeInv, ArraysInv, IsArrays
      <4> QED
        BY <4>1, CarriedType
    <3>3. n \in DOMAIN m' /\ Covered(Carried(Array(n)), Carried(Array(n)'))
      BY <1>2, <3>1 DEF ArraysGrow
    <3>4. Covered(Carried(screen[n]), Carried(Array(n)'))
      BY <2>0, <3>1, <3>2, <3>3, CoveredByCovering
    <3>5. ASSUME drawing'.at # "wait"
          PROVE  n \in DOMAIN view' /\ Covered(Carried(screen[n]), Carried(Slice(n)'))
      <4>1. n \in DOMAIN view /\ view' = view
            /\ Covered(Carried(screen[n]), Carried(Slice(n)))
            /\ Covered(Carried(Slice(n)), Carried(Slice(n)'))
        BY <1>5, <3>1, <3>5 DEF SlicesGrow
      <4>2. Carried(Slice(n)) \in SUBSET Entry
        BY <1>0, <1>1, <4>1, SlicesRight
      <4>3. Carried(Slice(n)') \in SUBSET Entry
        BY <2>0, <4>1
      <4> QED
        BY <3>2, <4>1, <4>2, <4>3, CoveredByCovering
    <3> QED
      BY <3>1, <3>3, <3>4, <3>5
  <2>3. LeftBehindInv'
    BY <2>1 DEF LeftBehindInv
  <2>4. ShownInv'
    BY <1>5, <2>2 DEF ShownInv
  <2> QED
    BY <2>3, <2>4 DEF DrawnRight
<1> QED
  BY <1>2, <1>3, <1>4, <1>5, ScreenFrame

LEMMA DrawnHold == Spec => []DrawnInv
<1>1. Types /\ Types' /\ PhaseInv /\ FlowInv /\ EntriesInv /\ DrawnInv /\ [Next]_vars => DrawnInv'
  BY DrawnKept DEF PhaseInv, FlowInv
<1> QED
  BY <1>1, DrawnStart, TypesHold, PhaseHolds, FlowHolds, EntriesHold, PTL DEF Spec

\* Whatever is drawn, long before the end also, is in order, has no address twice and
\* is not ahead of what the verifier told; a verdict on the screen is the verdict.
THEOREM DrawnIsTrue == Spec => []ShownIsTrue
<1>1. Types /\ FlowInv /\ EntriesInv /\ DrawnInv => ShownIsTrue
  <2> SUFFICES ASSUME Types, FlowInv, EntriesInv, DrawnInv, ~raced, NEW n \in DOMAIN screen
               PROVE  /\ Ascending(screen[n])
                      /\ \A i \in DOMAIN screen[n] :
                           /\ screen[n][i].q <= told[<<n, screen[n][i].addr>>]
                           /\ screen[n][i].q \in Final =>
                                verdict[screen[n][i].addr] = screen[n][i].q
    BY DEF ShownIsTrue, Ascending
  <2>1. /\ n \in DOMAIN m /\ Ascending(screen[n])
        /\ Covered(Carried(screen[n]), Carried(Array(n)))
    BY DEF DrawnInv, DrawnRight, ShownInv
  <2>2. n \in Name /\ screen[n] \in Seq(Entry) /\ Array(n) \in Seq(Entry)
    BY <2>1, ArrayType DEF Types, ShapeInv, ArraysInv, IsArrays
  <2>3. ASSUME NEW e \in Carried(screen[n])
        PROVE  /\ e.q <= told[<<n, e.addr>>]
               /\ e.q \in Final => verdict[e.addr] = e.q
    <3>1. PICK x \in Carried(Array(n)) : x.addr = e.addr /\ NotAhead(e.q, x.q)
      BY <2>1 DEF Covered
    <3>2. NotAhead(x.q, told[<<n, x.addr>>])
      BY <2>1 DEF EntriesInv, EntriesRight, TruthfulInv
    <3>3. e \in Entry /\ x \in Entry
      BY <2>2, CarriedType
    <3>4. e.q \in Quality /\ x.q \in Quality /\ e.addr \in Addr
      BY <3>3 DEF Entry
    <3>5. <<n, e.addr>> \in Pair /\ told[<<n, e.addr>>] \in Quality \cup {Unknown}
      BY <2>2, <3>4, PairOf DEF Types, VerifyTypes
    <3>6. NotAhead(e.q, told[<<n, e.addr>>])
      BY <3>1, <3>2, <3>4, <3>5, NotAheadOrder
    <3>7. ASSUME e.q \in Final PROVE verdict[e.addr] = e.q
      <4>1. told[<<n, e.addr>>] = e.q
        BY <3>6, <3>7 DEF NotAhead
      <4>2. verdict[<<n, e.addr>>[2]] = told[<<n, e.addr>>]
        BY <3>5, <3>7, <4>1 DEF FlowInv, ToldInv
      <4> QED
        BY <4>1, <4>2
    <3> QED
      BY <3>6, <3>7 DEF NotAhead
  <2>4. \A i \in DOMAIN screen[n] : screen[n][i] \in Carried(screen[n])
    BY DEF Carried
  <2> QED
    BY <2>1, <2>3, <2>4
<1> QED
  BY <1>1, TypesHold, FlowHolds, EntriesHold, DrawnHold, PTL

\* What was drawn once is in all later drawings, with a quality that is no worse, as
\* long as no update met a swap in an array.
THEOREM DrawnStays == Spec => ShownStays
<1> DEFINE Stays ==
      ~raced' =>
        \A n \in DOMAIN screen :
          /\ n \in DOMAIN screen'
          /\ \A i \in DOMAIN screen[n] : \E j \in DOMAIN screen'[n] :
               /\ screen'[n][j].addr = screen[n][i].addr
               /\ screen[n][i].q <= screen'[n][j].q
<1>1. Types /\ PhaseInv /\ EntriesInv /\ DrawnInv /\ [Next]_vars => Stays
  <2> SUFFICES ASSUME Types, PhaseInv, EntriesInv, DrawnInv, [Next]_vars, ~raced',
                      NEW n \in DOMAIN screen
               PROVE  /\ n \in DOMAIN screen'
                      /\ \A i \in DOMAIN screen[n] : \E j \in DOMAIN screen'[n] :
                           /\ screen'[n][j].addr = screen[n][i].addr
                           /\ screen[n][i].q <= screen'[n][j].q
    OBVIOUS
  <2>0. ShapeInv /\ DistinctInv /\ LeftBehindInv /\ ShownInv
    BY NotRacedBefore DEF Types, PhaseInv, EntriesInv, EntriesRight, DrawnInv, DrawnRight
  <2>1. screen[n] \in Seq(Entry)
    BY <2>0 DEF ShapeInv, ArraysInv, IsArrays
  <2>2. CASE screen' = screen
    <3>1. \A i \in DOMAIN screen[n] : screen[n][i].q \in Int
      <4>1. \A i \in DOMAIN screen[n] : screen[n][i] \in Entry
        BY <2>1
      <4> QED
        BY <4>1, QualityValues DEF Entry
    <3> QED
      BY <2>2, <3>1
  <2>3. CASE Show
    <3>1. drawing.at # "wait"
      BY <2>3 DEF Show
    <3>2. n \in DOMAIN view /\ Covered(Carried(screen[n]), Carried(Slice(n)))
      BY <2>0, <3>1 DEF ShownInv
    <3>3. n \in DOMAIN screen' /\ screen'[n] = Slice(n)
      BY <2>0, <2>3, <3>2, DrawnKeptByShow
    <3>4. ASSUME NEW i \in DOMAIN screen[n]
          PROVE  \E j \in DOMAIN screen'[n] : /\ screen'[n][j].addr = screen[n][i].addr
                                              /\ screen[n][i].q <= screen'[n][j].q
      BY <3>2, <3>3 DEF Covered, Carried, NotAhead
    <3> QED
      BY <3>3, <3>4
  <2>4. CASE drawing.at = "wait" /\ Get
    BY <2>2, <2>4 DEF Get
  <2> QED
    BY <2>2, <2>3, <2>4, ScreenFrame
<1>2. Types /\ PhaseInv /\ EntriesInv /\ DrawnInv /\ [Next]_vars => [Stays]_vars
  BY <1>1
<1> QED
  BY <1>2, TypesHold, PhaseHolds, EntriesHold, DrawnHold, PTL DEF Spec, ShownStays

=============================================================================
