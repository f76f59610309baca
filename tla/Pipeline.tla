------------------------------ MODULE Pipeline ------------------------------
(***************************************************************************)
(* DigAndReport: the main goroutine discovers the names, starts the digger,  *)
(* the verifier and the goroutine that tracks the verifier's news in the map, *)
(* and waits for the renderer, which it started before all of them.  Digging *)
(* and verification are as their abstract specifications have them.          *)
(***************************************************************************)
EXTENDS AddrMap

CONSTANTS ChanSize  \* capacity of the channels

ASSUME PipelineAssumption == ChanSize \in Nat \ {0}

\* No quality yet.
Unknown == -1

VARIABLES main,          \* how far DigAndReport got
          diggernews,    \* the channel of the digger's news
          news,          \* the channel of the verifier's news
          wanted, answers, named, dug, dugAll,  \* digging: see DigStream
          asked, told, verdict, newsClosed,     \* verification: see VerificationLedger
          aborted,       \* the context was cancelled: never, it is context.Background()
          trackingDone,  \* the channel of that name is closed
          renderer,      \* whether the renderer draws, draws for the last time, is over
          spinning       \* the goroutine of the spinner runs

chans == <<diggernews, news>>
digVars == <<wanted, answers, named, dug, dugAll>>
verifyVars == <<asked, told, verdict, newsClosed>>
vars == <<mapVars, raced, aborted, main, chans, digVars, verifyVars, trackingDone, renderer, spinning>>

Pair == Name \X (Addr \cup {NoAddr})

Stream == INSTANCE DigStream WITH closed <- dugAll
Ledger == INSTANCE VerificationLedger WITH
            Pending <- {Unverified, Verifying},
            Verdicts <- Final,
            Undug <- Name \X {NoAddr},
            AskedOf <- [p \in Pair |-> p[2]],
            closed <- newsClosed

News == {NA(n, a, q) : n \in Name, a \in Addr \cup {NoAddr}, q \in Quality}

TypeOK ==
  /\ IsArrays(m, Name) /\ IsArrays(screen, Name) /\ IsArrays(old, DOMAIN view)
  /\ \A n \in DOMAIN view : n \in DOMAIN m /\ view[n] <= Len(m[n])
  /\ tracker.at \in Doing /\ (tracker.at # "idle" => tracker.news \in News)
  /\ drawing.at \in {"wait", "sort", "swap"}
  /\ main \in {"discover", "new", "wait", "ok", "failed"}
  /\ {diggernews, news} \subseteq Seq(News)
  /\ Len(diggernews) <= ChanSize /\ Len(news) <= ChanSize
  /\ {wanted, named} \subseteq SUBSET Name
  /\ {answers, dug} \subseteq SUBSET (Name \X Addr)
  /\ asked \subseteq Pair
  /\ told \in [Pair -> Quality \cup {Unknown}]
  /\ verdict \in [Addr -> Final \cup {Unknown}]
  /\ renderer \in {"start", "draw", "last", "over"}
  /\ aborted = FALSE
  /\ {raced, dugAll, newsClosed, trackingDone, spinning} \subseteq BOOLEAN

Init ==
  /\ MapInit
  /\ main = "discover"
  /\ diggernews = << >> /\ news = << >>
  /\ wanted = {}
  /\ told = [p \in Pair |-> Unknown]
  /\ verdict = [a \in Addr |-> Unknown]
  /\ Stream!Init /\ Ledger!Init
  /\ trackingDone = FALSE
  /\ renderer = "start" /\ spinning = TRUE

-----------------------------------------------------------------------------
(* The main goroutine.                                                       *)

\* The discovery finds any names, none at all also, or ends with an error.
Discovered ==
  /\ main = "discover"
  /\ main' = "new"
  /\ wanted' \in SUBSET Name
  /\ UNCHANGED <<mapVars, chans, answers, named, dug, dugAll, verifyVars,
                 trackingDone, renderer, spinning>>

\* An error of the discovery or of dig.New is returned at once, which ends the process
\* with the renderer still running in it.
Fails ==
  /\ main \in {"discover", "new"}
  /\ main' = "failed"
  /\ UNCHANGED <<mapVars, chans, digVars, verifyVars, trackingDone, renderer, spinning>>

\* The digger, the verifier and the tracking goroutine are started.
Started ==
  /\ main = "new"
  /\ main' = "wait"
  /\ UNCHANGED <<mapVars, chans, digVars, verifyVars, trackingDone, renderer, spinning>>

Return ==
  /\ main = "wait" /\ renderer = "over"
  /\ main' = "ok"
  /\ UNCHANGED <<mapVars, chans, digVars, verifyVars, trackingDone, renderer, spinning>>

Main == Discovered \/ Fails \/ Started \/ Return

-----------------------------------------------------------------------------
(* The digger.                                                               *)

Dig ==
  /\ main = "wait"
  /\ \/ /\ Len(diggernews) < ChanSize
        /\ \/ \E n \in wanted \ named :
                /\ Stream!Announce(n)
                /\ diggernews' = Append(diggernews, NA(n, NoAddr, Unverified))
           \/ \E p \in answers \ dug :
                /\ Stream!Dug(p)
                /\ diggernews' = Append(diggernews, NA(p[1], p[2], Unverified))
     \/ Stream!Close /\ UNCHANGED diggernews
  /\ UNCHANGED <<mapVars, main, news, verifyVars, trackingDone, renderer, spinning>>

\* The DNS answers, once about a name, or never.
Answers ==
  /\ main = "wait"
  /\ \E n \in named, found \in SUBSET Addr :
       /\ \A p \in answers : p[1] # n
       /\ answers' = answers \cup ({n} \X found)
       /\ Stream!Answer(n)
  /\ UNCHANGED <<mapVars, main, chans, verifyVars, trackingDone, renderer, spinning>>

-----------------------------------------------------------------------------
(* The verifier.                                                             *)

VerifierReads ==
  /\ main = "wait" /\ diggernews # << >>
  /\ Ledger!Ask(<<Head(diggernews).name, Head(diggernews).addr>>)
  /\ diggernews' = Tail(diggernews)
  /\ UNCHANGED <<mapVars, main, news, digVars, trackingDone, renderer, spinning>>

Decides ==
  /\ main = "wait"
  /\ \E a \in Addr : Ledger!Decide(a)
  /\ UNCHANGED <<mapVars, main, chans, digVars, trackingDone, renderer, spinning>>

\* A name that has no address yet is passed on as the digger sent it.
Tells ==
  /\ main = "wait" /\ Len(news) < ChanSize
  /\ \E p \in Pair :
       /\ Ledger!TellPending(p) \/ Ledger!TellVerdict(p)
       /\ p[2] = NoAddr => told'[p] = Unverified
       /\ news' = Append(news, NA(p[1], p[2], told'[p]))
  /\ UNCHANGED <<mapVars, main, diggernews, digVars, trackingDone, renderer, spinning>>

\* Verify closes the news after its input has come to the end.
VerifierEnds ==
  /\ main = "wait" /\ dugAll /\ diggernews = << >>
  /\ Ledger!Close
  /\ UNCHANGED <<mapVars, main, chans, digVars, trackingDone, renderer, spinning>>

Verify == VerifierReads \/ Decides \/ Tells \/ VerifierEnds

-----------------------------------------------------------------------------
(* The tracking goroutine.                                                   *)

\* Mutant: the tracking ends when there are no news, not when there will be none.
TrackEarly ==
  /\ tracker.at = "idle" /\ news = << >> /\ named # {} /\ ~trackingDone
  /\ trackingDone' = TRUE
  /\ UNCHANGED <<mapVars, news>>

\* Mutant: the end of the tracking is told to nobody.
TrackForgets ==
  /\ tracker.at = "idle" /\ news = << >> /\ newsClosed
  /\ UNCHANGED <<mapVars, news, trackingDone>>

\* The goroutine closes trackingDone when the verifier has closed the news.
TrackEnds ==
  /\ tracker.at = "idle" /\ news = << >> /\ newsClosed /\ ~trackingDone
  /\ trackingDone' = TRUE
  /\ UNCHANGED <<mapVars, news>>

TrackReads ==
  /\ tracker.at = "idle" /\ news # << >> /\ ~trackingDone
  /\ Receive(Head(news))
  /\ news' = Tail(news)
  /\ UNCHANGED <<m, view, old, drawing, screen, trackingDone>>

Track ==
  /\ main = "wait"
  /\ TrackReads \/ TrackEnds \/ (Update /\ UNCHANGED <<news, trackingDone>>)
  /\ UNCHANGED <<main, diggernews, digVars, verifyVars, renderer, spinning>>

-----------------------------------------------------------------------------
(* The renderer, which draws at once, at every tick, and when the tracking is *)
(* done.                                                                     *)

Alive == main \notin {"ok", "failed"}

Draws ==
  /\ Alive /\ renderer \in {"start", "draw"} /\ drawing.at = "wait"
  /\ Get
  /\ renderer' = "draw"
  /\ UNCHANGED spinning

\* The spinner is stopped and renderingDone closed.
EndRendering == renderer' = "over" /\ spinning' = FALSE

\* Mutant: the renderer ends without drawing the final state.
LastDrawSkipped ==
  /\ Alive /\ renderer = "draw" /\ drawing.at = "wait" /\ trackingDone
  /\ EndRendering
  /\ UNCHANGED mapVars

LastDraw ==
  /\ Alive /\ renderer = "draw" /\ drawing.at = "wait" /\ trackingDone
  /\ Get
  /\ renderer' = "last"
  /\ UNCHANGED spinning

Renders ==
  /\ Alive
  /\ Render
  /\ IF renderer = "last" /\ drawing'.at = "wait"
       THEN EndRendering
       ELSE UNCHANGED <<renderer, spinning>>

Renderer ==
  /\ Draws \/ LastDraw \/ Renders
  /\ UNCHANGED <<main, chans, digVars, verifyVars, trackingDone>>

Finished == ~Alive /\ UNCHANGED vars

Watched(action) ==
  /\ action
  /\ raced' = (raced \/ Colliding')
  /\ UNCHANGED aborted

Next ==
  \/ Watched(Main) \/ Watched(Dig) \/ Watched(Answers) \/ Watched(Verify)
  \/ Watched(Track) \/ Watched(Renderer)
  \/ Finished

(***************************************************************************)
(* Every goroutine runs when it can; digging and verification make progress, *)
(* as is checked of the Digger and the Verifier.  The select between the     *)
(* ticker and trackingDone does not always prefer the ticker.                *)
(***************************************************************************)
Fairness ==
  /\ WF_vars(Watched(Main)) /\ WF_vars(Watched(Dig)) /\ WF_vars(Watched(Verify))
  /\ WF_vars(Watched(Track)) /\ WF_vars(Watched(Renderer))
  /\ SF_vars(Watched(Renderer /\ renderer' = "last"))

Spec == Init /\ [][Next]_vars
FairSpec == Spec /\ Fairness

-----------------------------------------------------------------------------
(* Properties.                                                               *)

\* The addresses of a name that this is the right array for.
Matches(array, n, as, quality) ==
  /\ {array[i] : i \in DOMAIN array} = {[addr |-> a, q |-> quality[a]] : a \in as}
  /\ Len(array) = Cardinality(as)

\* When all that the verifier told has been tracked, the map holds each address that
\* was told of once, under its name, with the quality told last, whatever the renderer
\* has done with the arrays, as long as no update met a swap.
MapFollowsNews ==
  tracker.at = "idle" /\ news = << >> /\ drawing.at # "swap" /\ ~raced =>
    /\ DOMAIN m = {n \in Name : \E a \in Addr \cup {NoAddr} : told[<<n, a>>] # Unknown}
    /\ \A n \in DOMAIN m :
         Matches(m[n], n, {a \in Addr : told[<<n, a>>] # Unknown},
                 [a \in Addr |-> told[<<n, a>>]])

\* When the command returns, it has drawn all names ...
AllNamesShown == main = "ok" => DOMAIN screen = wanted

\* ... and each with all addresses the DNS had for it, each once, with its verdict.
ReportRight ==
  main = "ok" =>
    \A n \in wanted :
      n \in DOMAIN screen /\ Matches(screen[n], n, {a \in Addr : <<n, a>> \in answers}, verdict)

\* That much can be said if no update met a swap.
ReportRightUnlessRaced == ~raced => ReportRight

\* Whatever is drawn, long before the end also, is in order, has no address twice and
\* says nothing that was not told; a verdict on the screen is the verdict.
ShownIsTrue ==
  ~raced =>
    \A n \in DOMAIN screen :
      /\ \A i, j \in DOMAIN screen[n] : i < j => screen[n][i].addr < screen[n][j].addr
      /\ \A i \in DOMAIN screen[n] :
           LET e == screen[n][i]
           IN  e.q <= told[<<n, e.addr>>] /\ (e.q \in Final => verdict[e.addr] = e.q)

\* What was drawn once is in all later drawings, with a quality that is no worse.
ShownStays ==
  [][~raced' =>
       \A n \in DOMAIN screen :
         /\ n \in DOMAIN screen'
         /\ \A i \in DOMAIN screen[n] : \E j \in DOMAIN screen'[n] :
              /\ screen'[n][j].addr = screen[n][i].addr
              /\ screen[n][i].q <= screen'[n][j].q]_vars

\* When the command returns without an error, everything it started is over, with
\* nothing left in the channels.
OrderlyReturn ==
  main = "ok" =>
    /\ dugAll /\ newsClosed /\ trackingDone /\ ~spinning
    /\ diggernews = << >> /\ news = << >> /\ tracker = Idle

\* The command returns, with a report or with an error.
Returns == <>(main \in {"ok", "failed"})

=============================================================================
