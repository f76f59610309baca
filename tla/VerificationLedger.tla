------------------------- MODULE VerificationLedger -------------------------
(***************************************************************************)
(* What verification promises to whoever reads the news, without workers,    *)
(* channels, locks or caches: every address gets one verdict, every name is  *)
(* told about its addresses in never worsening quality and never against the *)
(* verdict, and unless the work is aborted nobody goes without an answer.    *)
(***************************************************************************)
EXTENDS Integers

CONSTANTS Pending,  \* qualities before the verdict
          Verdicts, \* final qualities
          Unknown,  \* smaller than any quality
          Undug,    \* the pairs of a name that has no address yet
          AskedOf   \* AskedOf[p] is the address of the other pairs p

VARIABLES asked,    \* pairs of a name and an address that were asked about
          told,     \* what the reader of the news was told last about a pair
          verdict,  \* the verdict of each address
          aborted,  \* the context was cancelled
          closed    \* no news any more

ledgerVars == <<asked, told, verdict, aborted, closed>>

Pair == DOMAIN told

Init ==
  /\ asked = {}
  /\ \A p \in Pair : told[p] = Unknown
  /\ \A a \in DOMAIN verdict : verdict[a] = Unknown
  /\ aborted = FALSE /\ closed = FALSE

Answered(p) == IF p \in Undug THEN told[p] # Unknown ELSE told[p] \in Verdicts

Ask(p) ==
  /\ ~closed
  /\ asked' = asked \cup {p}
  /\ UNCHANGED <<told, verdict, aborted, closed>>

\* There is one verdict, and only on an address somebody asked about.
Decide(a) ==
  /\ verdict[a] = Unknown
  /\ \E p \in asked \ Undug : AskedOf[p] = a
  /\ \E v \in Verdicts : verdict' = [verdict EXCEPT ![a] = v]
  /\ UNCHANGED <<asked, told, aborted, closed>>

TellPending(p) ==
  /\ ~closed /\ p \in asked
  /\ told[p] \notin Verdicts
  /\ \E q \in Pending : q > told[p] /\ told' = [told EXCEPT ![p] = q]
  /\ UNCHANGED <<asked, verdict, aborted, closed>>

TellVerdict(p) ==
  /\ ~closed /\ p \in asked \ Undug
  /\ verdict[AskedOf[p]] # Unknown
  /\ told[p] \notin Verdicts
  /\ told' = [told EXCEPT ![p] = verdict[AskedOf[p]]]
  /\ UNCHANGED <<asked, verdict, aborted, closed>>

Abort ==
  /\ ~aborted
  /\ aborted' = TRUE
  /\ UNCHANGED <<asked, told, verdict, closed>>

Close ==
  /\ ~closed
  /\ aborted \/ \A p \in asked : Answered(p)
  /\ closed' = TRUE
  /\ UNCHANGED <<asked, told, verdict, aborted>>

Next ==
  \/ \E p \in Pair : Ask(p) \/ TellPending(p) \/ TellVerdict(p)
  \/ \E a \in DOMAIN verdict : Decide(a)
  \/ Abort \/ Close

Spec == Init /\ [][Next]_ledgerVars

=============================================================================
