----------------------------- MODULE DigStream -----------------------------
(***************************************************************************)
(* What digging promises to the consumer of its news: each name is announced *)
(* before its addresses, only addresses the DNS has answered with are sent,  *)
(* and unless the work is aborted the stream ends only when all is sent.     *)
(***************************************************************************)
CONSTANT Addr  \* the addresses

VARIABLES wanted,   \* the names to dig
          answers,  \* pairs of a name and an address the DNS answered with
          named,    \* the names that were announced
          dug,      \* the pairs that were sent
          aborted,  \* the context was cancelled
          closed    \* the stream has ended

streamVars == <<wanted, answers, named, dug, aborted, closed>>

Init == answers = {} /\ named = {} /\ dug = {} /\ aborted = FALSE /\ closed = FALSE

Announce(n) ==
  /\ ~closed /\ n \in wanted
  /\ named' = named \cup {n}
  /\ UNCHANGED <<wanted, answers, dug, aborted, closed>>

Answer(n) ==
  /\ ~closed /\ n \in named
  /\ answers \subseteq answers'
  /\ \A p \in answers' \ answers : p[1] = n /\ p[2] \in Addr
  /\ UNCHANGED <<wanted, named, dug, aborted, closed>>

Dug(p) ==
  /\ ~closed /\ p \in answers
  /\ dug' = dug \cup {p}
  /\ UNCHANGED <<wanted, answers, named, aborted, closed>>

Abort ==
  /\ ~aborted /\ aborted' = TRUE
  /\ UNCHANGED <<wanted, answers, named, dug, closed>>

Close ==
  /\ ~closed /\ closed' = TRUE
  /\ aborted \/ (named = wanted /\ dug = answers)
  /\ UNCHANGED <<wanted, answers, named, dug, aborted>>

Next ==
  \/ \E n \in wanted : Announce(n) \/ Answer(n)
  \/ \E p \in answers : Dug(p)
  \/ Abort \/ Close

Spec == Init /\ [][Next]_streamVars

=============================================================================
