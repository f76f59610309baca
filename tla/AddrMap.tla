------------------------------- MODULE AddrMap -------------------------------
(***************************************************************************)
(* dig.NamedAddressesMap and the renderer that draws it.  Get copies the     *)
(* map's slices, not the arrays behind them: the renderer sorts, without the *)
(* map's mutex, the very arrays that Update changes with the mutex held.     *)
(***************************************************************************)
EXTENDS NamedAddress, Sequences, FiniteSets

\* Addresses are displayed in the order of the bytes of their IPs.
ASSUME AddrMapAssumption == Addr \subseteq Int

VARIABLES m,        \* the array of each name in the map
          tracker,  \* what the goroutine in Track is doing
          view,     \* the slices the renderer got: their lengths
          old,      \* arrays the renderer has and the map replaced by bigger ones
          drawing,  \* what the renderer is doing
          screen,   \* what it drew last
          raced     \* history: Update and the sort were in one array at a time

mapVars == <<m, tracker, view, old, drawing, screen>>

Entry == [addr: Addr, q: Quality]
IsArrays(f, names) ==
  DOMAIN f \subseteq names /\ \A n \in DOMAIN f : f[n] \in Seq(Entry)
Empty == [n \in {} |-> << >>]

Put(f, n, array) == [k \in DOMAIN f \cup {n} |-> IF k = n THEN array ELSE f[k]]

Doing == {"idle", "search", "look", "write"}
Idle == [at |-> "idle", news |-> NA(NoName, NoAddr, Unverified), idx |-> 0]

Waiting == [at |-> "wait", name |-> NoName, idx |-> 0, tmp |-> << >>]

MapInit ==
  /\ m = Empty
  /\ tracker = Idle
  /\ view = Empty /\ old = Empty
  /\ drawing = Waiting
  /\ screen = Empty
  /\ raced = FALSE

-----------------------------------------------------------------------------
(* Update, which has the mutex from the step Search to the end.              *)

\* Track receives a piece of news.
Receive(news) == tracker' = [Idle EXCEPT !.at = "search", !.news = news]

\* What a name is entered with.
FirstEntry ==
  IF tracker.news.addr = NoAddr THEN << >>
  ELSE <<[addr |-> tracker.news.addr, q |-> tracker.news.q]>>

\* Mutant: a name without address begins anew.
NewNameAfresh ==
  /\ tracker.at = "search"
  /\ tracker.news.name \notin DOMAIN m \/ tracker.news.addr = NoAddr
  /\ m' = Put(m, tracker.news.name, FirstEntry)
  /\ tracker' = Idle
  /\ UNCHANGED <<view, old, drawing, screen>>

\* Mutant: a name without address is not worth an entry.
NewNameIgnored ==
  /\ tracker.at = "search"
  /\ tracker.news.name \notin DOMAIN m \/ tracker.news.addr = NoAddr
  /\ m' = IF FirstEntry = << >> THEN m ELSE Put(m, tracker.news.name, FirstEntry)
  /\ tracker' = Idle
  /\ UNCHANGED <<view, old, drawing, screen>>

\* A name's first news, or its first without an address.
NewName ==
  /\ tracker.at = "search"
  /\ tracker.news.name \notin DOMAIN m \/ tracker.news.addr = NoAddr
  /\ m' = IF tracker.news.name \in DOMAIN m THEN m
          ELSE Put(m, tracker.news.name, FirstEntry)
  /\ tracker' = Idle
  /\ UNCHANGED <<view, old, drawing, screen>>

\* Mutant: only the changes that the comment on Update names are made.
SupersedesInSteps(q, p) == <<p, q>> \in {<<Unverified, Verifying>>} \cup {Verifying} \X Final

\* Known addresses are updated by the order of the qualities.
Supersedes(q, p) == q > p

\* The address is looked for among those of the name, ...
Search ==
  /\ tracker.at = "search"
  /\ tracker.news.name \in DOMAIN m /\ tracker.news.addr # NoAddr
  /\ tracker' = [tracker EXCEPT !.at = "look"]
  /\ UNCHANGED <<m, view, old, drawing, screen>>

\* ... one entry after the other, as far as the one of the address, if there is one, ...
Look ==
  LET array == m[tracker.news.name]
      i == tracker.idx + 1
  IN  /\ tracker.at = "look" /\ i <= Len(array)
      /\ tracker' = IF array[i].addr # tracker.news.addr
                      THEN [tracker EXCEPT !.idx = i]
                    ELSE IF Supersedes(tracker.news.q, array[i].q)
                      THEN [tracker EXCEPT !.at = "write", !.idx = i]
                    ELSE Idle
      /\ UNCHANGED <<m, view, old, drawing, screen>>

\* Mutant: the quality is that of the name's first address.
WriteFirst ==
  /\ tracker.at = "write"
  /\ m' = [m EXCEPT ![tracker.news.name][1].q = tracker.news.q]
  /\ tracker' = Idle
  /\ UNCHANGED <<view, old, drawing, screen>>

\* ... to raise its quality in place, ...
Write ==
  /\ tracker.at = "write"
  /\ m' = [m EXCEPT ![tracker.news.name][tracker.idx].q = tracker.news.q]
  /\ tracker' = Idle
  /\ UNCHANGED <<view, old, drawing, screen>>

\* The capacities append gives to a growing slice are the powers of two.
Full(len) == len = 0 \/ \E k \in 0..len : 2^k = len

\* ... or, when there is none, to append it, in a copy of the array if that is full.
AppendNew ==
  LET n == tracker.news.name
  IN  /\ tracker.at = "look" /\ tracker.idx = Len(m[n])
      /\ m' = [m EXCEPT ![n] = Append(@, [addr |-> tracker.news.addr, q |-> tracker.news.q])]
      /\ old' = IF Full(Len(m[n])) /\ n \in DOMAIN view /\ n \notin DOMAIN old
                  THEN Put(old, n, SubSeq(m[n], 1, view[n])) ELSE old
      /\ tracker' = Idle
      /\ UNCHANGED <<view, drawing, screen>>

Update == NewName \/ Search \/ Look \/ Write \/ AppendNew

-----------------------------------------------------------------------------
(* The renderer.                                                             *)

\* What the renderer sees behind a slice, at this moment.
Seen(n) == IF n \in DOMAIN old THEN old[n] ELSE SubSeq(m[n], 1, view[n])

\* Get, the one step of the renderer that has the mutex.
Get ==
  /\ tracker.at \in {"idle", "search"}
  /\ view' = [n \in DOMAIN m |-> Len(m[n])]
  /\ old' = Empty
  /\ drawing' = [Waiting EXCEPT !.at = "sort"]
  /\ UNCHANGED <<m, tracker, screen>>

\* The insertion sort swaps the first two neighbours that are in the wrong order.
Inversions(array) == {i \in 1..Len(array) - 1 : array[i].addr > array[i + 1].addr}

\* A store to an element of the array behind the renderer's slice.
Store(n, i, entry) ==
  IF n \in DOMAIN old
    THEN old' = [old EXCEPT ![n][i] = entry] /\ UNCHANGED m
    ELSE m' = [m EXCEPT ![n][i] = entry] /\ UNCHANGED old

\* The two stores of a swap.
SwapLeft ==
  /\ drawing.at = "sort"
  /\ \E n \in DOMAIN view :
       LET s == Seen(n)
       IN  \E i \in Inversions(s) :
             /\ \A j \in Inversions(s) : i <= j
             /\ drawing' = [at |-> "swap", name |-> n, idx |-> i, tmp |-> <<s[i]>>]
             /\ Store(n, i, s[i + 1])
  /\ UNCHANGED <<tracker, view, screen>>

SwapRight ==
  /\ drawing.at = "swap"
  /\ Store(drawing.name, drawing.idx + 1, drawing.tmp[1])
  /\ drawing' = [Waiting EXCEPT !.at = "sort"]
  /\ UNCHANGED <<tracker, view, screen>>

\* Mutant: the renderer draws what it has got at once.
ShowUnsorted ==
  /\ drawing.at = "sort"
  /\ screen' = [n \in DOMAIN view |-> Seen(n)]
  /\ view' = Empty /\ old' = Empty
  /\ drawing' = Waiting
  /\ UNCHANGED <<m, tracker>>

\* All is in order and is drawn.
Show ==
  /\ drawing.at = "sort" /\ \A n \in DOMAIN view : Inversions(Seen(n)) = {}
  /\ screen' = [n \in DOMAIN view |-> Seen(n)]
  /\ view' = Empty /\ old' = Empty
  /\ drawing' = Waiting
  /\ UNCHANGED <<m, tracker>>

Render == SwapLeft \/ SwapRight \/ Show

\* Update has looked at the array that the renderer is swapping elements of.
Colliding ==
  /\ drawing.at = "swap"
  /\ tracker.at = "write" \/ (tracker.at = "look" /\ tracker.idx > 0)
  /\ drawing.name = tracker.news.name /\ drawing.name \notin DOMAIN old

=============================================================================
