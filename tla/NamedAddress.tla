---------------------------- MODULE NamedAddress ----------------------------
(***************************************************************************)
(* The values that travel through all channels of mobydig (src/types): an    *)
(* address, optionally with the DNS name it belongs to, the quality of the   *)
(* address and whether an error explains it.                                 *)
(***************************************************************************)
EXTENDS Integers

CONSTANTS Name,    \* FQDNs
          Addr,    \* IP addresses
          NoName,  \* a plain QualifiedAddressValue has no name
          NoAddr   \* the empty address of a name that is still being dug

ASSUME NamedAddressAssumption == NoName \notin Name /\ NoAddr \notin Addr

\* The iota order of the constants matters: the cache compares qualities by <=.
Unverified == 0
Verifying  == 1
Invalid    == 2
Verified   == 3

Quality == Unverified..Verified
Final == {Invalid, Verified}

\* Quality.IsPending as it is coded.
IsPending(q) == q \in {Unverified, Verified}

\* err tells an error value from nil; its text is left out.
QualifiedAddress == [name: Name \cup {NoName}, addr: Addr \cup {NoAddr},
                     q: Quality, err: BOOLEAN]
NamedAddresses == {qa \in QualifiedAddress : qa.name \in Name}
DugAddresses == {na \in NamedAddresses : na.addr \in Addr}

NA(name, addr, q) == [name |-> name, addr |-> addr, q |-> q, err |-> FALSE]

\* NamedAddressValue.WithNewQuality takes over the passed error ...
NamedWithNewQuality(qa, q, err) == [qa EXCEPT !.q = q, !.err = err]

\* ... QualifiedAddressValue.WithNewQuality keeps the old one.
PlainWithNewQuality(qa, q, err) == [qa EXCEPT !.q = q]

\* The method is chosen by the dynamic type of the value.
WithNewQuality(qa, q, err) ==
  IF qa.name = NoName THEN PlainWithNewQuality(qa, q, err)
                      ELSE NamedWithNewQuality(qa, q, err)

=============================================================================
