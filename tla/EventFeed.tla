------------------------------ MODULE EventFeed ------------------------------
(***************************************************************************)
(* What Client.Events() promises to the one consumer that ranges over it:  *)
(* the events in the order in which they were sent and, as long as the     *)
(* feed is not stopped, without a gap.  Once it is stopped events may be   *)
(* left out, but none comes out of order, and the terminal event, if it    *)
(* comes, is the last.                                                     *)
(***************************************************************************)
EXTENDS Naturals, Sequences

CONSTANTS
  Event,     \* the ordinary events
  Terminal   \* the event that ends the feed, none of them

VARIABLES
  sent,     \* the events in the order they were sent
  got,      \* what the consumer has received
  last,     \* the place in sent of the last event received
  stopped   \* the feed is being shut down

vars == <<sent, got, last, stopped>>

Init == sent = <<>> /\ got = <<>> /\ last = 0 /\ stopped = FALSE

Send(e) == sent' = Append(sent, e) /\ UNCHANGED <<got, last, stopped>>

Ended == got # <<>> /\ got[Len(got)] = Terminal

Get(n) ==
  /\ ~Ended
  /\ IF stopped THEN n > last ELSE n = last + 1
  /\ got' = Append(got, sent[n])
  /\ last' = n
  /\ UNCHANGED <<sent, stopped>>

GetTerminal ==
  /\ stopped /\ ~Ended
  /\ got' = Append(got, Terminal)
  /\ UNCHANGED <<sent, last, stopped>>

Stop == stopped' = TRUE /\ UNCHANGED <<sent, got, last>>

Next ==
  \/ \E e \in Event : Send(e)
  \/ \E n \in DOMAIN sent : Get(n)
  \/ GetTerminal
  \/ Stop

Spec == Init /\ [][Next]_vars
=============================================================================
