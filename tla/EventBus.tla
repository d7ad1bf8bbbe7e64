------------------------------ MODULE EventBus ------------------------------
(***************************************************************************)
(* What an event channel promises to the code that posts to it and to the  *)
(* handlers subscribed to it, without queues, indices or linked lists.     *)
(*                                                                         *)
(* Events are numbered in the order the channel accepted them.  The        *)
(* channel hands every accepted event to every handler, in the order of    *)
(* acceptance, without a gap and without a repetition, and no handler is   *)
(* given an event before every handler has been given the previous one.    *)
(* A post the channel rejects is invisible here: it changes nothing.       *)
(***************************************************************************)
EXTENDS Naturals

CONSTANTS
  Handlers,   \* handler structures that may be subscribed
  MaxPosts    \* bound on the number of events accepted

VARIABLES
  accepted,   \* number of events accepted so far
  members,    \* handlers currently subscribed
  seen        \* seen[h]: number of the last event handed to h

vars == <<accepted, members, seen>>

Init ==
  /\ accepted = 0
  /\ members \in SUBSET Handlers
  /\ seen = [h \in Handlers |-> 0]

Accept ==
  /\ accepted < MaxPosts
  /\ accepted' = accepted + 1
  /\ UNCHANGED <<members, seen>>

(* h is given the event after the last one it was given, and only when no  *)
(* other handler is still behind.                                          *)
Deliver(h) ==
  /\ h \in members
  /\ seen[h] < accepted
  /\ \A g \in members : seen[g] >= seen[h]
  /\ seen' = [seen EXCEPT ![h] = @ + 1]
  /\ UNCHANGED <<accepted, members>>

(* A handler joins level with the others and misses nothing accepted since *)
(* they were last served.                                                  *)
Join(h) ==
  /\ h \notin members
  /\ members' = members \cup {h}
  /\ \E n \in 0 .. accepted :
       /\ \A g \in members : seen[g] = n
       /\ seen' = [seen EXCEPT ![h] = n]
  /\ UNCHANGED accepted

Leave(h) ==
  /\ h \in members
  /\ members' = members \ {h}
  /\ UNCHANGED <<accepted, seen>>

Next ==
  \/ Accept
  \/ \E h \in Handlers : Deliver(h) \/ Join(h) \/ Leave(h)

Spec == Init /\ [][Next]_vars
=============================================================================
