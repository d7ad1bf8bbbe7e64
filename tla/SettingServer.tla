--------------------------- MODULE SettingServer ---------------------------
(***************************************************************************)
(* What the device promises a host that changes its settings with system   *)
(* exclusive messages, without packets, queues or a buffer.                *)
(*                                                                         *)
(* Requests are numbered in the order the host makes them.  The device     *)
(* serves them in that order, each of them once and in one step, and       *)
(* passes over none that is not lost.  A loss costs one request and at     *)
(* most the one after it; what is left of a lost one may still be taken    *)
(* for a request, but spoils one field at most.                            *)
(***************************************************************************)
EXTENDS Naturals, Sequences

CONSTANTS
  Requests,   \* what the host may ask for
  Writing,    \* the requests that give a field its data
  Fields      \* the fields of the setting

VARIABLES
  requested,  \* the requests made
  lost,       \* numbers of those not everything of which arrives
  served,     \* number of the last one served
  setting

vars == <<requested, lost, served, setting>>

Init == requested = <<>> /\ lost = {} /\ served = 0

Request(r) ==
  /\ requested' = Append(requested, r)
  /\ UNCHANGED <<lost, served, setting>>

(* Only a request not served yet can be lost, with the one behind it.      *)
Lose(k) ==
  /\ lost' \in {lost \cup {k}, lost \cup {k, k + 1}}
  /\ UNCHANGED <<requested, served, setting>>

Effect(r) == IF r \in Writing THEN [setting EXCEPT ![r.field] = r.data] ELSE setting

Spoilt == \E f \in Fields : setting' = [setting EXCEPT ![f] = setting'[f]]

Serve(k) ==
  /\ (served + 1) .. (k - 1) \subseteq lost
  /\ served' = k
  /\ IF k \in lost THEN Spoilt ELSE setting' = Effect(requested[k])
  /\ UNCHANGED <<requested, lost>>

Next ==
  \/ \E r \in Requests : Request(r)
  \/ \E k \in (served + 1) .. Len(requested) : Lose(k) \/ Serve(k)

Spec == Init /\ [][Next]_vars
=============================================================================
