---------------------------- MODULE EventChannel ----------------------------
(***************************************************************************)
(* One event channel of event/event.c: the array its events wait in, the   *)
(* linked list of its handlers, and the pass event_channel_process makes   *)
(* over both.                                                              *)
(*                                                                         *)
(* The firmware is one thread: no interrupt handler posts.  Calls overlap  *)
(* only by nesting: while event_channel_process (or event_post_rt) has     *)
(* called a handler, that handler may post to the very channel being       *)
(* processed.  A pass is therefore split at every handler call.            *)
(*                                                                         *)
(* An event's payload is its number in the order of acceptance, so that    *)
(* the invariants can tell one event from another.                         *)
(***************************************************************************)
EXTENDS Naturals, FiniteSets

CONSTANTS
  Handlers,       \* the struct event_ch_handler objects of the program
  Priority,       \* their priority fields
  NULL,
  QueueSize,      \* struct event_channel.queue_size
  OneHandler,     \* struct event_channel.onehandler
  StaticHandler,  \* the handler in the channel's definition, or NULL
  Reusable,       \* handlers that are subscribed again after a removal
  MaxPosts        \* bound on the number of events accepted

ASSUME ChannelAssumption ==
  /\ IsFiniteSet(Handlers)
  /\ NULL \notin Handlers
  /\ Priority \in [Handlers -> 0 .. 255]
  /\ QueueSize \in Nat \ {0}
  /\ OneHandler \in BOOLEAN
  /\ StaticHandler \in Handlers \cup {NULL}
  /\ Reusable \subseteq Handlers
  /\ MaxPosts \in Nat

VARIABLES
  registered, \* channels[ch] # NULL
  first,      \* channel->handlers
  next,       \* next[h]: the next field of h
  queue,      \* channel->queue, by slot
  head,       \* channel->head: slots in use
  mode,       \* "idle", or the function that walks the list: "process", "rt"
  i,          \* event_channel_process: slot being dispatched
  cur,        \* the local variable handler of the walk
  inCall,     \* handler cur has been called and has not returned
  ret,        \* what the last event_ call returned
  accepted,   \* history: number of events accepted by event_post
  base,       \* history: number of events of completed passes
  members,    \* history: handlers subscribed and not unsubscribed
  fresh,      \* history: handlers never subscribed
  seen,       \* history: last event handed to each handler by a pass
  called      \* history: handlers called so far for the current event

chan == <<registered, first, next, queue, head>>
walk == <<mode, i, cur, inCall>>
hist == <<accepted, base, members, fresh, seen, called>>
vars == <<registered, first, next, queue, head, mode, i, cur, inCall, ret,
          accepted, base, members, fresh, seen, called>>

Slots == 0 .. QueueSize - 1
Codes == {"OK", "ERR_NO_MEM", "ERR_UNSUPPORTED", "ERR_DUPLICATE", "ERR_BAD_PARAM"}

(***************************************************************************)
(* The list.  list is the sequence of handlers the next pointers string    *)
(* together from first; there is none when they run in a circle.           *)
(***************************************************************************)
IsList(n, list) ==
  /\ \A j, k \in 1 .. n : list[j] = list[k] => j = k
  /\ first = IF n = 0 THEN NULL ELSE list[1]
  /\ \A k \in 1 .. n : next[list[k]] = IF k = n THEN NULL ELSE list[k + 1]

Listed(n, list) == {list[k] : k \in 1 .. n}

Length == 0 .. Cardinality(Handlers)

-----------------------------------------------------------------------------
Init ==
  /\ registered = FALSE
  /\ first = StaticHandler
  /\ next = [h \in Handlers |-> NULL]
  /\ queue = [s \in Slots |-> 0]
  /\ head = 0
  /\ mode = "idle" /\ i = 0 /\ cur = NULL /\ inCall = FALSE
  /\ ret = "OK"
  /\ accepted = 0 /\ base = 0
  /\ members = {StaticHandler} \ {NULL}
  /\ fresh = Handlers \ {StaticHandler}
  /\ seen = [h \in Handlers |-> 0]
  /\ called = {}

(* event_channel_register, with the definition the constants describe or   *)
(* one that lacks its array or a size.                                     *)
Register(valid) ==
  /\ mode = "idle"
  /\ registered' = (registered \/ valid)
  /\ ret' = CASE registered -> "ERR_DUPLICATE"
              [] ~registered /\ ~valid -> "ERR_BAD_PARAM"
              [] ~registered /\ valid -> "OK"
  /\ UNCHANGED <<first, next, queue, head, walk, hist>>

-----------------------------------------------------------------------------
(* event_channel_subscribe.  Handlers are subscribed outside of a pass, as *)
(* the *_init functions do, and never while they are on the list.          *)
CanSubscribe(h) ==
  /\ registered
  /\ mode = "idle"
  /\ h \notin members
  /\ h \in fresh \cup Reusable

Subscribed(h) ==
  /\ ret' = "OK"
  /\ members' = members \cup {h}
  /\ fresh' = fresh \ {h}
  /\ seen' = [seen EXCEPT ![h] = base]
  /\ UNCHANGED <<registered, queue, head, walk, accepted, base, called>>

Refused ==
  /\ ret' = "ERR_UNSUPPORTED"
  /\ UNCHANGED <<chan, walk, hist>>

SubscribeEmpty(h) ==
  /\ CanSubscribe(h) /\ ~OneHandler
  /\ first = NULL
  /\ first' = h
  /\ next' = [next EXCEPT ![h] = NULL]
  /\ Subscribed(h)

(* Priority 0: behind the last handler.  The new handler's own next field  *)
(* is left as it is.                                                       *)
SubscribeLast(h) ==
  /\ CanSubscribe(h) /\ ~OneHandler
  /\ Priority[h] = 0
  /\ \E n \in Length \ {0} : \E list \in [1 .. n -> Handlers] :
       /\ IsList(n, list)
       /\ next' = [next EXCEPT ![list[n]] = h]
  /\ first' = first
  /\ Subscribed(h)

SubscribeFront(h) ==
  /\ CanSubscribe(h) /\ ~OneHandler
  /\ first # NULL
  /\ Priority[h] # 0
  /\ Priority[first] < Priority[h]
  /\ next' = [next EXCEPT ![h] = first]
  /\ first' = h
  /\ Subscribed(h)

(* The walk stops at the first handler whose successor has less priority.  *)
StopsAt(n, list, k, h) ==
  /\ k \in 1 .. n - 1
  /\ Priority[list[k + 1]] < Priority[h]
  /\ \A j \in 1 .. k - 1 : Priority[list[j + 1]] >= Priority[h]

SubscribeMiddle(h) ==
  /\ CanSubscribe(h) /\ ~OneHandler
  /\ Priority[h] # 0
  /\ \E n \in Length \ {0} : \E list \in [1 .. n -> Handlers] :
       /\ IsList(n, list)
       /\ Priority[first] >= Priority[h]
       /\ \E k \in 1 .. n - 1 :
            /\ StopsAt(n, list, k, h)
            /\ next' = [next EXCEPT ![h] = list[k + 1], ![list[k]] = h]
  /\ first' = first
  /\ Subscribed(h)

(* Fault: onehandler lets the newcomer take the place of the handler.      *)
SubscribeReplaces(h) ==
  /\ CanSubscribe(h) /\ OneHandler
  /\ first' = h
  /\ next' = next
  /\ Subscribed(h)

(* The channel has its one handler, or the walk falls off the end as no    *)
(* handler has less priority.                                              *)
NoPlaceFor(h) ==
  \/ OneHandler
  \/ /\ Priority[h] # 0
     /\ \E n \in Length \ {0} : \E list \in [1 .. n -> Handlers] :
          /\ IsList(n, list)
          /\ \A k \in 1 .. n : Priority[list[k]] >= Priority[h]

SubscribeRefused(h) == CanSubscribe(h) /\ NoPlaceFor(h) /\ Refused

Subscribe(h) ==
  \/ SubscribeEmpty(h)
  \/ SubscribeLast(h)
  \/ SubscribeFront(h)
  \/ SubscribeMiddle(h)
  \/ SubscribeRefused(h)

-----------------------------------------------------------------------------
(* event_channel_unsubscribe.  The removed handler keeps its next field.   *)
CanUnsubscribe == registered /\ mode = "idle"

Unsubscribed(h) ==
  /\ ret' = "OK"
  /\ members' = members \ {h}
  /\ UNCHANGED <<registered, queue, head, walk,
                 accepted, base, fresh, seen, called>>

UnsubscribeFirst(h) ==
  /\ CanUnsubscribe /\ ~OneHandler
  /\ first = h
  /\ first' = next[h]
  /\ next' = next
  /\ Unsubscribed(h)

(* Fault: the handlers behind the removed one are cut off with it.         *)
UnsubscribeTail(h) ==
  /\ CanUnsubscribe /\ ~OneHandler
  /\ \E n \in Length \ {0} : \E list \in [1 .. n -> Handlers] :
       /\ IsList(n, list)
       /\ \E k \in 1 .. n - 1 :
            /\ list[k + 1] = h
            /\ next' = [next EXCEPT ![list[k]] = NULL]
  /\ first' = first
  /\ Unsubscribed(h)

UnsubscribeLater(h) ==
  /\ CanUnsubscribe /\ ~OneHandler
  /\ \E n \in Length \ {0} : \E list \in [1 .. n -> Handlers] :
       /\ IsList(n, list)
       /\ \E k \in 1 .. n - 1 :
            /\ list[k + 1] = h
            /\ next' = [next EXCEPT ![list[k]] = next[h]]
  /\ first' = first
  /\ Unsubscribed(h)

(* An empty list is no error; a handler that is not on the list is one.    *)
UnsubscribeNothing(h) ==
  /\ CanUnsubscribe
  /\ \/ OneHandler
     \/ /\ first # h
        /\ \E n \in Length : \E list \in [1 .. n -> Handlers] :
             IsList(n, list) /\ h \notin Listed(n, list)
  /\ ret' = IF ~OneHandler /\ first = NULL THEN "OK" ELSE "ERR_UNSUPPORTED"
  /\ UNCHANGED <<chan, walk, hist>>

Unsubscribe(h) ==
  \/ UnsubscribeFirst(h)
  \/ UnsubscribeLater(h)
  \/ UnsubscribeNothing(h)

-----------------------------------------------------------------------------
(* event_post, from the main loop or from inside a handler.                *)
CanPost == registered /\ (mode = "idle" \/ inCall)

(* Fault: the guard of event_post is one too generous.                     *)
QueueOverfull == head >= QueueSize

QueueFull == head >= QueueSize - 1

(* Fault: event_post counts before it copies.                              *)
PostAfterCount ==
  /\ CanPost
  /\ ~QueueFull
  /\ accepted < MaxPosts
  /\ queue' = [queue EXCEPT ![head + 1] = accepted + 1]
  /\ head' = head + 1
  /\ accepted' = accepted + 1
  /\ ret' = "OK"
  /\ UNCHANGED <<registered, first, next, walk,
                 base, members, fresh, seen, called>>

PostAccepted ==
  /\ CanPost
  /\ ~QueueFull
  /\ accepted < MaxPosts
  /\ queue' = [queue EXCEPT ![head] = accepted + 1]
  /\ head' = head + 1
  /\ accepted' = accepted + 1
  /\ ret' = "OK"
  /\ UNCHANGED <<registered, first, next, walk,
                 base, members, fresh, seen, called>>

PostRejected ==
  /\ CanPost
  /\ QueueFull
  /\ ret' = "ERR_NO_MEM"
  /\ UNCHANGED <<chan, walk, hist>>

-----------------------------------------------------------------------------
(* event_channel_process: the pass over the slots ...                      *)
StartPass ==
  /\ registered
  /\ mode = "idle"
  /\ mode' = "process"
  /\ i' = 0
  /\ cur' = IF head > 0 THEN first ELSE NULL
  /\ called' = {}
  /\ UNCHANGED <<chan, inCall, ret, accepted, base, members, fresh, seen>>

(* Fault: the pass steps over every second slot.                           *)
NextSlotSkips ==
  /\ mode = "process" /\ ~inCall /\ cur = NULL
  /\ i < head
  /\ i' = i + 2
  /\ cur' = IF i + 2 < head THEN first ELSE NULL
  /\ called' = {}
  /\ UNCHANGED <<chan, mode, inCall, ret, accepted, base, members, fresh, seen>>

(* ... whose bound is the current head, so that what a handler posts to    *)
(* this channel is dispatched by the same pass ...                         *)
NextSlot ==
  /\ mode = "process" /\ ~inCall /\ cur = NULL
  /\ i < head
  /\ i' = i + 1
  /\ cur' = IF i + 1 < head THEN first ELSE NULL
  /\ called' = {}
  /\ UNCHANGED <<chan, mode, inCall, ret, accepted, base, members, fresh, seen>>

EndPass ==
  /\ mode = "process" /\ ~inCall /\ cur = NULL
  /\ i >= head
  /\ head' = 0
  /\ mode' = "idle"
  /\ i' = 0
  /\ base' = base + head
  /\ ret' = "OK"
  /\ UNCHANGED <<registered, first, next, queue, cur, inCall,
                 accepted, members, fresh, seen, called>>

(* ... and, for each slot, the walk along the handlers, which event_post_rt *)
(* makes too.  The next field is read after the handler has returned.       *)
CallHandler ==
  /\ mode # "idle" /\ ~inCall /\ cur # NULL
  /\ inCall' = TRUE
  /\ called' = called \cup {cur}
  /\ seen' = IF mode = "process" THEN [seen EXCEPT ![cur] = queue[i]] ELSE seen
  /\ UNCHANGED <<chan, mode, i, cur, ret, accepted, base, members, fresh>>

(* Fault: the walk passes over a handler.                                  *)
HandlerReturnsTwoOn ==
  /\ inCall
  /\ inCall' = FALSE
  /\ cur' = IF next[cur] = NULL THEN NULL ELSE next[next[cur]]
  /\ UNCHANGED <<chan, mode, i, ret, hist>>

HandlerReturns ==
  /\ inCall
  /\ inCall' = FALSE
  /\ cur' = next[cur]
  /\ UNCHANGED <<chan, mode, i, ret, hist>>

(* event_post_rt.                                                          *)
StartPostRt ==
  /\ registered
  /\ mode = "idle"
  /\ mode' = "rt"
  /\ cur' = first
  /\ called' = {}
  /\ UNCHANGED <<chan, i, inCall, ret, accepted, base, members, fresh, seen>>

EndPostRt ==
  /\ mode = "rt" /\ ~inCall /\ cur = NULL
  /\ mode' = "idle"
  /\ ret' = "OK"
  /\ UNCHANGED <<chan, i, cur, inCall, hist>>

-----------------------------------------------------------------------------
Dispatch == NextSlot \/ EndPass \/ CallHandler \/ HandlerReturns \/ EndPostRt

Next ==
  \/ \E valid \in BOOLEAN : Register(valid)
  \/ \E h \in Handlers : Subscribe(h) \/ Unsubscribe(h)
  \/ PostAccepted \/ PostRejected
  \/ StartPass \/ StartPostRt
  \/ Dispatch

Spec == Init /\ [][Next]_vars

(* main() calls event_update on every turn of its loop, whatever else the  *)
(* turn does; a handler returns; a loop in progress goes on.               *)
Fairness == SF_vars(StartPass) /\ WF_vars(Dispatch)

FairSpec == Spec /\ Fairness
-----------------------------------------------------------------------------
(* Every variable stays in its type.                                       *)
TypeOK ==
  /\ registered \in BOOLEAN
  /\ first \in Handlers \cup {NULL}
  /\ next \in [Handlers -> Handlers \cup {NULL}]
  /\ queue \in [Slots -> 0 .. MaxPosts]
  /\ head \in Nat
  /\ mode \in {"idle", "process", "rt"}
  /\ i \in Nat
  /\ cur \in Handlers \cup {NULL}
  /\ inCall \in BOOLEAN
  /\ ret \in Codes
  /\ accepted \in 0 .. MaxPosts
  /\ base \in 0 .. MaxPosts
  /\ members \in SUBSET Handlers
  /\ fresh \in SUBSET Handlers
  /\ seen \in [Handlers -> 0 .. MaxPosts]
  /\ called \in SUBSET Handlers

(* Neither a post nor the pass ever leaves the used part of the array: a   *)
(* post always finds the slot at head inside it, and a handler is only     *)
(* ever given a slot that a post has filled, however many events handlers  *)
(* post while they are being called.                                       *)
NoOverrun ==
  /\ head \in Slots
  /\ i <= head
  /\ mode = "process" /\ cur # NULL => i < head

(* The array holds exactly the events that no completed pass has handed    *)
(* out, in the order they were accepted: a nested post neither overwrites  *)
(* a waiting event nor is forgotten when the pass resets head.             *)
QueueHoldsPending ==
  /\ accepted = base + head
  /\ \A s \in Slots : s < head => queue[s] = base + s + 1

(* The pointers string together exactly the subscribed handlers, each of   *)
(* them once: no subscription or removal loses or repeats another handler. *)
ListWellFormed ==
  \E n \in Length : \E list \in [1 .. n -> Handlers] :
    IsList(n, list) /\ Listed(n, list) = members

(* A walk along the list calls every subscribed handler and none twice,    *)
(* for an event of the queue and for a real-time event.                    *)
EveryHandlerCalledOnce ==
  /\ cur # NULL /\ ~inCall => cur \notin called
  /\ \/ mode = "process" /\ cur = NULL /\ i < head
     \/ mode = "rt" /\ cur = NULL
     => called = members

(* The channel keeps the promise of EventBus: accepted events reach every  *)
(* subscribed handler in order, without gap or repetition, and no handler  *)
(* runs ahead of another.                                                  *)
Bus == INSTANCE EventBus
BusSpec == Bus!Spec

(* What was accepted reaches a subscribed handler unless it unsubscribes.  *)
EventuallyDelivered ==
  \A h \in Handlers : \A n \in 1 .. MaxPosts :
    h \in members /\ seen[h] < n /\ n <= accepted
      ~> h \notin members \/ seen[h] >= n

-----------------------------------------------------------------------------
(* What event.h says and the code does not do.                             *)

(* "1 means max priority, and will be called first. 255 means min          *)
(* priority, and will be called last."  The code sorts the other way       *)
(* around, from the largest number down (SortedDownwards in the proofs).   *)
DocumentedPriorityOrder ==
  \A h \in members :
    next[h] # NULL /\ Priority[h] # 0 /\ Priority[next[h]] # 0
      => Priority[h] <= Priority[next[h]]

(* "@retval ERR_NO_MEM queue is full", queue_size being "the size of the   *)
(* array (number of messages)": a post is refused with all slots in use.   *)
RefusedOnlyWhenFull == ret = "ERR_NO_MEM" => head = QueueSize
=============================================================================
