------------------------- MODULE EventChannelProofs -------------------------
(***************************************************************************)
(* Theorems about EventChannel, for every set of handlers, every size of   *)
(* the array and every number of posts.                                    *)
(***************************************************************************)
EXTENDS EventChannel, FiniteSetTheorems, WellFoundedInduction, TLAPS

(* The length of a pass is decided while it runs: a walk is in progress    *)
(* whenever a handler is current, and it only ever sees filled slots.      *)
WalkOK ==
  /\ cur # NULL => mode # "idle"
  /\ inCall => cur # NULL

(* The inductive invariant of the array.                                   *)
QueueInv == TypeOK /\ WalkOK /\ NoOverrun /\ QueueHoldsPending

-----------------------------------------------------------------------------
LEMMA QueueInvInit == Init => QueueInv
  <1> SUFFICES ASSUME Init PROVE QueueInv
    OBVIOUS
  <1>1. TypeOK
    <2>1. /\ registered \in BOOLEAN /\ inCall \in BOOLEAN
          /\ ret \in Codes /\ mode \in {"idle", "process", "rt"}
          /\ head \in Nat /\ i \in Nat
      BY DEF Init, Codes
    <2>2. /\ first \in Handlers \cup {NULL} /\ cur \in Handlers \cup {NULL}
          /\ members \in SUBSET Handlers
          /\ fresh \in SUBSET Handlers
          /\ called \in SUBSET Handlers
      BY ChannelAssumption DEF Init
    <2>3. /\ accepted \in 0 .. MaxPosts /\ base \in 0 .. MaxPosts
          /\ queue \in [Slots -> 0 .. MaxPosts]
          /\ seen \in [Handlers -> 0 .. MaxPosts]
          /\ next \in [Handlers -> Handlers \cup {NULL}]
      BY ChannelAssumption DEF Init
    <2> QED
      BY <2>1, <2>2, <2>3 DEF TypeOK
  <1>2. WalkOK /\ NoOverrun /\ QueueHoldsPending
    BY ChannelAssumption DEF Init, WalkOK, NoOverrun, QueueHoldsPending, Slots
  <1> QED
    BY <1>1, <1>2 DEF QueueInv

(* Subscribing and unsubscribing only touch the list.                      *)
LEMMA QueueInvSubscribe ==
  ASSUME QueueInv, NEW h \in Handlers, Subscribe(h) \/ Unsubscribe(h)
  PROVE  QueueInv'
  <1> USE DEF QueueInv
  <1>1. /\ UNCHANGED <<registered, queue, head, mode, i, cur, inCall,
                       accepted, base, called>>
        /\ ret' \in Codes
    BY DEF Subscribe, SubscribeEmpty, SubscribeLast,
           SubscribeFront, SubscribeMiddle, SubscribeRefused, Subscribed, Refused,
           Unsubscribe, UnsubscribeFirst, UnsubscribeLater, UnsubscribeNothing,
           Unsubscribed, chan, walk, hist, Codes
  <1>2. /\ members' \in SUBSET Handlers
        /\ fresh' \in SUBSET Handlers
        /\ seen' \in [Handlers -> 0 .. MaxPosts]
    BY DEF Subscribe, SubscribeEmpty, SubscribeLast,
           SubscribeFront, SubscribeMiddle, SubscribeRefused, Subscribed, Refused,
           Unsubscribe, UnsubscribeFirst, UnsubscribeLater, UnsubscribeNothing,
           Unsubscribed, chan, walk, hist, TypeOK
  <1>3. first' \in Handlers \cup {NULL} /\ next' \in [Handlers -> Handlers \cup {NULL}]
    <2>1. CASE SubscribeLast(h)
      <3>1. PICK n \in Length \ {0} : \E list \in [1 .. n -> Handlers] :
              next' = [next EXCEPT ![list[n]] = h]
        BY <2>1 DEF SubscribeLast
      <3>2. n \in Nat
        BY <3>1, FS_CardinalityType DEF Length
      <3>3. PICK list \in [1 .. n -> Handlers] : next' = [next EXCEPT ![list[n]] = h]
        BY <3>1
      <3> QED BY <2>1, <3>3 DEF SubscribeLast, TypeOK
    <2>2. CASE SubscribeMiddle(h)
      <3>1. PICK n \in Length \ {0} : \E list \in [1 .. n -> Handlers] :
              \E k \in 1 .. n - 1 :
                next' = [next EXCEPT ![h] = list[k + 1], ![list[k]] = h]
        BY <2>2 DEF SubscribeMiddle
      <3>2. n \in Nat
        BY <3>1, FS_CardinalityType DEF Length
      <3>3. PICK list \in [1 .. n -> Handlers], k \in 1 .. n - 1 :
                next' = [next EXCEPT ![h] = list[k + 1], ![list[k]] = h]
        BY <3>1
      <3>4. list[k] \in Handlers /\ list[k + 1] \in Handlers
        BY <3>2, <3>3
      <3> QED BY <2>2, <3>3, <3>4 DEF SubscribeMiddle, TypeOK
    <2>3. CASE UnsubscribeLater(h)
      BY ChannelAssumption, <2>3 DEF UnsubscribeLater, TypeOK
    <2>4. CASE SubscribeRefused(h) \/ UnsubscribeNothing(h)
      BY <2>4 DEF SubscribeRefused, UnsubscribeNothing,
                  Refused, chan, TypeOK
    <2>5. CASE SubscribeEmpty(h) \/ SubscribeFront(h) \/ UnsubscribeFirst(h)
      BY <2>5 DEF SubscribeEmpty, SubscribeFront, UnsubscribeFirst, TypeOK
    <2> QED
      BY <2>1, <2>2, <2>3, <2>4, <2>5 DEF Subscribe, Unsubscribe
  <1> QED
    BY <1>1, <1>2, <1>3 DEF TypeOK, WalkOK, NoOverrun, QueueHoldsPending

(* A post, the only step that fills a slot.                                *)
LEMMA QueueInvPost ==
  ASSUME QueueInv, PostAccepted PROVE QueueInv'
  <1> USE DEF QueueInv
  <1>1. head \in Nat /\ head + 1 \in Slots /\ accepted + 1 \in 0 .. MaxPosts
    BY ChannelAssumption DEF PostAccepted, QueueFull, TypeOK, NoOverrun, Slots
  <1>2. TypeOK'
    <2>1. queue' \in [Slots -> 0 .. MaxPosts]
      BY <1>1 DEF PostAccepted, TypeOK
    <2>2. head' \in Nat /\ ret' \in Codes /\ accepted' \in 0 .. MaxPosts
      BY <1>1 DEF PostAccepted, Codes
    <2>3. UNCHANGED <<registered, first, next, mode, i, cur, inCall, base,
                      members, fresh, seen, called>>
      BY DEF PostAccepted, walk
    <2> QED
      BY <2>1, <2>2, <2>3 DEF TypeOK
  <1>3. UNCHANGED <<mode, i, cur, inCall, base>>
    BY DEF PostAccepted, walk
  <1>4. WalkOK'
    BY <1>3 DEF WalkOK
  <1>5. head' = head + 1 /\ head \in Slots
    BY DEF PostAccepted, NoOverrun
  <1>6. NoOverrun'
    BY <1>1, <1>3, <1>5 DEF NoOverrun, TypeOK
  <1>7. accepted = base + head /\ accepted' = accepted + 1 /\ base \in Nat
    BY DEF PostAccepted, QueueHoldsPending, TypeOK
  <1>8. ASSUME NEW s \in Slots, s < head' PROVE queue'[s] = base' + s + 1
    <2>1. queue \in [Slots -> 0 .. MaxPosts] /\ s \in Nat /\ head \in Nat
      BY DEF TypeOK, Slots
    <2>2. queue' = [queue EXCEPT ![head] = accepted + 1]
      BY DEF PostAccepted
    <2>3. CASE s = head
      BY <2>1, <2>2, <2>3, <1>3, <1>5, <1>7
    <2>4. CASE s # head
      BY <2>1, <2>2, <2>4, <1>3, <1>5, <1>8 DEF QueueHoldsPending
    <2> QED
      BY <2>3, <2>4
  <1>9. QueueHoldsPending'
    BY <1>1, <1>3, <1>5, <1>7, <1>8 DEF QueueHoldsPending
  <1> QED
    BY <1>2, <1>4, <1>6, <1>9

LEMMA QueueInvWalk ==
  ASSUME QueueInv, StartPass \/ StartPostRt \/ Dispatch PROVE QueueInv'
  <1> USE DEF QueueInv
  <1>1. CASE StartPass
    BY <1>1 DEF StartPass, TypeOK, WalkOK, NoOverrun, QueueHoldsPending, chan, Slots
  <1>2. CASE StartPostRt
    BY <1>2 DEF StartPostRt, TypeOK, WalkOK, NoOverrun, QueueHoldsPending, chan, Slots
  <1>3. CASE NextSlot
    BY <1>3 DEF NextSlot, TypeOK, WalkOK, NoOverrun, QueueHoldsPending, chan, Slots
  <1>4. CASE EndPass
    BY ChannelAssumption, <1>4
       DEF EndPass, TypeOK, WalkOK, NoOverrun, QueueHoldsPending, Slots, Codes
  <1>5. CASE CallHandler
    <2>1. mode = "process" => queue[i] \in 0 .. MaxPosts
      BY ChannelAssumption, <1>5 DEF CallHandler, TypeOK, NoOverrun, Slots
    <2> QED
      BY <1>5, <2>1 DEF CallHandler, TypeOK, WalkOK, NoOverrun, QueueHoldsPending, chan
  <1>6. CASE HandlerReturns
    BY <1>6 DEF HandlerReturns, TypeOK, WalkOK, NoOverrun, QueueHoldsPending,
                chan, hist
  <1>7. CASE EndPostRt
    BY <1>7 DEF EndPostRt, TypeOK, WalkOK, NoOverrun, QueueHoldsPending,
                chan, hist, Codes
  <1> QED
    BY <1>1, <1>2, <1>3, <1>4, <1>5, <1>6, <1>7 DEF Dispatch

LEMMA QueueInvNext == QueueInv /\ [Next]_vars => QueueInv'
  <1> SUFFICES ASSUME QueueInv, [Next]_vars PROVE QueueInv'
    OBVIOUS
  <1>1. CASE \E valid \in BOOLEAN : Register(valid)
    BY <1>1 DEF Register, QueueInv, TypeOK, WalkOK, NoOverrun, QueueHoldsPending,
                walk, hist, Codes
  <1>2. CASE \E h \in Handlers : Subscribe(h) \/ Unsubscribe(h)
    BY <1>2, QueueInvSubscribe
  <1>3. CASE PostAccepted
    BY <1>3, QueueInvPost
  <1>4. CASE PostRejected
    BY <1>4 DEF PostRejected, QueueInv, TypeOK, WalkOK, NoOverrun, QueueHoldsPending,
                chan, walk, hist, Codes
  <1>5. CASE StartPass \/ StartPostRt \/ Dispatch
    BY <1>5, QueueInvWalk
  <1>6. CASE UNCHANGED vars
    BY <1>6 DEF vars, QueueInv, TypeOK, WalkOK, NoOverrun, QueueHoldsPending
  <1> QED
    BY <1>1, <1>2, <1>3, <1>4, <1>5, <1>6 DEF Next

LEMMA QueueInvariant == Spec => []QueueInv
  BY QueueInvInit, QueueInvNext, PTL DEF Spec

(* Every variable stays in its type.                                       *)
THEOREM TypeCorrect == Spec => []TypeOK
  BY QueueInvariant, PTL DEF QueueInv

(* event_post and event_channel_process stay inside the array, and a       *)
(* handler is only given slots that a post has filled.                     *)
THEOREM NoOverrunAlways == Spec => []NoOverrun
  BY QueueInvariant, PTL DEF QueueInv

(* The array holds exactly the events no completed pass has handed out, in *)
(* the order of acceptance, however handlers post while they are called.   *)
THEOREM QueueHoldsPendingAlways == Spec => []QueueHoldsPending
  BY QueueInvariant, PTL DEF QueueInv

-----------------------------------------------------------------------------
(***************************************************************************)
(* The list.  event_channel_subscribe trusts the next field of a handler   *)
(* it appends; what follows is proved for programs that subscribe a        *)
(* handler of priority 0 at most once, as this one does.                   *)
(***************************************************************************)
NoStaleReuse == \A h \in Reusable : Priority[h] # 0

(* list is the whole list, and holds exactly the members.                  *)
Chain(n, list) ==
  /\ n \in Nat
  /\ list \in [1 .. n -> Handlers]
  /\ IsList(n, list)
  /\ Listed(n, list) = members

(* A set of naturals has a least element.                                  *)
LEMMA LeastNat ==
  ASSUME NEW T, T \subseteq Nat, T # {}
  PROVE  \E x \in T : \A y \in T : x <= y
  <1>1. PICK x \in T : \A y \in T : ~ (<<y, x>> \in OpToRel(<, Nat))
    BY NatLessThanWellFounded, WFMin
  <1>2. ASSUME NEW y \in T, y < x PROVE FALSE
    <2>1. <<y, x>> \in Nat \X Nat
      OBVIOUS
    <2>2. <<y, x>> \in OpToRel(<, Nat)
      BY <1>2, <2>1 DEF OpToRel
    <2> QED
      BY <1>1, <2>2
  <1> QED
    BY <1>2

(* Of two lists strung together by the same pointers, one is a prefix of   *)
(* the other ...                                                           *)
LEMMA ListPrefix ==
  ASSUME NEW n \in Nat, NEW l \in [1 .. n -> Handlers], IsList(n, l),
         NEW m \in Nat, NEW k \in [1 .. m -> Handlers], IsList(m, k)
  PROVE  n <= m /\ \A j \in 1 .. n : l[j] = k[j]
  <1> DEFINE Differ == {j \in 1 .. n : j > m \/ l[j] # k[j]}
  <1>1. SUFFICES ASSUME Differ # {} PROVE FALSE
    <2>1. SUFFICES ASSUME Differ = {} PROVE n <= m /\ \A j \in 1 .. n : l[j] = k[j]
      OBVIOUS
    <2>2. \A j \in 1 .. n : j <= m /\ l[j] = k[j]
      BY <2>1
    <2>3. n = 0 \/ n \in 1 .. n
      OBVIOUS
    <2> QED
      BY <2>2, <2>3
  <1>2. PICK x \in Differ : \A y \in Differ : x <= y
    <2>1. Differ \subseteq Nat
      OBVIOUS
    <2> HIDE DEF Differ
    <2> QED
      BY <1>1, <2>1, LeastNat
  <1>3. x \in 1 .. n /\ l[x] \in Handlers /\ l[x] # NULL
    BY <1>2, ChannelAssumption
  <1>4. CASE x = 1
    <2>1. first = l[1] /\ m # 0
      BY <1>3, <1>4 DEF IsList
    <2> QED
      BY <1>2, <1>4, <2>1 DEF IsList
  <1>5. CASE x # 1
    <2>1. x - 1 \in 1 .. n /\ x - 1 \notin Differ
      BY <1>2, <1>3, <1>5
    <2>2. x - 1 \in 1 .. m /\ l[x - 1] = k[x - 1]
      BY <2>1
    <2>3. next[l[x - 1]] = l[x]
      BY <1>3, <2>1 DEF IsList
    <2>4. x - 1 # m
      BY <1>3, <2>2, <2>3 DEF IsList
    <2>5. next[k[x - 1]] = k[x]
      BY <2>2, <2>4 DEF IsList
    <2> QED
      BY <1>2, <1>3, <2>2, <2>3, <2>4, <2>5
  <1> QED
    BY <1>4, <1>5

(* ... so that there is only one.                                          *)
LEMMA ListUnique ==
  ASSUME NEW n \in Nat, NEW l \in [1 .. n -> Handlers], IsList(n, l),
         NEW m \in Nat, NEW k \in [1 .. m -> Handlers], IsList(m, k)
  PROVE  n = m /\ l = k
  <1>1. n <= m /\ \A j \in 1 .. n : l[j] = k[j]
    BY ListPrefix
  <1>2. m <= n
    BY ListPrefix
  <1> QED
    BY <1>1, <1>2

(* A list has no more entries than there are handlers.                     *)
LEMMA ListFits ==
  ASSUME NEW n \in Nat, NEW l \in [1 .. n -> Handlers], IsList(n, l)
  PROVE  n \in Length
  <1>1. l \in Injection(1 .. n, Handlers)
    BY DEF IsList, Injection, IsInjective
  <1>2. IsFiniteSet(Handlers)
    BY ChannelAssumption
  <1>3. Cardinality(1 .. n) <= Cardinality(Handlers)
    BY <1>1, <1>2, FS_Injection
  <1>4. Cardinality(1 .. n) = n
    BY FS_Interval
  <1>5. Cardinality(Handlers) \in Nat
    BY <1>2, FS_CardinalityType
  <1> QED
    BY <1>3, <1>4, <1>5 DEF Length

(* An entry is a member and not NULL; no entry is NULL's successor.        *)
LEMMA ListEntry ==
  ASSUME NEW n \in Nat, NEW l, Chain(n, l), NEW j \in 1 .. n
  PROVE  l[j] \in members /\ l[j] \in Handlers /\ l[j] # NULL
  BY ChannelAssumption DEF Chain, Listed

-----------------------------------------------------------------------------
(* No handler has a larger priority number than the one in front of it.    *)
SortedDownwards ==
  \A h \in members : next[h] # NULL => Priority[next[h]] <= Priority[h]

(* What the branches of event_channel_subscribe have in common: h is linked *)
(* in behind the first k handlers, none of which has less priority, and in *)
(* front of handlers that have no more.                                    *)
LEMMA Inserted ==
  ASSUME TypeOK, NEW n \in Nat, NEW l, Chain(n, l), SortedDownwards,
         NEW h \in Handlers, h \notin members, NEW k \in 0 .. n,
         first' = IF k = 0 THEN h ELSE first,
         \A g \in Handlers :
           next'[g] = IF g = h THEN IF k = n THEN NULL ELSE l[k + 1]
                      ELSE IF k > 0 /\ g = l[k] THEN h ELSE next[g],
         members' = members \cup {h},
         k < n => Priority[l[k + 1]] <= Priority[h],
         k > 0 => Priority[h] <= Priority[l[k]]
  PROVE  /\ \E m \in Nat : \E new : Chain(m, new)'
         /\ SortedDownwards'
  <1> DEFINE new == [j \in 1 .. n + 1 |-> IF j <= k THEN l[j]
                                          ELSE IF j = k + 1 THEN h ELSE l[j - 1]]
  <1>1. l \in [1 .. n -> Handlers] /\ IsList(n, l) /\ Listed(n, l) = members
    BY DEF Chain
  <1>2. \A j \in 1 .. n : l[j] \in Handlers /\ l[j] # h /\ l[j] # NULL
    BY <1>1, ListEntry
  <1>3. new \in [1 .. n + 1 -> Handlers]
    BY <1>1
  <1>4. \A a, b \in 1 .. n + 1 : new[a] = new[b] => a = b
    <2>1. \A a, b \in 1 .. n : l[a] = l[b] => a = b
      BY <1>1 DEF IsList
    <2> QED
      BY <1>2, <2>1
  <1>5. first' = new[1]
    <2>1. CASE k = 0
      BY <2>1
    <2>2. CASE k # 0
      <3>1. first = l[1]
        BY <1>1, <2>2 DEF IsList
      <3>2. new[1] = l[1]
        BY <2>2
      <3> QED
        BY <2>2, <3>1, <3>2
    <2> QED
      BY <2>1, <2>2
  <1>6. ASSUME NEW j \in 1 .. n + 1
        PROVE  next'[new[j]] = IF j = n + 1 THEN NULL ELSE new[j + 1]
    <2>1. CASE j < k
      <3>1. new[j] = l[j] /\ new[j + 1] = l[j + 1] /\ j \in 1 .. n /\ j + 1 \in 1 .. n
        BY <2>1
      <3>2. l[j] # l[k] /\ l[j] # h /\ l[j] \in Handlers
        BY <1>1, <1>2, <2>1, <3>1 DEF IsList
      <3>3. next[l[j]] = l[j + 1]
        BY <1>1, <2>1, <3>1 DEF IsList
      <3> QED
        BY <2>1, <3>1, <3>2, <3>3
    <2>2. CASE j = k
      <3>1. new[j] = l[k] /\ new[j + 1] = h /\ k \in 1 .. n
        BY <2>2
      <3> QED
        BY <1>2, <2>2, <3>1
    <2>3. CASE j = k + 1
      <3>1. new[j] = h
        BY <2>3
      <3>2. k < n => new[j + 1] = l[k + 1]
        BY <2>3
      <3> QED
        BY <2>3, <3>1, <3>2
    <2>4. CASE j > k + 1
      <3>1. new[j] = l[j - 1] /\ j - 1 \in 1 .. n
        BY <2>4
      <3>2. l[j - 1] # h /\ l[j - 1] \in Handlers /\ (k > 0 => l[j - 1] # l[k])
        BY <1>1, <1>2, <2>4, <3>1 DEF IsList
      <3>3. next'[new[j]] = next[l[j - 1]]
        BY <3>1, <3>2
      <3>4. next[l[j - 1]] = IF j - 1 = n THEN NULL ELSE l[j]
        BY <1>1, <3>1 DEF IsList
      <3>5. j < n + 1 => new[j + 1] = l[j]
        BY <2>4
      <3> QED
        BY <2>4, <3>3, <3>4, <3>5
    <2> QED
      BY <2>1, <2>2, <2>3, <2>4
  <1>7. {new[j] : j \in 1 .. n + 1} = members \cup {h}
    <2>1. members = {l[j] : j \in 1 .. n}
      BY <1>1 DEF Listed
    <2>2. ASSUME NEW j \in 1 .. n + 1 PROVE new[j] \in members \cup {h}
      BY <2>1
    <2>3. ASSUME NEW j \in 1 .. n PROVE \E a \in 1 .. n + 1 : new[a] = l[j]
      <3>1. CASE j <= k
        BY <3>1
      <3>2. CASE j > k
        <4>1. j + 1 \in 1 .. n + 1 /\ new[j + 1] = l[j]
          BY <3>2
        <4> QED BY <4>1
      <3> QED BY <3>1, <3>2
    <2>4. k + 1 \in 1 .. n + 1 /\ new[k + 1] = h
      OBVIOUS
    <2> HIDE DEF new
    <2>5. {new[j] : j \in 1 .. n + 1} \subseteq members \cup {h}
      BY <2>2
    <2>6. members \subseteq {new[j] : j \in 1 .. n + 1}
      BY <2>1, <2>3
    <2>7. h \in {new[j] : j \in 1 .. n + 1}
      BY <2>4
    <2> QED
      BY <2>5, <2>6, <2>7
  <1>8. Chain(n + 1, new)'
    <2> HIDE DEF new
    <2>1. n + 1 \in Nat /\ n + 1 # 0
      OBVIOUS
    <2> QED
      BY <1>3, <1>4, <1>5, <1>6, <1>7, <2>1 DEF Chain, IsList, Listed
  <1>9. SortedDownwards'
    <2> SUFFICES ASSUME NEW g \in members', next'[g] # NULL
                 PROVE  Priority[next'[g]] <= Priority[g]
      BY DEF SortedDownwards
    <2>1. g \in Handlers
      BY DEF TypeOK
    <2>2. CASE g = h
      BY <2>1, <2>2
    <2>3. CASE g # h /\ k > 0 /\ g = l[k]
      BY <2>1, <2>3
    <2>4. CASE g # h /\ ~(k > 0 /\ g = l[k])
      BY <2>1, <2>4 DEF SortedDownwards
    <2> QED
      BY <2>2, <2>3, <2>4
  <1> QED
    BY <1>8, <1>9

(* What the branches of event_channel_unsubscribe have in common: the k-th *)
(* handler is taken out of the list and keeps its next field.              *)
LEMMA Removed ==
  ASSUME TypeOK, NEW n \in Nat, NEW l, Chain(n, l), SortedDownwards,
         NEW k \in 1 .. n,
         first' = IF k = 1 THEN next[l[1]] ELSE first,
         \A g \in Handlers :
           next'[g] = IF k > 1 /\ g = l[k - 1] THEN next[l[k]] ELSE next[g],
         members' = members \ {l[k]}
  PROVE  /\ \E m \in Nat : \E new : Chain(m, new)'
         /\ SortedDownwards'
  <1> DEFINE new == [j \in 1 .. n - 1 |-> IF j < k THEN l[j] ELSE l[j + 1]]
  <1>1. l \in [1 .. n -> Handlers] /\ IsList(n, l) /\ Listed(n, l) = members
    BY DEF Chain
  <1>2. \A j \in 1 .. n : l[j] \in Handlers /\ l[j] # NULL /\ (j # k => l[j] # l[k])
    BY <1>1, ListEntry DEF IsList
  <1>3. new \in [1 .. n - 1 -> Handlers]
    BY <1>1
  <1>4. \A a, b \in 1 .. n - 1 : new[a] = new[b] => a = b
    <2>1. \A a, b \in 1 .. n : l[a] = l[b] => a = b
      BY <1>1 DEF IsList
    <2> QED
      BY <2>1
  <1>5. first' = IF n - 1 = 0 THEN NULL ELSE new[1]
    <2>1. next[l[1]] = IF n = 1 THEN NULL ELSE l[2]
      BY <1>1 DEF IsList
    <2>2. first = l[1]
      BY <1>1 DEF IsList
    <2>3. CASE k = 1
      BY <2>1, <2>3
    <2>4. CASE k # 1
      BY <2>2, <2>4
    <2> QED
      BY <2>3, <2>4
  <1>6. ASSUME NEW j \in 1 .. n - 1
        PROVE  next'[new[j]] = IF j = n - 1 THEN NULL ELSE new[j + 1]
    <2>1. CASE j < k - 1
      <3>1. new[j] = l[j] /\ new[j + 1] = l[j + 1] /\ j \in 1 .. n /\ j # n
        BY <2>1
      <3>2. l[j] # l[k - 1]
        BY <1>1, <2>1, <3>1 DEF IsList
      <3>3. next[l[j]] = l[j + 1]
        BY <1>1, <3>1 DEF IsList
      <3> QED
        BY <1>2, <2>1, <3>1, <3>2, <3>3
    <2>2. CASE j = k - 1
      <3>1. new[j] = l[k - 1]
        BY <2>2
      <3>2. next'[new[j]] = next[l[k]]
        BY <1>2, <2>2, <3>1
      <3>3. next[l[k]] = IF k = n THEN NULL ELSE l[k + 1]
        BY <1>1 DEF IsList
      <3> QED
        BY <2>2, <3>2, <3>3
    <2>3. CASE j >= k
      <3>1. new[j] = l[j + 1] /\ j + 1 \in 1 .. n
        BY <2>3
      <3>2. k > 1 => l[j + 1] # l[k - 1]
        BY <1>1, <2>3, <3>1 DEF IsList
      <3>3. next'[new[j]] = next[l[j + 1]]
        BY <1>2, <3>1, <3>2
      <3>4. next[l[j + 1]] = IF j + 1 = n THEN NULL ELSE l[j + 2]
        BY <1>1, <3>1 DEF IsList
      <3>5. j # n - 1 => new[j + 1] = l[j + 2]
        BY <2>3
      <3> QED
        BY <3>3, <3>4, <3>5
    <2> QED
      BY <2>1, <2>2, <2>3
  <1>7. {new[j] : j \in 1 .. n - 1} = members \ {l[k]}
    <2>1. members = {l[j] : j \in 1 .. n}
      BY <1>1 DEF Listed
    <2>2. ASSUME NEW j \in 1 .. n - 1 PROVE new[j] \in members \ {l[k]}
      BY <1>2, <2>1
    <2>3. ASSUME NEW j \in 1 .. n, j # k PROVE \E a \in 1 .. n - 1 : new[a] = l[j]
      <3>1. CASE j < k
        BY <3>1
      <3>2. CASE j > k
        <4>1. j - 1 \in 1 .. n - 1 /\ new[j - 1] = l[j]
          BY <3>2
        <4> QED BY <4>1
      <3> QED BY <2>3, <3>1, <3>2
    <2> QED
      BY ChannelAssumption, <2>1, <2>2, <2>3
  <1>8. Chain(n - 1, new)'
    <2> HIDE DEF new
    <2>1. n - 1 \in Nat
      OBVIOUS
    <2> QED
      BY <1>3, <1>4, <1>5, <1>6, <1>7, <2>1 DEF Chain, IsList, Listed
  <1>9. SortedDownwards'
    <2> SUFFICES ASSUME NEW g \in members', next'[g] # NULL
                 PROVE  Priority[next'[g]] <= Priority[g]
      BY DEF SortedDownwards
    <2>1. g \in Handlers /\ g \in members
      BY DEF TypeOK
    <2>2. CASE k > 1 /\ g = l[k - 1]
      <3>1. next[g] = l[k] /\ next'[g] = next[l[k]]
        BY <1>1, <2>1, <2>2 DEF IsList
      <3>2. l[k] \in members /\ next[l[k]] \in Handlers
        BY <1>1, <1>2, <3>1, ListEntry DEF TypeOK
      <3>3. Priority[l[k]] <= Priority[g] /\ Priority[next[l[k]]] <= Priority[l[k]]
        BY <1>2, <2>1, <3>1, <3>2 DEF SortedDownwards
      <3>4. \A f \in Handlers : Priority[f] \in Nat
        BY ChannelAssumption
      <3> QED
        BY <1>2, <2>1, <3>1, <3>2, <3>3, <3>4
    <2>3. CASE ~(k > 1 /\ g = l[k - 1])
      BY <2>1, <2>3 DEF SortedDownwards
    <2> QED
      BY <2>2, <2>3
  <1> QED
    BY <1>8, <1>9

-----------------------------------------------------------------------------
(* A walk in progress has called a prefix of the list, and cur is the      *)
(* handler being called or the next one.                                   *)
Walking ==
  \/ mode = "rt"
  \/ mode = "process" /\ i < head

WalkInv(n, list) ==
  IF Walking
  THEN \E k \in 0 .. n :
         /\ called = {list[j] : j \in 1 .. k}
         /\ inCall => k > 0 /\ cur = list[k]
         /\ ~inCall => cur = IF k = n THEN NULL ELSE list[k + 1]
  ELSE mode = "process" => called = {}

(* A pass hands an event to the handlers already called, and all of them   *)
(* are level outside of a pass.                                            *)
SeenInv ==
  \A h \in members :
    seen[h] = base + i + (IF mode = "process" /\ h \in called THEN 1 ELSE 0)

(* The inductive invariant of the list.                                    *)
ListInv ==
  /\ \E n \in Nat : \E list : Chain(n, list) /\ WalkInv(n, list)
  /\ SortedDownwards
  /\ \A h \in fresh : h \notin members /\ next[h] = NULL
  /\ mode # "process" => i = 0
  /\ SeenInv

LEMMA ListInvInit == Init => ListInv
  <1> SUFFICES ASSUME Init PROVE ListInv
    OBVIOUS
  <1>1. \E n \in Nat : \E list : Chain(n, list)
    <2>1. CASE StaticHandler = NULL
      <3> DEFINE list == [j \in 1 .. 0 |-> NULL]
      <3>1. Chain(0, list)
        BY <2>1 DEF Init, Chain, IsList, Listed
      <3> QED BY <3>1
    <2>2. CASE StaticHandler # NULL
      <3> DEFINE list == [j \in 1 .. 1 |-> StaticHandler]
      <3>1. StaticHandler \in Handlers
        BY <2>2, ChannelAssumption
      <3>2. next[StaticHandler] = NULL /\ first = StaticHandler
            /\ members = {StaticHandler}
        BY <2>2, <3>1 DEF Init
      <3>3. list \in [1 .. 1 -> Handlers] /\ list[1] = StaticHandler
        BY <3>1
      <3>4. IsList(1, list)
        BY <3>2, <3>3 DEF IsList
      <3>5. Listed(1, list) = members
        BY <3>2, <3>3 DEF Listed
      <3>6. Chain(1, list)
        BY <3>3, <3>4, <3>5 DEF Chain
      <3> QED BY <3>6
    <2> QED BY <2>1, <2>2
  <1>2. mode = "idle"
    BY DEF Init
  <1>3. \A n, list : WalkInv(n, list)
    BY <1>2 DEF WalkInv, Walking
  <1>4. SortedDownwards
    <2>1. \A h \in Handlers : next[h] = NULL
      BY DEF Init
    <2>2. members \subseteq Handlers
      BY ChannelAssumption DEF Init
    <2> QED
      BY <2>1, <2>2 DEF SortedDownwards
  <1>5. \A h \in fresh : h \notin members /\ next[h] = NULL
    BY DEF Init
  <1>6. i = 0 /\ SeenInv
    BY ChannelAssumption DEF Init, SeenInv
  <1> QED
    BY <1>1, <1>3, <1>4, <1>5, <1>6 DEF ListInv

-----------------------------------------------------------------------------
(* The list changes only while no walk is in progress.                     *)
LEMMA ListInvEdited ==
  ASSUME mode' = "idle", i' = 0,
         \E n \in Nat : \E list : Chain(n, list)',
         SortedDownwards', SeenInv',
         \A h \in fresh' : h \notin members' /\ next'[h] = NULL
  PROVE  ListInv'
  <1>1. \A n, list : WalkInv(n, list)'
    BY DEF WalkInv, Walking
  <1> QED
    BY <1>1 DEF ListInv

(* The handlers a branch of event_channel_subscribe may be given.          *)
LEMMA Subscriber ==
  ASSUME NoStaleReuse, QueueInv, ListInv, NEW h \in Handlers, CanSubscribe(h)
  PROVE  h \notin members /\ (Priority[h] = 0 => next[h] = NULL)
  BY DEF NoStaleReuse, ListInv, CanSubscribe

(* A new member is level with the others.                                  *)
LEMMA SubscribedKeeps ==
  ASSUME QueueInv, ListInv, NEW h \in Handlers, CanSubscribe(h), Subscribed(h)
  PROVE  /\ mode' = "idle" /\ i' = 0 /\ SeenInv'
         /\ members' = members \cup {h} /\ fresh' = fresh \ {h}
  <1>1. mode = "idle" /\ mode' = mode /\ i' = i /\ base' = base /\ i = 0
    BY DEF CanSubscribe, Subscribed, walk, ListInv
  <1>2. ASSUME NEW g \in members' PROVE seen'[g] = base'
    <2>1. g \in Handlers /\ seen \in [Handlers -> 0 .. MaxPosts] /\ base \in Nat
      BY DEF Subscribed, QueueInv, TypeOK
    <2>2. seen' = [seen EXCEPT ![h] = base] /\ members' = members \cup {h}
      BY DEF Subscribed
    <2>3. g \in members => seen[g] = base
      BY <1>1, <2>1 DEF ListInv, SeenInv
    <2> QED
      BY <1>1, <1>2, <2>1, <2>2, <2>3
  <1>3. base' \in Nat
    BY <1>1 DEF QueueInv, TypeOK
  <1> QED
    BY <1>1, <1>2, <1>3 DEF Subscribed, SeenInv

(* A branch that links h in at place k keeps the invariant.                *)
LEMMA LinkedKeeps ==
  ASSUME QueueInv, ListInv, NEW h \in Handlers, CanSubscribe(h), Subscribed(h),
         h \notin members,
         NEW n \in Nat, NEW l, Chain(n, l), NEW k \in 0 .. n,
         first' = IF k = 0 THEN h ELSE first,
         \A g \in Handlers :
           next'[g] = IF g = h THEN IF k = n THEN NULL ELSE l[k + 1]
                      ELSE IF k > 0 /\ g = l[k] THEN h ELSE next[g],
         k < n => Priority[l[k + 1]] <= Priority[h],
         k > 0 => Priority[h] <= Priority[l[k]]
  PROVE  ListInv'
  <1>1. /\ mode' = "idle" /\ i' = 0 /\ SeenInv'
        /\ members' = members \cup {h} /\ fresh' = fresh \ {h}
    BY SubscribedKeeps
  <1>2. TypeOK /\ SortedDownwards
    BY DEF QueueInv, ListInv
  <1>3. (\E m \in Nat : \E new : Chain(m, new)') /\ SortedDownwards'
    BY <1>1, <1>2, Inserted
  <1>4. ASSUME NEW g \in fresh' PROVE g \notin members' /\ next'[g] = NULL
    <2>1. g \in Handlers /\ g # h /\ g \notin members /\ next[g] = NULL
      BY <1>1, <1>2 DEF TypeOK, ListInv
    <2>2. k > 0 => l[k] \in members
      BY ListEntry
    <2> QED
      BY <1>1, <2>1, <2>2
  <1> QED
    BY <1>1, <1>3, <1>4, ListInvEdited

(* The list a branch walks along is the one of the invariant.              *)
LEMMA TheList ==
  ASSUME NEW n \in Nat, NEW l, Chain(n, l),
         NEW m \in Length, NEW list \in [1 .. m -> Handlers], IsList(m, list)
  PROVE  m = n /\ list = l
  <1>1. m \in Nat
    BY FS_CardinalityType, ChannelAssumption DEF Length
  <1> QED
    BY <1>1, ListUnique DEF Chain

LEMMA ListInvSubscribe ==
  ASSUME NoStaleReuse, QueueInv, ListInv, NEW h \in Handlers, Subscribe(h),
         Subscribed(h)
  PROVE  ListInv'
  <1>1. CanSubscribe(h)
    BY DEF Subscribe, SubscribeEmpty, SubscribeLast,
           SubscribeFront, SubscribeMiddle, SubscribeRefused
  <1>2. h \notin members /\ (Priority[h] = 0 => next[h] = NULL)
    BY <1>1, Subscriber
  <1>03. PICK n \in Nat : \E l : Chain(n, l)
    BY DEF ListInv
  <1>3. PICK l : Chain(n, l)
    BY <1>03
  <1>4. /\ l \in [1 .. n -> Handlers] /\ IsList(n, l)
        /\ \A j \in 1 .. n : l[j] \in Handlers /\ l[j] \in members /\ l[j] # h
    BY <1>2, <1>3, ListEntry DEF Chain
  <1>5. /\ next \in [Handlers -> Handlers \cup {NULL}]
        /\ \A g \in Handlers : Priority[g] \in Nat
        /\ first = IF n = 0 THEN NULL ELSE l[1]
    <2>1. next \in [Handlers -> Handlers \cup {NULL}]
      BY DEF QueueInv, TypeOK
    <2>2. \A g \in Handlers : Priority[g] \in Nat
      BY ChannelAssumption
    <2>3. first = IF n = 0 THEN NULL ELSE l[1]
      BY <1>4 DEF IsList
    <2> QED
      BY <2>1, <2>2, <2>3
  <1>6. CASE SubscribeEmpty(h)
    <2>1. n = 0 /\ first' = h /\ next' = [next EXCEPT ![h] = NULL]
      BY <1>4, <1>5, <1>6, ChannelAssumption DEF SubscribeEmpty
    <2> QED
      BY ChannelAssumption, <1>1, <1>2, <1>3, <1>5, <2>1, LinkedKeeps
  <1>7. CASE SubscribeFront(h)
    <2>1. /\ n # 0 /\ Priority[l[1]] < Priority[h]
          /\ first' = h /\ next' = [next EXCEPT ![h] = l[1]]
      BY <1>5, <1>7 DEF SubscribeFront
    <2>2. l[1] \in Handlers
      BY <1>4, <2>1
    <2>3. 0 < n => Priority[l[0 + 1]] <= Priority[h]
      BY <1>5, <2>1, <2>2
    <2> QED
      BY <1>1, <1>2, <1>3, <1>5, <2>1, <2>3, LinkedKeeps
  <1>8. CASE SubscribeLast(h)
    <2>1. /\ Priority[h] = 0 /\ first' = first
          /\ \E m \in Length \ {0} : \E list \in [1 .. m -> Handlers] :
               IsList(m, list) /\ next' = [next EXCEPT ![list[m]] = h]
      BY <1>8 DEF SubscribeLast
    <2>2. n # 0 /\ next' = [next EXCEPT ![l[n]] = h]
      BY <1>3, <2>1, TheList
    <2>3. l[n] \in Handlers /\ l[n] # h
      BY <1>4, <2>2
    <2>4. Priority[h] <= Priority[l[n]]
      BY <1>5, <2>1, <2>3
    <2>5. \A g \in Handlers :
            next'[g] = IF g = h THEN NULL ELSE IF g = l[n] THEN h ELSE next[g]
      BY <1>2, <1>5, <2>1, <2>2, <2>3
    <2> QED
      BY <1>1, <1>2, <1>3, <2>1, <2>2, <2>4, <2>5, LinkedKeeps
  <1>9. CASE SubscribeMiddle(h)
    <2>1. /\ first' = first
          /\ \E m \in Length \ {0} : \E list \in [1 .. m -> Handlers] :
               /\ IsList(m, list)
               /\ Priority[first] >= Priority[h]
               /\ \E k \in 1 .. m - 1 :
                    /\ StopsAt(m, list, k, h)
                    /\ next' = [next EXCEPT ![h] = list[k + 1], ![list[k]] = h]
      BY <1>9 DEF SubscribeMiddle
    <2>2. /\ n # 0 /\ Priority[first] >= Priority[h]
          /\ \E k \in 1 .. n - 1 :
               /\ StopsAt(n, l, k, h)
               /\ next' = [next EXCEPT ![h] = l[k + 1], ![l[k]] = h]
      <3>1. PICK m \in Length \ {0} : \E list \in [1 .. m -> Handlers] :
               /\ IsList(m, list)
               /\ Priority[first] >= Priority[h]
               /\ \E k \in 1 .. m - 1 :
                    /\ StopsAt(m, list, k, h)
                    /\ next' = [next EXCEPT ![h] = list[k + 1], ![list[k]] = h]
        BY <2>1
      <3>2. PICK list \in [1 .. m -> Handlers] :
               /\ IsList(m, list)
               /\ Priority[first] >= Priority[h]
               /\ \E k \in 1 .. m - 1 :
                    /\ StopsAt(m, list, k, h)
                    /\ next' = [next EXCEPT ![h] = list[k + 1], ![list[k]] = h]
        BY <3>1
      <3>3. m = n /\ list = l
        BY <1>3, <3>2, TheList
      <3> QED
        BY <3>2, <3>3
    <2>3. PICK k \in 1 .. n - 1 :
            /\ StopsAt(n, l, k, h)
            /\ next' = [next EXCEPT ![h] = l[k + 1], ![l[k]] = h]
      BY <2>2
    <2>4. /\ k \in 1 .. n /\ k + 1 \in 1 .. n
          /\ l[k] \in Handlers /\ l[k] # h /\ l[k + 1] \in Handlers
      BY <1>4, <2>3
    <2>5. Priority[l[k + 1]] <= Priority[h]
      BY <1>5, <2>3, <2>4 DEF StopsAt
    <2>6. Priority[h] <= Priority[l[k]]
      <3>1. CASE k = 1
        BY <1>5, <2>2, <2>4, <3>1
      <3>2. CASE k # 1
        <4>1. k - 1 \in 1 .. k - 1
          BY <2>3, <3>2
        <4>2. Priority[l[(k - 1) + 1]] >= Priority[h]
          BY <2>3, <4>1 DEF StopsAt
        <4> QED
          BY <1>5, <2>4, <4>2
      <3> QED BY <3>1, <3>2
    <2>7. \A g \in Handlers :
            next'[g] = IF g = h THEN l[k + 1] ELSE IF g = l[k] THEN h ELSE next[g]
      BY <1>5, <2>3, <2>4
    <2>8. k \in 0 .. n /\ k # 0 /\ k > 0 /\ k # n
      BY <2>3
    <2>9. /\ first' = IF k = 0 THEN h ELSE first
          /\ \A g \in Handlers :
               next'[g] = IF g = h THEN IF k = n THEN NULL ELSE l[k + 1]
                          ELSE IF k > 0 /\ g = l[k] THEN h ELSE next[g]
      BY <2>1, <2>7, <2>8
    <2>10. (k < n => Priority[l[k + 1]] <= Priority[h])
           /\ (k > 0 => Priority[h] <= Priority[l[k]])
      BY <2>5, <2>6
    <2> QED
      BY <1>1, <1>2, <1>3, <2>8, <2>9, <2>10, LinkedKeeps
  <1> QED
    <2>1. ~Refused
      BY DEF Refused, Subscribed
    <2> QED
      BY <1>6, <1>7, <1>8, <1>9, <2>1
         DEF Subscribe, SubscribeRefused

LEMMA UnlinkedKeeps ==
  ASSUME QueueInv, ListInv, NEW h \in Handlers, CanUnsubscribe, Unsubscribed(h),
         NEW n \in Nat, NEW l, Chain(n, l), NEW k \in 1 .. n, l[k] = h,
         first' = IF k = 1 THEN next[l[1]] ELSE first,
         \A g \in Handlers :
           next'[g] = IF k > 1 /\ g = l[k - 1] THEN next[l[k]] ELSE next[g]
  PROVE  ListInv'
  <1>1. /\ mode' = "idle" /\ mode = "idle" /\ i' = i /\ i = 0 /\ base' = base
        /\ members' = members \ {l[k]} /\ fresh' = fresh /\ seen' = seen
    BY DEF CanUnsubscribe, Unsubscribed, walk, ListInv
  <1>2. TypeOK /\ SortedDownwards
    BY DEF QueueInv, ListInv
  <1>3. (\E m \in Nat : \E new : Chain(m, new)') /\ SortedDownwards'
    BY <1>1, <1>2, Removed
  <1>4. ASSUME NEW g \in fresh' PROVE g \notin members' /\ next'[g] = NULL
    <2>1. g \in Handlers /\ g \notin members /\ next[g] = NULL
      BY <1>1, <1>2 DEF TypeOK, ListInv
    <2>2. k > 1 => l[k - 1] \in members
      BY ListEntry
    <2> QED
      BY <1>1, <2>1, <2>2
  <1>5. SeenInv'
    BY <1>1 DEF ListInv, SeenInv
  <1> QED
    BY <1>1, <1>3, <1>4, <1>5, ListInvEdited

LEMMA ListInvUnsubscribe ==
  ASSUME QueueInv, ListInv, NEW h \in Handlers,
         UnsubscribeFirst(h) \/ UnsubscribeLater(h)
  PROVE  ListInv'
  <1>1. CanUnsubscribe /\ Unsubscribed(h)
    BY DEF UnsubscribeFirst, UnsubscribeLater
  <1>02. PICK n \in Nat : \E l : Chain(n, l)
    BY DEF ListInv
  <1>2. PICK l : Chain(n, l)
    BY <1>02
  <1>3. l \in [1 .. n -> Handlers] /\ IsList(n, l)
    BY <1>2 DEF Chain
  <1>4. CASE UnsubscribeFirst(h)
    <2>1. first = h /\ first' = next[h] /\ next' = next
      BY <1>4 DEF UnsubscribeFirst
    <2>2. n # 0 /\ l[1] = h
      BY <1>3, <2>1, ChannelAssumption DEF IsList
    <2>3. 1 \in 1 .. n
      BY <2>2
    <2> QED
      BY <1>1, <1>2, <2>1, <2>2, <2>3, UnlinkedKeeps
  <1>5. CASE UnsubscribeLater(h)
    <2>1. PICK m \in Length \ {0} : \E list \in [1 .. m -> Handlers] :
            /\ IsList(m, list)
            /\ \E k \in 1 .. m - 1 :
                 list[k + 1] = h /\ next' = [next EXCEPT ![list[k]] = next[h]]
      BY <1>5 DEF UnsubscribeLater
    <2>2. PICK list \in [1 .. m -> Handlers] :
            /\ IsList(m, list)
            /\ \E k \in 1 .. m - 1 :
                 list[k + 1] = h /\ next' = [next EXCEPT ![list[k]] = next[h]]
      BY <2>1
    <2>3. m = n /\ list = l
      BY <1>2, <2>2, TheList
    <2>4. PICK k \in 1 .. n - 1 :
            l[k + 1] = h /\ next' = [next EXCEPT ![l[k]] = next[h]]
      BY <2>2, <2>3
    <2>5. k + 1 \in 1 .. n /\ k + 1 > 1 /\ k + 1 # 1 /\ (k + 1) - 1 = k /\ first' = first
      BY <1>5, <2>4 DEF UnsubscribeLater
    <2>6. next \in [Handlers -> Handlers \cup {NULL}]
      BY DEF QueueInv, TypeOK
    <2>7. /\ first' = IF k + 1 = 1 THEN next[l[1]] ELSE first
          /\ \A g \in Handlers :
               next'[g] = IF k + 1 > 1 /\ g = l[(k + 1) - 1]
                          THEN next[l[k + 1]] ELSE next[g]
      BY <2>4, <2>5, <2>6
    <2> QED
      BY <1>1, <1>2, <2>4, <2>5, <2>7, UnlinkedKeeps
  <1> QED
    BY <1>4, <1>5

-----------------------------------------------------------------------------
(* Steps that change neither the list nor who belongs to it.               *)
LEMMA SameList ==
  ASSUME UNCHANGED <<first, next, members, fresh>>
  PROVE  /\ \A n, list : Chain(n, list)' <=> Chain(n, list)
         /\ SortedDownwards' <=> SortedDownwards
  BY DEF Chain, IsList, Listed, SortedDownwards

(* The walk.                                                               *)
LEMMA ListInvStart ==
  ASSUME QueueInv, ListInv, StartPass \/ StartPostRt
  PROVE  ListInv'
  <1>1. /\ UNCHANGED <<first, next, members, fresh, seen, base, inCall, head>>
        /\ mode = "idle" /\ i = 0 /\ i' = 0 /\ called' = {}
    BY DEF StartPass, StartPostRt, chan, ListInv
  <1>2. ~inCall
    BY <1>1 DEF QueueInv, WalkOK
  <1>03. PICK n \in Nat : \E l : Chain(n, l)
    BY DEF ListInv
  <1>3. PICK l : Chain(n, l)
    BY <1>03
  <1>4. WalkInv(n, l)'
    <2>1. CASE Walking'
      <3>1. cur' = first
        BY <1>1, <2>1 DEF StartPass, StartPostRt, Walking, QueueInv, TypeOK
      <3>2. first = IF 0 = n THEN NULL ELSE l[0 + 1]
        BY <1>3 DEF Chain, IsList
      <3>3. {l[j] : j \in 1 .. 0} = {}
        OBVIOUS
      <3> QED
        BY ChannelAssumption, <1>1, <1>2, <1>3, <2>1, <3>1, <3>2, <3>3 DEF WalkInv
    <2>2. CASE ~Walking'
      BY <1>1, <2>2 DEF WalkInv
    <2> QED
      BY <2>1, <2>2
  <1>5. SeenInv'
    BY <1>1 DEF ListInv, SeenInv
  <1> QED
    BY <1>1, <1>3, <1>4, <1>5, SameList DEF ListInv

(* When the walk has come to its end, every member has been called.        *)
LEMMA AllCalled ==
  ASSUME QueueInv, ListInv, Walking, cur = NULL
  PROVE  called = members
  <1>01. PICK n \in Nat : \E l : Chain(n, l) /\ WalkInv(n, l)
    BY DEF ListInv
  <1>1. PICK l : Chain(n, l) /\ WalkInv(n, l)
    BY <1>01
  <1>2. ~inCall
    BY DEF QueueInv, WalkOK
  <1>3. PICK k \in 0 .. n :
          /\ called = {l[j] : j \in 1 .. k}
          /\ cur = IF k = n THEN NULL ELSE l[k + 1]
    BY <1>1, <1>2 DEF WalkInv
  <1>4. k = n
    <2>1. SUFFICES ASSUME k # n PROVE FALSE
      OBVIOUS
    <2>2. k + 1 \in 1 .. n
      BY <2>1
    <2> QED
      BY <1>1, <1>3, <2>1, <2>2, ListEntry
  <1> QED
    BY <1>1, <1>3, <1>4 DEF Chain, Listed

(* A handler about to be called is a member that has not been called.      *)
LEMMA NextUncalled ==
  ASSUME QueueInv, ListInv, cur # NULL, ~inCall
  PROVE  /\ Walking
         /\ cur \in members /\ cur \notin called
         /\ \A n \in Nat : \A l : Chain(n, l) /\ WalkInv(n, l) =>
              \E k \in 0 .. n : /\ k + 1 \in 1 .. n
                                /\ cur = l[k + 1]
                                /\ called = {l[j] : j \in 1 .. k}
  <1>1. Walking
    BY DEF QueueInv, WalkOK, TypeOK, NoOverrun, Walking
  <1>2. ASSUME NEW n \in Nat, NEW l, Chain(n, l), WalkInv(n, l)
        PROVE  \E k \in 0 .. n : /\ k + 1 \in 1 .. n
                                 /\ cur = l[k + 1]
                                 /\ called = {l[j] : j \in 1 .. k}
    <2>1. PICK k \in 0 .. n :
            /\ called = {l[j] : j \in 1 .. k}
            /\ cur = IF k = n THEN NULL ELSE l[k + 1]
      BY <1>1, <1>2 DEF WalkInv
    <2>2. k # n /\ k + 1 \in 1 .. n
      BY <2>1
    <2> QED
      BY <2>1, <2>2
  <1>03. PICK n \in Nat : \E l : Chain(n, l) /\ WalkInv(n, l)
    BY DEF ListInv
  <1>3. PICK l : Chain(n, l) /\ WalkInv(n, l)
    BY <1>03
  <1>4. PICK k \in 0 .. n : /\ k + 1 \in 1 .. n
                            /\ cur = l[k + 1]
                            /\ called = {l[j] : j \in 1 .. k}
    BY <1>2, <1>3
  <1>5. cur \in members
    BY <1>3, <1>4, ListEntry
  <1>6. cur \notin called
    <2>1. \A j \in 1 .. k : l[j] # l[k + 1]
      BY <1>3, <1>4 DEF Chain, IsList
    <2> QED
      BY <1>4, <2>1
  <1> QED
    BY <1>1, <1>2, <1>5, <1>6

LEMMA ListInvNextSlot ==
  ASSUME QueueInv, ListInv, NextSlot PROVE ListInv'
  <1>1. /\ UNCHANGED <<first, next, members, fresh, seen, base, head, mode, inCall>>
        /\ mode = "process" /\ ~inCall /\ cur = NULL /\ i < head
        /\ i' = i + 1 /\ called' = {}
        /\ cur' = IF i + 1 < head THEN first ELSE NULL
    BY DEF NextSlot, chan
  <1>2. called = members
    BY <1>1, AllCalled DEF Walking
  <1>03. PICK n \in Nat : \E l : Chain(n, l)
    BY DEF ListInv
  <1>3. PICK l : Chain(n, l)
    BY <1>03
  <1>4. WalkInv(n, l)'
    <2>1. CASE i + 1 < head
      <3>1. cur' = IF 0 = n THEN NULL ELSE l[0 + 1]
        BY <1>1, <1>3, <2>1 DEF Chain, IsList
      <3>2. {l[j] : j \in 1 .. 0} = {}
        OBVIOUS
      <3>3. Walking' /\ ~inCall'
        BY <1>1, <2>1 DEF Walking
      <3> QED
        BY <1>1, <1>3, <3>1, <3>2, <3>3 DEF WalkInv
    <2>2. CASE ~(i + 1 < head)
      <3>1. ~Walking'
        BY <1>1, <2>2 DEF Walking
      <3> QED
        BY <1>1, <3>1 DEF WalkInv
    <2> QED
      BY <2>1, <2>2
  <1>5. SeenInv'
    <2>1. ASSUME NEW h \in members PROVE seen[h] = base + i + 1
      BY <1>1, <1>2 DEF ListInv, SeenInv
    <2>2. i \in Nat /\ base \in Nat
      BY DEF QueueInv, TypeOK
    <2> QED
      BY <1>1, <2>1, <2>2 DEF SeenInv
  <1> QED
    BY <1>1, <1>3, <1>4, <1>5, SameList DEF ListInv

LEMMA ListInvEndPass ==
  ASSUME QueueInv, ListInv, EndPass PROVE ListInv'
  <1>1. /\ UNCHANGED <<first, next, members, fresh, seen, called>>
        /\ mode = "process" /\ mode' = "idle" /\ i >= head /\ i' = 0
        /\ base' = base + head
    BY DEF EndPass
  <1>2. i = head /\ i \in Nat /\ base \in Nat
    BY <1>1 DEF QueueInv, TypeOK, NoOverrun
  <1>3. called = {}
    <2>1. ~Walking
      BY <1>1, <1>2 DEF Walking
    <2> QED
      BY <1>1, <2>1 DEF ListInv, WalkInv
  <1>4. SeenInv'
    BY <1>1, <1>2, <1>3 DEF ListInv, SeenInv
  <1> QED
    BY <1>1, <1>4, SameList, ListInvEdited DEF ListInv

LEMMA ListInvCall ==
  ASSUME QueueInv, ListInv, CallHandler PROVE ListInv'
  <1>1. /\ UNCHANGED <<first, next, members, fresh, base, queue, head, mode, i, cur>>
        /\ mode # "idle" /\ ~inCall /\ cur # NULL /\ inCall' = TRUE
        /\ called' = called \cup {cur}
        /\ seen' = IF mode = "process" THEN [seen EXCEPT ![cur] = queue[i]] ELSE seen
    BY DEF CallHandler, chan
  <1>2. Walking /\ cur \in members /\ cur \notin called /\ cur \in Handlers
    BY <1>1, NextUncalled DEF QueueInv, TypeOK
  <1>03. PICK n \in Nat : \E l : Chain(n, l) /\ WalkInv(n, l)
    BY DEF ListInv
  <1>3. PICK l : Chain(n, l) /\ WalkInv(n, l)
    BY <1>03
  <1>4. PICK k \in 0 .. n : /\ k + 1 \in 1 .. n
                            /\ cur = l[k + 1]
                            /\ called = {l[j] : j \in 1 .. k}
    BY <1>1, <1>3, NextUncalled
  <1>5. WalkInv(n, l)'
    <2>1. called' = {l[j] : j \in 1 .. k + 1}
      BY <1>1, <1>4
    <2>2. Walking' /\ inCall' /\ cur' = l[k + 1]
      BY <1>1, <1>2, <1>4 DEF Walking
    <2>3. k + 1 \in 0 .. n /\ k + 1 > 0
      BY <1>4
    <2> QED
      BY <2>1, <2>2, <2>3 DEF WalkInv
  <1>6. mode = "process" => queue[i] = base + i + 1
    BY ChannelAssumption, <1>1, <1>2
       DEF Walking, QueueInv, QueueHoldsPending, TypeOK, NoOverrun, Slots
  <1>7. SeenInv'
    <2> SUFFICES ASSUME NEW h \in members
                 PROVE  seen'[h] = base + i + (IF mode = "process" /\ h \in called'
                                               THEN 1 ELSE 0)
      BY <1>1 DEF SeenInv
    <2>1. /\ seen[h] = base + i + (IF mode = "process" /\ h \in called THEN 1 ELSE 0)
          /\ seen \in [Handlers -> 0 .. MaxPosts] /\ h \in Handlers
          /\ base \in Nat /\ i \in Nat
      BY DEF ListInv, SeenInv, QueueInv, TypeOK
    <2>2. CASE mode = "process" /\ h = cur
      BY <1>1, <1>6, <2>1, <2>2
    <2>3. CASE mode = "process" /\ h # cur
      BY <1>1, <2>1, <2>3
    <2>4. CASE mode # "process"
      BY <1>1, <2>1, <2>4
    <2> QED
      BY <2>2, <2>3, <2>4
  <1> QED
    BY <1>1, <1>3, <1>5, <1>7, SameList DEF ListInv

LEMMA ListInvReturn ==
  ASSUME QueueInv, ListInv, HandlerReturns PROVE ListInv'
  <1>1. /\ UNCHANGED <<first, next, members, fresh, seen, base, head, mode, i, called>>
        /\ inCall /\ inCall' = FALSE /\ cur' = next[cur]
    BY DEF HandlerReturns, chan, hist
  <1>2. Walking
    BY <1>1 DEF QueueInv, WalkOK, TypeOK, NoOverrun, Walking
  <1>03. PICK n \in Nat : \E l : Chain(n, l) /\ WalkInv(n, l)
    BY DEF ListInv
  <1>3. PICK l : Chain(n, l) /\ WalkInv(n, l)
    BY <1>03
  <1>4. PICK k \in 0 .. n : /\ called = {l[j] : j \in 1 .. k}
                            /\ k > 0 /\ cur = l[k]
    BY <1>1, <1>2, <1>3 DEF WalkInv
  <1>5. cur' = IF k = n THEN NULL ELSE l[k + 1]
    BY <1>1, <1>3, <1>4 DEF Chain, IsList
  <1>6. WalkInv(n, l)'
    BY <1>1, <1>2, <1>4, <1>5 DEF WalkInv, Walking
  <1>7. SeenInv'
    BY <1>1 DEF ListInv, SeenInv
  <1> QED
    BY <1>1, <1>3, <1>6, <1>7, SameList DEF ListInv

(* A post changes head, which a walk in progress reads: it never turns a   *)
(* finished pass into an unfinished one, for posts come from handlers.     *)
LEMMA ListInvPost ==
  ASSUME QueueInv, ListInv, PostAccepted PROVE ListInv'
  <1>1. /\ UNCHANGED <<first, next, members, fresh, seen, base, mode, i, cur,
                       inCall, called>>
        /\ head' = head + 1 /\ (mode = "idle" \/ inCall)
    BY DEF PostAccepted, CanPost, walk
  <1>2. Walking' <=> Walking
    BY <1>1 DEF Walking, QueueInv, TypeOK, WalkOK, NoOverrun
  <1>3. \A n, l : WalkInv(n, l)' <=> WalkInv(n, l)
    BY <1>1, <1>2 DEF WalkInv
  <1>4. SeenInv'
    BY <1>1 DEF ListInv, SeenInv
  <1> QED
    BY <1>1, <1>3, <1>4, SameList DEF ListInv

LEMMA ListInvSame ==
  ASSUME ListInv, UNCHANGED <<first, next, members, fresh, seen, base, head,
                              mode, i, cur, inCall, called>>
  PROVE  ListInv'
  <1>1. \A n, l : WalkInv(n, l)' <=> WalkInv(n, l)
    BY DEF WalkInv, Walking
  <1>2. SeenInv'
    BY DEF ListInv, SeenInv
  <1> QED
    BY <1>1, <1>2, SameList DEF ListInv

LEMMA ListInvEndPostRt ==
  ASSUME QueueInv, ListInv, EndPostRt PROVE ListInv'
  <1>1. /\ UNCHANGED <<first, next, members, fresh, seen, base, i, called>>
        /\ mode = "rt" /\ mode' = "idle"
    BY DEF EndPostRt, chan, hist
  <1>2. SeenInv'
    BY <1>1 DEF ListInv, SeenInv
  <1> QED
    BY <1>1, <1>2, SameList, ListInvEdited DEF ListInv

LEMMA ListInvNext ==
  ASSUME NoStaleReuse, QueueInv, ListInv, [Next]_vars PROVE ListInv'
  <1>1. ASSUME NEW h \in Handlers, Subscribe(h) PROVE ListInv'
    <2>1. Subscribed(h) \/ Refused
      BY <1>1 DEF Subscribe, SubscribeEmpty, SubscribeLast,
                  SubscribeFront, SubscribeMiddle, SubscribeRefused
    <2>2. CASE Subscribed(h)
      BY <1>1, <2>2, ListInvSubscribe
    <2>3. CASE Refused
      BY <2>3, ListInvSame DEF Refused, chan, walk, hist
    <2> QED
      BY <2>1, <2>2, <2>3
  <1>2. ASSUME NEW h \in Handlers, Unsubscribe(h) PROVE ListInv'
    <2>1. CASE UnsubscribeFirst(h) \/ UnsubscribeLater(h)
      BY <2>1, ListInvUnsubscribe
    <2>2. CASE UnsubscribeNothing(h)
      BY <2>2, ListInvSame DEF UnsubscribeNothing, chan, walk, hist
    <2> QED
      BY <1>2, <2>1, <2>2 DEF Unsubscribe
  <1>3. CASE PostAccepted
    BY <1>3, ListInvPost
  <1>4. CASE (\E valid \in BOOLEAN : Register(valid)) \/ PostRejected \/ UNCHANGED vars
    BY <1>4, ListInvSame DEF Register, PostRejected, chan, walk, hist, vars
  <1>5. CASE StartPass \/ StartPostRt
    BY <1>5, ListInvStart
  <1>6. CASE Dispatch
    BY <1>6, ListInvNextSlot, ListInvEndPass, ListInvCall, ListInvReturn,
       ListInvEndPostRt DEF Dispatch
  <1> QED
    BY <1>1, <1>2, <1>3, <1>4, <1>5, <1>6 DEF Next

LEMMA ChannelInvariant ==
  ASSUME NoStaleReuse PROVE Spec => [](QueueInv /\ ListInv)
  <1>1. Init => QueueInv /\ ListInv
    BY QueueInvInit, ListInvInit
  <1>2. QueueInv /\ ListInv /\ [Next]_vars => (QueueInv /\ ListInv)'
    BY QueueInvNext, ListInvNext
  <1> QED
    BY <1>1, <1>2, PTL DEF Spec

(* The pointers string together exactly the subscribed handlers, each of   *)
(* them once, after any series of subscriptions and removals.              *)
THEOREM ListWellFormedAlways ==
  ASSUME NoStaleReuse PROVE Spec => []ListWellFormed
  <1>1. ListInv => ListWellFormed
    BY ListFits DEF ListInv, Chain, ListWellFormed
  <1> QED
    BY <1>1, ChannelInvariant, PTL

(* The code sorts from the largest priority number down, whatever the      *)
(* order of subscription: the reverse of what event.h says, always.        *)
THEOREM SortedDownwardsAlways ==
  ASSUME NoStaleReuse PROVE Spec => []SortedDownwards
  <1>1. ListInv => SortedDownwards
    BY DEF ListInv
  <1> QED
    BY <1>1, ChannelInvariant, PTL

(* A walk calls every subscribed handler and none twice.                   *)
THEOREM EveryHandlerCalledOnceAlways ==
  ASSUME NoStaleReuse PROVE Spec => []EveryHandlerCalledOnce
  <1>1. QueueInv /\ ListInv => EveryHandlerCalledOnce
    BY AllCalled, NextUncalled DEF EveryHandlerCalledOnce, Walking
  <1> QED
    BY <1>1, ChannelInvariant, PTL

-----------------------------------------------------------------------------
(***************************************************************************)
(* The channel implements EventBus: accepted, members and seen are its     *)
(* variables, and every step is one of its steps or leaves them alone.     *)
(***************************************************************************)
LEMMA BusInit == Init => Bus!Init
  BY ChannelAssumption DEF Init, Bus!Init

LEMMA BusJoin ==
  ASSUME NoStaleReuse, QueueInv, ListInv, NEW h \in Handlers, Subscribe(h),
         Subscribed(h)
  PROVE  Bus!Join(h)
  <1>1. CanSubscribe(h)
    BY DEF Subscribe, SubscribeEmpty, SubscribeLast,
           SubscribeFront, SubscribeMiddle, SubscribeRefused
  <1>2. h \notin members /\ mode = "idle" /\ i = 0
    BY <1>1 DEF CanSubscribe, ListInv
  <1>3. base \in 0 .. accepted
    BY DEF QueueInv, TypeOK, QueueHoldsPending
  <1>4. \A g \in members : seen[g] = base
    BY <1>2, <1>3 DEF ListInv, SeenInv
  <1>5. members' = members \cup {h} /\ seen' = [seen EXCEPT ![h] = base]
        /\ accepted' = accepted
    BY DEF Subscribed
  <1> QED
    BY <1>2, <1>3, <1>4, <1>5 DEF Bus!Join

LEMMA BusLeave ==
  ASSUME QueueInv, ListInv, NEW h \in Handlers,
         UnsubscribeFirst(h) \/ UnsubscribeLater(h)
  PROVE  Bus!Leave(h)
  <1>1. /\ members' = members \ {h} /\ UNCHANGED <<accepted, seen>>
    BY DEF UnsubscribeFirst, UnsubscribeLater, Unsubscribed
  <1>02. PICK n \in Nat : \E l : Chain(n, l)
    BY DEF ListInv
  <1>2. PICK l : Chain(n, l)
    BY <1>02
  <1>3. h \in members
    <2>1. CASE UnsubscribeFirst(h)
      <3>1. n # 0 /\ l[1] = h
        BY <1>2, <2>1, ChannelAssumption DEF UnsubscribeFirst, Chain, IsList
      <3>2. 1 \in 1 .. n
        BY <3>1
      <3> QED
        BY <1>2, <3>1, <3>2, ListEntry
    <2>2. CASE UnsubscribeLater(h)
      <3>1. PICK m \in Length \ {0} : \E list \in [1 .. m -> Handlers] :
              IsList(m, list) /\ \E k \in 1 .. m - 1 : list[k + 1] = h
        BY <2>2 DEF UnsubscribeLater
      <3>2. PICK list \in [1 .. m -> Handlers] :
              IsList(m, list) /\ \E k \in 1 .. m - 1 : list[k + 1] = h
        BY <3>1
      <3>3. m = n /\ list = l
        BY <1>2, <3>2, TheList
      <3>4. PICK k \in 1 .. n - 1 : l[k + 1] = h
        BY <3>2, <3>3
      <3>5. k + 1 \in 1 .. n
        BY <3>4
      <3> QED
        BY <1>2, <3>4, <3>5, ListEntry
    <2> QED
      BY <2>1, <2>2
  <1> QED
    BY <1>1, <1>3 DEF Bus!Leave

LEMMA BusDeliver ==
  ASSUME QueueInv, ListInv, CallHandler, mode = "process"
  PROVE  cur \in Handlers /\ Bus!Deliver(cur)
  <1>1. /\ Walking /\ cur \in members /\ cur \notin called /\ cur \in Handlers
    BY NextUncalled DEF CallHandler, QueueInv, TypeOK
  <1>2. /\ i < head /\ i \in Nat /\ head \in Nat /\ base \in Nat
        /\ accepted = base + head /\ seen \in [Handlers -> 0 .. MaxPosts]
    BY <1>1 DEF Walking, QueueInv, TypeOK, QueueHoldsPending
  <1>3. queue[i] = base + i + 1
    BY ChannelAssumption, <1>2 DEF QueueInv, QueueHoldsPending, NoOverrun, Slots
  <1>4. seen[cur] = base + i
    BY <1>1, <1>2 DEF ListInv, SeenInv
  <1>5. \A g \in members : seen[g] >= seen[cur]
    BY <1>1, <1>2, <1>4 DEF ListInv, SeenInv
  <1>6. seen' = [seen EXCEPT ![cur] = base + i + 1] /\ UNCHANGED <<accepted, members>>
    BY <1>3 DEF CallHandler
  <1>7. seen' = [seen EXCEPT ![cur] = seen[cur] + 1]
    BY <1>4, <1>6
  <1> QED
    BY <1>1, <1>2, <1>4, <1>5, <1>6, <1>7 DEF Bus!Deliver

LEMMA BusNext ==
  ASSUME NoStaleReuse, QueueInv, ListInv, [Next]_vars
  PROVE  [Bus!Next]_(Bus!vars)
  <1>1. ASSUME NEW h \in Handlers, Subscribe(h) PROVE [Bus!Next]_(Bus!vars)
    <2>1. Subscribed(h) \/ Refused
      BY <1>1 DEF Subscribe, SubscribeEmpty, SubscribeLast,
                  SubscribeFront, SubscribeMiddle, SubscribeRefused
    <2>2. CASE Subscribed(h)
      BY <1>1, <2>2, BusJoin DEF Bus!Next
    <2>3. CASE Refused
      BY <2>3 DEF Refused, hist, Bus!vars
    <2> QED
      BY <2>1, <2>2, <2>3
  <1>2. ASSUME NEW h \in Handlers, Unsubscribe(h) PROVE [Bus!Next]_(Bus!vars)
    <2>1. CASE UnsubscribeFirst(h) \/ UnsubscribeLater(h)
      BY <2>1, BusLeave DEF Bus!Next
    <2>2. CASE UnsubscribeNothing(h)
      BY <2>2 DEF UnsubscribeNothing, hist, Bus!vars
    <2> QED
      BY <1>2, <2>1, <2>2 DEF Unsubscribe
  <1>3. CASE PostAccepted
    BY <1>3 DEF PostAccepted, Bus!Next, Bus!Accept
  <1>4. CASE CallHandler
    <2>1. CASE mode = "process"
      BY <1>4, <2>1, BusDeliver DEF Bus!Next
    <2>2. CASE mode # "process"
      BY <1>4, <2>2 DEF CallHandler, Bus!vars
    <2> QED
      BY <2>1, <2>2
  <1>5. CASE \/ \E valid \in BOOLEAN : Register(valid)
             \/ PostRejected \/ UNCHANGED vars
             \/ StartPass \/ StartPostRt
             \/ NextSlot \/ EndPass \/ HandlerReturns \/ EndPostRt
    BY <1>5 DEF Register, PostRejected, vars, StartPass, StartPostRt, NextSlot,
                EndPass, HandlerReturns, EndPostRt, hist, Bus!vars
  <1> QED
    BY <1>1, <1>2, <1>3, <1>4, <1>5 DEF Next, Dispatch

(* Accepted events reach every subscribed handler in order, without gap or *)
(* repetition, and no handler runs ahead of another.                       *)
THEOREM ImplementsBus ==
  ASSUME NoStaleReuse PROVE Spec => BusSpec
  <1>1. QueueInv /\ ListInv /\ [Next]_vars => [Bus!Next]_(Bus!vars)
    BY BusNext
  <1> QED
    BY <1>1, BusInit, ChannelInvariant, PTL DEF Spec, BusSpec, Bus!Spec
=============================================================================
