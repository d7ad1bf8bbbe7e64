---------------------------- MODULE SysexProofs ----------------------------
(***************************************************************************)
(* That a message which reaches MIDI_IN whole is taken as it was sent, and *)
(* the device is a server of settings (SettingServer), for any number of   *)
(* messages and other packets, any sizes of the queues and any loss on the *)
(* way; and that no array overflows, whatever is sent.                     *)
(***************************************************************************)
EXTENDS Sysex, SequenceTheorems, TLAPS

-----------------------------------------------------------------------------
(* The packets of messages in a queue that holds others as well: whether   *)
(* there is one, the first, the last, and two with none between them.      *)
Fragmented(p) == p.kind = "sysex"

None(s) == \A g \in 1 .. Len(s) : ~Fragmented(s[g])

Has(s, p) == \E i \in 1 .. Len(s) : s[i] = p /\ Fragmented(p)

IsFirst(s, p) ==
  \E i \in 1 .. Len(s) : /\ s[i] = p /\ Fragmented(p)
                         /\ \A g \in 1 .. i - 1 : ~Fragmented(s[g])

IsLast(s, p) ==
  \E i \in 1 .. Len(s) : /\ s[i] = p /\ Fragmented(p)
                         /\ \A g \in i + 1 .. Len(s) : ~Fragmented(s[g])

Pair(s, p, q) ==
  \E h \in 1 .. Len(s) : \E i \in h + 1 .. Len(s) :
    /\ s[h] = p /\ s[i] = q /\ Fragmented(p) /\ Fragmented(q)
    /\ \A g \in h + 1 .. i - 1 : ~Fragmented(s[g])

(* Two queues one behind the other.                                        *)
LEMMA Joined ==
  ASSUME NEW S, NEW a \in Seq(S), NEW b \in Seq(S), NEW p, NEW q
  PROVE  /\ None(a \o b) <=> None(a) /\ None(b)
         /\ Has(a \o b, p) <=> Has(a, p) \/ Has(b, p)
         /\ IsFirst(a \o b, p) <=> IsFirst(a, p) \/ (None(a) /\ IsFirst(b, p))
         /\ IsLast(a \o b, p) <=> IsLast(b, p) \/ (None(b) /\ IsLast(a, p))
         /\ Pair(a \o b, p, q) <=> \/ Pair(a, p, q) \/ Pair(b, p, q)
                                   \/ IsLast(a, p) /\ IsFirst(b, q)
<1>1. PICK s \in Seq(S), m \in Nat, n \in Nat :
        /\ s = a \o b /\ m = Len(a) /\ n = Len(b) /\ Len(s) = m + n
        /\ \A i \in 1 .. m : s[i] = a[i]
        /\ \A i \in 1 .. n : s[m + i] = b[i]
  <2>1. /\ a \o b \in Seq(S) /\ Len(a) \in Nat /\ Len(b) \in Nat
        /\ Len(a \o b) = Len(a) + Len(b)
        /\ \A i \in 1 .. Len(a) : (a \o b)[i] = a[i]
        /\ \A i \in 1 .. Len(b) : (a \o b)[Len(a) + i] = b[i]
    OBVIOUS
  <2> QED  BY <2>1
<1>2. \A i \in 1 .. m + n : i \in 1 .. m \/ (i - m \in 1 .. n /\ s[i] = b[i - m])
  <2> SUFFICES ASSUME NEW i \in 1 .. m + n, i \notin 1 .. m
               PROVE  i - m \in 1 .. n /\ s[i] = b[i - m]
    OBVIOUS
  <2>1. i - m \in 1 .. n /\ m + (i - m) = i  OBVIOUS
  <2> QED  BY <1>1, <2>1
<1>3. None(s) <=> None(a) /\ None(b)
  <2>1. ASSUME None(s) PROVE None(a) /\ None(b)
    <3>1. /\ \A g \in 1 .. m : g \in 1 .. m + n
          /\ \A g \in 1 .. n : m + g \in 1 .. m + n
      OBVIOUS
    <3>2. \A g \in 1 .. m + n : ~Fragmented(s[g])  BY <1>1, <2>1 DEF None
    <3>3. \A g \in 1 .. m : ~Fragmented(a[g])  BY <1>1, <3>1, <3>2
    <3>4. \A g \in 1 .. n : ~Fragmented(b[g])  BY <1>1, <3>1, <3>2
    <3> QED  BY <1>1, <3>3, <3>4 DEF None
  <2>2. ASSUME None(a), None(b) PROVE None(s)
    <3>1. /\ \A g \in 1 .. m : ~Fragmented(a[g])
          /\ \A g \in 1 .. n : ~Fragmented(b[g])
      BY <1>1, <2>2 DEF None
    <3>2. ASSUME NEW g \in 1 .. m + n PROVE ~Fragmented(s[g])
      <4>1. CASE g \in 1 .. m  BY <1>1, <3>1, <4>1
      <4>2. CASE g \notin 1 .. m  BY <1>2, <3>1, <4>2
      <4> QED  BY <4>1, <4>2
    <3> QED  BY <1>1, <3>2 DEF None
  <2> QED  BY <2>1, <2>2
<1>4. Has(s, p) <=> Has(a, p) \/ Has(b, p)
  <2>1. ASSUME Has(a, p) PROVE Has(s, p)
    <3>1. PICK i \in 1 .. m : a[i] = p /\ Fragmented(p)  BY <1>1, <2>1 DEF Has
    <3>2. i \in 1 .. m + n /\ s[i] = p  BY <1>1, <3>1
    <3> QED  BY <1>1, <3>1, <3>2 DEF Has
  <2>2. ASSUME Has(b, p) PROVE Has(s, p)
    <3>1. PICK i \in 1 .. n : b[i] = p /\ Fragmented(p)  BY <1>1, <2>2 DEF Has
    <3>2. m + i \in 1 .. m + n /\ s[m + i] = p  BY <1>1, <3>1
    <3> QED  BY <1>1, <3>1, <3>2 DEF Has
  <2>3. ASSUME Has(s, p) PROVE Has(a, p) \/ Has(b, p)
    <3>1. PICK i \in 1 .. m + n : s[i] = p /\ Fragmented(p)  BY <1>1, <2>3 DEF Has
    <3>2. CASE i \in 1 .. m  BY <1>1, <3>1, <3>2 DEF Has
    <3>3. CASE i \notin 1 .. m
      <4>1. i - m \in 1 .. n /\ b[i - m] = p  BY <1>2, <3>1, <3>3
      <4> QED  BY <1>1, <3>1, <4>1 DEF Has
    <3> QED  BY <3>2, <3>3
  <2> QED  BY <2>1, <2>2, <2>3
<1>5. IsFirst(s, p) <=> IsFirst(a, p) \/ (None(a) /\ IsFirst(b, p))
  <2>1. IsFirst(a, p) => IsFirst(s, p)
    BY <1>1 DEF IsFirst
  <2>2. ASSUME None(a), IsFirst(b, p) PROVE IsFirst(s, p)
    <3>1. PICK i \in 1 .. n : /\ b[i] = p /\ Fragmented(p)
                              /\ \A g \in 1 .. i - 1 : ~Fragmented(b[g])
      BY <1>1, <2>2 DEF IsFirst
    <3>2. m + i \in 1 .. m + n /\ s[m + i] = p  BY <1>1, <3>1
    <3>3. ASSUME NEW g \in 1 .. (m + i) - 1 PROVE ~Fragmented(s[g])
      <4>1. CASE g \in 1 .. m  BY <1>1, <2>2, <4>1 DEF None
      <4>2. CASE g \notin 1 .. m
        <5>1. g - m \in 1 .. i - 1 /\ g \in 1 .. m + n  BY <4>2
        <5> QED  BY <1>2, <3>1, <4>2, <5>1
      <4> QED  BY <4>1, <4>2
    <3> QED  BY <1>1, <3>1, <3>2, <3>3 DEF IsFirst
  <2>3. ASSUME IsFirst(s, p) PROVE IsFirst(a, p) \/ (None(a) /\ IsFirst(b, p))
    <3>1. PICK i \in 1 .. m + n : /\ s[i] = p /\ Fragmented(p)
                                  /\ \A g \in 1 .. i - 1 : ~Fragmented(s[g])
      BY <1>1, <2>3 DEF IsFirst
    <3>2. CASE i \in 1 .. m  BY <1>1, <3>1, <3>2 DEF IsFirst
    <3>3. CASE i \notin 1 .. m
      <4>1. i - m \in 1 .. n /\ b[i - m] = p  BY <1>2, <3>1, <3>3
      <4>2. \A g \in 1 .. m : g \in 1 .. i - 1  BY <3>3
      <4>3. None(a)  BY <1>1, <3>1, <4>2 DEF None
      <4>4. \A g \in 1 .. (i - m) - 1 : m + g \in 1 .. i - 1 /\ g \in 1 .. n
        BY <4>1
      <4>5. \A g \in 1 .. (i - m) - 1 : ~Fragmented(b[g])
        BY <1>1, <3>1, <4>4
      <4> QED  BY <1>1, <3>1, <4>1, <4>3, <4>5 DEF IsFirst
    <3> QED  BY <3>2, <3>3
  <2> QED  BY <2>1, <2>2, <2>3
<1>6. IsLast(s, p) <=> IsLast(b, p) \/ (None(b) /\ IsLast(a, p))
  <2>1. ASSUME IsLast(b, p) PROVE IsLast(s, p)
    <3>1. PICK i \in 1 .. n : /\ b[i] = p /\ Fragmented(p)
                              /\ \A g \in i + 1 .. n : ~Fragmented(b[g])
      BY <1>1, <2>1 DEF IsLast
    <3>2. m + i \in 1 .. m + n /\ s[m + i] = p  BY <1>1, <3>1
    <3>3. ASSUME NEW g \in (m + i) + 1 .. m + n PROVE ~Fragmented(s[g])
      <4>1. g - m \in i + 1 .. n /\ g \in 1 .. m + n /\ g \notin 1 .. m  OBVIOUS
      <4> QED  BY <1>2, <3>1, <4>1
    <3> QED  BY <1>1, <3>1, <3>2, <3>3 DEF IsLast
  <2>2. ASSUME None(b), IsLast(a, p) PROVE IsLast(s, p)
    <3>1. PICK i \in 1 .. m : /\ a[i] = p /\ Fragmented(p)
                              /\ \A g \in i + 1 .. m : ~Fragmented(a[g])
      BY <1>1, <2>2 DEF IsLast
    <3>2. i \in 1 .. m + n /\ s[i] = p  BY <1>1, <3>1
    <3>3. ASSUME NEW g \in i + 1 .. m + n PROVE ~Fragmented(s[g])
      <4>1. CASE g \in 1 .. m
        <5>1. g \in i + 1 .. m  BY <4>1
        <5> QED  BY <1>1, <3>1, <4>1, <5>1
      <4>2. CASE g \notin 1 .. m
        <5>1. g \in 1 .. m + n  OBVIOUS
        <5> QED  BY <1>1, <1>2, <2>2, <4>2, <5>1 DEF None
      <4> QED  BY <4>1, <4>2
    <3> QED  BY <1>1, <3>1, <3>2, <3>3 DEF IsLast
  <2>3. ASSUME IsLast(s, p) PROVE IsLast(b, p) \/ (None(b) /\ IsLast(a, p))
    <3>1. PICK i \in 1 .. m + n : /\ s[i] = p /\ Fragmented(p)
                                  /\ \A g \in i + 1 .. m + n : ~Fragmented(s[g])
      BY <1>1, <2>3 DEF IsLast
    <3>2. CASE i \in 1 .. m
      <4>1. \A g \in 1 .. n : m + g \in i + 1 .. m + n  BY <3>2
      <4>2. None(b)  BY <1>1, <3>1, <4>1 DEF None
      <4>3. \A g \in i + 1 .. m : g \in i + 1 .. m + n /\ g \in 1 .. m  BY <3>2
      <4>4. \A g \in i + 1 .. m : ~Fragmented(a[g])  BY <1>1, <3>1, <4>3
      <4>5. a[i] = p  BY <1>1, <3>1, <3>2
      <4> QED  BY <1>1, <3>1, <3>2, <4>2, <4>4, <4>5 DEF IsLast
    <3>3. CASE i \notin 1 .. m
      <4>1. i - m \in 1 .. n /\ b[i - m] = p  BY <1>2, <3>1, <3>3
      <4>2. \A g \in (i - m) + 1 .. n : m + g \in i + 1 .. m + n /\ g \in 1 .. n
        BY <4>1
      <4>3. \A g \in (i - m) + 1 .. n : ~Fragmented(b[g])
        BY <1>1, <3>1, <4>2
      <4> QED  BY <1>1, <3>1, <4>1, <4>3 DEF IsLast
    <3> QED  BY <3>2, <3>3
  <2> QED  BY <2>1, <2>2, <2>3
<1>7. Pair(s, p, q) <=> \/ Pair(a, p, q) \/ Pair(b, p, q)
                        \/ IsLast(a, p) /\ IsFirst(b, q)
  <2>1. ASSUME Pair(a, p, q) PROVE Pair(s, p, q)
    <3>1. PICK h \in 1 .. m : \E i \in h + 1 .. m :
            /\ a[h] = p /\ a[i] = q /\ Fragmented(p) /\ Fragmented(q)
            /\ \A g \in h + 1 .. i - 1 : ~Fragmented(a[g])
      BY <1>1, <2>1 DEF Pair
    <3>2. PICK i \in h + 1 .. m :
            /\ a[h] = p /\ a[i] = q /\ Fragmented(p) /\ Fragmented(q)
            /\ \A g \in h + 1 .. i - 1 : ~Fragmented(a[g])
      BY <3>1
    <3>3. h \in 1 .. m + n /\ i \in h + 1 .. m + n /\ i \in 1 .. m  OBVIOUS
    <3>4. \A g \in h + 1 .. i - 1 : g \in 1 .. m  OBVIOUS
    <3>5. s[h] = p /\ s[i] = q /\ \A g \in h + 1 .. i - 1 : ~Fragmented(s[g])
      BY <1>1, <3>2, <3>3, <3>4
    <3> QED  BY <1>1, <3>2, <3>3, <3>5 DEF Pair
  <2>2. ASSUME Pair(b, p, q) PROVE Pair(s, p, q)
    <3>1. PICK h \in 1 .. n : \E i \in h + 1 .. n :
            /\ b[h] = p /\ b[i] = q /\ Fragmented(p) /\ Fragmented(q)
            /\ \A g \in h + 1 .. i - 1 : ~Fragmented(b[g])
      BY <1>1, <2>2 DEF Pair
    <3>2. PICK i \in h + 1 .. n :
            /\ b[h] = p /\ b[i] = q /\ Fragmented(p) /\ Fragmented(q)
            /\ \A g \in h + 1 .. i - 1 : ~Fragmented(b[g])
      BY <3>1
    <3>3. /\ m + h \in 1 .. m + n /\ m + i \in (m + h) + 1 .. m + n
          /\ i \in 1 .. n
      OBVIOUS
    <3>4. s[m + h] = p /\ s[m + i] = q  BY <1>1, <3>2, <3>3
    <3>5. ASSUME NEW g \in (m + h) + 1 .. (m + i) - 1 PROVE ~Fragmented(s[g])
      <4>1. g - m \in h + 1 .. i - 1 /\ g \in 1 .. m + n /\ g \notin 1 .. m  OBVIOUS
      <4> QED  BY <1>2, <3>2, <4>1
    <3> QED  BY <1>1, <3>2, <3>3, <3>4, <3>5 DEF Pair
  <2>3. ASSUME IsLast(a, p), IsFirst(b, q) PROVE Pair(s, p, q)
    <3>1. PICK h \in 1 .. m : /\ a[h] = p /\ Fragmented(p)
                              /\ \A g \in h + 1 .. m : ~Fragmented(a[g])
      BY <1>1, <2>3 DEF IsLast
    <3>2. PICK i \in 1 .. n : /\ b[i] = q /\ Fragmented(q)
                              /\ \A g \in 1 .. i - 1 : ~Fragmented(b[g])
      BY <1>1, <2>3 DEF IsFirst
    <3>3. h \in 1 .. m + n /\ m + i \in h + 1 .. m + n  OBVIOUS
    <3>4. s[h] = p /\ s[m + i] = q  BY <1>1, <3>1, <3>2
    <3>5. ASSUME NEW g \in h + 1 .. (m + i) - 1 PROVE ~Fragmented(s[g])
      <4>1. CASE g \in 1 .. m
        <5>1. g \in h + 1 .. m  BY <4>1
        <5> QED  BY <1>1, <3>1, <4>1, <5>1
      <4>2. CASE g \notin 1 .. m
        <5>1. g - m \in 1 .. i - 1 /\ g \in 1 .. m + n  BY <4>2
        <5> QED  BY <1>2, <3>2, <4>2, <5>1
      <4> QED  BY <4>1, <4>2
    <3> QED  BY <1>1, <3>1, <3>2, <3>3, <3>4, <3>5 DEF Pair
  <2>4. ASSUME Pair(s, p, q)
        PROVE  Pair(a, p, q) \/ Pair(b, p, q) \/ (IsLast(a, p) /\ IsFirst(b, q))
    <3>1. PICK h \in 1 .. m + n : \E i \in h + 1 .. m + n :
            /\ s[h] = p /\ s[i] = q /\ Fragmented(p) /\ Fragmented(q)
            /\ \A g \in h + 1 .. i - 1 : ~Fragmented(s[g])
      BY <1>1, <2>4 DEF Pair
    <3>2. PICK i \in h + 1 .. m + n :
            /\ s[h] = p /\ s[i] = q /\ Fragmented(p) /\ Fragmented(q)
            /\ \A g \in h + 1 .. i - 1 : ~Fragmented(s[g])
      BY <3>1
    <3>3. CASE i <= m
      <4>1. h \in 1 .. m /\ i \in h + 1 .. m /\ i \in 1 .. m  BY <3>3
      <4>2. \A g \in h + 1 .. i - 1 : g \in 1 .. m  BY <4>1
      <4>3. a[h] = p /\ a[i] = q /\ \A g \in h + 1 .. i - 1 : ~Fragmented(a[g])
        BY <1>1, <3>2, <4>1, <4>2
      <4> QED  BY <1>1, <3>2, <4>1, <4>3 DEF Pair
    <3>4. CASE h <= m /\ m < i
      <4>1. h \in 1 .. m /\ i \in 1 .. m + n /\ i \notin 1 .. m  BY <3>4
      <4>2. a[h] = p /\ i - m \in 1 .. n /\ b[i - m] = q
        BY <1>1, <1>2, <3>2, <4>1
      <4>3. \A g \in h + 1 .. m : g \in h + 1 .. i - 1 /\ g \in 1 .. m
        BY <3>4, <4>1
      <4>4. \A g \in h + 1 .. m : ~Fragmented(a[g])  BY <1>1, <3>2, <4>3
      <4>5. \A g \in 1 .. (i - m) - 1 : m + g \in h + 1 .. i - 1 /\ g \in 1 .. n
        BY <3>4, <4>1
      <4>6. \A g \in 1 .. (i - m) - 1 : ~Fragmented(b[g])  BY <1>1, <3>2, <4>5
      <4>7. IsLast(a, p)  BY <1>1, <3>2, <4>1, <4>2, <4>4 DEF IsLast
      <4>8. IsFirst(b, q)  BY <1>1, <3>2, <4>2, <4>6 DEF IsFirst
      <4> QED  BY <4>7, <4>8
    <3>5. CASE m < h
      <4>1. /\ h \notin 1 .. m /\ i \in 1 .. m + n /\ i \notin 1 .. m
            /\ i - m \in (h - m) + 1 .. n
        BY <3>5
      <4>2. h - m \in 1 .. n /\ b[h - m] = p /\ b[i - m] = q
        BY <1>2, <3>2, <4>1
      <4>3. \A g \in (h - m) + 1 .. (i - m) - 1 :
              m + g \in h + 1 .. i - 1 /\ g \in 1 .. n
        BY <4>1, <4>2
      <4>4. \A g \in (h - m) + 1 .. (i - m) - 1 : ~Fragmented(b[g])
        BY <1>1, <3>2, <4>3
      <4> QED  BY <1>1, <3>2, <4>1, <4>2, <4>4 DEF Pair
    <3> QED  BY <3>3, <3>4, <3>5
  <2> QED  BY <2>1, <2>2, <2>3, <2>4
<1> QED  BY <1>1, <1>3, <1>4, <1>5, <1>6, <1>7

(* A queue of one packet.                                                  *)
LEMMA Single ==
  ASSUME NEW x, NEW p, NEW q
  PROVE  /\ None(<<x>>) <=> ~Fragmented(x)
         /\ Has(<<x>>, p) <=> p = x /\ Fragmented(x)
         /\ IsFirst(<<x>>, p) <=> p = x /\ Fragmented(x)
         /\ IsLast(<<x>>, p) <=> p = x /\ Fragmented(x)
         /\ ~Pair(<<x>>, p, q)
<1>1. Len(<<x>>) = 1 /\ <<x>>[1] = x  OBVIOUS
<1> QED  BY <1>1 DEF None, Has, IsFirst, IsLast, Pair

LEMMA Members ==
  ASSUME NEW s, NEW p, NEW q
  PROVE  /\ IsFirst(s, p) => Has(s, p)
         /\ IsLast(s, p) => Has(s, p)
         /\ Pair(s, p, q) => Has(s, p) /\ Has(s, q)
         /\ Has(s, p) => ~None(s)
BY DEF None, Has, IsFirst, IsLast, Pair

(* Packets of other kinds are not seen by any of these.                    *)
Alike(s, t) ==
  /\ None(s) <=> None(t)
  /\ \A p : /\ Has(s, p) <=> Has(t, p)
            /\ IsFirst(s, p) <=> IsFirst(t, p)
            /\ IsLast(s, p) <=> IsLast(t, p)
  /\ \A p, q : Pair(s, p, q) <=> Pair(t, p, q)

LEMMA BehindAlike ==
  ASSUME NEW S, NEW a \in Seq(S), NEW b \in Seq(S), NEW c \in Seq(S), Alike(b, c)
  PROVE  Alike(a \o b, a \o c)
<1>1. \A p, q : /\ Has(a \o b, p) <=> Has(a \o c, p)
                /\ IsFirst(a \o b, p) <=> IsFirst(a \o c, p)
                /\ IsLast(a \o b, p) <=> IsLast(a \o c, p)
                /\ Pair(a \o b, p, q) <=> Pair(a \o c, p, q)
                /\ None(a \o b) <=> None(a \o c)
  <2> TAKE p, q
  <2>1. /\ None(a \o b) <=> None(a) /\ None(b)
        /\ Has(a \o b, p) <=> Has(a, p) \/ Has(b, p)
        /\ IsFirst(a \o b, p) <=> IsFirst(a, p) \/ (None(a) /\ IsFirst(b, p))
        /\ IsLast(a \o b, p) <=> IsLast(b, p) \/ (None(b) /\ IsLast(a, p))
        /\ Pair(a \o b, p, q) <=> \/ Pair(a, p, q) \/ Pair(b, p, q)
                                  \/ IsLast(a, p) /\ IsFirst(b, q)
    BY Joined
  <2>2. /\ None(a \o c) <=> None(a) /\ None(c)
        /\ Has(a \o c, p) <=> Has(a, p) \/ Has(c, p)
        /\ IsFirst(a \o c, p) <=> IsFirst(a, p) \/ (None(a) /\ IsFirst(c, p))
        /\ IsLast(a \o c, p) <=> IsLast(c, p) \/ (None(c) /\ IsLast(a, p))
        /\ Pair(a \o c, p, q) <=> \/ Pair(a, p, q) \/ Pair(c, p, q)
                                  \/ IsLast(a, p) /\ IsFirst(c, q)
    BY Joined
  <2>3. /\ None(b) <=> None(c)
        /\ Has(b, p) <=> Has(c, p)
        /\ IsFirst(b, p) <=> IsFirst(c, p)
        /\ IsFirst(b, q) <=> IsFirst(c, q)
        /\ IsLast(b, p) <=> IsLast(c, p)
        /\ Pair(b, p, q) <=> Pair(c, p, q)
    BY DEF Alike
  <2> QED  BY <2>1, <2>2, <2>3
<1> QED  BY <1>1 DEF Alike

LEMMA AheadAlike ==
  ASSUME NEW S, NEW x \in S, NEW b \in Seq(S), ~Fragmented(x)
  PROVE  Alike(<<x>> \o b, b)
<1> <<x>> \in Seq(S)  OBVIOUS
<1>1. \A p, q : /\ Has(<<x>> \o b, p) <=> Has(b, p)
                /\ IsFirst(<<x>> \o b, p) <=> IsFirst(b, p)
                /\ IsLast(<<x>> \o b, p) <=> IsLast(b, p)
                /\ Pair(<<x>> \o b, p, q) <=> Pair(b, p, q)
                /\ None(<<x>> \o b) <=> None(b)
  <2> TAKE p, q
  <2>1. /\ None(<<x>> \o b) <=> None(<<x>>) /\ None(b)
        /\ Has(<<x>> \o b, p) <=> Has(<<x>>, p) \/ Has(b, p)
        /\ IsFirst(<<x>> \o b, p) <=> \/ IsFirst(<<x>>, p)
                                      \/ None(<<x>>) /\ IsFirst(b, p)
        /\ IsLast(<<x>> \o b, p) <=> IsLast(b, p) \/ (None(b) /\ IsLast(<<x>>, p))
        /\ Pair(<<x>> \o b, p, q) <=> \/ Pair(<<x>>, p, q) \/ Pair(b, p, q)
                                      \/ IsLast(<<x>>, p) /\ IsFirst(b, q)
    BY Joined
  <2> QED  BY <2>1, Single
<1> QED  BY <1>1 DEF Alike

(* A packet of a message at the head of a queue.                           *)
LEMMA Headed ==
  ASSUME NEW S, NEW x \in S, NEW b \in Seq(S), Fragmented(x), NEW p, NEW q
  PROVE  /\ ~None(<<x>> \o b)
         /\ Has(<<x>> \o b, p) <=> p = x \/ Has(b, p)
         /\ IsFirst(<<x>> \o b, p) <=> p = x
         /\ IsLast(<<x>> \o b, p) <=> IsLast(b, p) \/ (None(b) /\ p = x)
         /\ Pair(<<x>> \o b, p, q) <=> Pair(b, p, q) \/ (p = x /\ IsFirst(b, q))
<1> <<x>> \in Seq(S)  OBVIOUS
<1>1. /\ None(<<x>> \o b) <=> None(<<x>>) /\ None(b)
      /\ Has(<<x>> \o b, p) <=> Has(<<x>>, p) \/ Has(b, p)
      /\ IsFirst(<<x>> \o b, p) <=> \/ IsFirst(<<x>>, p)
                                    \/ None(<<x>>) /\ IsFirst(b, p)
      /\ IsLast(<<x>> \o b, p) <=> IsLast(b, p) \/ (None(b) /\ IsLast(<<x>>, p))
      /\ Pair(<<x>> \o b, p, q) <=> \/ Pair(<<x>>, p, q) \/ Pair(b, p, q)
                                    \/ IsLast(<<x>>, p) /\ IsFirst(b, q)
  BY Joined
<1> QED  BY <1>1, Single

-----------------------------------------------------------------------------
Glued(s, a, b) ==
  /\ s = a \o b /\ Len(s) = Len(a) + Len(b)
  /\ \A i \in 1 .. Len(a) : s[i] = a[i]
  /\ \A i \in 1 .. Len(b) : s[Len(a) + i] = b[i]

LEMMA Gluing ==
  ASSUME NEW S, NEW a \in Seq(S), NEW b \in Seq(S)
  PROVE  \E s \in Seq(S) : Glued(s, a, b)
<1>1. /\ a \o b \in Seq(S)
      /\ Len(a \o b) = Len(a) + Len(b)
      /\ \A i \in 1 .. Len(a) : (a \o b)[i] = a[i]
      /\ \A i \in 1 .. Len(b) : (a \o b)[Len(a) + i] = b[i]
  OBVIOUS
<1> QED  BY <1>1 DEF Glued

(* The bytes of a message.                                                 *)
LaidOut(b, r) ==
  /\ b \in Seq(Byte)
  /\ Len(b) = (6 + Len(r.field)) + Len(r.data)
  /\ b[1] = Start /\ b[Len(b)] = End
  /\ \A i \in 1 .. 3 : b[i + 1] = r.maker[i]
  /\ b[5] = r.cmd
  /\ \A i \in 1 .. Len(r.field) : b[5 + i] = r.field[i]
  /\ \A i \in 1 .. Len(r.data) : b[(5 + Len(r.field)) + i] = r.data[i]

LEMMA BytesOf ==
  ASSUME NEW r \in RequestType, NEW b, b = Bytes(r)
  PROVE  LaidOut(b, r)
<1>1. /\ r.maker \in [1 .. 3 -> Byte] /\ r.cmd \in Byte
      /\ r.field \in Seq(Byte) /\ r.data \in Seq(Byte)
  BY DEF RequestType
<1>2. r.maker \in Seq(Byte) /\ Len(r.maker) = 3
  <2>1. PICK m \in [1 .. 3 -> Byte] : m = r.maker  BY <1>1
  <2>2. m \in Seq(Byte)  BY SeqDef
  <2>3. Len(m) \in Nat /\ 1 .. Len(m) = 1 .. 3
    <3>1. Len(m) \in Nat /\ DOMAIN m = 1 .. Len(m)
      BY <2>2, LenProperties, Zenon
    <3>2. DOMAIN m = 1 .. 3  OBVIOUS
    <3> QED  BY <3>1, <3>2
  <2>4. Len(m) = 3
    <3>1. 3 \in 1 .. Len(m) /\ (Len(m) \in 1 .. Len(m) \/ Len(m) = 0)  BY <2>3
    <3> QED  BY <2>3, <3>1
  <2> QED  BY <2>1, <2>2, <2>4
<1>3. Start \in Byte /\ End \in Byte  BY DEF Start, End, Byte
<1>4. PICK m \in Seq(Byte), f \in Seq(Byte), d \in Seq(Byte), c \in Byte,
           s \in Byte, e \in Byte :
        m = r.maker /\ f = r.field /\ d = r.data /\ c = r.cmd /\ s = Start /\ e = End
  BY <1>1, <1>2, <1>3
<1>5. b = (((((<<s>> \o m) \o <<c>>) \o f) \o d) \o <<e>>)
  BY <1>4 DEF Bytes
<1>6. PICK g \in Seq(Byte) : /\ g = (<<s>> \o m) \o <<c>>
                             /\ Len(g) = 5 /\ g[1] = s /\ g[5] = c
                             /\ \A i \in 1 .. 3 : g[i + 1] = m[i]
  <2>1. Len(m) = 3  BY <1>2, <1>4
  <2>2. <<s>> \in Seq(Byte) /\ Len(<<s>>) = 1 /\ <<s>>[1] = s  OBVIOUS
  <2>3. PICK h \in Seq(Byte) : Glued(h, <<s>>, m)  BY <2>2, Gluing, Zenon
  <2>4. /\ h = <<s>> \o m /\ Len(h) = 1 + 3 /\ h[1] = s
        /\ \A i \in 1 .. 3 : h[1 + i] = m[i]
    BY <2>1, <2>2, <2>3 DEF Glued
  <2>5. <<c>> \in Seq(Byte) /\ Len(<<c>>) = 1 /\ <<c>>[1] = c  OBVIOUS
  <2>6. Len(h) = 4  BY <2>4
  <2>7. PICK g \in Seq(Byte) : Glued(g, h, <<c>>)  BY <2>5, Gluing, Zenon
  <2>8. /\ g = h \o <<c>> /\ \A i \in 1 .. 4 : g[i] = h[i]
        /\ g[5] = c /\ Len(g) = 5
    BY <2>5, <2>6, <2>7 DEF Glued
  <2>9. g[1] = s  BY <2>4, <2>8
  <2>10. \A i \in 1 .. 3 : i + 1 \in 1 .. 4 /\ i + 1 = 1 + i  OBVIOUS
  <2>11. \A i \in 1 .. 3 : g[i + 1] = m[i]  BY <2>4, <2>8, <2>10
  <2> QED  BY <2>4, <2>8, <2>9, <2>11
<1>7. PICK h \in Seq(Byte) : Glued(h, g, f)  BY Gluing, Zenon
<1>8. PICK t \in Seq(Byte) : Glued(t, h, d)  BY Gluing, Zenon
<1>9. /\ h = g \o f /\ Len(h) = 5 + Len(f)
      /\ \A i \in 1 .. 5 : h[i] = g[i]
      /\ \A i \in 1 .. Len(f) : h[5 + i] = f[i]
  BY <1>6, <1>7 DEF Glued
<1>10. /\ t = h \o d /\ Len(t) = (5 + Len(f)) + Len(d)
       /\ \A i \in 1 .. 5 + Len(f) : t[i] = h[i]
       /\ \A i \in 1 .. Len(d) : t[(5 + Len(f)) + i] = d[i]
  BY <1>8, <1>9 DEF Glued
<1>11. /\ b \in Seq(Byte) /\ Len(b) = ((5 + Len(f)) + Len(d)) + 1
       /\ \A i \in 1 .. (5 + Len(f)) + Len(d) : b[i] = t[i]
       /\ b[Len(b)] = e
  <2>1. b = t \o <<e>>  BY <1>5, <1>6, <1>9, <1>10
  <2> QED  BY <1>10, <2>1
<1>12. PICK nf \in Nat, nd \in Nat : nf = Len(f) /\ nd = Len(d)  OBVIOUS
<1>13. /\ 1 \in 1 .. 5 /\ 5 \in 1 .. 5
       /\ \A i \in 1 .. 5 : i \in 1 .. 5 + nf /\ i \in 1 .. (5 + nf) + nd
       /\ \A i \in 1 .. 3 : i + 1 \in 1 .. 5
       /\ \A i \in 1 .. nf : 5 + i \in 1 .. 5 + nf /\ 5 + i \in 1 .. (5 + nf) + nd
       /\ \A i \in 1 .. nd : (5 + nf) + i \in 1 .. (5 + nf) + nd
  OBVIOUS
<1>14. \A i \in 1 .. 5 : b[i] = g[i]
  BY <1>9, <1>10, <1>11, <1>12, <1>13
<1>15. b[1] = s /\ b[5] = c /\ \A i \in 1 .. 3 : b[i + 1] = m[i]
  BY <1>6, <1>13, <1>14
<1>16. \A i \in 1 .. nf : b[5 + i] = f[i]
  BY <1>9, <1>10, <1>11, <1>12, <1>13
<1>17. \A i \in 1 .. nd : b[(5 + nf) + i] = d[i]
  BY <1>10, <1>11, <1>12, <1>13
<1>18. Len(b) = (6 + nf) + nd
  BY <1>11, <1>12
<1> QED  BY <1>4, <1>11, <1>12, <1>15, <1>16, <1>17, <1>18 DEF LaidOut

-----------------------------------------------------------------------------
(* A message in pieces.                                                    *)
Packet ==
  [kind : {"cc", "other"}]
    \cup [kind : {"sysex"}, last : BOOLEAN, of : Nat, nth : Nat, bytes : Seq(Byte)]

Upto(m, j) == SubSeq(m, 1, IF j = Pieces(m) THEN Len(m) ELSE 3 * j)

LEMMA Counted ==
  ASSUME NEW m \in Seq(Byte), m # <<>>
  PROVE  /\ Len(m) \in Nat \ {0}
         /\ Pieces(m) \in Nat \ {0}
         /\ 3 * Pieces(m) >= Len(m)
         /\ \A j \in 1 .. Pieces(m) : 3 * (j - 1) < Len(m)
         /\ \A j \in 1 .. Pieces(m) : j # Pieces(m) => 3 * j < Len(m)
<1>1. Len(m) \in Nat \ {0}  OBVIOUS
<1>2. PICK n \in Nat : n = Pieces(m) /\ 3 * n >= Len(m) /\ 3 * n < Len(m) + 3
  BY <1>1 DEF Pieces
<1>3. n # 0  BY <1>1, <1>2
<1>4. ASSUME NEW j \in 1 .. n PROVE 3 * (j - 1) < Len(m) /\ (j # n => 3 * j < Len(m))
  BY <1>1, <1>2
<1> QED  BY <1>1, <1>2, <1>3, <1>4

(* The piece j brings what is collected, b, to the first j pieces.         *)
Adds(m, j, x, b) ==
  /\ b \o x.bytes = Upto(m, j)
  /\ Upto(m, j) \in Seq(Byte) /\ Len(Upto(m, j)) <= Len(m)
  /\ x.last => Upto(m, j) = m

LEMMA Pieced ==
  ASSUME NEW m \in Seq(Byte), m # <<>>, NEW k \in Nat, NEW j \in 1 .. Pieces(m)
  PROVE  /\ Piece(m, k, j) \in Packet /\ Fragmented(Piece(m, k, j))
         /\ Piece(m, k, j).of = k /\ Piece(m, k, j).nth = j
         /\ Piece(m, k, j).last <=> j = Pieces(m)
         /\ Upto(m, 0) = <<>>
         /\ Adds(m, j, Piece(m, k, j), Upto(m, j - 1))
<1>1. PICK l \in Nat \ {0}, n \in Nat \ {0} : l = Len(m) /\ n = Pieces(m)
  BY Counted
<1>2. /\ j \in 1 .. n /\ 3 * n >= l /\ 3 * (j - 1) < l /\ (j # n => 3 * j < l)
  BY <1>1, Counted
<1>3. PICK to \in 1 .. l : /\ to = IF j = n THEN l ELSE 3 * j
                           /\ 3 * (j - 1) <= to
  BY <1>1, <1>2
<1>4. PICK fr \in 0 .. to : fr = 3 * (j - 1)
  BY <1>2, <1>3
<1>5. \A x, y \in Nat : y <= l => /\ SubSeq(m, 1, y) \in Seq(Byte)
                                  /\ Len(SubSeq(m, 1, y)) = y
                                  /\ SubSeq(m, x + 1, y) \in Seq(Byte)
  BY <1>1
<1>6. Piece(m, k, j) = [kind |-> "sysex", last |-> j = n, of |-> k, nth |-> j,
                        bytes |-> SubSeq(m, fr + 1, to)]
  <2>1. (3 * j) - 2 = fr + 1  BY <1>2, <1>4
  <2> QED  BY <1>1, <1>3, <2>1 DEF Piece
<1>7. SubSeq(m, fr + 1, to) \in Seq(Byte)
  <2>1. fr \in Nat /\ to \in Nat /\ to <= l  BY <1>3, <1>4
  <2> QED  BY <1>5, <2>1
<1>8. /\ Piece(m, k, j) \in Packet /\ Fragmented(Piece(m, k, j))
      /\ Piece(m, k, j).of = k /\ Piece(m, k, j).nth = j
      /\ Piece(m, k, j).last <=> j = n
      /\ Piece(m, k, j).bytes = SubSeq(m, fr + 1, to)
  <2>1. (j = n) \in BOOLEAN /\ j \in Nat  BY <1>2
  <2>2. Piece(m, k, j) \in
          [kind : {"sysex"}, last : BOOLEAN, of : Nat, nth : Nat, bytes : Seq(Byte)]
    BY <1>6, <1>7, <2>1
  <2>3. /\ Piece(m, k, j).of = k /\ Piece(m, k, j).nth = j
        /\ Piece(m, k, j).bytes = SubSeq(m, fr + 1, to)
        /\ Piece(m, k, j).kind = "sysex"
    BY <1>6
  <2>4. PICK z \in BOOLEAN : z = (j = n)
    OBVIOUS
  <2>5. Piece(m, k, j) = [kind |-> "sysex", last |-> z, of |-> k, nth |-> j,
                          bytes |-> SubSeq(m, fr + 1, to)]
    BY <1>6, <2>4, Zenon
  <2>6. Piece(m, k, j).last = z
    BY <2>5
  <2> QED  BY <2>2, <2>3, <2>4, <2>6, Zenon DEF Packet, Fragmented
<1>9. Upto(m, j) = SubSeq(m, 1, to)
  BY <1>1, <1>3 DEF Upto
<1>10. Upto(m, j - 1) = SubSeq(m, 1, fr)
  BY <1>1, <1>2, <1>4 DEF Upto
<1>11. SubSeq(m, 1, fr) \o SubSeq(m, fr + 1, to) = SubSeq(m, 1, to)
  <2>1. /\ 1 \in 1 .. Len(m) + 1 /\ fr \in 1 - 1 .. Len(m) /\ to \in fr .. Len(m)
    BY <1>1, <1>3, <1>4
  <2> QED  BY <2>1, ConcatAdjacentSubSeq
<1>12. Upto(m, 0) = <<>>
  BY <1>1 DEF Upto
<1>13. Upto(m, n) = m
  BY <1>1, SubSeqFull DEF Upto
<1>14. Upto(m, j) \in Seq(Byte) /\ Len(Upto(m, j)) <= Len(m)
  <2>1. to \in Nat /\ to <= l  BY <1>3
  <2> QED  BY <1>1, <1>5, <1>9, <2>1
<1>15. Upto(m, j - 1) \o Piece(m, k, j).bytes = Upto(m, j)
  BY <1>8, <1>9, <1>10, <1>11
<1>16. Adds(m, j, Piece(m, k, j), Upto(m, j - 1))
  BY <1>1, <1>8, <1>13, <1>14, <1>15, Zenon DEF Adds
<1> QED  BY <1>1, <1>8, <1>12, <1>16

LEMMA CutUp ==
  ASSUME NEW m \in Seq(Byte), m # <<>>, NEW k \in Nat
  PROVE  /\ Cut(m, k) \in Seq(Packet)
         /\ ~None(Cut(m, k))
         /\ \A p : /\ Has(Cut(m, k), p) =>
                        \E j \in 1 .. Pieces(m) : p = Piece(m, k, j)
                   /\ IsFirst(Cut(m, k), p) => p = Piece(m, k, 1)
                   /\ IsLast(Cut(m, k), p) => p = Piece(m, k, Pieces(m))
         /\ \A p, q : Pair(Cut(m, k), p, q) =>
              \E j \in 1 .. Pieces(m) :
                /\ j # Pieces(m) /\ j + 1 \in 1 .. Pieces(m)
                /\ p = Piece(m, k, j) /\ q = Piece(m, k, j + 1)
<1>1. PICK n \in Nat \ {0} : n = Pieces(m)
  BY Counted
<1>2. \A j \in 1 .. n : Piece(m, k, j) \in Packet /\ Fragmented(Piece(m, k, j))
  BY <1>1, Pieced
<1>3. PICK c \in Seq(Packet) : c = Cut(m, k) /\ Len(c) = n
                               /\ \A j \in 1 .. n : c[j] = Piece(m, k, j)
  <2> DEFINE c == [j \in 1 .. n |-> Piece(m, k, j)]
  <2>1. c \in [1 .. n -> Packet] /\ \A j \in 1 .. n : c[j] = Piece(m, k, j)
    BY <1>2, Zenon
  <2>2. c = Cut(m, k)  BY <1>1 DEF Cut
  <2> HIDE DEF c
  <2>3. c \in Seq(Packet) /\ Len(c) = n  BY <2>1
  <2> QED  BY <2>1, <2>2, <2>3
<1>4. \A j \in 1 .. n : Fragmented(c[j])
  BY <1>2, <1>3
<1>5. ~None(c)
  BY <1>3, <1>4 DEF None
<1>6. ASSUME NEW p, Has(c, p) PROVE \E j \in 1 .. n : p = Piece(m, k, j)
  BY <1>3, <1>6 DEF Has
<1>7. ASSUME NEW p, IsFirst(c, p) PROVE p = Piece(m, k, 1)
  <2>1. PICK i \in 1 .. n : c[i] = p /\ \A g \in 1 .. i - 1 : ~Fragmented(c[g])
    BY <1>3, <1>7 DEF IsFirst
  <2>2. i = 1
    <3>1. ASSUME i # 1 PROVE FALSE
      <4>1. 1 \in 1 .. i - 1 /\ 1 \in 1 .. n  BY <3>1
      <4> QED  BY <1>4, <2>1, <4>1
    <3> QED  BY <3>1
  <2> QED  BY <1>3, <2>1, <2>2
<1>8. ASSUME NEW p, IsLast(c, p) PROVE p = Piece(m, k, n)
  <2>1. PICK i \in 1 .. n : c[i] = p /\ \A g \in i + 1 .. n : ~Fragmented(c[g])
    BY <1>3, <1>8 DEF IsLast
  <2>2. i = n
    <3>1. ASSUME i # n PROVE FALSE
      <4>1. n \in i + 1 .. n /\ n \in 1 .. n  BY <3>1
      <4> QED  BY <1>4, <2>1, <4>1
    <3> QED  BY <3>1
  <2> QED  BY <1>3, <2>1, <2>2
<1>9. ASSUME NEW p, NEW q, Pair(c, p, q)
      PROVE  \E j \in 1 .. n : /\ j # n /\ j + 1 \in 1 .. n
                               /\ p = Piece(m, k, j) /\ q = Piece(m, k, j + 1)
  <2>1. PICK h \in 1 .. n : \E i \in h + 1 .. n :
          c[h] = p /\ c[i] = q /\ \A g \in h + 1 .. i - 1 : ~Fragmented(c[g])
    BY <1>3, <1>9 DEF Pair
  <2>2. PICK i \in h + 1 .. n :
          c[h] = p /\ c[i] = q /\ \A g \in h + 1 .. i - 1 : ~Fragmented(c[g])
    BY <2>1
  <2>3. i = h + 1
    <3>1. ASSUME i # h + 1 PROVE FALSE
      <4>1. h + 1 \in h + 1 .. i - 1 /\ h + 1 \in 1 .. n  BY <3>1
      <4> QED  BY <1>4, <2>2, <4>1
    <3> QED  BY <3>1
  <2>4. h # n /\ h + 1 \in 1 .. n  BY <2>3
  <2>5. p = Piece(m, k, h) /\ q = Piece(m, k, h + 1)
    BY <1>3, <2>2, <2>3, <2>4
  <2> QED  BY <2>4, <2>5
<1> QED  BY <1>1, <1>3, <1>5, <1>6, <1>7, <1>8, <1>9

-----------------------------------------------------------------------------
(* What a whole message does to the settings.                              *)

(* The messages the device agrees with the host about: a SET whose data is *)
(* as long as the field, and what shares nothing with a message of ours    *)
(* that could be taken for one.                                            *)
Proper(r) ==
  /\ Len(Bytes(r)) <= MaxPktSize
  /\ \/ Asks(r) /\ Len(r.data) = DataLen[r.field[1]]
     \/ \A i \in 1 .. 3 : r.maker[i] # Maker[i]
     \/ r.cmd \notin {GET, SET, STOP}
     \/ r.field # <<>> /\ r.field[1] \notin EncoderParams \cup VmapParams

LEMMA FieldNamed ==
  ASSUME NEW f \in Fields
  PROVE  /\ f[1] \in EncoderParams => Len(f) = 3
         /\ f[1] \notin EncoderParams => Len(f) = 4
         /\ f[1] \in EncoderParams \cup VmapParams
<1>1. CASE \E p \in EncoderParams : \E b \in 0 .. NumBanks - 1 :
             \E e \in 0 .. NumEncoders - 1 : f = <<p, b, e>>
  BY <1>1
<1>2. CASE \E p \in VmapParams : \E b \in 0 .. NumBanks - 1 :
             \E e \in 0 .. NumEncoders - 1 : \E v \in 0 .. NumVmaps - 1 :
               f = <<p, b, e, v>>
  BY <1>2 DEF EncoderParams, VmapParams
<1> QED  BY <1>1, <1>2 DEF Fields

LEMMA AskedFor ==
  ASSUME NEW r \in RequestType, Asks(r), Len(r.data) = DataLen[r.field[1]],
         NEW b, b = Bytes(r)
  PROVE  Acceptable(b) /\ Written(b) = Promise(r, setting)
<1>1. PICK f \in Seq(Byte), d \in Seq(Byte), nf \in Nat, nd \in Nat :
        f = r.field /\ d = r.data /\ nf = Len(f) /\ nd = Len(d)
  BY DEF RequestType
<1>2. /\ b \in Seq(Byte) /\ Len(b) = (6 + nf) + nd
      /\ b[1] = Start /\ b[Len(b)] = End
      /\ \A i \in 1 .. 3 : b[i + 1] = Maker[i]
      /\ b[5] = SET
      /\ \A i \in 1 .. nf : b[5 + i] = f[i]
      /\ \A i \in 1 .. nd : b[(5 + nf) + i] = d[i]
  <2>1. LaidOut(b, r)  BY BytesOf, Zenon
  <2>2. r.maker = Maker /\ r.cmd = SET  BY Zenon DEF Asks
  <2> QED  BY <1>1, <2>1, <2>2, Zenon DEF LaidOut
<1>3. f \in Fields /\ nd = DataLen[f[1]]
  BY <1>1 DEF Asks
<1>4. /\ f[1] \in EncoderParams => nf = 3
      /\ f[1] \notin EncoderParams => nf = 4
      /\ f[1] \in EncoderParams \cup VmapParams
      /\ nf >= 3
  <2>1. /\ f[1] \in EncoderParams => Len(f) = 3
        /\ f[1] \notin EncoderParams => Len(f) = 4
        /\ f[1] \in EncoderParams \cup VmapParams
    BY <1>3, FieldNamed, Zenon
  <2>2. nf = 3 \/ nf = 4  BY <1>1, <2>1
  <2>3. nf >= 3  BY <2>2
  <2> QED  BY <1>1, <2>1, <2>3
<1>5. Param(b) = f[1]
  <2>1. 1 \in 1 .. nf /\ 5 + 1 <= Len(b) /\ 5 + 1 = 6  BY <1>2, <1>4
  <2> QED  BY <1>2, <2>1 DEF Param, At
<1>6. Acceptable(b)
  <2>1. Len(b) >= MinPktSize  BY <1>2 DEF MinPktSize
  <2>2. At(b, 1 + 1) = Maker[1]
    <3>1. 1 + 1 <= Len(b) /\ 1 \in 1 .. 3  BY <1>2
    <3> QED  BY <1>2, <3>1 DEF At
  <2>3. Cmd(b) = SET
    <3>1. 5 <= Len(b)  BY <1>2
    <3> QED  BY <1>2, <3>1 DEF Cmd, At
  <2> QED  BY <1>2, <1>4, <1>5, <2>1, <2>2, <2>3 DEF Acceptable
<1>7. [i \in 1 .. nf |-> At(b, i + 5)] = f
  <2>1. \A i \in 1 .. nf : At(b, i + 5) = f[i]
    <3> TAKE i \in 1 .. nf
    <3>1. i + 5 <= Len(b) /\ i + 5 = 5 + i  BY <1>2
    <3> QED  BY <1>2, <3>1 DEF At
  <2>2. f = [i \in 1 .. nf |-> f[i]]  BY <1>1
  <2> QED  BY <2>1, <2>2
<1>8. [i \in 1 .. nd |-> At(b, (i + 5) + nf)] = d
  <2>1. \A i \in 1 .. nd : At(b, (i + 5) + nf) = d[i]
    <3> TAKE i \in 1 .. nd
    <3>1. (i + 5) + nf <= Len(b) /\ (i + 5) + nf = (5 + nf) + i  BY <1>2
    <3> QED  BY <1>2, <3>1 DEF At
  <2>2. d = [i \in 1 .. nd |-> d[i]]  BY <1>1
  <2> QED  BY <2>1, <2>2
<1>9. nf = IF Param(b) \in EncoderParams THEN 3 ELSE 4
  BY <1>4, <1>5
<1>10. Written(b) = [setting EXCEPT ![f] = d]
  <2>1. Written(b) =
          IF [i \in 1 .. nf |-> At(b, i + 5)] \in Fields
            THEN [setting EXCEPT ![[i \in 1 .. nf |-> At(b, i + 5)]] =
                    [i \in 1 .. DataLen[Param(b)] |-> At(b, (i + 5) + nf)]]
            ELSE setting
    BY <1>9, Zenon DEF Written
  <2> QED  BY <1>3, <1>5, <1>7, <1>8, <2>1
<1> QED  BY <1>1, <1>6, <1>10 DEF Promise

LEMMA NotAskedFor ==
  ASSUME NEW r \in RequestType, NEW b, b = Bytes(r),
         \/ \A i \in 1 .. 3 : r.maker[i] # Maker[i]
         \/ r.cmd \notin {GET, SET, STOP}
         \/ r.field # <<>> /\ r.field[1] \notin EncoderParams \cup VmapParams
  PROVE  /\ Promise(r, setting) = setting
         /\ Acceptable(b) => Written(b) = setting
<1>1. PICK f \in Seq(Byte), nf \in Nat, nd \in Nat :
        f = r.field /\ nf = Len(f) /\ nd = Len(r.data)
  BY DEF RequestType
<1>2. /\ b \in Seq(Byte) /\ Len(b) = (6 + nf) + nd
      /\ \A i \in 1 .. 3 : b[i + 1] = r.maker[i]
      /\ b[5] = r.cmd
      /\ \A i \in 1 .. nf : b[5 + i] = f[i]
  <2>1. LaidOut(b, r)  BY BytesOf, Zenon
  <2> QED  BY <1>1, <2>1, Zenon DEF LaidOut
<1>3. CASE \A i \in 1 .. 3 : r.maker[i] # Maker[i]
  <2>1. \A i \in 1 .. 3 : At(b, i + 1) # Maker[i]
    <3> TAKE i \in 1 .. 3
    <3>1. i + 1 <= Len(b)  BY <1>2
    <3> QED  BY <1>2, <1>3, <3>1 DEF At
  <2>2. r.maker # Maker  BY <1>3
  <2> QED  BY <2>1, <2>2 DEF Acceptable, Promise, Asks
<1>4. CASE r.cmd \notin {GET, SET, STOP}
  <2>1. Cmd(b) = r.cmd
    <3>1. 5 <= Len(b)  BY <1>2
    <3> QED  BY <1>2, <3>1 DEF Cmd, At
  <2> QED  BY <1>4, <2>1 DEF Acceptable, Promise, Asks
<1>5. CASE f # <<>> /\ f[1] \notin EncoderParams \cup VmapParams
  <2>1. At(b, 6) = f[1]
    <3>1. nf # 0  BY <1>1, <1>5
    <3>2. 1 \in 1 .. nf /\ 6 <= Len(b) /\ 5 + 1 = 6  BY <1>2, <3>1
    <3> QED  BY <1>2, <3>2 DEF At
  <2>2. f \notin Fields  BY <1>5, FieldNamed
  <2>3. [i \in 1 .. 4 |-> At(b, i + 5)] \notin Fields
    <3>1. [i \in 1 .. 4 |-> At(b, i + 5)][1] = f[1]
      <4>1. 1 \in 1 .. 4 /\ 1 + 5 = 6  OBVIOUS
      <4> QED  BY <2>1, <4>1
    <3> QED  BY <1>5, <3>1, FieldNamed
  <2>4. Param(b) \notin EncoderParams  BY <1>5, <2>1 DEF Param
  <2>5. Written(b) = setting
    BY <2>3, <2>4, Zenon DEF Written
  <2> QED  BY <1>1, <2>2, <2>5 DEF Promise, Asks
<1> QED  BY <1>1, <1>3, <1>4, <1>5

-----------------------------------------------------------------------------
(* The inductive invariant, of the packets on their way (all, those in     *)
(* MIDI_IN first, and those still ahead of it) with the messages sent,     *)
(* those hurt and what the handler has collected.                          *)
Queue == in \o (usb \o rest)
Ahead == usb \o rest

(* Each is a piece of a message the host has sent.                         *)
Genuine(q, ms) ==
  \A p : Has(q, p) => /\ p.of \in 1 .. Len(ms)
                      /\ p.nth \in 1 .. Pieces(Bytes(ms[p.of]))
                      /\ p = Piece(Bytes(ms[p.of]), p.of, p.nth)

(* Ahead of MIDI_IN every piece is there, in order, to the last one.       *)
Succeeds(p, n) == IF p.last THEN n.of = p.of + 1 /\ n.nth = 1
                            ELSE n.of = p.of /\ n.nth = p.nth + 1

InLine(w, ms) == /\ \A p, n : Pair(w, p, n) => Succeeds(p, n)
                 /\ \A p : IsLast(w, p) => p.last /\ p.of = Len(ms)

(* The piece before that of a message not hurt is the one it was cut from, *)
(* or the end of a message,                                                *)
Precedes(p, n) == IF n.nth = 1 THEN p.last
                               ELSE ~p.last /\ p.of = n.of /\ n.nth = p.nth + 1

Ordered(q, h) == \A p, n : Pair(q, p, n) /\ n.of \notin h => Precedes(p, n)

(* before the first one the buffer holds what went before,                 *)
Begun(q, h, b, ms) ==
  \A p : IsFirst(q, p) /\ p.of \notin h => b = Upto(Bytes(ms[p.of]), p.nth - 1)

(* and a message still to be sent comes after the end of one.              *)
Ready(q, h, b, ms) ==
  Len(ms) + 1 \notin h => /\ \A p : IsLast(q, p) => p.last
                          /\ None(q) => b = <<>>

Sound(q, w, h, b, ms) ==
  /\ Genuine(q, ms) /\ InLine(w, ms) /\ Ordered(q, h)
  /\ Begun(q, h, b, ms) /\ Ready(q, h, b, ms)

LEMMA SoundAlike ==
  ASSUME NEW q, NEW w, NEW h, NEW b, NEW ms, NEW q2, NEW w2,
         Sound(q, w, h, b, ms), Alike(q2, q), Alike(w2, w)
  PROVE  Sound(q2, w2, h, b, ms)
<1>1. Genuine(q2, ms)  BY Zenon DEF Sound, Genuine, Alike
<1>2. InLine(w2, ms)  BY Zenon DEF Sound, InLine, Alike
<1>3. Ordered(q2, h)  BY Zenon DEF Sound, Ordered, Alike
<1>4. Begun(q2, h, b, ms)  BY Zenon DEF Sound, Begun, Alike
<1>5. Ready(q2, h, b, ms)  BY Zenon DEF Sound, Ready, Alike
<1> QED  BY <1>1, <1>2, <1>3, <1>4, <1>5 DEF Sound

(* The next packet moves into MIDI_IN.                                     *)
LEMMA SoundMoved ==
  ASSUME NEW q, NEW x \in Packet, NEW w \in Seq(Packet), NEW h, NEW b, NEW ms,
         Fragmented(x), Sound(q, <<x>> \o w, h, b, ms)
  PROVE  Sound(q, w, h, b, ms)
<1>1. ASSUME NEW p, NEW n
      PROVE  /\ Pair(w, p, n) => Pair(<<x>> \o w, p, n)
             /\ IsLast(w, p) => IsLast(<<x>> \o w, p)
  <2>1. /\ IsLast(<<x>> \o w, p) <=> IsLast(w, p) \/ (None(w) /\ p = x)
        /\ Pair(<<x>> \o w, p, n) <=> Pair(w, p, n) \/ (p = x /\ IsFirst(w, n))
    BY Headed, Zenon
  <2> QED  BY <2>1, Zenon
<1>2. InLine(w, ms)  BY <1>1, Zenon DEF Sound, InLine
<1> QED  BY <1>2 DEF Sound

(* The next packet is dropped.                                             *)
LEMMA SoundDropped ==
  ASSUME NEW a \in Seq(Packet), NEW x \in Packet, NEW w \in Seq(Packet),
         NEW h, NEW b, NEW ms, Fragmented(x),
         Sound(a \o (<<x>> \o w), <<x>> \o w, h, b, ms)
  PROVE  Sound(a \o w, w, (h \cup {x.of}) \cup {k \in {x.of + 1} : x.last}, b, ms)
<1> DEFINE h2 == (h \cup {x.of}) \cup {k \in {x.of + 1} : x.last}
           q == a \o (<<x>> \o w)
<1>1. /\ \A k : k \in h => k \in h2
      /\ x.of \in h2
      /\ x.last => x.of + 1 \in h2
  OBVIOUS
<1> HIDE DEF h2
<1>2. <<x>> \o w \in Seq(Packet)
  <2>1. <<x>> \in Seq(Packet)  OBVIOUS
  <2> QED  BY <2>1
<1>3. \A p, n :
        /\ IsLast(<<x>> \o w, p) <=> IsLast(w, p) \/ (None(w) /\ p = x)
        /\ Pair(<<x>> \o w, p, n) <=> Pair(w, p, n) \/ (p = x /\ IsFirst(w, n))
        /\ Has(<<x>> \o w, p) <=> p = x \/ Has(w, p)
        /\ ~None(<<x>> \o w)
        /\ IsFirst(<<x>> \o w, p) <=> p = x
  BY Headed, Zenon
<1>4. \A p, n :
        /\ Has(a \o w, p) <=> Has(a, p) \/ Has(w, p)
        /\ IsFirst(a \o w, p) <=> IsFirst(a, p) \/ (None(a) /\ IsFirst(w, p))
        /\ IsLast(a \o w, p) <=> IsLast(w, p) \/ (None(w) /\ IsLast(a, p))
        /\ Pair(a \o w, p, n) <=> \/ Pair(a, p, n) \/ Pair(w, p, n)
                                  \/ IsLast(a, p) /\ IsFirst(w, n)
        /\ None(a \o w) <=> None(a) /\ None(w)
  BY Joined, Zenon
<1>5. \A p, n :
        /\ Has(q, p) <=> Has(a, p) \/ Has(<<x>> \o w, p)
        /\ IsFirst(q, p) <=> IsFirst(a, p) \/ (None(a) /\ IsFirst(<<x>> \o w, p))
        /\ IsLast(q, p) <=> \/ IsLast(<<x>> \o w, p)
                            \/ None(<<x>> \o w) /\ IsLast(a, p)
        /\ Pair(q, p, n) <=> \/ Pair(a, p, n) \/ Pair(<<x>> \o w, p, n)
                             \/ IsLast(a, p) /\ IsFirst(<<x>> \o w, n)
  BY <1>2, Joined, Zenon
<1> HIDE DEF q
<1>6. ASSUME NEW n, IsFirst(w, n) PROVE n.of \in h2
  <2>1. Succeeds(x, n)  BY <1>3, <1>6, Zenon DEF Sound, InLine
  <2>2. CASE x.last  BY <1>1, <2>1, <2>2 DEF Succeeds
  <2>3. CASE ~x.last  BY <1>1, <2>1, <2>3 DEF Succeeds
  <2> QED  BY <2>2, <2>3
<1>7. None(w) => Len(ms) + 1 \in h2
  <2>1. None(w) => x.last /\ x.of = Len(ms)
    BY <1>3, Zenon DEF Sound, InLine
  <2> QED  BY <1>1, <2>1
<1>8. Sound(q, <<x>> \o w, h, b, ms)  BY DEF q
<1>9. Genuine(a \o w, ms)
  BY <1>3, <1>4, <1>5, <1>8, Zenon DEF Sound, Genuine
<1>10. InLine(w, ms)
  BY <1>3, <1>8, Zenon DEF Sound, InLine
<1>11. Ordered(a \o w, h2)
  BY <1>1, <1>3, <1>4, <1>5, <1>6, <1>8, Zenon DEF Sound, Ordered
<1>12. Begun(a \o w, h2, b, ms)
  BY <1>1, <1>3, <1>4, <1>5, <1>6, <1>8, Zenon DEF Sound, Begun
<1>13. Ready(a \o w, h2, b, ms)
  BY <1>1, <1>3, <1>4, <1>5, <1>7, <1>8, Zenon DEF Sound, Ready
<1> QED  BY <1>9, <1>10, <1>11, <1>12, <1>13 DEF Sound, h2

(* The handler takes the packet at the head of MIDI_IN: its last piece     *)
(* empties the buffer, another is added to it.                             *)
LEMMA SoundTaken ==
  ASSUME NEW x \in Packet, NEW q \in Seq(Packet), NEW w, NEW h, NEW b, NEW ms, NEW b2,
         Fragmented(x), Sound(<<x>> \o q, w, h, b, ms),
         \A k \in 1 .. Len(ms) : Upto(Bytes(ms[k]), 0) = <<>>,
         x.last => b2 = <<>>,
         ~x.last /\ x.of \notin h => b2 = Upto(Bytes(ms[x.of]), x.nth)
  PROVE  Sound(q, w, h, b2, ms)
<1>1. \A p, n :
        /\ IsLast(<<x>> \o q, p) <=> IsLast(q, p) \/ (None(q) /\ p = x)
        /\ Pair(<<x>> \o q, p, n) <=> Pair(q, p, n) \/ (p = x /\ IsFirst(q, n))
        /\ Has(<<x>> \o q, p) <=> p = x \/ Has(q, p)
        /\ ~None(<<x>> \o q)
        /\ IsFirst(<<x>> \o q, p) <=> p = x
  BY Headed, Zenon
<1>2. Genuine(q, ms)
  BY <1>1, Zenon DEF Sound, Genuine
<1>3. InLine(w, ms)
  BY DEF Sound
<1>4. Ordered(q, h)
  BY <1>1, Zenon DEF Sound, Ordered
<1>5. Begun(q, h, b2, ms)
  <2> SUFFICES ASSUME NEW n, IsFirst(q, n), n.of \notin h
               PROVE  b2 = Upto(Bytes(ms[n.of]), n.nth - 1)
    BY Zenon DEF Begun
  <2>1. Precedes(x, n)  BY <1>1, Zenon DEF Sound, Ordered
  <2>2. n.of \in 1 .. Len(ms)  BY <1>2, Members, Zenon DEF Genuine
  <2>3. x.nth \in Nat  BY DEF Packet, Fragmented
  <2>4. CASE n.nth = 1
    <3>1. x.last /\ n.nth - 1 = 0  BY <2>1, <2>4 DEF Precedes
    <3> QED  BY <2>2, <3>1
  <2>5. CASE n.nth # 1
    <3>1. ~x.last /\ x.of = n.of /\ n.nth - 1 = x.nth
      BY <2>1, <2>3, <2>5 DEF Precedes
    <3> QED  BY <3>1
  <2> QED  BY <2>4, <2>5
<1>6. Ready(q, h, b2, ms)
  BY <1>1, Zenon DEF Sound, Ready
<1> QED  BY <1>2, <1>3, <1>4, <1>5, <1>6 DEF Sound

LEMMA WellCut ==
  ASSUME NEW m \in Seq(Byte), m # <<>>, NEW k \in Nat, NEW p, NEW n
  PROVE  /\ Upto(m, 0) = <<>>
         /\ Has(Cut(m, k), p) => /\ p.of = k /\ p.nth \in 1 .. Pieces(m)
                                 /\ p = Piece(m, k, p.nth)
         /\ IsFirst(Cut(m, k), p) => p.of = k /\ p.nth = 1
         /\ IsLast(Cut(m, k), p) => p.of = k /\ p.last
         /\ Pair(Cut(m, k), p, n) => Succeeds(p, n) /\ Precedes(p, n)
<1>1. 1 \in 1 .. Pieces(m) /\ Pieces(m) \in 1 .. Pieces(m)
  BY Counted
<1>2. \A j \in 1 .. Pieces(m) :
        /\ Piece(m, k, j).of = k /\ Piece(m, k, j).nth = j
        /\ Piece(m, k, j).last <=> j = Pieces(m)
  <2> TAKE j \in 1 .. Pieces(m)
  <2>1. Piece(m, k, j).of = k /\ Piece(m, k, j).nth = j
    BY DEF Piece
  <2>2. Piece(m, k, j).last <=> j = Pieces(m)
    BY Pieced
  <2> QED  BY <2>1, <2>2
<1>3. ASSUME Has(Cut(m, k), p)
      PROVE  p.of = k /\ p.nth \in 1 .. Pieces(m) /\ p = Piece(m, k, p.nth)
  BY <1>2, <1>3, CutUp
<1>4. IsFirst(Cut(m, k), p) => p.of = k /\ p.nth = 1
  BY <1>1, <1>2, CutUp
<1>5. IsLast(Cut(m, k), p) => p.of = k /\ p.last
  BY <1>1, <1>2, CutUp
<1>6. ASSUME Pair(Cut(m, k), p, n) PROVE Succeeds(p, n) /\ Precedes(p, n)
  <2>1. PICK j \in 1 .. Pieces(m) :
          /\ j # Pieces(m) /\ j + 1 \in 1 .. Pieces(m)
          /\ p = Piece(m, k, j) /\ n = Piece(m, k, j + 1)
    BY <1>6, CutUp
  <2>2. /\ p.of = k /\ p.nth = j /\ ~p.last /\ n.of = k /\ n.nth = j + 1
    BY <1>2, <2>1, Zenon
  <2>3. j + 1 # 1  OBVIOUS
  <2> QED  BY <2>2, <2>3, Zenon DEF Succeeds, Precedes
<1>7. Upto(m, 0) = <<>>
  BY <1>1, Pieced
<1> QED  BY <1>7, <1>3, <1>4, <1>5, <1>6, Zenon

(* The host cuts another message up.                                       *)
LEMMA SoundStarted ==
  ASSUME NEW q \in Seq(Packet), NEW w \in Seq(Packet), NEW h, NEW b,
         NEW ms \in Seq(Requests), NEW r \in Requests,
         NEW m \in Seq(Byte), m # <<>>, m = Bytes(r), Sound(q, w, h, b, ms)
  PROVE  Sound(q \o Cut(m, Len(ms) + 1), w \o Cut(m, Len(ms) + 1), h, b, Append(ms, r))
<1>1. PICK k \in Nat, ms2 \in Seq(Requests) :
        /\ k = Len(ms) + 1 /\ k \in 1 .. k /\ ms2 = Append(ms, r) /\ Len(ms2) = k
        /\ ms2[k] = r
        /\ \A i \in 1 .. Len(ms) : ms2[i] = ms[i] /\ i \in 1 .. k
  <2>1. /\ Append(ms, r) \in Seq(Requests) /\ Len(Append(ms, r)) = Len(ms) + 1
        /\ Append(ms, r)[Len(ms) + 1] = r
        /\ \A i \in 1 .. Len(ms) : Append(ms, r)[i] = ms[i] /\ i \in 1 .. Len(ms) + 1
    OBVIOUS
  <2>2. Len(ms) + 1 \in Nat /\ Len(ms) + 1 \in 1 .. Len(ms) + 1
    OBVIOUS
  <2> QED  BY <2>1, <2>2
<1>2. PICK c \in Seq(Packet) : c = Cut(m, k) /\ ~None(c)
  BY CutUp, Zenon
<1>3. 1 \in 1 .. Pieces(m)
  BY Counted
<1>4. Upto(m, 0) = <<>>
  BY WellCut, Zenon
<1>5. \A p, n :
        /\ Has(c, p) => /\ p.of = k /\ p.nth \in 1 .. Pieces(m)
                        /\ p = Piece(m, k, p.nth)
        /\ IsFirst(c, p) => p.of = k /\ p.nth = 1
        /\ IsLast(c, p) => p.of = k /\ p.last
        /\ Pair(c, p, n) => Succeeds(p, n) /\ Precedes(p, n)
  BY <1>2, WellCut, Zenon
<1>6. \A p, n :
        /\ Has(q \o c, p) <=> Has(q, p) \/ Has(c, p)
        /\ IsFirst(q \o c, p) <=> IsFirst(q, p) \/ (None(q) /\ IsFirst(c, p))
        /\ IsLast(q \o c, p) <=> IsLast(c, p) \/ (None(c) /\ IsLast(q, p))
        /\ Pair(q \o c, p, n) <=> \/ Pair(q, p, n) \/ Pair(c, p, n)
                                  \/ IsLast(q, p) /\ IsFirst(c, n)
        /\ None(q \o c) <=> None(q) /\ None(c)
  BY Joined, Zenon
<1>7. \A p, n :
        /\ IsLast(w \o c, p) <=> IsLast(c, p) \/ (None(c) /\ IsLast(w, p))
        /\ Pair(w \o c, p, n) <=> \/ Pair(w, p, n) \/ Pair(c, p, n)
                                  \/ IsLast(w, p) /\ IsFirst(c, n)
  BY Joined, Zenon
<1>8. Genuine(q \o c, ms2)
  <2> SUFFICES ASSUME NEW p, Has(q \o c, p)
               PROVE  /\ p.of \in 1 .. Len(ms2)
                      /\ p.nth \in 1 .. Pieces(Bytes(ms2[p.of]))
                      /\ p = Piece(Bytes(ms2[p.of]), p.of, p.nth)
    BY Zenon DEF Genuine
  <2>1. CASE Has(q, p)
    <3>1. /\ p.of \in 1 .. Len(ms) /\ p.nth \in 1 .. Pieces(Bytes(ms[p.of]))
          /\ p = Piece(Bytes(ms[p.of]), p.of, p.nth)
      BY <2>1, Zenon DEF Sound, Genuine
    <3>2. ms2[p.of] = ms[p.of] /\ p.of \in 1 .. Len(ms2)  BY <1>1, <3>1, Zenon
    <3> QED  BY <3>1, <3>2, Zenon
  <2>2. CASE Has(c, p)
    BY <1>1, <1>3, <1>5, <2>2, Zenon
  <2> QED  BY <1>6, <2>1, <2>2, Zenon
<1>9. InLine(w \o c, ms2)
  <2>1. ASSUME NEW p, NEW n, Pair(w \o c, p, n) PROVE Succeeds(p, n)
    <3>1. CASE Pair(w, p, n)  BY <3>1, Zenon DEF Sound, InLine
    <3>2. CASE Pair(c, p, n)  BY <1>5, <3>2, Zenon
    <3>3. CASE IsLast(w, p) /\ IsFirst(c, n)
      <4>1. p.last /\ p.of = Len(ms)  BY <3>3, Zenon DEF Sound, InLine
      <4>2. n.of = Len(ms) + 1 /\ n.nth = 1  BY <1>1, <1>5, <3>3, Zenon
      <4> QED  BY <4>1, <4>2, Zenon DEF Succeeds
    <3> QED  BY <1>7, <2>1, <3>1, <3>2, <3>3, Zenon
  <2>2. \A p : IsLast(w \o c, p) => p.last /\ p.of = Len(ms2)
    BY <1>1, <1>2, <1>5, <1>7, Zenon
  <2> QED  BY <2>1, <2>2, Zenon DEF InLine
<1>10. Ordered(q \o c, h)
  <2> SUFFICES ASSUME NEW p, NEW n, Pair(q \o c, p, n), n.of \notin h
               PROVE  Precedes(p, n)
    BY Zenon DEF Ordered
  <2>1. CASE Pair(q, p, n)  BY <2>1, Zenon DEF Sound, Ordered
  <2>2. CASE Pair(c, p, n)  BY <1>5, <2>2, Zenon
  <2>3. CASE IsLast(q, p) /\ IsFirst(c, n)
    <3>1. n.of = Len(ms) + 1 /\ n.nth = 1  BY <1>1, <1>5, <2>3, Zenon
    <3>2. p.last  BY <2>3, <3>1, Zenon DEF Sound, Ready
    <3> QED  BY <3>1, <3>2, Zenon DEF Precedes
  <2> QED  BY <1>6, <2>1, <2>2, <2>3, Zenon
<1>11. Begun(q \o c, h, b, ms2)
  <2> SUFFICES ASSUME NEW p, IsFirst(q \o c, p), p.of \notin h
               PROVE  b = Upto(Bytes(ms2[p.of]), p.nth - 1)
    BY Zenon DEF Begun
  <2>1. CASE IsFirst(q, p)
    <3>1. b = Upto(Bytes(ms[p.of]), p.nth - 1)
      BY <2>1, Zenon DEF Sound, Begun
    <3>2. p.of \in 1 .. Len(ms)  BY <2>1, Members, Zenon DEF Sound, Genuine
    <3> QED  BY <1>1, <3>1, <3>2, Zenon
  <2>2. CASE None(q) /\ IsFirst(c, p)
    <3>1. p.of = k /\ p.nth = 1  BY <1>5, <2>2, Zenon
    <3>2. b = <<>>  BY <1>1, <2>2, <3>1, Zenon DEF Sound, Ready
    <3>3. p.nth - 1 = 0 /\ Upto(m, 0) = <<>>  BY <1>4, <3>1
    <3> QED  BY <1>1, <3>1, <3>2, <3>3, Zenon
  <2> QED  BY <1>6, <2>1, <2>2, Zenon
<1>12. Ready(q \o c, h, b, ms2)
  BY <1>2, <1>5, <1>6, Zenon DEF Ready
<1>13. Sound(q \o c, w \o c, h, b, ms2)
  BY <1>8, <1>9, <1>10, <1>11, <1>12 DEF Sound
<1> QED  BY <1>1, <1>2, <1>13, Zenon

-----------------------------------------------------------------------------
(* The invariant is inductive.                                             *)
Typed ==
  /\ in \in Seq(Packet) /\ usb \in Seq(Packet) /\ rest \in Seq(Packet)
  /\ buffer \in Seq(Byte) /\ sent \in Seq(Requests)

MInv == Typed /\ Sound(Queue, Ahead, hurt, buffer, sent)

LEMMA Requested ==
  ASSUME NEW r \in Requests
  PROVE  Bytes(r) \in Seq(Byte) /\ Bytes(r) # <<>> /\ r \in RequestType
<1>1. r \in RequestType  BY SysexAssumption
<1>2. PICK nf \in Nat, nd \in Nat : nf = Len(r.field) /\ nd = Len(r.data)
  BY <1>1 DEF RequestType
<1>3. Bytes(r) \in Seq(Byte) /\ Len(Bytes(r)) = (6 + nf) + nd
  <2>1. LaidOut(Bytes(r), r)  BY <1>1, BytesOf, Zenon
  <2> QED  BY <1>2, <2>1 DEF LaidOut
<1>4. Len(Bytes(r)) # 0  BY <1>3
<1>5. Bytes(r) # <<>>  BY <1>4
<1> QED  BY <1>1, <1>3, <1>5

LEMMA InitMInv == Init => MInv
<1> SUFFICES ASSUME Init PROVE MInv  OBVIOUS
<1>1. Typed  BY DEF Init, Typed
<1>2. Queue = <<>> /\ Ahead = <<>>  BY DEF Init, Queue, Ahead
<1>3. \A p, n : /\ ~Has(<<>>, p) /\ ~IsFirst(<<>>, p) /\ ~IsLast(<<>>, p)
                /\ ~Pair(<<>>, p, n)
  BY DEF Has, IsFirst, IsLast, Pair
<1>4. hurt = {} /\ buffer = <<>>  BY DEF Init
<1>5. Sound(Queue, Ahead, hurt, buffer, sent)
  BY <1>2, <1>3, <1>4, Zenon DEF Sound, Genuine, InLine, Ordered, Begun, Ready
<1> QED  BY <1>1, <1>5 DEF MInv

(* A queue and its head.                                                   *)
LEMMA Taking ==
  ASSUME NEW S, NEW s \in Seq(S), s # <<>>
  PROVE  /\ Head(s) \in S /\ Tail(s) \in Seq(S) /\ s = <<Head(s)>> \o Tail(s)
<1>1. Len(s) \in Nat /\ Len(s) # 0  OBVIOUS
<1>2. Head(s) \in S /\ Tail(s) \in Seq(S)  OBVIOUS
<1>3. SubSeq(s, 1, Len(s)) = <<s[1]>> \o SubSeq(s, 1 + 1, Len(s))
  <2>1. 1 \in 1 .. Len(s) /\ Len(s) \in 1 .. Len(s)  BY <1>1
  <2> QED  BY <2>1, SubSeqRecursiveFirst
<1>4. SubSeq(s, 1, Len(s)) = s  BY SubSeqFull
<1>5. Tail(s) = SubSeq(s, 2, Len(s))  BY TailIsSubSeq
<1>6. Head(s) = s[1] /\ 1 + 1 = 2  OBVIOUS
<1> QED  BY <1>2, <1>3, <1>4, <1>5, <1>6

LEMMA StartedMInv ==
  ASSUME MInv, NEW r \in Requests, HostStarts(r)
  PROVE  MInv'
<1>1. /\ in \in Seq(Packet) /\ usb \in Seq(Packet) /\ sent \in Seq(Requests)
      /\ Sound(Queue, Ahead, hurt, buffer, sent)
  BY DEF MInv, Typed
<1>2. PICK m \in Seq(Byte), k \in Nat, c \in Seq(Packet) :
        m # <<>> /\ m = Bytes(r) /\ k = Len(sent) + 1 /\ c = Cut(m, k)
  <2>1. Bytes(r) \in Seq(Byte) /\ Bytes(r) # <<>>  BY Requested
  <2>2. Len(sent) + 1 \in Nat  BY <1>1
  <2>3. Cut(Bytes(r), Len(sent) + 1) \in Seq(Packet)
    BY <2>1, <2>2, CutUp, Zenon
  <2> QED  BY <2>1, <2>2, <2>3
<1>3. /\ rest = <<>> /\ in' = in /\ usb' = usb /\ hurt' = hurt /\ buffer' = buffer
      /\ sent' = Append(sent, r) /\ rest' = c
  BY <1>2, Zenon DEF HostStarts, device, history
<1>4. Typed'
  <2>1. sent' \in Seq(Requests)  BY <1>1, <1>3
  <2> QED  BY <1>1, <1>2, <1>3, <2>1 DEF Typed, MInv
<1>5. Ahead = usb /\ Queue = in \o usb /\ Queue \in Seq(Packet)
  BY <1>1, <1>3 DEF Ahead, Queue
<1>6. Ahead' = Ahead \o c /\ Queue' = Queue \o c
  <2>1. (in \o usb) \o c = in \o (usb \o c)  BY <1>1, ConcatAssociative
  <2> QED  BY <1>3, <1>5, <2>1 DEF Ahead, Queue
<1>7. Sound(Queue \o c, Ahead \o c, hurt, buffer, Append(sent, r))
  BY <1>1, <1>2, <1>5, SoundStarted, Zenon
<1>8. Sound(Queue', Ahead', hurt', buffer', sent')
  BY <1>3, <1>6, <1>7, Zenon
<1> QED  BY <1>4, <1>8 DEF MInv

LEMMA SentMInv ==
  ASSUME MInv, HostSends
  PROVE  MInv'
<1>1. /\ usb \in Seq(Packet) /\ rest \in Seq(Packet) /\ rest # <<>>
      /\ in' = in /\ hurt' = hurt /\ buffer' = buffer /\ sent' = sent
      /\ usb' = Append(usb, Head(rest)) /\ rest' = Tail(rest)
  BY Zenon DEF MInv, Typed, HostSends, device, history
<1>2. PICK x \in Packet, t \in Seq(Packet) :
        x = Head(rest) /\ t = Tail(rest) /\ rest = <<x>> \o t /\ <<x>> \in Seq(Packet)
  <2>1. /\ Head(rest) \in Packet /\ Tail(rest) \in Seq(Packet)
        /\ rest = <<Head(rest)>> \o Tail(rest)
    BY <1>1, Taking, Zenon
  <2>2. <<Head(rest)>> \in Seq(Packet)  BY <2>1
  <2> QED  BY <2>1, <2>2, Zenon
<1>3. usb' = usb \o <<x>>
  BY <1>1, <1>2, AppendIsConcat
<1>4. (usb \o <<x>>) \o t = usb \o (<<x>> \o t)
  BY <1>1, <1>2, ConcatAssociative
<1>5. Ahead' = Ahead  BY <1>1, <1>2, <1>3, <1>4, Zenon DEF Ahead
<1>6. Queue' = Queue  BY <1>1, <1>5, Zenon DEF Queue, Ahead
<1>7. usb' \in Seq(Packet)  BY <1>1, <1>2, <1>3
<1>8. Typed'  BY <1>1, <1>2, <1>7, Zenon DEF MInv, Typed
<1> QED  BY <1>1, <1>5, <1>6, <1>8, Zenon DEF MInv

LEMMA AlikeBack ==
  ASSUME NEW s, NEW t, Alike(s, t)
  PROVE  Alike(t, s) /\ Alike(s, s)
BY Zenon DEF Alike

LEMMA ExtraMInv ==
  ASSUME MInv, NEW kind \in {"cc", "other"}, HostSendsExtra(kind)
  PROVE  MInv'
<1>1. PICK x \in Packet : x = [kind |-> kind] /\ ~Fragmented(x)
  <2>1. [kind |-> kind] \in [kind : {"cc", "other"}]  OBVIOUS
  <2>2. [kind |-> kind] \in Packet  BY <2>1, Zenon DEF Packet
  <2>3. [kind |-> kind].kind = kind  OBVIOUS
  <2>4. kind # "sysex"  OBVIOUS
  <2> QED  BY <2>2, <2>3, <2>4, Zenon DEF Fragmented
<1>2. /\ in \in Seq(Packet) /\ usb \in Seq(Packet) /\ rest \in Seq(Packet)
      /\ in' = in /\ hurt' = hurt /\ buffer' = buffer /\ sent' = sent /\ rest' = rest
      /\ usb' = Append(usb, x) /\ <<x>> \in Seq(Packet)
  BY <1>1 DEF MInv, Typed, HostSendsExtra, device, history
<1>3. usb' = usb \o <<x>> /\ usb' \in Seq(Packet)
  BY <1>2, AppendIsConcat
<1>4. (usb \o <<x>>) \o rest = usb \o (<<x>> \o rest)
  BY <1>2, ConcatAssociative
<1>5. /\ <<x>> \o rest \in Seq(Packet) /\ usb \o rest \in Seq(Packet)
      /\ usb \o (<<x>> \o rest) \in Seq(Packet)
  BY <1>2
<1>6. Alike(<<x>> \o rest, rest)  BY <1>1, <1>2, AheadAlike, Zenon
<1>7. Alike(usb \o (<<x>> \o rest), usb \o rest)
  BY <1>2, <1>5, <1>6, BehindAlike, Zenon
<1>8. Alike(in \o (usb \o (<<x>> \o rest)), in \o (usb \o rest))
  BY <1>2, <1>5, <1>7, BehindAlike, Zenon
<1>9. Alike(Queue', Queue) /\ Alike(Ahead', Ahead)
  BY <1>2, <1>3, <1>4, <1>7, <1>8, Zenon DEF Queue, Ahead
<1>10. Sound(Queue', Ahead', hurt, buffer, sent)
  BY <1>9, SoundAlike, Zenon DEF MInv
<1>11. Typed'  BY <1>2, <1>3, Zenon DEF MInv, Typed
<1> QED  BY <1>2, <1>10, <1>11, Zenon DEF MInv

(* The packet the endpoint gives next, and the one at the head of MIDI_IN. *)
LEMMA NextReceived ==
  ASSUME MInv, usb # <<>>
  PROVE  \E x \in Packet, t \in Seq(Packet), w \in Seq(Packet) :
           /\ x = Head(usb) /\ t = Tail(usb) /\ w = t \o rest
           /\ Ahead = <<x>> \o w /\ Queue = in \o (<<x>> \o w)
           /\ (in \o <<x>>) \o w = Queue /\ <<x>> \in Seq(Packet)
           /\ Append(in, x) = in \o <<x>> /\ in \o <<x>> \in Seq(Packet)
<1>1. usb \in Seq(Packet) /\ rest \in Seq(Packet) /\ in \in Seq(Packet)
  BY DEF MInv, Typed
<1>2. PICK x \in Packet, t \in Seq(Packet) :
        x = Head(usb) /\ t = Tail(usb) /\ usb = <<x>> \o t
  BY <1>1, Taking, Zenon
<1>3. PICK w \in Seq(Packet) : w = t \o rest
  <2>1. t \o rest \in Seq(Packet)  BY <1>1
  <2> QED  BY <2>1, Zenon
<1>4. <<x>> \in Seq(Packet) /\ in \o <<x>> \in Seq(Packet)
  BY <1>1
<1>5. (<<x>> \o t) \o rest = <<x>> \o (t \o rest)
  BY <1>1, <1>4, ConcatAssociative
<1>6. (in \o <<x>>) \o w = in \o (<<x>> \o w)
  BY <1>1, <1>4, ConcatAssociative
<1>7. Append(in, x) = in \o <<x>>
  BY <1>1, AppendIsConcat
<1> QED  BY <1>2, <1>3, <1>4, <1>5, <1>6, <1>7, Zenon DEF Ahead, Queue

LEMMA FragmentMInv ==
  ASSUME MInv, ReceiveFragment
  PROVE  MInv'
<1>1. /\ usb # <<>> /\ Head(usb).kind = "sysex" /\ usb' = Tail(usb)
      /\ buffer' = buffer /\ sent' = sent /\ rest' = rest
  BY Zenon DEF ReceiveFragment, Received, hostvars
<1>2. PICK x \in Packet, t \in Seq(Packet), w \in Seq(Packet) :
        /\ x = Head(usb) /\ t = Tail(usb) /\ w = t \o rest
        /\ Ahead = <<x>> \o w /\ Queue = in \o (<<x>> \o w)
        /\ (in \o <<x>>) \o w = Queue /\ <<x>> \in Seq(Packet)
        /\ Append(in, x) = in \o <<x>> /\ in \o <<x>> \in Seq(Packet)
  BY <1>1, NextReceived, Zenon
<1>3. Fragmented(x)  BY <1>1, <1>2, Zenon DEF Fragmented
<1>4. Ahead' = w  BY <1>1, <1>2, Zenon DEF Ahead
<1>5. in \in Seq(Packet) /\ Sound(Queue, Ahead, hurt, buffer, sent)
  BY DEF MInv, Typed
<1>6. CASE in' = Append(in, x) /\ hurt' = hurt
  <2>1. Queue' = Queue  BY <1>2, <1>4, <1>6, Zenon DEF Queue, Ahead
  <2>2. Sound(Queue, w, hurt, buffer, sent)
    BY <1>2, <1>3, <1>5, SoundMoved, Zenon
  <2>3. Typed'  BY <1>1, <1>2, <1>6, Zenon DEF MInv, Typed
  <2> QED  BY <1>1, <1>4, <1>6, <2>1, <2>2, <2>3, Zenon DEF MInv
<1>7. CASE /\ in' = in
           /\ hurt' = (hurt \cup {x.of}) \cup {k \in {x.of + 1} : x.last}
  <2>1. Queue' = in \o w  BY <1>4, <1>7, Zenon DEF Queue, Ahead
  <2>2. Sound(in \o (<<x>> \o w), <<x>> \o w, hurt, buffer, sent)
    BY <1>2, <1>5, Zenon
  <2>3. Sound(in \o w, w, (hurt \cup {x.of}) \cup {k \in {x.of + 1} : x.last},
              buffer, sent)
    BY <1>2, <1>3, <1>5, <2>2, SoundDropped, Zenon
  <2>4. Typed'  BY <1>1, <1>2, <1>7, Zenon DEF MInv, Typed
  <2> QED  BY <1>1, <1>4, <1>7, <2>1, <2>3, <2>4, Zenon DEF MInv
<1> QED  BY <1>2, <1>6, <1>7, Zenon DEF ReceiveFragment

(* A packet of another kind is kept or not.                                *)
LEMMA OtherMInv ==
  ASSUME MInv, usb # <<>>, Head(usb).kind # "sysex", usb' = Tail(usb),
         in' = in \/ in' = Append(in, Head(usb)),
         UNCHANGED <<hurt, buffer, sent, rest>>
  PROVE  MInv'
<1>2. PICK x \in Packet, t \in Seq(Packet), w \in Seq(Packet) :
        /\ x = Head(usb) /\ t = Tail(usb) /\ w = t \o rest
        /\ Ahead = <<x>> \o w /\ Queue = in \o (<<x>> \o w)
        /\ (in \o <<x>>) \o w = Queue /\ <<x>> \in Seq(Packet)
        /\ Append(in, x) = in \o <<x>> /\ in \o <<x>> \in Seq(Packet)
  BY NextReceived, Zenon
<1>3. ~Fragmented(x)  BY <1>2, Zenon DEF Fragmented
<1>4. Ahead' = w  BY <1>2, Zenon DEF Ahead
<1>5. in \in Seq(Packet) /\ Sound(Queue, Ahead, hurt, buffer, sent)
  BY DEF MInv, Typed
<1>6. Alike(<<x>> \o w, w) /\ <<x>> \o w \in Seq(Packet)
  <2>1. <<x>> \o w \in Seq(Packet)  BY <1>2
  <2> QED  BY <1>2, <1>3, <2>1, AheadAlike, Zenon
<1>7. Alike(Ahead', Ahead)  BY <1>2, <1>4, <1>6, AlikeBack, Zenon
<1>8. Alike(Queue', Queue)
  <2>1. CASE in' = in
    <3>1. Alike(in \o (<<x>> \o w), in \o w)
      BY <1>2, <1>5, <1>6, BehindAlike, Zenon
    <3>2. Queue' = in \o w  BY <1>4, <2>1, Zenon DEF Queue, Ahead
    <3>3. Alike(in \o w, in \o (<<x>> \o w))  BY <3>1, AlikeBack, Zenon
    <3> QED  BY <1>2, <3>2, <3>3, Zenon
  <2>2. CASE in' = Append(in, x)
    <3>1. Queue' = Queue  BY <1>2, <1>4, <2>2, Zenon DEF Queue, Ahead
    <3>2. Alike(Queue, Queue)  BY Zenon DEF Alike
    <3> QED  BY <3>1, <3>2, Zenon
  <2> QED  BY <1>2, <2>1, <2>2, Zenon
<1>9. Sound(Queue', Ahead', hurt, buffer, sent)
  BY <1>5, <1>7, <1>8, SoundAlike, Zenon
<1>10. Typed'  BY <1>2, Zenon DEF MInv, Typed
<1> QED  BY <1>9, <1>10, Zenon DEF MInv

LEMMA NextTaken ==
  ASSUME MInv, in # <<>>
  PROVE  \E x \in Packet, t \in Seq(Packet), q \in Seq(Packet) :
           /\ x = Fragment /\ t = Tail(in) /\ q = t \o Ahead /\ Queue = <<x>> \o q
<1>1. /\ usb \in Seq(Packet) /\ rest \in Seq(Packet) /\ in \in Seq(Packet)
      /\ Ahead \in Seq(Packet)
  BY DEF MInv, Typed, Ahead
<1>2. PICK x \in Packet, t \in Seq(Packet) :
        x = Head(in) /\ t = Tail(in) /\ in = <<x>> \o t
  BY <1>1, Taking, Zenon
<1>3. t \o Ahead \in Seq(Packet) /\ <<x>> \in Seq(Packet)
  BY <1>1
<1>4. (<<x>> \o t) \o Ahead = <<x>> \o (t \o Ahead)
  BY <1>1, <1>3, ConcatAssociative
<1> QED  BY <1>2, <1>3, <1>4, Zenon DEF Queue, Ahead, Fragment

LEMMA IgnoredMInv ==
  ASSUME MInv, ControllerIgnored
  PROVE  MInv'
<1>1. /\ in # <<>> /\ Fragment.kind = "cc" /\ in' = Tail(in)
      /\ usb' = usb /\ buffer' = buffer /\ sent' = sent /\ rest' = rest /\ hurt' = hurt
  BY Zenon DEF ControllerIgnored, Takes, hostvars, history
<1>2. PICK x \in Packet, t \in Seq(Packet), q \in Seq(Packet) :
        x = Fragment /\ t = Tail(in) /\ q = t \o Ahead /\ Queue = <<x>> \o q
  BY <1>1, NextTaken, Zenon
<1>3. ~Fragmented(x)
  <2>1. "cc" # "sysex"  OBVIOUS
  <2> QED  BY <1>1, <1>2, <2>1, Zenon DEF Fragmented
<1>4. Ahead' = Ahead  BY <1>1, Zenon DEF Ahead
<1>5. Queue' = q  BY <1>1, <1>2, <1>4, Zenon DEF Queue, Ahead
<1>6. Alike(Queue', Queue) /\ Alike(Ahead', Ahead)
  <2>1. Alike(<<x>> \o q, q)  BY <1>2, <1>3, AheadAlike, Zenon
  <2>2. Alike(Ahead, Ahead)  BY Zenon DEF Alike
  <2> QED  BY <1>2, <1>4, <1>5, <2>1, <2>2, AlikeBack, Zenon
<1>7. Sound(Queue', Ahead', hurt, buffer, sent)
  BY <1>6, SoundAlike, Zenon DEF MInv
<1>8. Typed'  BY <1>1, <1>2, Zenon DEF MInv, Typed
<1> QED  BY <1>1, <1>7, <1>8, Zenon DEF MInv

(* The packet at the head of MIDI_IN is one of a message the host sent.    *)
LEMMA Sent ==
  ASSUME MInv, in # <<>>, Fragment.kind = "sysex"
  PROVE  /\ Fragment \in Packet /\ Fragmented(Fragment)
         /\ Fragment.of \in 1 .. Len(sent) /\ sent[Fragment.of] \in Requests
         /\ Fragment.nth \in 1 .. Pieces(Bytes(sent[Fragment.of]))
         /\ Fragment = Piece(Bytes(sent[Fragment.of]), Fragment.of, Fragment.nth)
         /\ Fragment.of \notin hurt =>
              buffer = Upto(Bytes(sent[Fragment.of]), Fragment.nth - 1)
<1>1. PICK x \in Packet, t \in Seq(Packet), q \in Seq(Packet) :
        x = Fragment /\ t = Tail(in) /\ q = t \o Ahead /\ Queue = <<x>> \o q
  BY NextTaken, Zenon
<1>2. Fragmented(x)  BY <1>1, Zenon DEF Fragmented
<1>3. Has(<<x>> \o q, x) /\ IsFirst(<<x>> \o q, x)
  BY <1>2, Headed, Zenon
<1>4. Sound(<<x>> \o q, Ahead, hurt, buffer, sent)
  BY <1>1, Zenon DEF MInv
<1>5. /\ x.of \in 1 .. Len(sent) /\ x.nth \in 1 .. Pieces(Bytes(sent[x.of]))
      /\ x = Piece(Bytes(sent[x.of]), x.of, x.nth)
  BY <1>3, <1>4, Zenon DEF Sound, Genuine
<1>6. x.of \notin hurt => buffer = Upto(Bytes(sent[x.of]), x.nth - 1)
  BY <1>3, <1>4, Zenon DEF Sound, Begun
<1>7. sent[x.of] \in Requests
  <2>1. sent \in Seq(Requests)  BY DEF MInv, Typed
  <2> QED  BY <1>5, <2>1
<1> QED  BY <1>1, <1>2, <1>5, <1>6, <1>7, Zenon

(* So what is collected for a message not hurt is that message so far.     *)
LEMMA Collecting ==
  ASSUME \A r \in Requests : Proper(r),
         MInv, in # <<>>, Fragment.kind = "sysex", Fragment.of \notin hurt
  PROVE  /\ Collected = Upto(Bytes(sent[Fragment.of]), Fragment.nth)
         /\ ~TooLong
         /\ Fragment.last => Collected = Bytes(sent[Fragment.of])
<1>1. PICK k \in Nat, j \in Nat, r \in Requests, m \in Seq(Byte) :
        /\ k = Fragment.of /\ j = Fragment.nth /\ r = sent[k] /\ m = Bytes(r)
        /\ m # <<>> /\ j \in 1 .. Pieces(m) /\ Fragment = Piece(m, k, j)
        /\ buffer = Upto(m, j - 1)
  <2>1. Fragment.of \in Nat /\ Fragment.nth \in Nat
    BY Sent DEF Packet, Fragmented
  <2>2. /\ Bytes(sent[Fragment.of]) \in Seq(Byte)
        /\ Bytes(sent[Fragment.of]) # <<>>
    BY Sent, Requested, Zenon
  <2> QED  BY <2>1, <2>2, Sent, Zenon
<1>2. /\ buffer \o Fragment.bytes = Upto(m, j)
      /\ Upto(m, j) \in Seq(Byte) /\ Len(Upto(m, j)) <= Len(m)
      /\ Fragment.last => Upto(m, j) = m
  <2>1. Adds(m, j, Piece(m, k, j), Upto(m, j - 1))
    BY <1>1, Pieced
  <2>2. Adds(m, j, Fragment, buffer)
    BY <1>1, <2>1, Zenon
  <2> QED  BY <2>2, Zenon DEF Adds
<1>4. Collected = Upto(m, j)
  BY <1>2, Zenon DEF Collected
<1>5. ~TooLong
  <2>1. Len(m) <= MaxPktSize  BY <1>1, Zenon DEF Proper
  <2>2. Len(Collected) <= Len(m)  BY <1>2, <1>4
  <2>3. Len(Collected) \in Nat /\ Len(m) \in Nat /\ MaxPktSize \in Nat
    <3>1. Len(Upto(m, j)) \in Nat /\ Len(m) \in Nat  BY <1>2
    <3> QED  BY <1>4, <3>1 DEF MaxPktSize
  <2> QED  BY <2>1, <2>2, <2>3 DEF TooLong
<1>6. Fragment.last => Collected = m
  BY <1>2, <1>4, Zenon
<1> QED  BY <1>1, <1>4, <1>5, <1>6, Zenon

LEMMA TakenMInv ==
  ASSUME MInv, in # <<>>, Fragment.kind = "sysex", in' = Tail(in),
         buffer' \in Seq(Byte),
         Fragment.last => buffer' = <<>>,
         ~Fragment.last /\ Fragment.of \notin hurt =>
           buffer' = Upto(Bytes(sent[Fragment.of]), Fragment.nth),
         UNCHANGED <<usb, rest, sent, hurt>>
  PROVE  MInv'
<1>1. PICK x \in Packet, t \in Seq(Packet), q \in Seq(Packet) :
        x = Fragment /\ t = Tail(in) /\ q = t \o Ahead /\ Queue = <<x>> \o q
  BY NextTaken, Zenon
<1>2. Fragmented(x)  BY <1>1, Zenon DEF Fragmented
<1>3. Ahead' = Ahead  BY Zenon DEF Ahead
<1>4. Queue' = q  BY <1>1, <1>3, Zenon DEF Queue, Ahead
<1>5. Sound(<<x>> \o q, Ahead, hurt, buffer, sent)
  BY <1>1, Zenon DEF MInv
<1>6. ASSUME NEW k \in 1 .. Len(sent) PROVE Upto(Bytes(sent[k]), 0) = <<>>
  <2>1. sent[k] \in Requests
    <3>1. sent \in Seq(Requests)  BY DEF MInv, Typed
    <3> QED  BY <3>1
  <2>2. PICK m \in Seq(Byte) : m = Bytes(sent[k]) /\ m # <<>>
    BY <2>1, Requested, Zenon
  <2>3. 0 \in Nat  OBVIOUS
  <2>4. Upto(m, 0) = <<>>  BY <2>2, <2>3, WellCut, Zenon
  <2> QED  BY <2>2, <2>4, Zenon
<1>7. /\ x.last => buffer' = <<>>
      /\ ~x.last /\ x.of \notin hurt => buffer' = Upto(Bytes(sent[x.of]), x.nth)
  BY <1>1, Zenon
<1>8. Sound(q, Ahead, hurt, buffer', sent)
  BY <1>2, <1>5, <1>6, <1>7, SoundTaken, Zenon
<1>9. Typed'  BY <1>1, Zenon DEF MInv, Typed
<1> QED  BY <1>3, <1>4, <1>8, <1>9, Zenon DEF MInv

LEMMA HandledMInv ==
  ASSUME \A r \in Requests : Proper(r), MInv,
         FragmentDropped \/ FragmentKept \/ MessageRefused \/ MessageTaken
  PROVE  MInv'
<1>1. /\ in # <<>> /\ Fragment.kind = "sysex" /\ in' = Tail(in)
      /\ UNCHANGED <<usb, rest, sent, hurt>>
  <2>1. CASE FragmentDropped
    BY <2>1, Zenon DEF FragmentDropped, Takes, hostvars, history
  <2>2. CASE FragmentKept
    BY <2>2, Zenon DEF FragmentKept, Takes, hostvars, history
  <2>3. CASE MessageRefused
    BY <2>3, Zenon DEF MessageRefused, Takes, hostvars, history
  <2>4. CASE MessageTaken
    BY <2>4, Zenon DEF MessageTaken, Takes, hostvars
  <2> QED  BY <2>1, <2>2, <2>3, <2>4, Zenon
<1>2. /\ FragmentDropped => TooLong /\ buffer' = <<>>
      /\ FragmentKept => ~Fragment.last /\ buffer' = Collected
      /\ MessageRefused => Fragment.last /\ buffer' = <<>>
      /\ MessageTaken => Fragment.last /\ buffer' = <<>>
  BY Zenon DEF FragmentDropped, FragmentKept, MessageRefused, MessageTaken
<1>3. Fragment.of \notin hurt =>
        ~TooLong /\ Collected = Upto(Bytes(sent[Fragment.of]), Fragment.nth)
  BY <1>1, Collecting, Zenon
<1>4. Collected \in Seq(Byte) /\ <<>> \in Seq(Byte)
  <2>1. Fragment.bytes \in Seq(Byte)
    BY <1>1, Sent DEF Packet, Fragmented
  <2>2. buffer \in Seq(Byte)  BY DEF MInv, Typed
  <2> QED  BY <2>1, <2>2 DEF Collected
<1>5. buffer' \in Seq(Byte)  BY <1>2, <1>4, Zenon
<1>6. Fragment.last => buffer' = <<>>  BY <1>2, Zenon
<1>7. ~Fragment.last /\ Fragment.of \notin hurt =>
        buffer' = Upto(Bytes(sent[Fragment.of]), Fragment.nth)
  BY <1>2, <1>3, Zenon
<1> QED  BY <1>1, <1>5, <1>6, <1>7, TakenMInv, Zenon

LEMMA NextMInv ==
  ASSUME \A r \in Requests : Proper(r), MInv, [Next]_vars
  PROVE  MInv'
<1>1. CASE UNCHANGED <<usb, in, rest, buffer, sent, hurt>>
  BY <1>1, Zenon DEF MInv, Typed, Queue, Ahead
<1>2. ASSUME NEW r \in Requests, HostStarts(r) PROVE MInv'
  BY <1>2, StartedMInv, Zenon
<1>3. CASE HostSends  BY <1>3, SentMInv, Zenon
<1>4. ASSUME NEW kind \in {"cc", "other"}, HostSendsExtra(kind) PROVE MInv'
  BY <1>4, ExtraMInv, Zenon
<1>5. CASE ReceiveFragment  BY <1>5, FragmentMInv, Zenon
<1>6. CASE ReceiveController
  <2>1. "cc" # "sysex"  OBVIOUS
  <2>2. /\ usb # <<>> /\ Head(usb).kind = "cc" /\ usb' = Tail(usb)
        /\ in' = IF HasRoom(in, InSize) THEN Append(in, Head(usb)) ELSE in
        /\ UNCHANGED <<hurt, buffer, sent, rest>>
    BY <1>6, Zenon DEF ReceiveController, Received, hostvars, history
  <2>3. in' = in \/ in' = Append(in, Head(usb))  BY <2>2, Zenon
  <2> QED  BY <2>1, <2>2, <2>3, OtherMInv, Zenon
<1>7. CASE ReceiveOther
  <2>1. "other" # "sysex"  OBVIOUS
  <2>2. /\ usb # <<>> /\ Head(usb).kind = "other" /\ usb' = Tail(usb) /\ in' = in
        /\ UNCHANGED <<hurt, buffer, sent, rest>>
    BY <1>7, Zenon DEF ReceiveOther, Received, device, hostvars, history
  <2> QED  BY <2>1, <2>2, OtherMInv, Zenon
<1>8. CASE ReceiveDone
  BY <1>1, <1>8, Zenon DEF ReceiveDone, device, hostvars, history
<1>9. ASSUME NEW n \in 0 .. OutSize - 1, InputPosts(n) PROVE MInv'
  BY <1>1, <1>9, Zenon DEF InputPosts, hostvars, history
<1>10. CASE FragmentDropped \/ FragmentKept \/ MessageRefused \/ MessageTaken
  BY <1>10, HandledMInv, Zenon
<1>11. CASE ControllerIgnored  BY <1>11, IgnoredMInv, Zenon
<1>12. CASE TakeDone
  BY <1>1, <1>12, Zenon DEF TakeDone, device, hostvars, history
<1>13. CASE SendController
  BY <1>1, <1>13, Zenon DEF SendController, hostvars, history
<1>14. CASE SendReply
  BY <1>1, <1>14, Zenon DEF SendReply, hostvars
<1>15. CASE SendDone
  BY <1>1, <1>15, Zenon DEF SendDone, device, hostvars, history
<1>16. CASE UNCHANGED vars
  BY <1>1, <1>16, Zenon DEF vars, device, hostvars, history
<1> QED
  BY <1>2, <1>3, <1>4, <1>5, <1>6, <1>7, <1>8, <1>9, <1>10, <1>11, <1>12,
     <1>13, <1>14, <1>15, <1>16, Zenon
     DEF Next, Device, Host, TakeNext

(* What the last piece of a message not hurt does, and no other.           *)
LEMMA StepTaken ==
  ASSUME \A r \in Requests : Proper(r), MInv, Next,
         Takes("sysex"), in' # in, Fragment.of \notin hurt
  PROVE  setting' = IF Fragment.last THEN Promise(sent[Fragment.of], setting)
                                     ELSE setting
<1>1. in # <<>> /\ Fragment.kind = "sysex" /\ phase = "take"
  BY Zenon DEF Takes
<1>2. /\ ~TooLong
      /\ Fragment.last => Collected = Bytes(sent[Fragment.of])
  BY <1>1, Collecting, Zenon
<1>3. PICK r \in Requests : r = sent[Fragment.of]
  BY <1>1, Sent, Zenon
<1>4. CASE FragmentDropped  BY <1>2, <1>4, Zenon DEF FragmentDropped
<1>5. CASE FragmentKept  BY <1>5, Zenon DEF FragmentKept
<1>6. Fragment.last =>
        /\ ~Acceptable(Collected) => Promise(r, setting) = setting
        /\ Acceptable(Collected) => Written(Collected) = Promise(r, setting)
  <2> SUFFICES ASSUME Fragment.last
               PROVE  /\ ~Acceptable(Collected) => Promise(r, setting) = setting
                      /\ Acceptable(Collected) => Written(Collected) = Promise(r, setting)
    OBVIOUS
  <2>1. r \in RequestType /\ Collected = Bytes(r)
    BY <1>2, <1>3, Requested, Zenon
  <2>2. CASE Asks(r) /\ Len(r.data) = DataLen[r.field[1]]
    BY <2>1, <2>2, AskedFor, Zenon
  <2>3. CASE \/ \A i \in 1 .. 3 : r.maker[i] # Maker[i]
             \/ r.cmd \notin {GET, SET, STOP}
             \/ r.field # <<>> /\ r.field[1] \notin EncoderParams \cup VmapParams
    <3>1. /\ Promise(r, setting) = setting
          /\ Acceptable(Collected) => Written(Collected) = setting
      BY <2>1, <2>3, NotAskedFor
    <3> QED  BY <3>1, Zenon
  <2> QED  BY <2>2, <2>3, Zenon DEF Proper
<1>7. CASE MessageRefused  BY <1>3, <1>6, <1>7, Zenon DEF MessageRefused
<1>8. CASE MessageTaken  BY <1>3, <1>6, <1>8, Zenon DEF MessageTaken
<1>9. CASE ControllerIgnored
  <2>1. Fragment.kind = "cc" /\ "cc" # "sysex"
    BY <1>9 DEF ControllerIgnored, Takes
  <2> QED  BY <1>1, <2>1, Zenon
<1>10. CASE UNCHANGED in  BY <1>10
<1>11. "take" # "receive" /\ "take" # "input" /\ "take" # "send"  OBVIOUS
<1>12. FragmentDropped \/ FragmentKept \/ MessageRefused \/ MessageTaken
         \/ ControllerIgnored \/ UNCHANGED in
  BY <1>1, <1>11, Zenon
     DEF Next, Device, Host, TakeNext, ReceiveFragment, ReceiveController,
         ReceiveOther, ReceiveDone, Received, InputPosts, TakeDone, SendController,
         SendReply, SendDone, HostStarts, HostSends, HostSendsExtra, device
<1> QED  BY <1>4, <1>5, <1>7, <1>8, <1>9, <1>10, <1>12, Zenon

(* A message that reaches MIDI_IN whole, after the end of the one before   *)
(* it did, changes the settings as it asks, at its last packet and not     *)
(* before (midi_in_handler in sysex.c), whatever else was sent or lost.    *)
THEOREM TakenAsSentAlways ==
  ASSUME \A r \in Requests : Proper(r)
  PROVE  Spec => TakenAsSent
<1>1. Init => MInv  BY InitMInv
<1>2. MInv /\ [Next]_vars => MInv'  BY NextMInv, Zenon
<1>3. MInv /\ [Next]_vars =>
        [Takes("sysex") /\ in' # in /\ Fragment.of \notin hurt =>
           setting' = IF Fragment.last THEN Promise(sent[Fragment.of], setting)
                                       ELSE setting]_vars
  BY StepTaken, Zenon
<1> QED  BY <1>1, <1>2, <1>3, PTL DEF Spec, TakenAsSent

-----------------------------------------------------------------------------
(* Types and sizes, for any messages of the host.                          *)
PacketOf(n) ==
  [kind : {"cc", "other"}]
    \cup [kind : {"sysex"}, last : BOOLEAN, of : 1 .. n, nth : Nat, bytes : Seq(Byte)]

ReplyOf(n) ==
  [kind : {"cc"}]
    \cup [kind : {"reply"}, param : Byte, of : 1 .. n, cmd : {GET_RESPONSE, SET_RESPONSE}]

Queues(u, i, t, o, n) ==
  /\ u \in Seq(PacketOf(n)) /\ i \in Seq(PacketOf(n)) /\ t \in Seq(PacketOf(n))
  /\ o \in Seq(ReplyOf(n))

Settled(s) == /\ DOMAIN s = Fields
              /\ \A f \in Fields : s[f] \in [1 .. DataLen[f[1]] -> Byte]

FitInv ==
  /\ phase \in {"receive", "input", "take", "send"}
  /\ Len(usb) <= UsbSize /\ Len(in) < InSize /\ Len(out) < OutSize
  /\ buffer \in Seq(Byte) /\ Len(buffer) <= MaxPktSize
  /\ setting = [f \in Fields |-> setting[f]] /\ Settled(setting)
  /\ hurt \subseteq 1 .. Len(sent) + 1
  /\ answered \cup unheard \subseteq 1 .. Len(sent)
  /\ sent \in Seq(Requests)
  /\ Queues(usb, in, rest, out, Len(sent))

LEMMA FitInvTypeOK == FitInv /\ served \in 0 .. Len(sent) => TypeOK
BY Zenon DEF FitInv, Settled, TypeOK

LEMMA InitFitInv == Init => FitInv
<1> SUFFICES ASSUME Init PROVE FitInv  OBVIOUS
<1>1. phase \in {"receive", "input", "take", "send"}  BY DEF Init
<1>2. Len(usb) <= UsbSize /\ Len(in) < InSize /\ Len(out) < OutSize
  BY SysexAssumption DEF Init
<1>3. buffer \in Seq(Byte) /\ Len(buffer) <= MaxPktSize
  BY DEF Init, MaxPktSize
<1>4. setting = [f \in Fields |-> [i \in 1 .. DataLen[f[1]] |-> 0]] /\ 0 \in Byte
  BY DEF Init, Byte
<1>5. setting = [f \in Fields |-> setting[f]] /\ Settled(setting)
  BY <1>4 DEF Settled
<1>6. hurt = {} /\ answered = {} /\ unheard = {} /\ sent \in Seq(Requests)
  BY DEF Init
<1>7. Queues(usb, in, rest, out, Len(sent))
  BY DEF Init, Queues
<1> QED  BY <1>1, <1>2, <1>3, <1>5, <1>6, <1>7 DEF FitInv

LEMMA WrittenFits ==
  ASSUME NEW b \in Seq(Byte), setting = [f \in Fields |-> setting[f]], Settled(setting)
  PROVE  /\ Written(b) = [f \in Fields |-> Written(b)[f]] /\ Settled(Written(b))
         /\ Param(b) \in Byte
<1>1. \A i \in Nat \ {0} : At(b, i) \in Byte
  <2> TAKE i \in Nat \ {0}
  <2>1. CASE i <= Len(b)
    <3>1. i \in 1 .. Len(b)  BY <2>1
    <3>2. b[i] \in Byte  BY <3>1, ElementOfSeq
    <3> QED  BY <2>1, <3>2 DEF At
  <2>2. CASE ~(i <= Len(b))
    <3>1. 0 \in Byte  BY DEF Byte
    <3> QED  BY <2>2, <3>1 DEF At
  <2> QED  BY <2>1, <2>2
<1>2. Param(b) \in Byte
  <2>1. 6 \in Nat \ {0}  OBVIOUS
  <2> QED  BY <1>1, <2>1 DEF Param
<1>3. ASSUME NEW n \in {3, 4}, NEW g, g = [i \in 1 .. n |-> At(b, i + 5)]
      PROVE  g[1] = Param(b)
  <2>1. 1 \in 1 .. n /\ 1 + 5 = 6  OBVIOUS
  <2>2. g[1] = At(b, 1 + 5)  BY <1>3, <2>1
  <2> QED  BY <2>1, <2>2 DEF Param
<1>4. ASSUME NEW n \in {3, 4}, NEW g \in Fields, g = [i \in 1 .. n |-> At(b, i + 5)],
             NEW d, d = [i \in 1 .. DataLen[Param(b)] |-> At(b, (i + 5) + n)]
      PROVE  LET s == [setting EXCEPT ![g] = d]
             IN  s = [f \in Fields |-> s[f]] /\ Settled(s)
  <2>1. g[1] = Param(b)  BY <1>3, <1>4
  <2>2. \A i \in 1 .. DataLen[Param(b)] : At(b, (i + 5) + n) \in Byte
    <3> TAKE i \in 1 .. DataLen[Param(b)]
    <3>1. (i + 5) + n \in Nat \ {0}  OBVIOUS
    <3> QED  BY <1>1, <3>1
  <2>3. d \in [1 .. DataLen[g[1]] -> Byte]  BY <1>4, <2>1, <2>2
  <2> QED  BY <2>3 DEF Settled
<1>5. PICK n \in {3, 4} : n = IF Param(b) \in EncoderParams THEN 3 ELSE 4
  OBVIOUS
<1>6. Written(b) =
        IF [i \in 1 .. n |-> At(b, i + 5)] \in Fields
          THEN [setting EXCEPT ![[i \in 1 .. n |-> At(b, i + 5)]] =
                  [i \in 1 .. DataLen[Param(b)] |-> At(b, (i + 5) + n)]]
          ELSE setting
  BY <1>5, Zenon DEF Written
<1>7. CASE [i \in 1 .. n |-> At(b, i + 5)] \in Fields
  <2>1. PICK g \in Fields : g = [i \in 1 .. n |-> At(b, i + 5)]
    BY <1>7, Zenon
  <2>2. PICK d : d = [i \in 1 .. DataLen[Param(b)] |-> At(b, (i + 5) + n)]
    OBVIOUS
  <2>3. Written(b) = [setting EXCEPT ![g] = d]
    BY <1>6, <1>7, <2>1, <2>2, Zenon
  <2>4. LET s == [setting EXCEPT ![g] = d]
        IN  s = [f \in Fields |-> s[f]] /\ Settled(s)
    BY <1>4, <2>1, <2>2, Zenon
  <2> QED  BY <1>2, <2>3, <2>4, Zenon
<1>8. CASE [i \in 1 .. n |-> At(b, i + 5)] \notin Fields
  BY <1>2, <1>6, <1>8, Zenon
<1> QED  BY <1>7, <1>8

LEMMA NextFitInv ==
  ASSUME FitInv, [Next]_vars
  PROVE  FitInv'
<1>1. PICK n \in Nat : n = Len(sent)
  BY DEF FitInv
<1>2. ASSUME NEW r \in Requests, HostStarts(r) PROVE FitInv'
  <2>1. /\ sent' = Append(sent, r) /\ rest' = Cut(Bytes(r), n + 1)
        /\ UNCHANGED <<phase, usb, in, out, buffer, setting, hurt, answered, unheard>>
    BY <1>1, <1>2, Zenon DEF HostStarts, device, history
  <2>2. sent' \in Seq(Requests) /\ Len(sent') = n + 1
    BY <1>1, <2>1 DEF FitInv
  <2>3. /\ hurt' \subseteq 1 .. Len(sent') + 1
        /\ answered' \cup unheard' \subseteq 1 .. Len(sent')
    BY <1>1, <2>1, <2>2 DEF FitInv
  <2>4. PacketOf(n) \subseteq PacketOf(n + 1) /\ ReplyOf(n) \subseteq ReplyOf(n + 1)
    BY DEF PacketOf, ReplyOf
  <2>5. /\ usb \in Seq(PacketOf(n + 1)) /\ in \in Seq(PacketOf(n + 1))
        /\ out \in Seq(ReplyOf(n + 1))
    BY <1>1, <2>4, SeqMonotonic, Zenon DEF FitInv, Queues
  <2>6. rest' \in Seq(PacketOf(n + 1))
    <3>1. PICK m \in Seq(Byte), z \in Nat : m = Bytes(r) /\ m # <<>> /\ z = Pieces(m)
      BY Requested, Counted
    <3>2. ASSUME NEW j \in 1 .. z PROVE Piece(m, n + 1, j) \in PacketOf(n + 1)
      <4>1. Piece(m, n + 1, j) \in Packet /\ Fragmented(Piece(m, n + 1, j))
        BY <3>1, Pieced
      <4>2. Piece(m, n + 1, j).of \in 1 .. n + 1  BY DEF Piece
      <4> QED  BY <4>1, <4>2 DEF Packet, PacketOf, Fragmented
    <3>3. rest' = [j \in 1 .. z |-> Piece(m, n + 1, j)]
      BY <2>1, <3>1, Zenon DEF Cut
    <3>4. rest' \in [1 .. z -> PacketOf(n + 1)]  BY <3>2, <3>3, Zenon
    <3> QED  BY <3>4
  <2>7. Queues(usb', in', rest', out', Len(sent'))
    BY <2>1, <2>2, <2>5, <2>6, Zenon DEF Queues
  <2> QED  BY <2>1, <2>2, <2>3, <2>7, Zenon DEF FitInv
<1>3. /\ phase \in {"receive", "input", "take", "send"}
      /\ Len(usb) <= UsbSize /\ Len(in) < InSize /\ Len(out) < OutSize
      /\ hurt \subseteq 1 .. n + 1
      /\ answered \subseteq 1 .. n /\ unheard \subseteq 1 .. n
      /\ usb \in Seq(PacketOf(n)) /\ in \in Seq(PacketOf(n))
      /\ rest \in Seq(PacketOf(n)) /\ out \in Seq(ReplyOf(n))
      /\ buffer \in Seq(Byte) /\ Len(buffer) <= MaxPktSize
      /\ setting = [f \in Fields |-> setting[f]] /\ Settled(setting)
  BY <1>1 DEF FitInv, Queues
<1>4. ASSUME UNCHANGED sent,
             phase' \in {"receive", "input", "take", "send"},
             Len(usb') <= UsbSize, Len(in') < InSize, Len(out') < OutSize,
             hurt' \subseteq 1 .. n + 1,
             answered' \subseteq 1 .. n, unheard' \subseteq 1 .. n,
             usb' \in Seq(PacketOf(n)), in' \in Seq(PacketOf(n)),
             rest' \in Seq(PacketOf(n)), out' \in Seq(ReplyOf(n)),
             buffer' \in Seq(Byte), Len(buffer') <= MaxPktSize,
             setting' = [f \in Fields |-> setting'[f]], Settled(setting')
      PROVE  FitInv'
  <2>1. answered' \cup unheard' \subseteq 1 .. n  BY <1>4
  <2> QED  BY <1>1, <1>4, <2>1, Zenon DEF FitInv, Queues
<1>5. CASE HostSends
  <2>1. /\ rest # <<>> /\ Len(usb) < UsbSize
        /\ usb' = Append(usb, Head(rest)) /\ rest' = Tail(rest)
        /\ UNCHANGED <<phase, in, out, buffer, setting, sent, hurt, answered, unheard>>
    BY <1>5, Zenon DEF HostSends, device, history
  <2>2. /\ usb' \in Seq(PacketOf(n)) /\ Len(usb') <= UsbSize
        /\ rest' \in Seq(PacketOf(n))
    BY <1>3, <2>1, SysexAssumption
  <2> QED  BY <1>3, <1>4, <2>1, <2>2, Zenon
<1>6. ASSUME NEW kind \in {"cc", "other"}, HostSendsExtra(kind) PROVE FitInv'
  <2>1. /\ Len(usb) < UsbSize /\ usb' = Append(usb, [kind |-> kind])
        /\ UNCHANGED <<phase, in, out, buffer, setting, sent, rest,
                       hurt, answered, unheard>>
    BY <1>6, Zenon DEF HostSendsExtra, device, history
  <2>2. [kind |-> kind] \in PacketOf(n)
    <3>1. [kind |-> kind] \in [kind : {"cc", "other"}]  OBVIOUS
    <3> QED  BY <3>1, Zenon DEF PacketOf
  <2>3. usb' \in Seq(PacketOf(n)) /\ Len(usb') <= UsbSize
    BY <1>3, <2>1, <2>2, SysexAssumption
  <2> QED  BY <1>3, <1>4, <2>1, <2>3, Zenon
<1>7. ASSUME usb # <<>>
      PROVE  /\ Tail(usb) \in Seq(PacketOf(n)) /\ Len(Tail(usb)) <= UsbSize
             /\ HasRoom(in, InSize) => /\ Append(in, Head(usb)) \in Seq(PacketOf(n))
                                       /\ Len(Append(in, Head(usb))) < InSize
  BY <1>3, <1>7, SysexAssumption DEF HasRoom
<1>8. CASE ReceiveFragment
  <2>1. /\ usb # <<>> /\ Head(usb).kind = "sysex" /\ usb' = Tail(usb)
        /\ UNCHANGED <<phase, out, buffer, setting, sent, rest, answered, unheard>>
    BY <1>8, Zenon DEF ReceiveFragment, Received, hostvars
  <2>2. CASE HasRoom(in, InSize)
    <3>1. in' = Append(in, Head(usb)) /\ UNCHANGED hurt
      BY <1>8, <2>2, Zenon DEF ReceiveFragment
    <3> QED  BY <1>3, <1>4, <1>7, <2>1, <2>2, <3>1, Zenon
  <2>3. CASE ~HasRoom(in, InSize)
    <3>1. PICK f \in PacketOf(n) : f = Head(usb) /\ f.kind = "sysex"
      BY <1>3, <2>1
    <3>2. /\ hurt' = (hurt \cup {f.of}) \cup {k \in {f.of + 1} : f.last}
          /\ UNCHANGED in
      BY <1>8, <2>3, <3>1, Zenon DEF ReceiveFragment
    <3>3. f.of \in 1 .. n  BY <3>1 DEF PacketOf
    <3>4. f.of \in 1 .. n + 1 /\ f.of + 1 \in 1 .. n + 1  BY <3>3
    <3>5. hurt' \subseteq 1 .. n + 1  BY <1>3, <3>2, <3>4
    <3> QED  BY <1>3, <1>4, <1>7, <2>1, <3>2, <3>5, Zenon
  <2> QED  BY <2>2, <2>3
<1>9. CASE ReceiveController
  <2>1. /\ usb # <<>> /\ usb' = Tail(usb)
        /\ in' = IF HasRoom(in, InSize) THEN Append(in, Head(usb)) ELSE in
        /\ UNCHANGED <<phase, out, buffer, setting, sent, rest, hurt, answered, unheard>>
    BY <1>9, Zenon DEF ReceiveController, Received, hostvars, history
  <2> QED  BY <1>3, <1>4, <1>7, <2>1, Zenon
<1>10. CASE ReceiveOther
  <2>1. /\ usb # <<>> /\ usb' = Tail(usb) /\ phase' = "input"
        /\ UNCHANGED <<in, out, buffer, setting, sent, rest, hurt, answered, unheard>>
    BY <1>10, Zenon DEF ReceiveOther, Received, device, hostvars, history
  <2> QED  BY <1>3, <1>4, <1>7, <2>1, Zenon
<1>11. ASSUME UNCHANGED <<usb, in, out, buffer, setting, sent, rest,
                         hurt, answered, unheard>>,
              phase' \in {"receive", "input", "take", "send"}
       PROVE  FitInv'
  BY <1>3, <1>4, <1>11, Zenon
<1>12. CASE ReceiveDone
  BY <1>11, <1>12, Zenon DEF ReceiveDone, device, hostvars, history
<1>13. ASSUME NEW k \in 0 .. OutSize - 1, InputPosts(k) PROVE FitInv'
  <2>1. /\ k < OutSize /\ out' = [i \in 1 .. k |-> [kind |-> "cc"]] /\ phase' = "take"
        /\ UNCHANGED <<usb, in, buffer, setting, sent, rest, hurt, answered, unheard>>
    BY <1>13, Zenon DEF InputPosts, hostvars, history
  <2>2. [kind |-> "cc"] \in ReplyOf(n)
    <3>1. [kind |-> "cc"] \in [kind : {"cc"}]  OBVIOUS
    <3> QED  BY <3>1, Zenon DEF ReplyOf
  <2>3. out' \in [1 .. k -> ReplyOf(n)]  BY <2>1, <2>2, Zenon
  <2>4. k \in Nat  OBVIOUS
  <2>5. out' \in Seq(ReplyOf(n)) /\ Len(out') < OutSize
    BY <2>1, <2>3, <2>4, SysexAssumption
  <2> QED  BY <1>3, <1>4, <2>1, <2>5, Zenon
<1>14. ASSUME in # <<>>
       PROVE  Tail(in) \in Seq(PacketOf(n)) /\ Len(Tail(in)) < InSize
  BY <1>3, <1>14, SysexAssumption
<1>15. ASSUME in # <<>>, Fragment.kind = "sysex"
       PROVE  Fragment.of \in 1 .. n /\ Collected \in Seq(Byte)
  <2>1. Fragment \in PacketOf(n)  BY <1>3, <1>15 DEF Fragment
  <2>2. Fragment.of \in 1 .. n /\ Fragment.bytes \in Seq(Byte)
    BY <1>15, <2>1 DEF PacketOf
  <2> QED  BY <1>3, <2>2 DEF Collected
<1>16. ASSUME in # <<>>, Fragment.kind = "sysex", ~TooLong
       PROVE  Len(Collected) <= MaxPktSize
  <2>1. Len(Collected) \in Nat  BY <1>15, <1>16
  <2> QED  BY <1>16, <2>1 DEF TooLong, MaxPktSize
<1>17. <<>> \in Seq(Byte) /\ Len(<<>>) <= MaxPktSize
  BY DEF MaxPktSize
<1>18. CASE FragmentDropped \/ FragmentKept \/ MessageRefused
  <2>1. /\ in # <<>> /\ Fragment.kind = "sysex" /\ in' = Tail(in)
        /\ buffer' = <<>> \/ (~TooLong /\ buffer' = Collected)
        /\ UNCHANGED <<phase, usb, out, setting, sent, rest, hurt, answered, unheard>>
    BY <1>18, Zenon
       DEF FragmentDropped, FragmentKept, MessageRefused, Takes, hostvars, history
  <2>2. buffer' \in Seq(Byte) /\ Len(buffer') <= MaxPktSize
    BY <1>15, <1>16, <1>17, <2>1, Zenon
  <2> QED  BY <1>3, <1>4, <1>14, <2>1, <2>2, Zenon
<1>19. CASE MessageTaken
  <2>1. /\ in # <<>> /\ Fragment.kind = "sysex" /\ in' = Tail(in) /\ buffer' = <<>>
        /\ setting' = Written(Collected)
        /\ UNCHANGED <<phase, usb, sent, rest, hurt, answered>>
    BY <1>19, Zenon DEF MessageTaken, Takes, hostvars
  <2>2. PICK b \in Seq(Byte), k \in 1 .. n : b = Collected /\ k = Fragment.of
    BY <1>15, <2>1, Zenon
  <2>3. /\ setting' = [f \in Fields |-> setting'[f]] /\ Settled(setting')
        /\ Param(b) \in Byte
    <3>1. /\ Written(b) = [f \in Fields |-> Written(b)[f]] /\ Settled(Written(b))
          /\ Param(b) \in Byte
      BY <1>3, WrittenFits, Zenon
    <3> QED  BY <2>1, <2>2, <3>1, Zenon
  <2>4. PICK c \in {GET_RESPONSE, SET_RESPONSE} :
          c = IF Cmd(b) = GET THEN GET_RESPONSE ELSE SET_RESPONSE
    OBVIOUS
  <2>5. PICK y \in ReplyOf(n) :
          y = [kind |-> "reply", param |-> Param(b), of |-> k, cmd |-> c]
    BY <2>3 DEF ReplyOf
  <2>6. \/ UNCHANGED <<out, unheard>>
        \/ HasRoom(out, OutSize) /\ out' = Append(out, y) /\ UNCHANGED unheard
        \/ unheard' = unheard \cup {k} /\ UNCHANGED out
    BY <1>19, <2>2, <2>4, <2>5, Zenon DEF MessageTaken
  <2>7. /\ out' \in Seq(ReplyOf(n)) /\ Len(out') < OutSize /\ unheard' \subseteq 1 .. n
    <3>1. CASE UNCHANGED <<out, unheard>>  BY <1>3, <3>1
    <3>2. CASE HasRoom(out, OutSize) /\ out' = Append(out, y) /\ UNCHANGED unheard
      BY <1>3, <3>2, SysexAssumption DEF HasRoom
    <3>3. CASE unheard' = unheard \cup {k} /\ UNCHANGED out
      BY <1>3, <3>3
    <3> QED  BY <2>6, <3>1, <3>2, <3>3
  <2> QED  BY <1>3, <1>4, <1>14, <1>17, <2>1, <2>3, <2>7, Zenon
<1>20. CASE ControllerIgnored
  <2>1. /\ in # <<>> /\ in' = Tail(in)
        /\ UNCHANGED <<phase, usb, out, buffer, setting, sent, rest,
                       hurt, answered, unheard>>
    BY <1>20, Zenon DEF ControllerIgnored, Takes, hostvars, history
  <2> QED  BY <1>3, <1>4, <1>14, <2>1, Zenon
<1>21. CASE TakeDone
  BY <1>11, <1>21, Zenon DEF TakeDone, device, hostvars, history
<1>22. CASE SendController \/ SendReply
  <2>1. /\ out # <<>> /\ out' = Tail(out)
        /\ \/ UNCHANGED <<answered, unheard>>
           \/ /\ Head(out).kind = "reply"
              /\ \/ answered' = answered \cup {Head(out).of} /\ UNCHANGED unheard
                 \/ unheard' = unheard \cup {Head(out).of} /\ UNCHANGED answered
        /\ UNCHANGED <<phase, usb, in, buffer, setting, sent, rest, hurt>>
    BY <1>22, Zenon DEF SendController, SendReply, hostvars, history
  <2>2. out' \in Seq(ReplyOf(n)) /\ Len(out') < OutSize
    BY <1>3, <2>1, SysexAssumption
  <2>3. PICK y \in ReplyOf(n) : y = Head(out)
    BY <1>3, <2>1
  <2>4. y.kind = "reply" => y.of \in 1 .. n  BY DEF ReplyOf
  <2>5. answered' \subseteq 1 .. n /\ unheard' \subseteq 1 .. n
    BY <1>3, <2>1, <2>3, <2>4
  <2> QED  BY <1>3, <1>4, <2>1, <2>2, <2>5, Zenon
<1>23. CASE SendDone
  BY <1>11, <1>23, Zenon DEF SendDone, device, hostvars, history
<1>24. CASE UNCHANGED vars
  BY <1>3, <1>11, <1>24, Zenon DEF vars, device, hostvars, history
<1> QED
  BY <1>2, <1>5, <1>6, <1>8, <1>9, <1>10, <1>12, <1>13, <1>18, <1>19, <1>20,
     <1>21, <1>22, <1>23, <1>24, Zenon
     DEF Next, Device, Host, TakeNext

LEMMA ServedFits ==
  ASSUME FitInv, served \in 0 .. Len(sent), [Next]_vars
  PROVE  (served \in 0 .. Len(sent))'
<1>1. PICK n \in Nat : n = Len(sent) /\ sent \in Seq(Requests) /\ served \in 0 .. n
  BY DEF FitInv
<1>2. ASSUME NEW r \in Requests, HostStarts(r) PROVE (served \in 0 .. Len(sent))'
  <2>1. sent' = Append(sent, r) /\ served' = served
    BY <1>2, Zenon DEF HostStarts, history
  <2>2. Len(sent') = n + 1  BY <1>1, <2>1
  <2> QED  BY <1>1, <2>1, <2>2
<1>3. CASE UNCHANGED <<sent, served>>
  BY <1>3, Zenon
<1>4. CASE FragmentDropped \/ MessageRefused \/ MessageTaken
  <2>1. /\ in # <<>> /\ Fragment.kind = "sysex" /\ sent' = sent
        /\ served' \in {served, Fragment.of}
    BY <1>4, Zenon
       DEF FragmentDropped, MessageRefused, MessageTaken, Takes, hostvars
  <2>2. Fragment.of \in 1 .. n
    <3>1. in \in Seq(PacketOf(n))  BY <1>1 DEF FitInv, Queues
    <3>2. Fragment \in PacketOf(n)  BY <2>1, <3>1 DEF Fragment
    <3> QED  BY <2>1, <3>2 DEF PacketOf
  <2>3. served' \in 0 .. n  BY <1>1, <2>1, <2>2
  <2> QED  BY <1>1, <2>1, <2>3, Zenon
<1>5. \/ \E r \in Requests : HostStarts(r)
      \/ UNCHANGED <<sent, served>>
      \/ FragmentDropped \/ MessageRefused \/ MessageTaken
  BY Zenon
     DEF Next, Device, Host, TakeNext, HostSends, HostSendsExtra, ReceiveFragment,
         ReceiveController, ReceiveOther, ReceiveDone, InputPosts, FragmentKept,
         ControllerIgnored, TakeDone, SendController, SendReply, SendDone, vars,
         device, hostvars, history
<1> QED  BY <1>2, <1>3, <1>4, <1>5, Zenon

(* The queues and the buffer keep within their arrays, whatever the host   *)
(* sends and whatever is lost on the way (sysex.c:121 guards the buffer).  *)
THEOREM SizesKept == Spec => []TypeOK
<1> DEFINE Inv == FitInv /\ served \in 0 .. Len(sent)
<1>1. Init => Inv
  <2>1. Init => served \in 0 .. Len(sent)  BY DEF Init
  <2> QED  BY <2>1, InitFitInv, Zenon
<1>2. Inv /\ [Next]_vars => Inv'  BY NextFitInv, ServedFits, Zenon
<1> QED  BY <1>1, <1>2, FitInvTypeOK, PTL DEF Spec

-----------------------------------------------------------------------------
(* The device as a server of settings.  Of the packets on their way, what  *)
(* comes behind belongs to the same message or a later one; all belong to  *)
(* messages not yet served; and of every one of those that is not hurt the *)
(* end is among them.                                                      *)
Behind(s, p, q) ==
  \E h \in 1 .. Len(s) : \E i \in h + 1 .. Len(s) :
    s[h] = p /\ s[i] = q /\ Fragmented(p) /\ Fragmented(q)

Rises(q) ==
  \A p, n : Behind(q, p, n) => IF p.last THEN p.of < n.of ELSE p.of <= n.of

Unserved(q, k) == \A p : Has(q, p) => k < p.of

Ends(q, p, j) == Has(q, p) /\ p.of = j /\ p.last

Whole(q, h, k, ms) == \A j \in k + 1 .. Len(ms) : j \notin h => \E p : Ends(q, p, j)

InTurn(q, h, k, ms) == Rises(q) /\ Unserved(q, k) /\ Whole(q, h, k, ms)

TurnInv == served \in 0 .. Len(sent) /\ InTurn(Queue, hurt, served, sent)

LEMMA BehindJoined ==
  ASSUME NEW S, NEW a \in Seq(S), NEW b \in Seq(S), NEW p, NEW q
  PROVE  Behind(a \o b, p, q) <=> \/ Behind(a, p, q) \/ Behind(b, p, q)
                                  \/ Has(a, p) /\ Has(b, q)
<1>1. PICK s \in Seq(S), m \in Nat, n \in Nat :
        /\ s = a \o b /\ m = Len(a) /\ n = Len(b) /\ Len(s) = m + n
        /\ \A i \in 1 .. m : s[i] = a[i]
        /\ \A i \in 1 .. n : s[m + i] = b[i]
  <2>1. /\ a \o b \in Seq(S) /\ Len(a) \in Nat /\ Len(b) \in Nat
        /\ Len(a \o b) = Len(a) + Len(b)
        /\ \A i \in 1 .. Len(a) : (a \o b)[i] = a[i]
        /\ \A i \in 1 .. Len(b) : (a \o b)[Len(a) + i] = b[i]
    OBVIOUS
  <2> QED  BY <2>1
<1>2. ASSUME Behind(a, p, q) PROVE Behind(s, p, q)
  <2>1. PICK h \in 1 .. m : \E i \in h + 1 .. m :
          a[h] = p /\ a[i] = q /\ Fragmented(p) /\ Fragmented(q)
    BY <1>1, <1>2 DEF Behind
  <2>2. PICK i \in h + 1 .. m :
          a[h] = p /\ a[i] = q /\ Fragmented(p) /\ Fragmented(q)
    BY <2>1
  <2>3. h \in 1 .. m + n /\ i \in h + 1 .. m + n /\ i \in 1 .. m  OBVIOUS
  <2> QED  BY <1>1, <2>2, <2>3 DEF Behind
<1>3. ASSUME Behind(b, p, q) PROVE Behind(s, p, q)
  <2>1. PICK h \in 1 .. n : \E i \in h + 1 .. n :
          b[h] = p /\ b[i] = q /\ Fragmented(p) /\ Fragmented(q)
    BY <1>1, <1>3 DEF Behind
  <2>2. PICK i \in h + 1 .. n :
          b[h] = p /\ b[i] = q /\ Fragmented(p) /\ Fragmented(q)
    BY <2>1
  <2>3. m + h \in 1 .. m + n /\ m + i \in (m + h) + 1 .. m + n /\ i \in 1 .. n  OBVIOUS
  <2> QED  BY <1>1, <2>2, <2>3 DEF Behind
<1>4. ASSUME Has(a, p), Has(b, q) PROVE Behind(s, p, q)
  <2>1. PICK h \in 1 .. m : a[h] = p /\ Fragmented(p)  BY <1>1, <1>4 DEF Has
  <2>2. PICK i \in 1 .. n : b[i] = q /\ Fragmented(q)  BY <1>1, <1>4 DEF Has
  <2>3. h \in 1 .. m + n /\ m + i \in h + 1 .. m + n  OBVIOUS
  <2> QED  BY <1>1, <2>1, <2>2, <2>3 DEF Behind
<1>5. ASSUME Behind(s, p, q)
      PROVE  Behind(a, p, q) \/ Behind(b, p, q) \/ (Has(a, p) /\ Has(b, q))
  <2>1. PICK h \in 1 .. m + n : \E i \in h + 1 .. m + n :
          s[h] = p /\ s[i] = q /\ Fragmented(p) /\ Fragmented(q)
    BY <1>1, <1>5 DEF Behind
  <2>2. PICK i \in h + 1 .. m + n :
          s[h] = p /\ s[i] = q /\ Fragmented(p) /\ Fragmented(q)
    BY <2>1
  <2>3. CASE i <= m
    <3>1. h \in 1 .. m /\ i \in h + 1 .. m /\ i \in 1 .. m  BY <2>3
    <3> QED  BY <1>1, <2>2, <3>1 DEF Behind
  <2>4. CASE h > m
    <3>1. PICK g \in 1 .. n, j \in 1 .. n : h = m + g /\ i = m + j /\ j \in g + 1 .. n
      <4>1. /\ h - m \in 1 .. n /\ i - m \in 1 .. n /\ h = m + (h - m) /\ i = m + (i - m)
            /\ i - m \in (h - m) + 1 .. n
        BY <2>4
      <4> QED  BY <4>1
    <3> QED  BY <1>1, <2>2, <3>1 DEF Behind
  <2>5. CASE i > m /\ h <= m
    <3>1. PICK j \in 1 .. n : i = m + j
      <4>1. i - m \in 1 .. n /\ i = m + (i - m)  BY <2>5
      <4> QED  BY <4>1
    <3>2. h \in 1 .. m  BY <2>5
    <3> QED  BY <1>1, <2>2, <3>1, <3>2 DEF Has
  <2> QED  BY <2>3, <2>4, <2>5
<1> QED  BY <1>1, <1>2, <1>3, <1>4, <1>5

(* A packet at the head, and one somewhere in the queue.                   *)
LEMMA BehindHead ==
  ASSUME NEW S, NEW x \in S, NEW b \in Seq(S), NEW p, NEW q
  PROVE  /\ Has(<<x>> \o b, p) <=> (p = x /\ Fragmented(x)) \/ Has(b, p)
         /\ Behind(<<x>> \o b, p, q) <=> \/ Behind(b, p, q)
                                         \/ p = x /\ Fragmented(x) /\ Has(b, q)
<1>1. <<x>> \in Seq(S)  OBVIOUS
<1>2. ~Behind(<<x>>, p, q)
  <2>1. Len(<<x>>) = 1  OBVIOUS
  <2> QED  BY <2>1 DEF Behind
<1>3. Has(<<x>>, p) <=> p = x /\ Fragmented(x)  BY Single, Zenon
<1>4. Behind(<<x>> \o b, p, q) <=> \/ Behind(<<x>>, p, q) \/ Behind(b, p, q)
                                   \/ Has(<<x>>, p) /\ Has(b, q)
  BY <1>1, BehindJoined, Zenon
<1>5. Has(<<x>> \o b, p) <=> Has(<<x>>, p) \/ Has(b, p)
  BY <1>1, Joined, Zenon
<1> QED  BY <1>2, <1>3, <1>4, <1>5, Zenon

LEMMA BehindWithin ==
  ASSUME NEW a \in Seq(Packet), NEW x \in Packet, NEW w \in Seq(Packet), NEW p, NEW n
  PROVE  /\ Has(a \o w, p) => Has(a \o (<<x>> \o w), p)
         /\ Has(a \o (<<x>> \o w), p) => (p = x /\ Fragmented(x)) \/ Has(a \o w, p)
         /\ Behind(a \o w, p, n) => Behind(a \o (<<x>> \o w), p, n)
         /\ ~Fragmented(x) /\ Behind(a \o (<<x>> \o w), p, n) => Behind(a \o w, p, n)
<1>1. <<x>> \o w \in Seq(Packet)
  <2>1. <<x>> \in Seq(Packet)  OBVIOUS
  <2> QED  BY <2>1
<1>2. /\ Has(a \o w, p) <=> Has(a, p) \/ Has(w, p)
      /\ Has(a \o (<<x>> \o w), p) <=> Has(a, p) \/ Has(<<x>> \o w, p)
  BY <1>1, Joined, Zenon
<1>3. /\ Behind(a \o w, p, n) <=> \/ Behind(a, p, n) \/ Behind(w, p, n)
                                  \/ Has(a, p) /\ Has(w, n)
      /\ Behind(a \o (<<x>> \o w), p, n) <=>
           \/ Behind(a, p, n) \/ Behind(<<x>> \o w, p, n)
           \/ Has(a, p) /\ Has(<<x>> \o w, n)
  BY <1>1, BehindJoined, Zenon
<1>4. /\ Has(<<x>> \o w, p) <=> (p = x /\ Fragmented(x)) \/ Has(w, p)
      /\ Has(<<x>> \o w, n) <=> (n = x /\ Fragmented(x)) \/ Has(w, n)
      /\ Behind(<<x>> \o w, p, n) <=> \/ Behind(w, p, n)
                                      \/ p = x /\ Fragmented(x) /\ Has(w, n)
  BY BehindHead, Zenon
<1> QED  BY <1>2, <1>3, <1>4, Zenon

(* A packet leaves the queue anywhere: if it is one of a message, that is  *)
(* hurt, and others may be.                                                *)
LEMMA TurnWithout ==
  ASSUME NEW a \in Seq(Packet), NEW x \in Packet, NEW w \in Seq(Packet),
         NEW h, NEW h2, NEW k, NEW ms,
         InTurn(a \o (<<x>> \o w), h, k, ms), h \subseteq h2,
         Fragmented(x) => x.of \in h2
  PROVE  InTurn(a \o w, h2, k, ms)
<1>1. Rises(a \o w)  BY BehindWithin, Zenon DEF InTurn, Rises
<1>2. Unserved(a \o w, k)  BY BehindWithin, Zenon DEF InTurn, Unserved
<1>3. Whole(a \o w, h2, k, ms)
  <2> SUFFICES ASSUME NEW j \in k + 1 .. Len(ms), j \notin h2
               PROVE  \E p : Ends(a \o w, p, j)
    BY Zenon DEF Whole
  <2>1. j \notin h  OBVIOUS
  <2>2. PICK p : Ends(a \o (<<x>> \o w), p, j)
    BY <2>1, Zenon DEF InTurn, Whole
  <2>3. Ends(a \o w, p, j)  BY <2>2, BehindWithin, Zenon DEF Ends
  <2> QED  BY <2>3, Zenon
<1> QED  BY <1>1, <1>2, <1>3, Zenon DEF InTurn

(* One that is not of a message joins it.                                  *)
LEMMA TurnWith ==
  ASSUME NEW a \in Seq(Packet), NEW x \in Packet, NEW w \in Seq(Packet),
         NEW h, NEW k, NEW ms, InTurn(a \o w, h, k, ms), ~Fragmented(x)
  PROVE  InTurn(a \o (<<x>> \o w), h, k, ms)
<1>1. Rises(a \o (<<x>> \o w))  BY BehindWithin, Zenon DEF InTurn, Rises
<1>2. Unserved(a \o (<<x>> \o w), k)  BY BehindWithin, Zenon DEF InTurn, Unserved
<1>3. Whole(a \o (<<x>> \o w), h, k, ms)
  BY BehindWithin, Zenon DEF InTurn, Whole, Ends
<1> QED  BY <1>1, <1>2, <1>3, Zenon DEF InTurn

(* The one at the head is taken; if it ends its message, that is served,   *)
(* and what it passes over is hurt.                                        *)
LEMMA TurnTaken ==
  ASSUME NEW x \in Packet, NEW q \in Seq(Packet), NEW h, NEW k \in Nat, NEW ms,
         Len(ms) \in Nat, Fragmented(x), InTurn(<<x>> \o q, h, k, ms),
         Genuine(<<x>> \o q, ms)
  PROVE  /\ InTurn(q, h, IF x.last THEN x.of ELSE k, ms)
         /\ x.of \in k + 1 .. Len(ms)
         /\ x.last => k + 1 .. x.of - 1 \subseteq h
<1>1. \A p, n : /\ Has(<<x>> \o q, p) <=> p = x \/ Has(q, p)
                /\ Behind(<<x>> \o q, p, n) <=> Behind(q, p, n) \/ (p = x /\ Has(q, n))
  BY BehindHead, Zenon
<1>2. k < x.of /\ x.of \in 1 .. Len(ms)
  BY <1>1, Zenon DEF InTurn, Unserved, Genuine
<1>3. ASSUME x.last, NEW p, Has(q, p) PROVE x.of < p.of
  BY <1>1, <1>3, Zenon DEF InTurn, Rises
<1>4. PICK l \in Nat : l = IF x.last THEN x.of ELSE k
  BY <1>2
<1>5. Rises(q)  BY <1>1, Zenon DEF InTurn, Rises
<1>6. Unserved(q, l)
  <2>1. CASE x.last  BY <1>3, <1>4, <2>1, Zenon DEF Unserved
  <2>2. CASE ~x.last  BY <1>1, <1>4, <2>2, Zenon DEF InTurn, Unserved
  <2> QED  BY <2>1, <2>2
<1>7. Whole(q, h, l, ms)
  <2> SUFFICES ASSUME NEW j \in l + 1 .. Len(ms), j \notin h
               PROVE  \E p : Ends(q, p, j)
    BY Zenon DEF Whole
  <2>1. j \in k + 1 .. Len(ms)  BY <1>2, <1>4
  <2>2. PICK p : Ends(<<x>> \o q, p, j)
    BY <2>1, Zenon DEF InTurn, Whole
  <2>3. p # x
    <3>1. ASSUME p = x PROVE FALSE
      <4>1. x.last /\ x.of = j  BY <2>2, <3>1, Zenon DEF Ends
      <4> QED  BY <1>4, <4>1
    <3> QED  BY <3>1
  <2> QED  BY <1>1, <2>2, <2>3, Zenon DEF Ends
<1>8. ASSUME x.last, NEW j \in k + 1 .. x.of - 1 PROVE j \in h
  <2> SUFFICES ASSUME j \notin h PROVE FALSE  OBVIOUS
  <2>1. j \in k + 1 .. Len(ms) /\ j < x.of  BY <1>2
  <2>2. PICK p : Ends(<<x>> \o q, p, j)
    BY <2>1, Zenon DEF InTurn, Whole
  <2>3. p = x \/ Has(q, p)  BY <1>1, <2>2, Zenon DEF Ends
  <2>4. p.of = j  BY <2>2, Zenon DEF Ends
  <2>5. p # x  BY <1>2, <2>1, <2>4
  <2>6. x.of < j  BY <1>3, <1>8, <2>3, <2>4, <2>5, Zenon
  <2> QED  BY <1>2, <2>1, <2>6
<1>9. InTurn(q, h, l, ms)  BY <1>5, <1>6, <1>7, Zenon DEF InTurn
<1>10. x.of \in k + 1 .. Len(ms)  BY <1>2
<1> QED  BY <1>4, <1>8, <1>9, <1>10, Zenon

(* The pieces of another message join at the end.                          *)
LEMMA CutBehind ==
  ASSUME NEW m \in Seq(Byte), m # <<>>, NEW k \in Nat
  PROVE  /\ \A p, n : Behind(Cut(m, k), p, n) => ~p.last /\ p.of = k /\ n.of = k
         /\ \E p : Ends(Cut(m, k), p, k)
<1>1. PICK z \in Nat \ {0} : z = Pieces(m)
  BY Counted
<1>2. PICK c : c = Cut(m, k) /\ Len(c) = z
               /\ \A j \in 1 .. z : c[j] = Piece(m, k, j)
  <2> DEFINE d == [j \in 1 .. z |-> Piece(m, k, j)]
  <2>1. d = Cut(m, k)  BY <1>1 DEF Cut
  <2>2. Len(d) = z /\ \A j \in 1 .. z : d[j] = Piece(m, k, j)
    BY <1>1
  <2> QED  BY <2>1, <2>2
<1>3. ASSUME NEW j \in 1 .. z
      PROVE  /\ c[j].of = k /\ Fragmented(c[j])
             /\ c[j].last <=> j = z
  <2>1. Piece(m, k, j).of = k  BY DEF Piece
  <2>2. Fragmented(Piece(m, k, j)) /\ (Piece(m, k, j).last <=> j = z)
    BY <1>1, Pieced
  <2> QED  BY <1>2, <2>1, <2>2, Zenon
<1>4. ASSUME NEW p, NEW n, Behind(c, p, n) PROVE ~p.last /\ p.of = k /\ n.of = k
  <2>1. PICK h \in 1 .. z : \E i \in h + 1 .. z : c[h] = p /\ c[i] = n
    BY <1>2, <1>4, Zenon DEF Behind
  <2>2. PICK i \in h + 1 .. z : c[h] = p /\ c[i] = n
    BY <2>1
  <2>3. i \in 1 .. z /\ h # z  BY <2>2
  <2> QED  BY <1>3, <2>2, <2>3, Zenon
<1>5. Ends(c, c[z], k)
  <2>1. z \in 1 .. z  OBVIOUS
  <2> QED  BY <1>2, <1>3, <2>1, Zenon DEF Ends, Has
<1> QED  BY <1>2, <1>4, <1>5, Zenon

LEMMA TurnStarted ==
  ASSUME NEW q \in Seq(Packet), NEW h, NEW k \in Nat, NEW ms, Len(ms) \in Nat,
         NEW m \in Seq(Byte), m # <<>>, NEW ms2, Len(ms2) = Len(ms) + 1, k <= Len(ms),
         InTurn(q, h, k, ms), Genuine(q, ms)
  PROVE  InTurn(q \o Cut(m, Len(ms) + 1), h, k, ms2)
<1>1. PICK z \in Nat : z = Len(ms) + 1 /\ k < z
  OBVIOUS
<1>2. PICK c \in Seq(Packet) : c = Cut(m, z)
  BY CutUp, Zenon
<1>3. /\ \A p, n : Behind(c, p, n) => ~p.last /\ p.of = z /\ n.of = z
      /\ \E p : Ends(c, p, z)
  BY <1>2, CutBehind, Zenon
<1>4. \A p : Has(c, p) => p.of = z
  BY <1>2, WellCut, Zenon
<1>5. \A p, n : /\ Has(q \o c, p) <=> Has(q, p) \/ Has(c, p)
                /\ Behind(q \o c, p, n) <=> \/ Behind(q, p, n) \/ Behind(c, p, n)
                                            \/ Has(q, p) /\ Has(c, n)
  BY Joined, BehindJoined, Zenon
<1>6. \A p : Has(q, p) => p.of < z
  <2> SUFFICES ASSUME NEW p, Has(q, p) PROVE p.of < z  OBVIOUS
  <2>1. p.of \in 1 .. Len(ms)  BY Zenon DEF Genuine
  <2> QED  BY <1>1, <2>1
<1>7. Rises(q \o c)
  <2> SUFFICES ASSUME NEW p, NEW n, Behind(q \o c, p, n)
               PROVE  IF p.last THEN p.of < n.of ELSE p.of <= n.of
    BY Zenon DEF Rises
  <2>1. CASE Behind(q, p, n)  BY <2>1, Zenon DEF InTurn, Rises
  <2>2. CASE Behind(c, p, n)
    <3>1. ~p.last /\ p.of = z /\ n.of = z  BY <1>3, <2>2, Zenon
    <3> QED  BY <3>1
  <2>3. CASE Has(q, p) /\ Has(c, n)
    <3>1. p.of \in 1 .. Len(ms) /\ p.of < z /\ n.of = z
      BY <1>4, <1>6, <2>3, Zenon DEF Genuine
    <3> QED  BY <3>1
  <2> QED  BY <1>5, <2>1, <2>2, <2>3, Zenon
<1>8. Unserved(q \o c, k)
  BY <1>1, <1>4, <1>5, Zenon DEF InTurn, Unserved
<1>9. Whole(q \o c, h, k, ms2)
  <2> SUFFICES ASSUME NEW j \in k + 1 .. z, j \notin h
               PROVE  \E p : Ends(q \o c, p, j)
    BY <1>1, Zenon DEF Whole
  <2>1. CASE j = z  BY <1>3, <1>5, <2>1, Zenon DEF Ends
  <2>2. CASE j # z
    <3>1. j \in k + 1 .. Len(ms)  BY <1>1, <2>2
    <3>2. PICK p : Ends(q, p, j)  BY <3>1, Zenon DEF InTurn, Whole
    <3> QED  BY <1>5, <3>2, Zenon DEF Ends
  <2> QED  BY <2>1, <2>2
<1> QED  BY <1>1, <1>2, <1>7, <1>8, <1>9, Zenon DEF InTurn

LEMMA InitTurnInv == Init => TurnInv
<1> SUFFICES ASSUME Init PROVE TurnInv  OBVIOUS
<1>1. Queue = <<>> /\ served = 0 /\ Len(sent) = 0  BY DEF Init, Queue
<1>2. \A p, n : ~Has(<<>>, p) /\ ~Behind(<<>>, p, n)
  BY DEF Has, Behind
<1>3. Rises(Queue) /\ Unserved(Queue, served)
  BY <1>1, <1>2, Zenon DEF Rises, Unserved
<1>4. Whole(Queue, hurt, served, sent)
  <2>1. served + 1 .. Len(sent) = {}  BY <1>1
  <2> QED  BY <2>1, Zenon DEF Whole
<1>5. served \in 0 .. Len(sent)  BY <1>1
<1> QED  BY <1>3, <1>4, <1>5 DEF TurnInv, InTurn

LEMMA StartedTurnInv ==
  ASSUME MInv, TurnInv, NEW r \in Requests, HostStarts(r)
  PROVE  TurnInv'
<1>1. /\ in \in Seq(Packet) /\ usb \in Seq(Packet) /\ sent \in Seq(Requests)
      /\ Genuine(Queue, sent)
  BY DEF MInv, Typed, Sound
<1>2. PICK m \in Seq(Byte), k \in Nat, c \in Seq(Packet) :
        m # <<>> /\ m = Bytes(r) /\ k = Len(sent) + 1 /\ c = Cut(m, k)
  <2>1. Bytes(r) \in Seq(Byte) /\ Bytes(r) # <<>>  BY Requested
  <2>2. Len(sent) + 1 \in Nat  BY <1>1
  <2>3. Cut(Bytes(r), Len(sent) + 1) \in Seq(Packet)
    BY <2>1, <2>2, CutUp, Zenon
  <2> QED  BY <2>1, <2>2, <2>3
<1>3. /\ rest = <<>> /\ in' = in /\ usb' = usb /\ hurt' = hurt /\ served' = served
      /\ sent' = Append(sent, r) /\ rest' = c
  BY <1>2, Zenon DEF HostStarts, device, history
<1>4. Queue \in Seq(Packet) /\ Queue' = Queue \o c
  <2>1. (in \o usb) \o c = in \o (usb \o c)  BY <1>1, ConcatAssociative
  <2>2. Queue = in \o usb /\ Queue \in Seq(Packet)
    BY <1>1, <1>3 DEF Queue
  <2> QED  BY <1>3, <2>1, <2>2 DEF Queue
<1>5. /\ Len(sent) \in Nat /\ served \in Nat /\ served <= Len(sent)
      /\ Len(sent') = Len(sent) + 1
  BY <1>1, <1>3 DEF TurnInv
<1>6. InTurn(Queue \o c, hurt, served, sent')
  BY <1>1, <1>2, <1>4, <1>5, TurnStarted, Zenon DEF TurnInv
<1>7. served \in 0 .. Len(sent')  BY <1>5
<1> QED  BY <1>3, <1>4, <1>6, <1>7, Zenon DEF TurnInv

LEMMA ExtraTurnInv ==
  ASSUME MInv, TurnInv, NEW kind \in {"cc", "other"}, HostSendsExtra(kind)
  PROVE  TurnInv'
<1>1. PICK x \in Packet : x = [kind |-> kind] /\ ~Fragmented(x)
  <2>1. [kind |-> kind] \in [kind : {"cc", "other"}]  OBVIOUS
  <2>2. [kind |-> kind] \in Packet  BY <2>1, Zenon DEF Packet
  <2>3. [kind |-> kind].kind = kind  OBVIOUS
  <2>4. kind # "sysex"  OBVIOUS
  <2> QED  BY <2>2, <2>3, <2>4, Zenon DEF Fragmented
<1>2. /\ in \in Seq(Packet) /\ usb \in Seq(Packet) /\ rest \in Seq(Packet)
      /\ in' = in /\ hurt' = hurt /\ served' = served /\ sent' = sent /\ rest' = rest
      /\ usb' = Append(usb, x) /\ <<x>> \in Seq(Packet)
  BY <1>1 DEF MInv, Typed, HostSendsExtra, device, history
<1>3. PICK a \in Seq(Packet) : a = in \o usb
  <2>1. in \o usb \in Seq(Packet)  BY <1>2
  <2> QED  BY <2>1, Zenon
<1>4. Queue = a \o rest
  <2>1. (in \o usb) \o rest = in \o (usb \o rest)  BY <1>2, ConcatAssociative
  <2> QED  BY <1>3, <2>1, Zenon DEF Queue
<1>5. Queue' = a \o (<<x>> \o rest)
  <2>1. Append(usb, x) = usb \o <<x>>  BY <1>2, AppendIsConcat
  <2>2. (usb \o <<x>>) \o rest = usb \o (<<x>> \o rest)
    BY <1>2, ConcatAssociative
  <2>3. PICK y \in Seq(Packet) : y = <<x>> \o rest
    <3>1. <<x>> \o rest \in Seq(Packet)  BY <1>2
    <3> QED  BY <3>1, Zenon
  <2>4. (in \o usb) \o y = in \o (usb \o y)
    <3>1. in \in Seq(Packet) /\ usb \in Seq(Packet)  BY <1>2, Zenon
    <3> QED  BY <3>1, ConcatAssociative
  <2> QED  BY <1>2, <1>3, <2>1, <2>2, <2>3, <2>4, Zenon DEF Queue
<1>6. InTurn(a \o (<<x>> \o rest), hurt, served, sent)
  BY <1>1, <1>2, <1>3, <1>4, TurnWith, Zenon DEF TurnInv
<1> QED  BY <1>2, <1>5, <1>6, Zenon DEF TurnInv

(* A packet of the endpoint is kept, or it is not, and then its message is *)
(* hurt.                                                                   *)
LEMMA ReceivedTurnInv ==
  ASSUME MInv, TurnInv, usb # <<>>, usb' = Tail(usb),
         \/ in' = Append(in, Head(usb))
         \/ in' = in /\ (Fragmented(Head(usb)) => Head(usb).of \in hurt'),
         hurt \subseteq hurt',
         UNCHANGED <<served, sent, rest>>
  PROVE  TurnInv'
<1>1. PICK x \in Packet, t \in Seq(Packet), w \in Seq(Packet) :
        /\ x = Head(usb) /\ t = Tail(usb) /\ w = t \o rest
        /\ Ahead = <<x>> \o w /\ Queue = in \o (<<x>> \o w)
        /\ (in \o <<x>>) \o w = Queue /\ <<x>> \in Seq(Packet)
        /\ Append(in, x) = in \o <<x>> /\ in \o <<x>> \in Seq(Packet)
  BY NextReceived, Zenon
<1>2. in \in Seq(Packet)  BY DEF MInv, Typed
<1>3. CASE in' = Append(in, x)
  <2>1. Queue' = Queue  BY <1>1, <1>3, Zenon DEF Queue
  <2>2. Whole(Queue, hurt', served, sent)
    BY Zenon DEF TurnInv, InTurn, Whole
  <2> QED  BY <2>1, <2>2, Zenon DEF TurnInv, InTurn
<1>4. CASE in' = in /\ (Fragmented(x) => x.of \in hurt')
  <2>1. Queue' = in \o w  BY <1>1, <1>4, Zenon DEF Queue
  <2>2. InTurn(in \o (<<x>> \o w), hurt, served, sent)
    BY <1>1, Zenon DEF TurnInv
  <2>3. InTurn(in \o w, hurt', served, sent)
    BY <1>2, <1>4, <2>2, TurnWithout, Zenon
  <2> QED  BY <2>1, <2>3, Zenon DEF TurnInv
<1> QED  BY <1>1, <1>3, <1>4, Zenon

LEMMA IgnoredTurnInv ==
  ASSUME MInv, TurnInv, ControllerIgnored
  PROVE  TurnInv'
<1>1. /\ in # <<>> /\ Fragment.kind = "cc" /\ in' = Tail(in)
      /\ usb' = usb /\ sent' = sent /\ rest' = rest /\ hurt' = hurt /\ served' = served
  BY Zenon DEF ControllerIgnored, Takes, hostvars, history
<1>2. PICK x \in Packet, t \in Seq(Packet), q \in Seq(Packet) :
        x = Fragment /\ t = Tail(in) /\ q = t \o Ahead /\ Queue = <<x>> \o q
  BY <1>1, NextTaken, Zenon
<1>3. ~Fragmented(x)
  <2>1. "cc" # "sysex"  OBVIOUS
  <2> QED  BY <1>1, <1>2, <2>1, Zenon DEF Fragmented
<1>4. Queue' = q  BY <1>1, <1>2, Zenon DEF Queue, Ahead
<1>5. \A p, n : /\ Has(<<x>> \o q, p) <=> Has(q, p)
                /\ Behind(<<x>> \o q, p, n) <=> Behind(q, p, n)
  BY <1>2, <1>3, BehindHead, Zenon
<1>6. InTurn(q, hurt, served, sent)
  BY <1>2, <1>5, Zenon DEF TurnInv, InTurn, Rises, Unserved, Whole, Ends
<1> QED  BY <1>1, <1>4, <1>6, Zenon DEF TurnInv

(* The handler takes the packet at the head of MIDI_IN.                    *)
LEMMA HandledTurnInv ==
  ASSUME MInv, TurnInv,
         FragmentDropped \/ FragmentKept \/ MessageRefused \/ MessageTaken
  PROVE  /\ TurnInv'
         /\ in # <<>> /\ Fragment.kind = "sysex" /\ phase = "take" /\ in' = Tail(in)
         /\ UNCHANGED <<sent, hurt>>
         /\ served' = IF Fragment.last THEN Fragment.of ELSE served
         /\ Fragment.of \in served + 1 .. Len(sent)
         /\ Fragment.last => served + 1 .. Fragment.of - 1 \subseteq hurt
<1>1. /\ in # <<>> /\ Fragment.kind = "sysex" /\ phase = "take" /\ in' = Tail(in)
      /\ UNCHANGED <<usb, rest, sent, hurt>>
      /\ served' = IF Fragment.last THEN Fragment.of ELSE served
  <2>1. CASE FragmentDropped
    BY <2>1, Zenon DEF FragmentDropped, Takes, hostvars, history
  <2>2. CASE FragmentKept
    BY <2>2, Zenon DEF FragmentKept, Takes, hostvars, history
  <2>3. CASE MessageRefused
    BY <2>3, Zenon DEF MessageRefused, Takes, hostvars, history
  <2>4. CASE MessageTaken
    BY <2>4, Zenon DEF MessageTaken, Takes, hostvars
  <2> QED  BY <2>1, <2>2, <2>3, <2>4, Zenon
<1>2. PICK x \in Packet, t \in Seq(Packet), q \in Seq(Packet) :
        x = Fragment /\ t = Tail(in) /\ q = t \o Ahead /\ Queue = <<x>> \o q
  BY <1>1, NextTaken, Zenon
<1>3. Fragmented(x)  BY <1>1, <1>2, Zenon DEF Fragmented
<1>4. Queue' = q  BY <1>1, <1>2, Zenon DEF Queue, Ahead
<1>5. Len(sent) \in Nat /\ served \in Nat /\ served <= Len(sent)
  <2>1. sent \in Seq(Requests)  BY DEF MInv, Typed
  <2> QED  BY <2>1 DEF TurnInv
<1>6. Genuine(<<x>> \o q, sent) /\ InTurn(<<x>> \o q, hurt, served, sent)
  BY <1>2, Zenon DEF MInv, Sound, TurnInv
<1>7. /\ InTurn(q, hurt, IF x.last THEN x.of ELSE served, sent)
      /\ x.of \in served + 1 .. Len(sent)
      /\ x.last => served + 1 .. x.of - 1 \subseteq hurt
  BY <1>2, <1>3, <1>5, <1>6, TurnTaken, Zenon
<1>8. (IF x.last THEN x.of ELSE served) \in 0 .. Len(sent)
  BY <1>5, <1>7
<1>9. TurnInv'
  BY <1>1, <1>2, <1>4, <1>7, <1>8, Zenon DEF TurnInv
<1> QED  BY <1>1, <1>2, <1>7, <1>9, Zenon

LEMMA NextTurnInv ==
  ASSUME MInv, TurnInv, [Next]_vars
  PROVE  TurnInv'
<1>1. CASE UNCHANGED <<usb, in, rest, sent, hurt, served>>
  BY <1>1, Zenon DEF TurnInv, Queue
<1>2. ASSUME NEW r \in Requests, HostStarts(r) PROVE TurnInv'
  BY <1>2, StartedTurnInv, Zenon
<1>3. CASE HostSends
  <2>1. /\ usb \in Seq(Packet) /\ rest \in Seq(Packet) /\ rest # <<>>
        /\ UNCHANGED <<in, sent, hurt, served>>
        /\ usb' = Append(usb, Head(rest)) /\ rest' = Tail(rest)
    BY <1>3, Zenon DEF MInv, Typed, HostSends, device, history
  <2>2. PICK x \in Packet, t \in Seq(Packet) :
          x = Head(rest) /\ t = Tail(rest) /\ rest = <<x>> \o t /\ <<x>> \in Seq(Packet)
    <3>1. /\ Head(rest) \in Packet /\ Tail(rest) \in Seq(Packet)
          /\ rest = <<Head(rest)>> \o Tail(rest)
      BY <2>1, Taking, Zenon
    <3>2. <<Head(rest)>> \in Seq(Packet)  BY <3>1
    <3> QED  BY <3>1, <3>2, Zenon
  <2>3. Append(usb, x) = usb \o <<x>>  BY <2>1, AppendIsConcat
  <2>4. (usb \o <<x>>) \o t = usb \o (<<x>> \o t)
    BY <2>1, <2>2, ConcatAssociative
  <2>5. Queue' = Queue  BY <2>1, <2>2, <2>3, <2>4, Zenon DEF Queue
  <2> QED  BY <2>1, <2>5, Zenon DEF TurnInv
<1>4. ASSUME NEW kind \in {"cc", "other"}, HostSendsExtra(kind) PROVE TurnInv'
  BY <1>4, ExtraTurnInv, Zenon
<1>5. CASE ReceiveFragment \/ ReceiveController \/ ReceiveOther
  <2>1. /\ usb # <<>> /\ usb' = Tail(usb) /\ UNCHANGED <<served, sent, rest>>
    BY <1>5, Zenon
       DEF ReceiveFragment, ReceiveController, ReceiveOther, Received, hostvars, history
  <2>2. CASE ReceiveFragment
    <3>1. /\ in' = Append(in, Head(usb)) \/ in' = in
          /\ hurt \subseteq hurt'
      BY <2>2, Zenon DEF ReceiveFragment
    <3>2. CASE hurt' = (hurt \cup {Head(usb).of})
                         \cup {k \in {Head(usb).of + 1} : Head(usb).last}
      BY <2>1, <3>1, <3>2, ReceivedTurnInv, Zenon
    <3>3. CASE in' = Append(in, Head(usb))
      BY <2>1, <3>1, <3>3, ReceivedTurnInv, Zenon
    <3> QED  BY <2>2, <3>2, <3>3, Zenon DEF ReceiveFragment
  <2>3. CASE ReceiveController \/ ReceiveOther
    <3>1. /\ in' = Append(in, Head(usb)) \/ in' = in
          /\ hurt' = hurt /\ Head(usb).kind \in {"cc", "other"}
      BY <2>3, Zenon
         DEF ReceiveController, ReceiveOther, Received, device, history
    <3>2. ~Fragmented(Head(usb))  BY <3>1 DEF Fragmented
    <3> QED  BY <2>1, <3>1, <3>2, ReceivedTurnInv, Zenon
  <2> QED  BY <1>5, <2>2, <2>3, Zenon
<1>6. CASE FragmentDropped \/ FragmentKept \/ MessageRefused \/ MessageTaken
  BY <1>6, HandledTurnInv, Zenon
<1>7. CASE ControllerIgnored  BY <1>7, IgnoredTurnInv, Zenon
<1>8. CASE \/ ReceiveDone \/ TakeDone \/ SendController \/ SendReply \/ SendDone
           \/ (\E n \in 0 .. OutSize - 1 : InputPosts(n)) \/ UNCHANGED vars
  BY <1>1, <1>8, Zenon
     DEF ReceiveDone, TakeDone, SendController, SendReply, SendDone, InputPosts,
         vars, device, hostvars, history
<1> QED
  BY <1>2, <1>3, <1>4, <1>5, <1>6, <1>7, <1>8, Zenon
     DEF Next, Device, Host, TakeNext

-----------------------------------------------------------------------------
(* Every step of the device is one of the server, or none.                 *)
LEMMA ServerInit == Init => Server!Init
BY DEF Init, Server!Init

LEMMA SpoiltOne ==
  ASSUME FitInv,
         setting' = setting \/ setting' = Written(Collected)
  PROVE  Server!Spoilt
<1>1. setting = [f \in Fields |-> setting[f]]  BY Zenon DEF FitInv
<1>2. CASE setting' = setting
  <2>1. PICK f \in Fields : TRUE
    <3>1. <<0, 0, 0>> \in Fields
      <4>1. 0 \in EncoderParams /\ 0 \in 0 .. NumBanks - 1 /\ 0 \in 0 .. NumEncoders - 1
        BY SysexAssumption DEF EncoderParams
      <4> QED  BY <4>1 DEF Fields
    <3> QED  BY <3>1
  <2>2. setting' = [setting EXCEPT ![f] = setting'[f]]
    BY <1>1, <1>2
  <2> QED  BY <2>1, <2>2, Zenon DEF Server!Spoilt
<1>3. ASSUME NEW f \in Fields, NEW v, setting' = [setting EXCEPT ![f] = v]
      PROVE  Server!Spoilt
  <2>1. setting' = [setting EXCEPT ![f] = setting'[f]]
    BY <1>1, <1>3
  <2> QED  BY <2>1, Zenon DEF Server!Spoilt
<1>4. CASE setting' = Written(Collected)
  BY <1>2, <1>3, <1>4, Zenon DEF Written
<1> QED  BY <1>2, <1>4

(* The end of a message serves it, and another piece changes nothing.      *)
LEMMA ServerServe ==
  ASSUME \A r \in Requests : Proper(r), MInv, FitInv, TurnInv,
         FragmentDropped \/ FragmentKept \/ MessageRefused \/ MessageTaken
  PROVE  [Server!Next]_(Server!vars)
<1>1. /\ in # <<>> /\ Fragment.kind = "sysex" /\ phase = "take" /\ in' = Tail(in)
      /\ UNCHANGED <<sent, hurt>>
      /\ served' = IF Fragment.last THEN Fragment.of ELSE served
      /\ Fragment.of \in served + 1 .. Len(sent)
      /\ Fragment.last => served + 1 .. Fragment.of - 1 \subseteq hurt
  BY HandledTurnInv, Zenon
<1>2. setting' = setting \/ setting' = Written(Collected)
  BY Zenon DEF FragmentDropped, FragmentKept, MessageRefused, MessageTaken
<1>3. CASE ~Fragment.last
  <2>1. setting' = setting
    BY <1>3, Zenon DEF FragmentDropped, FragmentKept, MessageRefused, MessageTaken
  <2> QED  BY <1>1, <1>3, <2>1, Zenon DEF Server!vars
<1>4. CASE Fragment.last
  <2>1. PICK k : k = Fragment.of  OBVIOUS
  <2>2. k \in hurt => Server!Spoilt
    BY <1>2, SpoiltOne, Zenon
  <2>3. k \notin hurt => setting' = Server!Effect(sent[k])
    <3> SUFFICES ASSUME k \notin hurt PROVE setting' = Server!Effect(sent[k])
      OBVIOUS
    <3>1. in' # in
      <4>1. in \in Seq(Packet)  BY DEF MInv, Typed
      <4>2. Len(Tail(in)) # Len(in)  BY <1>1, <4>1
      <4> QED  BY <1>1, <4>2
    <3>2. Takes("sysex") /\ Next
      BY <1>1, Zenon DEF Takes, Next, Device, TakeNext
    <3>3. setting' = Promise(sent[k], setting)
      BY <1>4, <2>1, <3>1, <3>2, StepTaken, Zenon
    <3>4. sent[k] \in Requests
      BY <1>1, <2>1, Sent, Zenon
    <3> QED  BY <3>3, <3>4, Zenon DEF Promise, Server!Effect
  <2>4. Server!Serve(k)
    BY <1>1, <1>4, <2>1, <2>2, <2>3, Zenon DEF Server!Serve
  <2> QED  BY <1>1, <2>1, <2>4, Zenon DEF Server!Next
<1> QED  BY <1>3, <1>4

(* What MIDI_IN has no room for is a loss of a request not served yet.     *)
LEMMA ServerLose ==
  ASSUME MInv, TurnInv, ReceiveFragment
  PROVE  [Server!Next]_(Server!vars)
<1>1. /\ usb # <<>> /\ Head(usb).kind = "sysex"
      /\ UNCHANGED <<sent, served, setting>>
  BY Zenon DEF ReceiveFragment, Received, hostvars
<1>2. CASE hurt' = hurt
  BY <1>1, <1>2, Zenon DEF Server!vars
<1>3. CASE hurt' = (hurt \cup {Head(usb).of})
                     \cup {k \in {Head(usb).of + 1} : Head(usb).last}
  <2>1. PICK x \in Packet, w \in Seq(Packet) :
          x = Head(usb) /\ Queue = in \o (<<x>> \o w) /\ <<x>> \in Seq(Packet)
    BY <1>1, NextReceived, Zenon
  <2>2. Fragmented(x)  BY <1>1, <2>1, Zenon DEF Fragmented
  <2>3. Has(Queue, x)
    <3>1. in \in Seq(Packet)  BY DEF MInv, Typed
    <3>2. <<x>> \o w \in Seq(Packet)  BY <2>1
    <3>3. Has(<<x>> \o w, x)  BY <2>1, <2>2, BehindHead, Zenon
    <3> QED  BY <2>1, <3>1, <3>2, <3>3, Joined, Zenon
  <2>4. served < x.of /\ x.of \in 1 .. Len(sent)
    BY <2>3, Zenon DEF MInv, Sound, Genuine, TurnInv, InTurn, Unserved
  <2>5. x.of \in served + 1 .. Len(sent)
    <3>1. served \in Nat
      <4>1. sent \in Seq(Requests)  BY DEF MInv, Typed
      <4> QED  BY <4>1 DEF TurnInv
    <3> QED  BY <2>4, <3>1
  <2>6. hurt' \in {hurt \cup {x.of}, hurt \cup {x.of, x.of + 1}}
    BY <1>3, <2>1
  <2>7. Server!Lose(x.of)
    BY <1>1, <2>6, Zenon DEF Server!Lose
  <2> QED  BY <2>5, <2>7, Zenon DEF Server!Next
<1> QED  BY <1>2, <1>3, Zenon DEF ReceiveFragment

LEMMA ServerNext ==
  ASSUME \A r \in Requests : Proper(r), MInv, FitInv, TurnInv, [Next]_vars
  PROVE  [Server!Next]_(Server!vars)
<1>1. CASE UNCHANGED <<sent, hurt, served, setting>>
  BY <1>1, Zenon DEF Server!vars
<1>2. ASSUME NEW r \in Requests, HostStarts(r) PROVE Server!Next
  <2>1. Server!Request(r)
    BY <1>2, Zenon DEF HostStarts, device, history, Server!Request
  <2> QED  BY <2>1, Zenon DEF Server!Next
<1>3. CASE ReceiveFragment  BY <1>3, ServerLose, Zenon
<1>4. CASE FragmentDropped \/ FragmentKept \/ MessageRefused \/ MessageTaken
  BY <1>4, ServerServe, Zenon
<1>5. CASE \/ HostSends \/ (\E kind \in {"cc", "other"} : HostSendsExtra(kind))
           \/ ReceiveController \/ ReceiveOther \/ ReceiveDone
           \/ (\E n \in 0 .. OutSize - 1 : InputPosts(n))
           \/ ControllerIgnored \/ TakeDone
           \/ SendController \/ SendReply \/ SendDone \/ UNCHANGED vars
  BY <1>1, <1>5, Zenon
     DEF HostSends, HostSendsExtra, ReceiveController, ReceiveOther, ReceiveDone,
         InputPosts, ControllerIgnored, TakeDone, SendController, SendReply,
         SendDone, vars, device, hostvars, history
<1> QED
  BY <1>2, <1>3, <1>4, <1>5, Zenon DEF Next, Device, Host, TakeNext

(* The device serves the messages of the host in their order, each once    *)
(* and as a whole, and passes over none all of whose packets reached       *)
(* MIDI_IN (midi_update and midi_in_handler), for any messages the device  *)
(* agrees with the host about, any sizes of the queues and any loss.       *)
THEOREM ImplementsServer ==
  ASSUME \A r \in Requests : Proper(r)
  PROVE  Spec => ServerSpec
<1> DEFINE Inv == MInv /\ FitInv /\ TurnInv
<1>1. Init => Inv  BY InitMInv, InitFitInv, InitTurnInv, Zenon
<1>2. Inv /\ [Next]_vars => Inv'
  BY NextMInv, NextFitInv, NextTurnInv, Zenon
<1>3. Inv /\ [Next]_vars => [Server!Next]_(Server!vars)
  BY ServerNext, Zenon
<1> HIDE DEF Inv
<1> QED  BY <1>1, <1>2, <1>3, ServerInit, PTL DEF Spec, ServerSpec, Server!Spec
=============================================================================
