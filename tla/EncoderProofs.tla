--------------------------- MODULE EncoderProofs ---------------------------
(***************************************************************************)
(* Theorems about the arithmetic of one encoder: for all ranges of         *)
(* positions and values whose product fits the 16 bits of an int, all      *)
(* hues, saturations and values of a colour, and all numbers of positions  *)
(* and frames of a ring.                                                   *)
(***************************************************************************)
EXTENDS EncoderCheck, FiniteSetTheorems, TLAPS

-----------------------------------------------------------------------------
(* Quotients.                                                              *)
LEMMA Cancel ==
  ASSUME NEW d \in Nat \ {0}, NEW a \in Int, NEW b \in Int
  PROVE  /\ d * a <= d * b => a <= b
         /\ d * a < d * b => a < b
         /\ a <= b => d * a <= d * b
<1>1. CASE a <= b
  <2>1. PICK k \in Nat : b = a + k
    <3>1. b - a \in Nat /\ b = a + (b - a)  BY <1>1
    <3> QED  BY <3>1
  <2>2. d * b = d * a + d * k /\ d * k \in Nat /\ d * a \in Int  BY <2>1
  <2>3. d * a <= d * b  BY <2>2
  <2>4. a = b => d * a = d * b  OBVIOUS
  <2>5. d * a < d * b => a # b  BY <2>2, <2>4
  <2> QED  BY <1>1, <2>3, <2>5
<1>2. CASE a > b
  <2>1. PICK k \in Nat : a = b + 1 + k
    <3>1. a - (b + 1) \in Nat /\ a = b + 1 + (a - (b + 1))  BY <1>2
    <3> QED  BY <3>1
  <2>2. d * a = d * b + d + d * k /\ d * k \in Nat /\ d * b \in Int  BY <2>1
  <2>3. d * a > d * b  BY <2>2
  <2> QED  BY <1>2, <2>2, <2>3
<1> QED  BY <1>1, <1>2

LEMMA Quotient ==
  ASSUME NEW a \in Nat, NEW d \in Nat \ {0}
  PROVE  /\ a \div d \in Nat /\ d * (a \div d) \in Nat
         /\ d * (a \div d) <= a /\ a < d * (a \div d) + d
<1> DEFINE q == a \div d
<1>1. q \in Int /\ a = (d * q) + (a % d) /\ a % d \in 0 .. d - 1
  OBVIOUS
<1> HIDE DEF q
<1>2. d * q \in Int /\ d * q <= a /\ a < d * q + d  BY <1>1
<1>3. q >= 0
  <2>1. d * (q + 1) = d * q + d  BY <1>1
  <2>2. d * 0 < d * (q + 1)  BY <1>2, <2>1
  <2>3. 0 < q + 1  BY <1>1, <2>2, Cancel
  <2> QED  BY <1>1, <2>3
<1>4. d * q \in Nat  BY <1>1, <1>3
<1> QED  BY <1>1, <1>2, <1>3, <1>4 DEF q

(* A quotient lies where its bounds lie.                                   *)
LEMMA QuotientIs ==
  ASSUME NEW a \in Nat, NEW d \in Nat \ {0}, NEW b \in Int
  PROVE  /\ a <= d * b => a \div d <= b
         /\ d * b <= a => b <= a \div d
         /\ d * b < a + d => b <= (a \div d) + 1
<1> DEFINE q == a \div d
<1>1. q \in Nat /\ d * q \in Nat /\ d * q <= a /\ a < d * q + d  BY Quotient
<1> HIDE DEF q
<1>2. d * b \in Int /\ d * (q + 1) = d * q + d /\ d * (q + 2) = d * q + d + d
  BY <1>1
<1>3. ASSUME a <= d * b PROVE q <= b
  <2>1. d * q <= d * b  BY <1>1, <1>2, <1>3
  <2> QED  BY <1>1, <2>1, Cancel
<1>4. ASSUME d * b <= a PROVE b <= q
  <2>1. d * b < d * (q + 1)  BY <1>1, <1>2, <1>4
  <2>2. b < q + 1  BY <1>1, <2>1, Cancel
  <2> QED  BY <1>1, <2>2
<1>5. ASSUME d * b < a + d PROVE b <= q + 1
  <2>1. d * b < d * (q + 2)  BY <1>1, <1>2, <1>5
  <2>2. b < q + 2  BY <1>1, <2>1, Cancel
  <2> QED  BY <1>1, <2>2
<1> QED  BY <1>3, <1>4, <1>5 DEF q

LEMMA ProductBound ==
  ASSUME NEW x \in Nat, NEW d \in Nat, NEW y \in Nat, NEW z \in Nat, x <= d, y <= z
  PROVE  x * y \in Nat /\ d * z \in Nat /\ x * y <= d * z
<1>1. PICK k \in Nat : d = x + k
  <2>1. d - x \in Nat /\ d = x + (d - x)  OBVIOUS
  <2> QED  BY <2>1
<1>2. PICK n \in Nat : z = y + n
  <2>1. z - y \in Nat /\ z = y + (z - y)  OBVIOUS
  <2> QED  BY <2>1
<1>3. d * z = x * y + x * n + k * y + k * n  BY <1>1, <1>2
<1>4. x * y \in Nat /\ x * n \in Nat /\ k * y \in Nat /\ k * n \in Nat
  BY <1>1, <1>2
<1> QED  BY <1>3, <1>4

-----------------------------------------------------------------------------
(* The conversion of a value between two rising ranges: its distance from  *)
(* the lower end is scaled and rounded down.                               *)
LEMMA Int16Same ==
  ASSUME NEW x \in Int, -32767 <= x, x <= 32767 PROVE Int16(x) = x
<1>1. x + 32768 >= 0 /\ x + 32768 < 65536  OBVIOUS
<1> QED  BY <1>1 DEF Int16

Scale(x, from, to) == (x * to) \div from

LEMMA ScaleFacts ==
  ASSUME NEW x \in Nat, NEW from \in Nat \ {0}, NEW to \in Nat, x <= from
  PROVE  /\ Scale(x, from, to) \in 0 .. to
         /\ x = 0 => Scale(x, from, to) = 0
         /\ x = from => Scale(x, from, to) = to
<1>1. x * to \in Nat /\ x * to <= from * to /\ from * to \in Nat
  BY ProductBound
<1>2. PICK n \in Nat : n = x * to  BY <1>1
<1>3. n \div from \in Nat /\ n \div from <= to  BY <1>1, <1>2, Quotient, QuotientIs
<1>4. x = 0 => n \div from = 0
  <2>1. x = 0 => n = 0 /\ from * 0 = 0  BY <1>2
  <2>2. x = 0 => n \div from <= 0  BY <2>1, QuotientIs
  <2> QED  BY <1>3, <2>2
<1>5. x = from => n \div from = to
  <2>1. x = from => from * to <= n  BY <1>1, <1>2
  <2>2. x = from => to <= n \div from  BY <2>1, QuotientIs
  <2> QED  BY <1>3, <2>2
<1> QED  BY <1>2, <1>3, <1>4, <1>5 DEF Scale

LEMMA ScaleMonotone ==
  ASSUME NEW x \in Nat, NEW y \in Nat, NEW from \in Nat \ {0}, NEW to \in Nat, x <= y
  PROVE  Scale(x, from, to) <= Scale(y, from, to)
<1>1. x * to \in Nat /\ y * to \in Nat /\ x * to <= y * to
  BY ProductBound
<1>2. PICK m \in Nat, n \in Nat : m = x * to /\ n = y * to  BY <1>1
<1>3. m \div from \in Nat /\ from * (m \div from) \in Nat /\ from * (m \div from) <= m
  BY Quotient
<1>4. from * (m \div from) <= n  BY <1>1, <1>2, <1>3
<1>5. m \div from <= n \div from  BY <1>3, <1>4, QuotientIs
<1> QED  BY <1>2, <1>5 DEF Scale

LEMMA ConvertIsScale ==
  ASSUME NEW c \in Nat, NEW omin \in Nat, NEW omax \in Nat, omin < omax,
         InRange(c, omin, omax),
         NEW nmin \in Nat, NEW nmax \in Nat, nmin < nmax, nmax <= 32767,
         (omax - omin) * (nmax - nmin) <= 32767
  PROVE  /\ ConvertRange(c, omin, omax, nmin, nmax)
              = Scale(c - omin, omax - omin, nmax - nmin) + nmin
         /\ Scale(c - omin, omax - omin, nmax - nmin) \in 0 .. nmax - nmin
<1> DEFINE x == c - omin
           d == omax - omin
           y == nmax - nmin
<1>1. x \in Nat /\ d \in Nat \ {0} /\ x <= d /\ y \in Nat /\ d * y <= 32767
  BY DEF InRange
<1>2. nmin \in Nat /\ y + nmin <= 32767  OBVIOUS
<1> HIDE DEF x, d, y
<1>3. x * y \in Nat /\ x * y <= d * y /\ d * y \in Nat  BY <1>1, ProductBound
<1>4. PICK n \in Nat : n = x * y /\ n <= 32767  BY <1>1, <1>3
<1>5. Int16(n) = n  BY <1>4, Int16Same
<1>6. CQuotient(n, d) = n \div d  BY <1>1 DEF CQuotient
<1>7. n \div d \in 0 .. y  BY <1>1, <1>4, ScaleFacts DEF Scale
<1>8. Int16((n \div d) + nmin) = (n \div d) + nmin
  BY <1>1, <1>2, <1>7, Int16Same
<1> QED  BY <1>4, <1>5, <1>6, <1>7, <1>8 DEF ConvertRange, Scale, x, d, y

-----------------------------------------------------------------------------
(* A mapping as sw_encoder_init, cfg_load or sysex leave it, but for a     *)
(* reversed position range.                                                *)
Sound(m) ==
  /\ m.mode = "CC"
  /\ m.lower \in 0 .. CCMax /\ m.upper \in 0 .. CCMax /\ m.lower # m.upper
  /\ m.start \in 0 .. EncMax /\ m.stop \in 0 .. EncMax /\ m.start < m.stop

LEMMA Widths ==
  ASSUME NEW m, Sound(m), m.lower < m.upper
  PROVE  /\ m.lower \in Nat /\ m.upper \in Nat /\ m.start \in Nat /\ m.stop \in Nat
         /\ m.upper <= 32767 /\ m.stop <= 32767
         /\ (m.stop - m.start) * (m.upper - m.lower) <= 32767
         /\ (m.upper - m.lower) * (m.stop - m.start) <= 32767
<1>1. EncMax \in Nat /\ CCMax \in Nat /\ EncMax >= 1 /\ CCMax >= 1
  BY VirtmapAssumption
<1>2. PICK top \in Nat : top = EncMax * CCMax /\ top <= 32767
  BY <1>1, EncoderCheckAssumption
<1>3. 1 * CCMax <= EncMax * CCMax /\ EncMax * 1 <= EncMax * CCMax
  BY <1>1, ProductBound
<1>4. CCMax <= 32767 /\ EncMax <= 32767  BY <1>1, <1>2, <1>3
<1> DEFINE d == m.stop - m.start
           y == m.upper - m.lower
<1>5. d \in Nat /\ y \in Nat /\ d <= EncMax /\ y <= CCMax  BY <1>1 DEF Sound
<1> HIDE DEF d, y
<1>6. d * y <= EncMax * CCMax /\ d * y \in Nat  BY <1>1, <1>5, ProductBound
<1>7. d * y <= 32767 /\ y * d <= 32767
  <2>1. PICK n \in Nat : n = d * y  BY <1>6
  <2>2. n <= 32767  BY <1>2, <1>6, <2>1
  <2>3. y * d = n  BY <1>5, <2>1
  <2> QED  BY <2>1, <2>2, <2>3
<1> QED  BY <1>1, <1>4, <1>7 DEF Sound, d, y

(* What a position sends, and where a value leads.                         *)
LEMMA ValueOf ==
  ASSUME NEW m, Sound(m), m.lower < m.upper, NEW p \in Nat, InRange(p, m.start, m.stop)
  PROVE  /\ MidiValue(m, p)
              = Scale(p - m.start, m.stop - m.start, m.upper - m.lower) + m.lower
         /\ p - m.start \in Nat /\ m.stop - m.start \in Nat \ {0}
         /\ m.upper - m.lower \in Nat \ {0} /\ p - m.start <= m.stop - m.start
         /\ m.lower \in Nat /\ m.upper \in Nat
<1>1. ConvertRange(p, m.start, m.stop, m.lower, m.upper)
        = Scale(p - m.start, m.stop - m.start, m.upper - m.lower) + m.lower
  BY Widths, ConvertIsScale DEF Sound
<1>2. m.lower \in Nat /\ m.upper \in Nat /\ m.start \in Nat /\ m.stop \in Nat
      /\ m.start < m.stop
  BY Widths DEF Sound
<1>3. MidiValue(m, p) = ConvertRange(p, m.start, m.stop, m.lower, m.upper)
  BY <1>2 DEF MidiValue
<1> QED  BY <1>1, <1>2, <1>3 DEF InRange

LEMMA PositionOf ==
  ASSUME NEW m, Sound(m), m.lower < m.upper, NEW value \in Nat,
         InRange(value, m.lower, m.upper)
  PROVE  /\ HostPosition(m, value)
              = Scale(value - m.lower, m.upper - m.lower, m.stop - m.start) + m.start
         /\ Scale(value - m.lower, m.upper - m.lower, m.stop - m.start)
              \in 0 .. m.stop - m.start
         /\ value - m.lower \in Nat /\ value - m.lower <= m.upper - m.lower
         /\ InRange(HostPosition(m, value), m.start, m.stop)
         /\ HostPosition(m, value) \in Nat
<1> DEFINE q == Scale(value - m.lower, m.upper - m.lower, m.stop - m.start)
<1>1. /\ ConvertRange(value, m.lower, m.upper, m.start, m.stop) = q + m.start
      /\ q \in 0 .. m.stop - m.start
  BY Widths, ConvertIsScale DEF Sound
<1>2. m.start \in 0 .. EncMax /\ m.stop \in 0 .. EncMax /\ m.start < m.stop
      /\ EncMax \in Nat /\ m.lower \in Nat
  BY VirtmapAssumption, Widths DEF Sound
<1> HIDE DEF q
<1>3. PICK p \in Nat : p = q + m.start /\ p <= EncMax  BY <1>1, <1>2
<1>4. p % (EncMax + 1) = p  BY <1>2, <1>3
<1>5. HostPosition(m, value) = p  BY <1>1, <1>3, <1>4 DEF HostPosition
<1>6. HostPosition(m, value) = q + m.start /\ HostPosition(m, value) \in Nat
  BY <1>3, <1>5
<1>7. InRange(HostPosition(m, value), m.start, m.stop)
  BY <1>1, <1>2, <1>3, <1>5 DEF InRange
<1>8. value - m.lower \in Nat /\ value - m.lower <= m.upper - m.lower
  <2>1. m.lower \in Nat /\ m.upper \in Nat  BY Widths
  <2> QED  BY <2>1 DEF InRange
<1> QED  BY <1>1, <1>6, <1>7, <1>8 DEF q

-----------------------------------------------------------------------------
(* Every mapping looked at is sound and its position within its range.     *)
MapInv == Sound(map) /\ pos \in Nat /\ InRange(pos, map.start, map.stop)

LEMMA WholeSound == Sound(Whole) /\ Whole.start = 0
BY VirtmapAssumption DEF Sound, Whole

LEMMA MapInit == Init => MapInv
<1> SUFFICES ASSUME Init PROVE MapInv
  OBVIOUS
<1>1. CASE map \in Mapping /\ pos = map.start
  <2>1. /\ map.lower \in 0 .. CCMax /\ map.upper \in 0 .. CCMax
        /\ map.start \in 0 .. EncMax /\ map.stop \in 0 .. EncMax
        /\ map.lower # map.upper /\ map.start < map.stop /\ map.mode = "CC"
    <3>1. /\ map \in [mode : {"CC"}, cc : {0}, lower : Bounds, upper : Bounds,
                      start : Stops, stop : Stops]
          /\ map.lower # map.upper /\ map.start < map.stop
      BY <1>1 DEF Mapping
    <3>2. /\ map.mode = "CC" /\ map.lower \in Bounds /\ map.upper \in Bounds
          /\ map.start \in Stops /\ map.stop \in Stops
      BY <3>1
    <3>3. Bounds \subseteq 0 .. CCMax /\ Stops \subseteq 0 .. EncMax
      BY EncoderCheckAssumption
    <3>4. map.lower \in 0 .. CCMax /\ map.upper \in 0 .. CCMax
      BY <3>2, <3>3, Zenon
    <3>5. map.start \in 0 .. EncMax /\ map.stop \in 0 .. EncMax
      BY <3>2, <3>3, Zenon
    <3> QED  BY <3>1, <3>2, <3>4, <3>5
  <2> QED  BY <1>1, <2>1, VirtmapAssumption DEF MapInv, Sound, InRange
<1>2. CASE map = Whole /\ pos = 0
  BY <1>2, WholeSound, VirtmapAssumption DEF MapInv, Sound, InRange
<1> QED  BY <1>1, <1>2 DEF Init

LEMMA MapStep == MapInv /\ [Next]_vars => MapInv'
<1> SUFFICES ASSUME MapInv, [Next]_vars PROVE MapInv'
  OBVIOUS
<1>1. CASE Turn
  <2>1. PICK velocity \in {-7, -1, 1, 7} :
          /\ TakesPosition(map, pos, NewPosition(map, pos, velocity))
          /\ pos' = NewPosition(map, pos, velocity)
    BY <1>1 DEF Turn
  <2>2. map' = map /\ InRange(pos', map.start, map.stop)
    BY <1>1, <2>1 DEF Turn, TakesPosition
  <2>3. pos' \in Nat
    BY <2>1, VirtmapAssumption DEF NewPosition, Clamp, MapInv, Sound
  <2> QED  BY <2>2, <2>3 DEF MapInv
<1>2. CASE Host
  <2>1. PICK value \in 0 .. CCMax :
          /\ value >= map.lower /\ value <= map.upper
          /\ pos' = HostPosition(map, value)
    BY <1>2 DEF Host
  <2>2. map.lower < map.upper /\ InRange(value, map.lower, map.upper) /\ value \in Nat
    BY <2>1, VirtmapAssumption DEF MapInv, Sound, InRange
  <2>3. map' = map  BY <1>2 DEF Host
  <2> QED  BY <2>1, <2>2, <2>3, PositionOf DEF MapInv
<1>3. CASE NextHue \/ Brighten \/ Compare \/ UNCHANGED vars
  BY <1>3 DEF NextHue, Brighten, Compare, vars, MapInv
<1> QED  BY <1>1, <1>2, <1>3 DEF Next

LEMMA MapAlways == Spec => []MapInv
BY MapInit, MapStep, PTL DEF Spec

(* A turn never leaves the position range, nor does a value from the host; *)
(* the value a position sends is in the value range, and the ends of the   *)
(* one range are the ends of the other.                                    *)
THEOREM ValueInRangeAlways == Spec => []ValueInRange
<1>1. MapInv => ValueInRange
  <2> SUFFICES ASSUME MapInv PROVE ValueInRange
    OBVIOUS
  <2>1. ASSUME Straight
        PROVE  /\ InRange(MidiValue(map, pos), map.lower, map.upper)
               /\ pos = map.start => MidiValue(map, pos) = map.lower
               /\ pos = map.stop => MidiValue(map, pos) = map.upper
    <3>1. PICK x \in Nat, d \in Nat \ {0}, y \in Nat :
            /\ x = pos - map.start /\ d = map.stop - map.start
            /\ y = map.upper - map.lower /\ x <= d
            /\ MidiValue(map, pos) = Scale(x, d, y) + map.lower
            /\ map.lower \in Nat /\ map.upper \in Nat
      BY <2>1, ValueOf DEF MapInv, Straight
    <3>2. /\ Scale(x, d, y) \in 0 .. y
          /\ x = 0 => Scale(x, d, y) = 0
          /\ x = d => Scale(x, d, y) = y
      BY <3>1, ScaleFacts
    <3>3. /\ pos = map.start => x = 0
          /\ pos = map.stop => x = d
      BY <3>1 DEF MapInv, Sound
    <3>4. y + map.lower = map.upper  BY <3>1
    <3> QED  BY <3>1, <3>2, <3>3, <3>4 DEF InRange
  <2> QED  BY <2>1 DEF ValueInRange, MapInv
<1> QED  BY <1>1, MapAlways, PTL

(* Turning clockwise never lowers the value, turning back never raises it, *)
(* whatever the two ranges: no rounding makes the value jump back.         *)
THEOREM TurnIsMonotoneAlways == Spec => TurnIsMonotone
<1> DEFINE Monotone ==
      Straight /\ turned' =>
        IF pos' > pos THEN MidiValue(map, pos') >= MidiValue(map, pos)
                      ELSE MidiValue(map, pos') <= MidiValue(map, pos)
<1>1. ASSUME Sound(map), Straight, NEW p \in Nat, NEW q \in Nat, p <= q,
             InRange(p, map.start, map.stop), InRange(q, map.start, map.stop)
      PROVE  MidiValue(map, p) <= MidiValue(map, q)
  <2>1. PICK x \in Nat, y \in Nat, d \in Nat \ {0}, to \in Nat :
          /\ x = p - map.start /\ y = q - map.start
          /\ d = map.stop - map.start /\ to = map.upper - map.lower
          /\ x <= d /\ y <= d
          /\ MidiValue(map, p) = Scale(x, d, to) + map.lower
          /\ MidiValue(map, q) = Scale(y, d, to) + map.lower
          /\ map.lower \in Nat
    BY <1>1, ValueOf DEF Straight
  <2>2. x <= y  BY <1>1, <2>1 DEF Sound
  <2>3. Scale(x, d, to) <= Scale(y, d, to)  BY <2>2, ScaleMonotone
  <2>4. Scale(x, d, to) \in Int /\ Scale(y, d, to) \in Int  BY <2>1, ScaleFacts
  <2> QED  BY <2>1, <2>3, <2>4
<1>2. MapInv /\ MapInv' /\ [Next]_vars => [Monotone]_vars
  <2> SUFFICES ASSUME MapInv, MapInv', Next, Straight PROVE
        IF pos' > pos THEN MidiValue(map, pos') >= MidiValue(map, pos)
                      ELSE MidiValue(map, pos') <= MidiValue(map, pos)
    OBVIOUS
  <2>1. map' = map  BY DEF Next, Turn, Host, NextHue, Brighten, Compare
  <2>2. PICK p \in Nat, q \in Nat :
          /\ p = pos /\ q = pos'
          /\ InRange(p, map.start, map.stop) /\ InRange(q, map.start, map.stop)
    BY <2>1 DEF MapInv
  <2>3. p <= q => MidiValue(map, p) <= MidiValue(map, q)
    BY <1>1, <2>2 DEF MapInv
  <2>4. q <= p => MidiValue(map, q) <= MidiValue(map, p)
    BY <1>1, <2>2 DEF MapInv
  <2> QED  BY <2>2, <2>3, <2>4
<1> QED  BY <1>2, MapAlways, PTL DEF Spec, TurnIsMonotone

(* Scaled up and down again, a distance loses at most one.                 *)
LEMMA RoundTrip ==
  ASSUME NEW x \in Nat, NEW y \in Nat \ {0}, NEW d \in Nat \ {0}, x <= y, y <= d
  PROVE  Scale(Scale(x, y, d), d, y) \in {x - 1, x}
<1> DEFINE k == Scale(x, y, d)
<1>1. x * d \in Nat  BY ProductBound
<1>2. PICK n \in Nat : n = x * d /\ n = d * x  BY <1>1
<1>3. k \in Nat /\ y * k \in Nat /\ y * k <= n /\ n < y * k + y
  BY <1>1, <1>2, Quotient DEF Scale
<1> HIDE DEF k
<1>4. PICK m \in Nat : m = y * k /\ m = k * y  BY <1>3
<1>5. m <= d * x  BY <1>2, <1>3, <1>4
<1>6. d * x < m + d
  BY <1>2, <1>3, <1>4
<1>7. m \div d <= x /\ x <= (m \div d) + 1 /\ m \div d \in Nat
  BY <1>5, <1>6, QuotientIs, Quotient
<1>8. Scale(k, d, y) = m \div d  BY <1>4 DEF Scale
<1> QED  BY <1>7, <1>8 DEF k

(* A value from the host survives the way through the position within one  *)
(* step, as long as there are as many positions as values.                 *)
THEOREM HostValueKeptAlways == Spec => HostValueKept
<1> DEFINE Kept ==
      ~turned' /\ Straight /\ map.stop - map.start >= map.upper - map.lower =>
        \A value \in map.lower .. map.upper :
          pos' = HostPosition(map, value) =>
            MidiValue(map, pos') \in {value - 1, value}
<1>1. MapInv => Kept
  <2> SUFFICES ASSUME MapInv, Straight,
                      map.stop - map.start >= map.upper - map.lower,
                      NEW value \in map.lower .. map.upper
               PROVE  MidiValue(map, HostPosition(map, value)) \in {value - 1, value}
    OBVIOUS
  <2>1. Sound(map) /\ map.lower < map.upper  BY DEF MapInv, Straight
  <2>2. map.lower \in Nat /\ map.upper \in Nat /\ map.start \in Nat /\ map.stop \in Nat
    BY <2>1, Widths
  <2>3. value \in Nat /\ InRange(value, map.lower, map.upper)
    BY <2>2 DEF InRange
  <2>4. PICK x \in Nat, y \in Nat \ {0}, d \in Nat \ {0} :
          /\ x = value - map.lower /\ y = map.upper - map.lower
          /\ d = map.stop - map.start /\ x <= y /\ y <= d
    BY <2>1, <2>2, <2>3 DEF InRange, Sound
  <2>5. PICK p \in Nat :
          /\ p = HostPosition(map, value) /\ p = Scale(x, y, d) + map.start
          /\ InRange(p, map.start, map.stop)
    BY <2>1, <2>3, <2>4, PositionOf
  <2>6. Scale(x, y, d) \in Int  BY <2>4, ScaleFacts
  <2>7. p - map.start = Scale(x, y, d)  BY <2>2, <2>5, <2>6
  <2>8. MidiValue(map, p) = Scale(Scale(x, y, d), d, y) + map.lower
    BY <2>1, <2>4, <2>5, <2>7, ValueOf
  <2>9. Scale(Scale(x, y, d), d, y) \in {x - 1, x}  BY <2>4, RoundTrip
  <2> QED  BY <2>2, <2>3, <2>4, <2>5, <2>8, <2>9
<1>2. Spec => [][Kept]_vars
  <2>1. MapInv /\ [Next]_vars => [Kept]_vars  BY <1>1
  <2> QED  BY <2>1, MapAlways, PTL DEF Spec
<1> QED  BY <1>2 DEF HostValueKept

-----------------------------------------------------------------------------
(* The colour.  Hue, saturation and value stay in their ranges.            *)
Byte(x) == x \in Nat /\ x <= 255

Coloring ==
  /\ hsv.hue \in Nat /\ hsv.hue < HueSteps
  /\ Byte(hsv.saturation) /\ Byte(hsv.value)

LEMMA LevelRange == \A v \in Levels : Byte(v)
<1>1. Levels \subseteq 0 .. 255  BY EncoderCheckAssumption
<1> SUFFICES ASSUME NEW v \in Levels PROVE v \in Nat /\ v <= 255
  BY DEF Byte
<1>2. v \in 0 .. 255  BY <1>1, Zenon
<1> QED  BY <1>2

LEMMA ColoringInit == Init => Coloring
<1> SUFFICES ASSUME Init PROVE Coloring
  OBVIOUS
<1>1. CASE hsv = Black  BY <1>1 DEF Black, Coloring, HueSteps, Byte
<1>2. CASE hsv \in [hue : {0}, saturation : Levels, value : Levels]
  <2>1. hsv.hue = 0 /\ hsv.saturation \in Levels /\ hsv.value \in Levels
    BY <1>2
  <2> QED  BY <2>1, LevelRange DEF Coloring, HueSteps
<1> QED  BY <1>1, <1>2 DEF Init

LEMMA ColoringStep == Coloring /\ [Next]_vars => Coloring'
<1> SUFFICES ASSUME Coloring, [Next]_vars PROVE Coloring'
  OBVIOUS
<1>1. ASSUME NEW h \in Nat, NEW v, Byte(v), hsv' = SetHsv(h, hsv.saturation, v)
      PROVE  Coloring'
  <2>1. /\ hsv'.hue = IF h >= HueSteps THEN HueSteps - 1 ELSE h
        /\ hsv'.saturation = hsv.saturation /\ hsv'.value = v
    BY <1>1 DEF SetHsv
  <2> QED  BY <1>1, <2>1 DEF Coloring, HueSteps
<1>2. CASE NextHue
  <2>1. hsv.hue + HueStride \in Nat  BY EncoderCheckAssumption DEF Coloring
  <2> QED  BY <1>1, <1>2, <2>1 DEF NextHue, Coloring
<1>3. CASE Brighten
  <2>1. PICK v \in Levels : hsv' = SetHsv(hsv.hue, hsv.saturation, v)
    BY <1>3 DEF Brighten
  <2>2. hsv.hue \in Nat /\ Byte(v)  BY <2>1, LevelRange DEF Coloring
  <2> QED  BY <1>1, <2>1, <2>2
<1>4. CASE Turn \/ Host \/ Compare \/ UNCHANGED vars
  BY <1>4 DEF Turn, Host, Compare, vars, Coloring
<1> QED  BY <1>2, <1>3, <1>4 DEF Next

(* The lowest level: what the saturation leaves.                           *)
LEMMA BottomLevel ==
  ASSUME NEW s \in Nat, NEW v \in Nat, s <= 255, v <= 255
  PROVE  \E a \in Nat, b \in Nat :
           /\ a = v * (255 - s) /\ a <= 65025
           /\ b = ((a + 1) + ((a + 1) \div 256)) \div 256
           /\ b = Bottom(s, v) /\ b <= 255
<1>1. PICK y \in Nat : y = 255 - s /\ y <= 255
  <2>1. 255 - s \in Nat /\ 255 - s <= 255  OBVIOUS
  <2> QED  BY <2>1
<1>2. v * y \in Nat /\ v * y <= 255 * 255  BY <1>1, ProductBound
<1>3. PICK a \in Nat : a = v * y /\ a <= 65025  BY <1>2
<1>4. PICK w \in Nat : w = (a + 1) + ((a + 1) \div 256) /\ w < 65536
  <2>1. (a + 1) \div 256 \in Nat /\ (a + 1) \div 256 <= 254  BY <1>3
  <2>2. (a + 1) + ((a + 1) \div 256) \in Nat
        /\ (a + 1) + ((a + 1) \div 256) < 65536
    BY <1>3, <2>1
  <2> QED  BY <2>2
<1>5. Corrected(a + 1) = w  BY <1>4 DEF Corrected, Word
<1>6. PICK b \in Nat : b = w \div 256 /\ b <= 255
  <2>1. w \div 256 \in Nat /\ w \div 256 <= 255  BY <1>4
  <2> QED  BY <2>1
<1>7. HighByte(w) = b
  <2>1. b % 256 = b  BY <1>6
  <2> QED  BY <1>6, <2>1 DEF HighByte
<1> QED  BY <1>1, <1>3, <1>4, <1>5, <1>6, <1>7 DEF Bottom


(* A level between: a share of the value, by a product w.                  *)
Scales(v, w) == v \in Nat /\ w \in Nat /\ v <= 255 /\ w <= 65280

ScaledBy(v, w, x, y, n, g) ==
  /\ x = (w + (w \div 256)) \div 256 /\ x <= 255
  /\ y = 255 - x /\ n = v * y /\ n <= 65025
  /\ g = (n + (v \div 2)) \div 256
  /\ g = Scaled(v, w) /\ g <= 255

LEMMA ScaledLevel ==
  ASSUME NEW v, NEW w, Scales(v, w)
  PROVE  \E x \in Nat, y \in Nat, n \in Nat, g \in Nat : ScaledBy(v, w, x, y, n, g)
<1>0. v \in Nat /\ w \in Nat /\ v <= 255 /\ w <= 65280  BY DEF Scales
<1>1. PICK u \in Nat : u = w + (w \div 256) /\ u < 65536
  <2>1. w \div 256 \in Nat /\ w \div 256 <= 255  BY <1>0
  <2>2. w + (w \div 256) \in Nat /\ w + (w \div 256) < 65536  BY <1>0, <2>1
  <2> QED  BY <2>2
<1>2. PICK x \in Nat : x = u \div 256 /\ x <= 255
  <2>1. u \div 256 \in Nat /\ u \div 256 <= 255  BY <1>1
  <2> QED  BY <2>1
<1>3. HighByte(Corrected(w)) = x
  <2>1. Corrected(w) = u  BY <1>1 DEF Corrected, Word
  <2>2. x % 256 = x  BY <1>2
  <2> QED  BY <1>2, <2>1, <2>2 DEF HighByte
<1>4. PICK y \in Nat : y = 255 - x /\ y <= 255
  <2>1. 255 - x \in Nat /\ 255 - x <= 255  BY <1>2
  <2> QED  BY <2>1
<1>5. v * y \in Nat /\ v * y <= 255 * 255  BY <1>0, <1>4, ProductBound
<1>6. PICK n \in Nat : n = v * y /\ n <= 65025  BY <1>5
<1>7. PICK m \in Nat : m = n + (v \div 2) /\ m <= 65152
  <2>1. v \div 2 \in Nat /\ v \div 2 <= 127  BY <1>0
  <2>2. n + (v \div 2) \in Nat /\ n + (v \div 2) <= 65152  BY <1>6, <2>1
  <2> QED  BY <2>2
<1>8. PICK g \in Nat : g = m \div 256 /\ g <= 255
  <2>1. m \div 256 \in Nat /\ m \div 256 <= 255  BY <1>7
  <2> QED  BY <2>1
<1>9. HighByte(m) = g
  <2>1. g % 256 = g  BY <1>8
  <2> QED  BY <1>8, <2>1 DEF HighByte
<1>10. Scaled(v, w) = HighByte(m)
  BY <1>3, <1>4, <1>6, <1>7 DEF Scaled
<1>11. ScaledBy(v, w, x, y, n, g)
  BY <1>1, <1>2, <1>4, <1>6, <1>7, <1>8, <1>9, <1>10 DEF ScaledBy
<1> QED  BY <1>11

(* How near they come to the definition.                                   *)
Near(got, exact) == got - exact <= 130560 /\ exact - got <= 130560

LEMMA BottomNear ==
  ASSUME NEW s \in Nat, NEW v \in Nat, s <= 255, v <= 255
  PROVE  Near(Bottom(s, v) * 65280, v * (65280 - (s * 256)))
<1>1. PICK a \in Nat, b \in Nat :
        /\ a = v * (255 - s) /\ a <= 65025
        /\ b = ((a + 1) + ((a + 1) \div 256)) \div 256
        /\ b = Bottom(s, v) /\ b <= 255
  BY BottomLevel
<1>2. v * (65280 - (s * 256)) = 256 * a
  <2>1. 65280 - (s * 256) = 256 * (255 - s)  OBVIOUS
  <2>2. v * (256 * (255 - s)) = 256 * (v * (255 - s))  OBVIOUS
  <2> QED  BY <1>1, <2>1, <2>2
<1>3. PICK p \in Nat : p = (a + 1) \div 256 /\ 256 * p <= a + 1 /\ a + 1 < (256 * p) + 256
  <2>1. (a + 1) \div 256 \in Nat  OBVIOUS
  <2> QED  BY <2>1
<1>4. 256 * b <= (a + 1) + p /\ (a + 1) + p < (256 * b) + 256
  BY <1>1, <1>3
<1>5. (b * 65280) - (256 * a) <= 130560 /\ (256 * a) - (b * 65280) <= 130560
  BY <1>1, <1>3, <1>4
<1> QED  BY <1>1, <1>2, <1>5 DEF Near

LEMMA ScaledNear ==
  ASSUME NEW v \in Nat, NEW w \in Nat, Scales(v, w)
  PROVE  Near(Scaled(v, w) * 65280, v * (65280 - w))
<1>0. PICK x \in Nat, y \in Nat, n \in Nat, g \in Nat : ScaledBy(v, w, x, y, n, g)
  BY ScaledLevel, Zenon
<1>1. /\ v <= 255 /\ w <= 65280
      /\ x = (w + (w \div 256)) \div 256 /\ x <= 255
      /\ y = 255 - x /\ n = v * y /\ n <= 65025
      /\ g = (n + (v \div 2)) \div 256
      /\ g = Scaled(v, w) /\ g <= 255
  BY <1>0 DEF ScaledBy, Scales
<1>2. PICK d \in Nat : d = w - (255 * x) /\ d <= 255
  <2>1. PICK p \in Nat : p = w \div 256 /\ 256 * p <= w /\ w < (256 * p) + 256
    <3>1. w \div 256 \in Nat  OBVIOUS
    <3> QED  BY <3>1
  <2>2. 256 * x <= w + p /\ w + p < (256 * x) + 256
    BY <1>1, <2>1
  <2>3. x = p \/ x = p + 1  BY <1>1, <2>1, <2>2
  <2>4. w - (255 * x) \in Nat /\ w - (255 * x) <= 255  BY <1>1, <2>1, <2>2, <2>3
  <2> QED  BY <2>4
<1>3. PICK e \in Nat : e = v * d /\ e <= 65025 /\ e <= 255 * v
  <2>1. v * d \in Nat /\ v * d <= 255 * 255  BY <1>1, <1>2, ProductBound
  <2>2. v * d <= v * 255  BY <1>2, ProductBound
  <2> QED  BY <2>1, <2>2
<1>4. v * (65280 - w) = ((255 * n) + (255 * v)) - e
  <2>1. 65280 - w = ((255 * y) + 255) - d  BY <1>1, <1>2
  <2>2. v * (((255 * y) + 255) - d) = ((255 * (v * y)) + (255 * v)) - (v * d)
    OBVIOUS
  <2> QED  BY <1>1, <1>3, <2>1, <2>2
<1>5. PICK h \in Nat : h = v \div 2 /\ h <= 127 /\ 2 * h <= v /\ v <= (2 * h) + 1
  <2>1. v \div 2 \in Nat /\ v \div 2 <= 127  BY <1>1
  <2> QED  BY <2>1
<1>6. 256 * g <= n + h /\ n + h < (256 * g) + 256
  BY <1>1, <1>5
<1>7. /\ (g * 65280) - (((255 * n) + (255 * v)) - e) <= 130560
      /\ (((255 * n) + (255 * v)) - e) - (g * 65280) <= 130560
  BY <1>3, <1>5, <1>6
<1> QED  BY <1>1, <1>4, <1>7 DEF Near

(* The lamps of the three levels, and their share of the hue.              *)
Trio(roles, x, y, z) ==
  /\ roles = <<x, y, z>> /\ Lamps = {x, y, z}
  /\ x # y /\ x # z /\ y # z

LEMMA RolesTrio ==
  ASSUME NEW t \in 0 .. 5
  PROVE  \E x, y, z : Trio(Roles(t), x, y, z)
<1>1. CASE t = 0
  <2>1. Trio(Roles(t), "red", "green", "blue")  BY <1>1 DEF Roles, Trio, Lamps
  <2> QED  BY <2>1
<1>2. CASE t = 1
  <2>1. Trio(Roles(t), "green", "red", "blue")  BY <1>2 DEF Roles, Trio, Lamps
  <2> QED  BY <2>1
<1>3. CASE t = 2
  <2>1. Trio(Roles(t), "green", "blue", "red")  BY <1>3 DEF Roles, Trio, Lamps
  <2> QED  BY <2>1
<1>4. CASE t = 3
  <2>1. Trio(Roles(t), "blue", "green", "red")  BY <1>4 DEF Roles, Trio, Lamps
  <2> QED  BY <2>1
<1>5. CASE t = 4
  <2>1. Trio(Roles(t), "blue", "red", "green")  BY <1>5 DEF Roles, Trio, Lamps
  <2> QED  BY <2>1
<1>6. CASE t = 5
  <2>1. Trio(Roles(t), "red", "blue", "green")  BY <1>6 DEF Roles, Trio, Lamps
  <2> QED  BY <2>1
<1> QED  BY <1>1, <1>2, <1>3, <1>4, <1>5, <1>6

Sextant(h) == h \div 256
Fraction(h) == h % 256

LEMMA HueParts ==
  ASSUME NEW h \in Nat, h < HueSteps
  PROVE  /\ Sextant(h) \in 0 .. 5 /\ Fraction(h) \in Nat /\ Fraction(h) <= 255
         /\ h = (256 * Sextant(h)) + Fraction(h)
BY DEF HueSteps, Sextant, Fraction

(* The lamp of the highest level has all of the hue, that of the lowest    *)
(* nothing, the one between what the fraction says.                        *)
Between(t, f) == IF t % 2 = 0 THEN f ELSE 256 - f

LEMMA Shares ==
  ASSUME NEW t \in 0 .. 5, NEW f \in Nat, f <= 255,
         NEW x, NEW y, NEW z, Roles(t) = <<x, y, z>>
  PROVE  /\ Share((256 * t) + f, x) = 256
         /\ Share((256 * t) + f, y) = Between(t, f)
         /\ Share((256 * t) + f, z) = 0
<1>1. /\ Peak["red"] = 0 /\ Peak["green"] = 512 /\ Peak["blue"] = 1024
  BY DEF Peak
<1> USE DEF Share, Between, Clamp, HueSteps
<1>2. CASE t = 0
  <2>1. x = "red" /\ y = "green" /\ z = "blue"  BY <1>2 DEF Roles
  <2> QED  BY <1>1, <1>2, <2>1
<1>3. CASE t = 1
  <2>1. x = "green" /\ y = "red" /\ z = "blue"  BY <1>3 DEF Roles
  <2> QED  BY <1>1, <1>3, <2>1
<1>4. CASE t = 2
  <2>1. x = "green" /\ y = "blue" /\ z = "red"  BY <1>4 DEF Roles
  <2> QED  BY <1>1, <1>4, <2>1
<1>5. CASE t = 3
  <2>1. x = "blue" /\ y = "green" /\ z = "red"  BY <1>5 DEF Roles
  <2> QED  BY <1>1, <1>5, <2>1
<1>6. CASE t = 4
  <2>1. x = "blue" /\ y = "red" /\ z = "green"  BY <1>6 DEF Roles
  <2> QED  BY <1>1, <1>6, <2>1
<1>7. CASE t = 5
  <2>1. x = "red" /\ y = "blue" /\ z = "green"  BY <1>7 DEF Roles
  <2> QED  BY <1>1, <1>7, <2>1
<1> QED  BY <1>2, <1>3, <1>4, <1>5, <1>6, <1>7

(* The product the level between is scaled by.                             *)
Slopes(s, v, t, f) ==
  /\ s \in Nat /\ v \in Nat /\ t \in 0 .. 5 /\ f \in Nat
  /\ s <= 255 /\ v <= 255 /\ f <= 255

SlopedBy(s, v, t, f, w) ==
  /\ Scales(v, w) /\ Slope(s, v, t, f) = Scaled(v, w)
  /\ w = s * (256 - Between(t, f))

LEMMA SlopeScales ==
  ASSUME NEW s, NEW v, NEW t, NEW f, Slopes(s, v, t, f)
  PROVE  \E w \in Nat : SlopedBy(s, v, t, f, w)
<1>0. /\ s \in Nat /\ v \in Nat /\ t \in 0 .. 5 /\ f \in Nat
      /\ s <= 255 /\ v <= 255 /\ f <= 255
  BY DEF Slopes
<1>1. PICK y \in Nat : y = 256 - Between(t, f) /\ y <= 256
  <2>1. 256 - Between(t, f) \in Nat /\ 256 - Between(t, f) <= 256
    BY <1>0 DEF Between
  <2> QED  BY <2>1
<1>2. s * y \in Nat /\ s * y <= 255 * 256  BY <1>0, <1>1, ProductBound
<1>3. PICK w \in Nat : w = s * y /\ w <= 65280  BY <1>2
<1>4. Slope(s, v, t, f) = Scaled(v, w)
  <2>1. CASE t % 2 = 0
    <3>1. y = 256 - f  BY <1>1, <2>1 DEF Between
    <3>2. w = IF f = 0 THEN s * 256 ELSE s * (256 - f)  BY <1>0, <1>3, <3>1
    <3> QED  BY <2>1, <3>2 DEF Slope
  <2>2. CASE t % 2 # 0
    <3>1. y = f  BY <1>0, <1>1, <2>2 DEF Between
    <3> QED  BY <1>3, <2>2, <3>1 DEF Slope
  <2> QED  BY <2>1, <2>2
<1>5. Scales(v, w)  BY <1>0, <1>3 DEF Scales
<1> QED  BY <1>1, <1>3, <1>4, <1>5 DEF SlopedBy

(* The three levels of a colour, and the lamps that have them.             *)
Placed(roles, level) ==
  [lamp \in Lamps |-> level[CHOOSE k \in 1 .. 3 : roles[k] = lamp]]

LEMMA LinearPlaced ==
  ASSUME NEW h \in Nat, h < HueSteps, NEW s \in Nat \ {0}, NEW v
  PROVE  Linear(h, s, v) =
           Placed(Roles(Sextant(h)),
                  <<v, Slope(s, v, Sextant(h), Fraction(h)), Bottom(s, v)>>)
<1> DEFINE t == IF h \div 256 > 5 THEN 5 ELSE h \div 256
<1>1. t = Sextant(h)  BY HueParts DEF Sextant
<1>2. h % 256 = Fraction(h)  BY DEF Fraction
<1>3. s # 0  OBVIOUS
<1>4. Linear(h, s, v) =
        IF s = 0 THEN [lamp \in Lamps |-> v]
        ELSE Placed(Roles(t), <<v, Slope(s, v, t, h % 256), Bottom(s, v)>>)
  BY Zenon DEF Linear, Placed
<1> HIDE DEF t
<1> QED  BY <1>1, <1>2, <1>3, <1>4, Zenon

Colourful(h, s, x, y, z) ==
  /\ h \in Nat /\ h < HueSteps /\ s \in Nat \ {0}
  /\ Trio(Roles(Sextant(h)), x, y, z)

Leveled(h, s, v, x, y, z) ==
  /\ Linear(h, s, v)[x] = v
  /\ Linear(h, s, v)[y] = Slope(s, v, Sextant(h), Fraction(h))
  /\ Linear(h, s, v)[z] = Bottom(s, v)

LEMMA Levels3 ==
  ASSUME NEW h, NEW s, NEW v, NEW x, NEW y, NEW z, Colourful(h, s, x, y, z)
  PROVE  Leveled(h, s, v, x, y, z)
<1>0. /\ h \in Nat /\ h < HueSteps /\ s \in Nat \ {0}
      /\ Trio(Roles(Sextant(h)), x, y, z)
  BY DEF Colourful
<1>1. PICK m, b : m = Slope(s, v, Sextant(h), Fraction(h)) /\ b = Bottom(s, v)
  OBVIOUS
<1>2. Linear(h, s, v) = Placed(<<x, y, z>>, <<v, m, b>>)
  BY <1>0, <1>1, LinearPlaced DEF Trio
<1>3. /\ (CHOOSE k \in 1 .. 3 : <<x, y, z>>[k] = x) = 1
      /\ (CHOOSE k \in 1 .. 3 : <<x, y, z>>[k] = y) = 2
      /\ (CHOOSE k \in 1 .. 3 : <<x, y, z>>[k] = z) = 3
  BY <1>0 DEF Trio
<1>4. x \in Lamps /\ y \in Lamps /\ z \in Lamps  BY <1>0 DEF Trio
<1>5. /\ Placed(<<x, y, z>>, <<v, m, b>>)[x] = v
      /\ Placed(<<x, y, z>>, <<v, m, b>>)[y] = m
      /\ Placed(<<x, y, z>>, <<v, m, b>>)[z] = b
  <2>1. \A lamp \in Lamps :
          Placed(<<x, y, z>>, <<v, m, b>>)[lamp] =
            <<v, m, b>>[CHOOSE k \in 1 .. 3 : <<x, y, z>>[k] = lamp]
    BY Zenon DEF Placed
  <2>2. /\ Placed(<<x, y, z>>, <<v, m, b>>)[x] = <<v, m, b>>[1]
        /\ Placed(<<x, y, z>>, <<v, m, b>>)[y] = <<v, m, b>>[2]
        /\ Placed(<<x, y, z>>, <<v, m, b>>)[z] = <<v, m, b>>[3]
    BY <1>3, <1>4, <2>1, Zenon
  <2> QED  BY <2>2
<1> QED  BY <1>1, <1>2, <1>5 DEF Leveled

LEMMA LampAsDefined ==
  ASSUME NEW h \in Nat, h < HueSteps, NEW s \in Nat, NEW v \in Nat,
         s <= 255, v <= 255, NEW lamp \in Lamps
  PROVE  Near(Linear(h, s, v)[lamp] * 65280,
              v * (65280 - (s * (256 - Share(h, lamp)))))
<1>0. PICK t \in 0 .. 5, f \in Nat :
        /\ t = Sextant(h) /\ f = Fraction(h) /\ f <= 255 /\ h = (256 * t) + f
  BY HueParts
<1>1. PICK x, y, z : Trio(Roles(t), x, y, z)  BY RolesTrio
<1>2. /\ Share(h, x) = 256 /\ Share(h, y) = Between(t, f) /\ Share(h, z) = 0
      /\ Lamps = {x, y, z}
  BY <1>0, <1>1, Shares DEF Trio
<1>3. CASE s = 0
  <2>1. Linear(h, s, v)[lamp] = v  BY <1>3, Zenon DEF Linear
  <2>2. PICK share \in Int : share = Share(h, lamp)
    <3>1. Between(t, f) \in Int  BY <1>0 DEF Between
    <3> QED  BY <1>2, <3>1
  <2>3. s * (256 - share) = 0  BY <1>3
  <2>4. v * (65280 - (s * (256 - share))) = v * 65280  BY <2>3
  <2>5. (v * 65280) - (v * 65280) = 0  OBVIOUS
  <2> QED  BY <2>1, <2>2, <2>4, <2>5 DEF Near
<1>4. CASE s # 0
  <2>1. /\ Linear(h, s, v)[x] = v
        /\ Linear(h, s, v)[y] = Slope(s, v, t, f)
        /\ Linear(h, s, v)[z] = Bottom(s, v)
    <3>1. Colourful(h, s, x, y, z)  BY <1>0, <1>1, <1>4 DEF Colourful
    <3>2. Leveled(h, s, v, x, y, z)  BY <3>1, Levels3, Zenon
    <3> QED  BY <1>0, <3>2 DEF Leveled
  <2>2. CASE lamp = x
    <3>1. s * (256 - 256) = 0  OBVIOUS
    <3>2. v * (65280 - (s * (256 - 256))) = v * 65280  BY <3>1
    <3> QED  BY <1>2, <2>1, <2>2, <3>2 DEF Near
  <2>3. CASE lamp = y
    <3>1. PICK w \in Nat :
            /\ Scales(v, w) /\ Slope(s, v, t, f) = Scaled(v, w)
            /\ w = s * (256 - Between(t, f))
      <4>1. Slopes(s, v, t, f)  BY <1>0 DEF Slopes
      <4>2. PICK w \in Nat : SlopedBy(s, v, t, f, w)
        BY <4>1, SlopeScales, Zenon
      <4> QED  BY <4>2 DEF SlopedBy
    <3>2. Near(Scaled(v, w) * 65280, v * (65280 - w))  BY <3>1, ScaledNear
    <3> QED  BY <1>2, <2>1, <2>3, <3>1, <3>2
  <2>4. CASE lamp = z
    <3>1. 256 - 0 = 256  OBVIOUS
    <3>2. Near(Bottom(s, v) * 65280, v * (65280 - (s * 256)))  BY BottomNear
    <3> QED  BY <1>2, <2>1, <2>4, <3>1, <3>2
  <2> QED  BY <1>2, <2>2, <2>3, <2>4
<1> QED  BY <1>3, <1>4

(* The levels the firmware computes on 16 bits are those of the            *)
(* definition, within two steps of 255.                                    *)
THEOREM ColourAsDefinedAlways == Spec => []ColourAsDefined
<1>1. Coloring => ColourAsDefined
  <2> SUFFICES ASSUME Coloring, NEW lamp \in Lamps
               PROVE  LET unit == 255 * 256
                          exact == hsv.value
                                     * (unit - hsv.saturation
                                                 * (256 - Share(hsv.hue, lamp)))
                          got == Linear(hsv.hue, hsv.saturation, hsv.value)[lamp] * unit
                      IN  got - exact <= 2 * unit /\ exact - got <= 2 * unit
    BY DEF ColourAsDefined
  <2>1. PICK h \in Nat, s \in Nat, v \in Nat :
          /\ h = hsv.hue /\ s = hsv.saturation /\ v = hsv.value
          /\ h < HueSteps /\ s <= 255 /\ v <= 255
    BY DEF Coloring, Byte
  <2>2. Near(Linear(h, s, v)[lamp] * 65280,
             v * (65280 - (s * (256 - Share(h, lamp)))))
    BY <2>1, LampAsDefined
  <2>3. 255 * 256 = 65280 /\ 2 * 65280 = 130560  OBVIOUS
  <2> QED  BY <2>1, <2>2, <2>3 DEF Near
<1>2. Init => Coloring  BY ColoringInit
<1>3. Coloring /\ [Next]_vars => Coloring'  BY ColoringStep
<1> QED  BY <1>1, <1>2, <1>3, PTL DEF Spec

(* A brighter colour: every level is at least as high.                     *)
LEMMA QuotientGrows ==
  ASSUME NEW a \in Nat, NEW b \in Nat, a <= b
  PROVE  a \div 256 \in Nat /\ b \div 256 \in Nat /\ a \div 256 <= b \div 256
OBVIOUS

LEMMA BottomGrows ==
  ASSUME NEW s \in Nat, NEW u \in Nat, NEW v \in Nat, s <= 255, u <= v, v <= 255
  PROVE  Bottom(s, u) \in Nat /\ Bottom(s, v) \in Nat /\ Bottom(s, u) <= Bottom(s, v)
<1>1. PICK a \in Nat, b \in Nat :
        /\ a = u * (255 - s) /\ b = ((a + 1) + ((a + 1) \div 256)) \div 256
        /\ b = Bottom(s, u)
  BY BottomLevel
<1>2. PICK c \in Nat, d \in Nat :
        /\ c = v * (255 - s) /\ d = ((c + 1) + ((c + 1) \div 256)) \div 256
        /\ d = Bottom(s, v)
  BY BottomLevel
<1>3. a <= c
  <2>1. 255 - s \in Nat  OBVIOUS
  <2>2. (255 - s) * u <= (255 - s) * v  BY <2>1, ProductBound
  <2>3. (255 - s) * u = a /\ (255 - s) * v = c  BY <1>1, <1>2, <2>1
  <2> QED  BY <2>2, <2>3
<1>4. PICK p \in Nat, q \in Nat :
        p = (a + 1) \div 256 /\ q = (c + 1) \div 256 /\ p <= q
  BY <1>3, QuotientGrows
<1>5. b <= d  BY <1>1, <1>2, <1>3, <1>4, QuotientGrows
<1> QED  BY <1>1, <1>2, <1>5

LEMMA ScaledGrows ==
  ASSUME NEW u \in Nat, NEW v \in Nat, NEW w, u <= v, Scales(u, w), Scales(v, w)
  PROVE  Scaled(u, w) \in Nat /\ Scaled(v, w) \in Nat /\ Scaled(u, w) <= Scaled(v, w)
<1>1. PICK x \in Nat, y \in Nat, n \in Nat, g \in Nat : ScaledBy(u, w, x, y, n, g)
  BY ScaledLevel, Zenon
<1>2. PICK x2 \in Nat, y2 \in Nat, n2 \in Nat, g2 \in Nat :
        ScaledBy(v, w, x2, y2, n2, g2)
  BY ScaledLevel, Zenon
<1>3. /\ x = x2 /\ y = y2 /\ n = u * y /\ n2 = v * y
      /\ g = (n + (u \div 2)) \div 256 /\ g2 = (n2 + (v \div 2)) \div 256
      /\ g = Scaled(u, w) /\ g2 = Scaled(v, w)
  BY <1>1, <1>2 DEF ScaledBy
<1>4. n <= n2
  <2>1. y * u <= y * v  BY ProductBound
  <2>2. y * u = n /\ y * v = n2  BY <1>3
  <2> QED  BY <2>1, <2>2
<1>5. u \div 2 \in Nat /\ v \div 2 \in Nat /\ u \div 2 <= v \div 2  OBVIOUS
<1>6. PICK a \in Nat, b \in Nat :
        a = n + (u \div 2) /\ b = n2 + (v \div 2) /\ a <= b
  BY <1>4, <1>5
<1>7. g <= g2  BY <1>3, <1>6, QuotientGrows
<1> QED  BY <1>3, <1>7

Rising(h, s, u, v) ==
  /\ h \in Nat /\ h < HueSteps /\ s \in Nat /\ s <= 255
  /\ u \in Nat /\ v \in Nat /\ u <= v /\ v <= 255

InOrder(m, n) == m \in Nat /\ n \in Nat /\ m <= n

LEMMA LampBrighter ==
  ASSUME NEW h, NEW s, NEW u, NEW v, NEW lamp \in Lamps, Rising(h, s, u, v)
  PROVE  InOrder(Linear(h, s, u)[lamp], Linear(h, s, v)[lamp])
<1> USE DEF InOrder
<1>r. /\ h \in Nat /\ h < HueSteps /\ s \in Nat /\ s <= 255
      /\ u \in Nat /\ v \in Nat /\ u <= v /\ v <= 255
  BY DEF Rising
<1>0. PICK t \in 0 .. 5, f \in Nat : t = Sextant(h) /\ f = Fraction(h) /\ f <= 255
  BY <1>r, HueParts
<1>1. PICK x, y, z : Trio(Roles(t), x, y, z)  BY RolesTrio
<1>2. CASE s = 0
  <2>1. Linear(h, s, u)[lamp] = u /\ Linear(h, s, v)[lamp] = v
    BY <1>2, Zenon DEF Linear
  <2> QED  BY <1>r, <2>1
<1>3. CASE s # 0
  <2>1. Colourful(h, s, x, y, z)  BY <1>r, <1>0, <1>1, <1>3 DEF Colourful
  <2>2. Leveled(h, s, u, x, y, z) /\ Leveled(h, s, v, x, y, z)
    BY <2>1, Levels3, Zenon
  <2>3. /\ Linear(h, s, u)[x] = u /\ Linear(h, s, v)[x] = v
        /\ Linear(h, s, u)[y] = Slope(s, u, t, f)
        /\ Linear(h, s, v)[y] = Slope(s, v, t, f)
        /\ Linear(h, s, u)[z] = Bottom(s, u) /\ Linear(h, s, v)[z] = Bottom(s, v)
    BY <1>0, <2>2 DEF Leveled
  <2>4. CASE lamp = x  BY <1>r, <2>3, <2>4
  <2>5. CASE lamp = y
    <3>1. Slopes(s, u, t, f) /\ Slopes(s, v, t, f)  BY <1>r, <1>0 DEF Slopes
    <3>2. PICK w \in Nat : SlopedBy(s, u, t, f, w)  BY <3>1, SlopeScales, Zenon
    <3>3. PICK w2 \in Nat : SlopedBy(s, v, t, f, w2)  BY <3>1, SlopeScales, Zenon
    <3>4. /\ w = w2 /\ Scales(u, w) /\ Scales(v, w)
          /\ Slope(s, u, t, f) = Scaled(u, w) /\ Slope(s, v, t, f) = Scaled(v, w)
      BY <3>2, <3>3 DEF SlopedBy
    <3>5. Scaled(u, w) \in Nat /\ Scaled(v, w) \in Nat /\ Scaled(u, w) <= Scaled(v, w)
      BY <1>r, <3>4, ScaledGrows
    <3> QED  BY <2>3, <2>5, <3>4, <3>5
  <2>6. CASE lamp = z
    <3>1. /\ Bottom(s, u) \in Nat /\ Bottom(s, v) \in Nat
          /\ Bottom(s, u) <= Bottom(s, v)
      BY <1>r, BottomGrows
    <3> QED  BY <2>3, <2>6, <3>1
  <2> QED  BY <1>1, <2>4, <2>5, <2>6 DEF Trio
<1> QED  BY <1>2, <1>3

(* The strongest lamp has the whole value.                                 *)
LEMMA Strongest ==
  ASSUME NEW h \in Nat, h < HueSteps, NEW s \in Nat, NEW v
  PROVE  \E lamp \in Lamps : Linear(h, s, v)[lamp] = v
<1>0. PICK t \in 0 .. 5 : t = Sextant(h)  BY HueParts
<1>1. PICK x, y, z : Trio(Roles(t), x, y, z)  BY RolesTrio
<1>2. x \in Lamps  BY <1>1 DEF Trio
<1>3. CASE s = 0
  <2>1. Linear(h, s, v)[x] = v  BY <1>2, <1>3, Zenon DEF Linear
  <2> QED  BY <1>2, <2>1
<1>4. CASE s # 0
  <2>1. Colourful(h, s, x, y, z)  BY <1>0, <1>1, <1>4 DEF Colourful
  <2>2. Leveled(h, s, v, x, y, z)  BY <2>1, Levels3, Zenon
  <2>3. Linear(h, s, v)[x] = v  BY <2>2, Zenon DEF Leveled
  <2> QED  BY <1>2, <2>3
<1> QED  BY <1>3, <1>4

(* The gamma table.                                                        *)
LEMMA GammaTable ==
  /\ DOMAIN GammaSteps = 1 .. 31 /\ Len(GammaSteps) = 31
  /\ \A k \in 1 .. 31 : GammaSteps[k] \in Nat /\ GammaSteps[k] <= 255
BY DEF GammaSteps

Reached(x) == {k \in DOMAIN GammaSteps : x >= GammaSteps[k]}

LEMMA ReachedFacts ==
  ASSUME NEW x \in Nat
  PROVE  Cardinality(Reached(x)) \in Nat /\ IsFiniteSet(Reached(x))
<1>1. IsFiniteSet(1 .. 31)
  <2>1. 1 \in Int /\ 31 \in Int  OBVIOUS
  <2> QED  BY <2>1, FS_Interval, Zenon
<1>2. Reached(x) \subseteq 1 .. 31  BY GammaTable DEF Reached
<1>3. IsFiniteSet(Reached(x))  BY <1>1, <1>2, FS_Subset
<1> QED  BY <1>3, FS_CardinalityType

LEMMA BcmGrows ==
  ASSUME NEW x \in Nat, NEW y \in Nat, x <= y
  PROVE  Bcm(x) \in Nat /\ Bcm(y) \in Nat /\ Bcm(x) <= Bcm(y)
<1>1. Reached(x) \subseteq Reached(y)
  BY GammaTable DEF Reached
<1>2. Cardinality(Reached(x)) <= Cardinality(Reached(y))
  BY <1>1, ReachedFacts, FS_Subset
<1>3. PICK m \in Nat, n \in Nat :
        m = Cardinality(Reached(x)) /\ n = Cardinality(Reached(y)) /\ m <= n
  BY <1>2, ReachedFacts
<1>4. /\ Bcm(x) = IF m > BcmMax THEN BcmMax ELSE m
      /\ Bcm(y) = IF n > BcmMax THEN BcmMax ELSE n
  BY <1>3, Zenon DEF Bcm, Reached
<1> QED  BY <1>3, <1>4, ColorAssumption

LEMMA BcmFull == Bcm(255) = BcmMax
<1>1. Reached(255) = 1 .. 31  BY GammaTable DEF Reached
<1>2. Cardinality(1 .. 31) = 31
  <2>1. 1 \in Int /\ 31 \in Int  OBVIOUS
  <2>2. Cardinality(1 .. 31) = IF 1 > 31 THEN 0 ELSE (31 - 1) + 1
    BY <2>1, FS_Interval, Zenon
  <2> QED  BY <2>2
<1>3. PICK n \in Nat : n = 31 /\ Cardinality(Reached(255)) = n  BY <1>1, <1>2
<1>4. Bcm(255) = IF n > BcmMax THEN BcmMax ELSE n
  BY <1>3 DEF Bcm, Reached
<1>5. BcmMax <= n  BY <1>3, GammaTable, EncoderCheckAssumption
<1> QED  BY <1>3, <1>4, <1>5, ColorAssumption

(* A step of the colour that keeps the hue keeps the saturation and does   *)
(* not lower the value.                                                    *)
LEMMA Brightened ==
  ASSUME Coloring, [Next]_vars, hsv'.hue = hsv.hue
  PROVE  hsv'.saturation = hsv.saturation /\ hsv.value <= hsv'.value
<1>1. CASE NextHue
  BY <1>1 DEF NextHue, SetHsv, Coloring, Byte
<1>2. CASE Brighten
  <2>1. PICK v \in Levels : v > hsv.value /\ hsv' = SetHsv(hsv.hue, hsv.saturation, v)
    BY <1>2 DEF Brighten
  <2>2. Byte(v)  BY LevelRange
  <2> QED  BY <2>1, <2>2 DEF SetHsv, Coloring, Byte
<1>3. CASE Turn \/ Host \/ Compare \/ UNCHANGED vars
  BY <1>3 DEF Turn, Host, Compare, vars, Coloring, Byte
<1> QED  BY <1>1, <1>2, <1>3 DEF Next

(* Through both roundings and the gamma table.                             *)
THEOREM BrighterNeverDimsAlways == Spec => BrighterNeverDims
<1> DEFINE Step ==
      subject = "colour" /\ hsv'.hue = hsv.hue =>
        \A lamp \in Lamps :
          /\ RgbOf(hsv')[lamp] >= RgbOf(hsv)[lamp]
          /\ hsv'.value = 255 => \E strong \in Lamps : RgbOf(hsv')[strong] = BcmMax
<1>1. Coloring /\ [Next]_vars => Step
  <2> SUFFICES ASSUME Coloring, [Next]_vars, hsv'.hue = hsv.hue, NEW lamp \in Lamps
               PROVE  /\ RgbOf(hsv')[lamp] >= RgbOf(hsv)[lamp]
                      /\ hsv'.value = 255 =>
                           \E strong \in Lamps : RgbOf(hsv')[strong] = BcmMax
    OBVIOUS
  <2>1. Coloring'  BY ColoringStep
  <2>2. PICK h \in Nat, s \in Nat, u \in Nat, v \in Nat :
          /\ h = hsv.hue /\ s = hsv.saturation /\ u = hsv.value
          /\ h = hsv'.hue /\ s = hsv'.saturation /\ v = hsv'.value
          /\ h < HueSteps /\ s <= 255 /\ u <= v /\ v <= 255
    BY <2>1, Brightened DEF Coloring, Byte
  <2>3. \A l \in Lamps :
          /\ RgbOf(hsv)[l] = Bcm(Linear(h, s, u)[l])
          /\ RgbOf(hsv')[l] = Bcm(Linear(h, s, v)[l])
    BY <2>2, Zenon DEF RgbOf
  <2>4. PICK i \in Nat, j \in Nat :
          /\ i = Bcm(Linear(h, s, u)[lamp]) /\ j = Bcm(Linear(h, s, v)[lamp])
          /\ i <= j
    <3>1. Rising(h, s, u, v)  BY <2>2 DEF Rising
    <3>2. InOrder(Linear(h, s, u)[lamp], Linear(h, s, v)[lamp])
      BY <3>1, LampBrighter, Zenon
    <3>3. PICK m, n : m = Linear(h, s, u)[lamp] /\ n = Linear(h, s, v)[lamp]
      OBVIOUS
    <3>4. m \in Nat /\ n \in Nat /\ m <= n  BY <3>2, <3>3 DEF InOrder
    <3> QED  BY <3>3, <3>4, BcmGrows
  <2>5. ASSUME v = 255
        PROVE  \E strong \in Lamps : RgbOf(hsv')[strong] = BcmMax
    <3>1. PICK strong \in Lamps : Linear(h, s, v)[strong] = v
      BY <2>2, Strongest
    <3>2. RgbOf(hsv')[strong] = Bcm(255)  BY <2>3, <2>5, <3>1
    <3> QED  BY <3>2, BcmFull
  <2> QED  BY <2>2, <2>3, <2>4, <2>5
<1>2. Spec => []Coloring
  <2>1. Init => Coloring  BY ColoringInit
  <2>2. Coloring /\ [Next]_vars => Coloring'  BY ColoringStep
  <2> QED  BY <2>1, <2>2, PTL DEF Spec
<1>3. Spec => [][Step]_vars
  <2>1. Coloring /\ [Next]_vars => [Step]_vars  BY <1>1
  <2> QED  BY <2>1, <1>2, PTL DEF Spec
<1> QED  BY <1>3 DEF BrighterNeverDims

-----------------------------------------------------------------------------
(* The ring.  The whole indicators of the bar, k, and the frames the       *)
(* leading one is lit in, b, for the position p of 0 .. e and n frames.    *)
BarOf(p, e, n, k, b) ==
  /\ k \in Nat /\ b \in Nat /\ k <= 10 /\ b < n
  /\ ((k * n) + b) * e <= p * (11 * n)
  /\ (p * (11 * n)) - (((k * n) + b) * e) <= 2 * e

(* In between: c is the position in 256ths of an indicator, w what is left *)
(* of it beyond the whole ones.                                            *)
LEMMA BarBetween ==
  ASSUME NEW p \in Nat, NEW e \in Nat, NEW n \in Nat, 0 < p, p < e, 0 < n, n <= 256,
         NEW k \in Int, NEW c \in Nat, NEW b \in Int,
         e * (k + 1) <= (11 * p) + (e - 1), 11 * p <= e * (k + 1),
         e * c <= 2816 * p, 2816 * p < (e * c) + e,
         NEW w \in Int, w = c - (256 * k),
         NEW m \in Int, m = w * n,
         0 <= m /\ m <= 256 * n => 256 * b <= m /\ m <= (256 * b) + 256
  PROVE  /\ 0 <= k /\ k <= 10 /\ 0 <= w /\ 0 <= m
         /\ ((k * n) + b) * e <= p * (11 * n)
         /\ (p * (11 * n)) - (((k * n) + b) * e) <= 2 * e
<1>1. PICK kk \in Int : kk = e * k /\ e * (k + 1) = kk + e
  <2>1. e * k \in Int /\ e * (k + 1) = (e * k) + e  OBVIOUS
  <2> QED  BY <2>1
<1>r. PICK r : r = (11 * p) - kk
  OBVIOUS
<1>2. r \in Int /\ r = (11 * p) - kk /\ 0 < r /\ r <= e
  BY <1>1, <1>r
<1>3. 0 <= k /\ k <= 10
  <2>1. e * 0 < e * (k + 1)
    <3>1. e * 0 = 0  OBVIOUS
    <3> QED  BY <1>1, <1>2, <3>1
  <2>2. e * k < e * 11
    <3>1. e * 11 = 11 * e  OBVIOUS
    <3> QED  BY <1>1, <1>2, <3>1
  <2> QED  BY <2>1, <2>2, Cancel
<1>4. PICK u \in Int : u = e * w /\ u = (e * c) - (256 * kk)
  <2>1. e * (c - (256 * k)) = (e * c) - (256 * (e * k))  OBVIOUS
  <2>2. e * w \in Int  OBVIOUS
  <2> QED  BY <1>1, <2>1, <2>2
<1>5. u <= 256 * r /\ 256 * r < u + e
  BY <1>2, <1>4
<1>6. 0 <= w /\ w <= 256
  <2>1. e * 0 < e * (w + 1)
    <3>1. e * 0 = 0 /\ e * (w + 1) = u + e  BY <1>4
    <3> QED  BY <1>2, <1>5, <3>1
  <2>2. e * w <= e * 256
    <3>1. e * 256 = 256 * e  OBVIOUS
    <3> QED  BY <1>2, <1>4, <1>5, <3>1
  <2> QED  BY <2>1, <2>2, Cancel
<1>7. PICK x \in Int, y \in Int, nu \in Int, ne \in Int :
        x = b * e /\ y = n * r /\ nu = n * u /\ ne = n * e
  BY <1>2
<1>8. nu = e * m
  <2>1. n * (e * w) = e * (w * n)  OBVIOUS
  <2> QED  BY <1>4, <1>7, <2>1
<1>m. 0 <= m /\ m <= 256 * n
  <2>1. w \in Nat  BY <1>6
  <2>2. w * n \in Nat /\ w * n <= 256 * n  BY <1>6, <2>1, ProductBound
  <2> QED  BY <2>2
<1>9. 256 * x <= nu /\ nu <= (256 * x) + (256 * e)
  <2>1. e * (256 * b) <= e * m /\ e * m <= e * ((256 * b) + 256)
    BY <1>m, Cancel
  <2>2. e * (256 * b) = 256 * x  BY <1>7
  <2>3. e * ((256 * b) + 256) = (256 * x) + (256 * e)  BY <1>7
  <2> QED  BY <1>8, <2>1, <2>2, <2>3
<1>10. nu <= 256 * y /\ 256 * y <= nu + ne
  <2>1. n * u <= n * (256 * r) /\ n * (256 * r) <= n * (u + e)
    <3>1. r \in Int /\ 256 * r \in Int /\ u + e \in Int /\ n \in Nat \ {0}  BY <1>2
    <3> QED  BY <1>5, <3>1, Cancel
  <2>2. n * (256 * r) = 256 * y /\ n * (u + e) = nu + ne  BY <1>2, <1>7
  <2> QED  BY <1>7, <2>1, <2>2
<1>11. ne <= 256 * e
  <2>1. e * n <= e * 256  BY Cancel
  <2>2. e * n = ne /\ e * 256 = 256 * e  BY <1>7
  <2> QED  BY <2>1, <2>2
<1>12. PICK z \in Int : z = n * kk
  OBVIOUS
<1>13. ((k * n) + b) * e = z + x
  <2>1. ((k * n) + b) * e = (n * (e * k)) + (b * e)  OBVIOUS
  <2> QED  BY <1>1, <1>7, <1>12, <2>1
<1>14. p * (11 * n) = z + y
  <2>1. p * (11 * n) = n * (11 * p)  OBVIOUS
  <2>2. 11 * p = kk + r  BY <1>2
  <2>3. n * (kk + r) = (n * kk) + (n * r)  BY <1>2
  <2> QED  BY <1>7, <1>12, <2>1, <2>2, <2>3
<1>15. x <= y /\ y - x <= 2 * e
  BY <1>9, <1>10, <1>11
<1> QED  BY <1>3, <1>6, <1>m, <1>13, <1>14, <1>15

LEMMA BarLength ==
  ASSUME NEW p \in Nat, p <= EncMax
  PROVE  BarOf(p, EncMax, NumFrames, LeadingIndicator(p) - 1, LeadingBrightness(p))
<1>0. PICK e \in Nat \ {0}, n \in Nat \ {0} : e = EncMax /\ n = NumFrames /\ n <= 256
  BY VirtmapAssumption, LedAssumption, EncoderCheckAssumption
<1>1. CASE p = 0
  <2>1. LeadingIndicator(p) = 1 /\ LeadingBrightness(p) = 0
    BY <1>0, <1>1 DEF LeadingIndicator, LeadingBrightness
  <2>2. ((0 * n) + 0) * e = 0 /\ 0 * (11 * n) = 0  OBVIOUS
  <2> QED  BY <1>0, <1>1, <2>1, <2>2 DEF BarOf
<1>2. CASE p = EncMax
  <2>1. LeadingIndicator(p) = 11 /\ LeadingBrightness(p) = n - 1
    BY <1>0, <1>2 DEF LeadingIndicator, LeadingBrightness, NumIndicators
  <2>2. PICK x \in Nat : x = n * e
    OBVIOUS
  <2>3. ((10 * n) + (n - 1)) * e = (11 * (n * e)) - e /\ e * (11 * n) = 11 * (n * e)
    OBVIOUS
  <2> QED  BY <1>0, <1>2, <2>1, <2>2, <2>3 DEF BarOf
<1>3. CASE 0 < p /\ p < EncMax
  <2>1. PICK i \in Nat : i = LeadingIndicator(p) /\ i = (((p * 11) + e) - 1) \div e
    <3>1. ((p * 11) + e) - 1 \in Nat  BY <1>0
    <3>2. (((p * 11) + e) - 1) \div e \in Nat  BY <3>1, Quotient
    <3> QED  BY <1>0, <1>3, <3>2 DEF LeadingIndicator, NumIndicators
  <2>2. e * i <= (11 * p) + (e - 1) /\ 11 * p <= e * i
    <3>1. PICK a \in Nat : a = ((p * 11) + e) - 1  BY <1>0
    <3>2. e * (a \div e) \in Nat /\ e * (a \div e) <= a /\ a < e * (a \div e) + e
      BY Quotient
    <3> QED  BY <2>1, <3>1, <3>2
  <2>3. PICK k \in Int : k = i - 1 /\ k + 1 = i
    OBVIOUS
  <2>4. PICK a \in Nat : a = 2816 * p /\ a = (p * 11) * 256
    OBVIOUS
  <2>5. PICK c \in Nat : c = a \div e /\ e * c <= a /\ a < (e * c) + e
    BY Quotient
  <2>6. PICK w : w = c - (256 * k)
    OBVIOUS
  <2>7. w \in Int  BY <2>6
  <2>8. PICK m : m = w * n
    OBVIOUS
  <2>9. m \in Int  BY <2>7, <2>8
  <2>10. LeadingBrightness(p) =
           IF w < 0 THEN 0 ELSE Clamp(m \div 256, 0, n - 1)
    BY <1>0, <1>3, <2>1, <2>3, <2>4, <2>5, <2>6, <2>8
       DEF LeadingBrightness, NumIndicators
  <2>11. PICK d \in Int : d = m \div 256 /\ 256 * d <= m /\ m < (256 * d) + 256
    <3>1. m \div 256 \in Int  BY <2>9
    <3> QED  BY <2>9, <3>1
  <2>12. PICK b \in Int : b = Clamp(d, 0, n - 1)
    BY DEF Clamp
  <2>13. /\ 0 <= b /\ b < n
         /\ 0 <= m /\ m <= 256 * n => 256 * b <= m /\ m <= (256 * b) + 256
    BY <2>9, <2>11, <2>12 DEF Clamp
  <2>14. e * (k + 1) <= (11 * p) + (e - 1) /\ 11 * p <= e * (k + 1)
    BY <2>2, <2>3
  <2>15. /\ 0 <= k /\ k <= 10 /\ 0 <= w /\ 0 <= m
         /\ ((k * n) + b) * e <= p * (11 * n)
         /\ (p * (11 * n)) - (((k * n) + b) * e) <= 2 * e
    <3>1. 0 < p /\ p < e /\ 0 < n /\ n <= 256  BY <1>0, <1>3
    <3>2. e * c <= 2816 * p /\ 2816 * p < (e * c) + e  BY <2>4, <2>5
    <3> QED  BY <2>6, <2>7, <2>8, <2>9, <2>13, <2>14, <3>1, <3>2, BarBetween
  <2>16. LeadingBrightness(p) = b
    BY <2>7, <2>10, <2>11, <2>12, <2>15
  <2>17. k \in Nat /\ b \in Nat  BY <2>13, <2>15
  <2> QED  BY <1>0, <2>1, <2>3, <2>13, <2>15, <2>16, <2>17, Zenon DEF BarOf
<1> QED  BY <1>0, <1>1, <1>2, <1>3

(* What is lit of the ring of an encoder, frame by frame: the colours are  *)
(* off.                                                                    *)
LEMMA RingDrawn ==
  ASSUME NEW r \in Ringed, NEW p \in Nat, NEW f \in Frames
  PROVE  Drawing(r, p)[f] = Ring(r.mode, r.detent, p, f)
<1>1. f \in Nat  BY LedAssumption DEF Frames
<1>2. Coloured([red |-> 0, green |-> 0, blue |-> 0], f) = {}
  BY <1>1 DEF Coloured
<1>3. DetentLamps([red |-> 0, blue |-> 0], r.detent, p, f) = {}
  BY <1>1 DEF DetentLamps, Coloured
<1>4. r.mode \in DisplayModes  BY DEF Ringed
<1>5. Drawing(r, p)[f] =
        (Ring(r.mode, r.detent, p, f)
           \cup Coloured([red |-> 0, green |-> 0, blue |-> 0], f))
           \cup DetentLamps([red |-> 0, blue |-> 0], r.detent, p, f)
  BY <1>4, Zenon DEF Drawing, MfDrawEncoder
<1> QED  BY <1>2, <1>3, <1>5

(* Lamps that are lit in every frame, and one that is lit in the first b.  *)
LEMMA LitFrames ==
  ASSUME NEW low \in Int, NEW high \in Int, low <= high + 1,
         NEW i \in Int, i \notin low .. high, NEW b \in Nat, b <= NumFrames
  PROVE  Cardinality(((low .. high) \X Frames) \cup ({i} \X (0 .. b - 1)))
           = (((high - low) + 1) * NumFrames) + b
<1> DEFINE S == (low .. high) \X Frames
           T == {i} \X (0 .. b - 1)
<1>1. IsFiniteSet(low .. high) /\ Cardinality(low .. high) = (high - low) + 1
  BY FS_Interval
<1>2. IsFiniteSet(Frames) /\ Cardinality(Frames) = NumFrames
  BY LedAssumption, FS_Interval DEF Frames
<1>3. IsFiniteSet(0 .. b - 1) /\ Cardinality(0 .. b - 1) = b
  BY FS_Interval
<1>4. IsFiniteSet({i}) /\ Cardinality({i}) = 1
  BY FS_Singleton
<1>5. IsFiniteSet(S) /\ Cardinality(S) = ((high - low) + 1) * NumFrames
  <2>1. /\ IsFiniteSet(S)
        /\ Cardinality(S) = Cardinality(low .. high) * Cardinality(Frames)
    BY <1>1, <1>2, FS_Product, Zenon
  <2> QED  BY <1>1, <1>2, <2>1, Zenon
<1>6. IsFiniteSet(T) /\ Cardinality(T) = b
  <2>1. /\ IsFiniteSet(T)
        /\ Cardinality(T) = Cardinality({i}) * Cardinality(0 .. b - 1)
    BY <1>3, <1>4, FS_Product, Zenon
  <2>2. 1 * b = b  OBVIOUS
  <2> QED  BY <1>3, <1>4, <2>1, <2>2, Zenon
<1>7. S \cap T = {}
  OBVIOUS
<1>8. Cardinality(S \cap T) = 0  BY <1>7, FS_EmptySet
<1> HIDE DEF S, T
<1>9. Cardinality(S \cup T) = Cardinality(S) + (Cardinality(T) - Cardinality(S \cap T))
  <2>1. IsFiniteSet(S) /\ IsFiniteSet(T)  BY <1>5, <1>6
  <2> QED  BY <2>1, FS_Union, Zenon
<1>10. PICK x \in Int : x = ((high - low) + 1) * NumFrames
  BY LedAssumption
<1>11. Cardinality(S \cup T) = x + b
  BY <1>5, <1>6, <1>8, <1>9, <1>10
<1> QED  BY <1>10, <1>11 DEF S, T

(* The light of a bar.                                                     *)
LEMMA BarLight ==
  ASSUME NEW r \in Ringed, NEW p \in Nat, p <= EncMax,
         r.mode = "MULTI_PWM", ~r.detent
  PROVE  Light(r, p) = ((LeadingIndicator(p) - 1) * NumFrames) + LeadingBrightness(p)
<1>1. PICK k \in Nat, b \in Nat :
        /\ k = LeadingIndicator(p) - 1 /\ b = LeadingBrightness(p)
        /\ k <= 10 /\ b < NumFrames
  BY BarLength DEF BarOf
<1>2. LeadingIndicator(p) = k + 1
  <2>1. LeadingIndicator(p) \in Int
    BY VirtmapAssumption DEF LeadingIndicator, NumIndicators
  <2> QED  BY <1>1, <2>1
<1>3. \A f \in Frames : Drawing(r, p)[f] =
        (1 .. k + 1) \ (IF f >= b THEN {k + 1} ELSE {})
  <2> SUFFICES ASSUME NEW f \in Frames
               PROVE  Drawing(r, p)[f] = (1 .. k + 1) \ (IF f >= b THEN {k + 1} ELSE {})
    OBVIOUS
  <2>1. Pattern(r.mode, r.detent, p) = 1 .. k + 1
    BY <1>2 DEF Pattern, Bar
  <2>2. Dims(r.mode, r.detent, p) /\ DimsFrom(r.detent, p) = b
    BY <1>1 DEF Dims, DimsFrom
  <2>3. Ring(r.mode, r.detent, p, f)
          = (1 .. k + 1) \ (IF f >= b THEN {k + 1} ELSE {})
    BY <1>2, <2>1, <2>2 DEF Ring
  <2> QED  BY <2>3, RingDrawn
<1>4. {lit \in Indicators \X Frames : lit[1] \in Drawing(r, p)[lit[2]]}
        = ((1 .. k) \X Frames) \cup ({k + 1} \X (0 .. b - 1))
  <2>1. \A l \in Indicators, f \in Frames :
          l \in Drawing(r, p)[f] <=> l \in 1 .. k \/ (l = k + 1 /\ f \in 0 .. b - 1)
    BY <1>1, <1>3, LedAssumption DEF Indicators, NumIndicators, Frames
  <2>2. /\ 1 .. k \subseteq Indicators /\ k + 1 \in Indicators
        /\ 0 .. b - 1 \subseteq Frames
    BY <1>1, LedAssumption DEF Indicators, NumIndicators, Frames
  <2> QED  BY <2>1, <2>2
<1>5. Cardinality(((1 .. k) \X Frames) \cup ({k + 1} \X (0 .. b - 1)))
        = (((k - 1) + 1) * NumFrames) + b
  <2>1. /\ 1 \in Int /\ k \in Int /\ 1 <= k + 1 /\ k + 1 \in Int
        /\ k + 1 \notin 1 .. k /\ b <= NumFrames
    BY <1>1, LedAssumption
  <2> QED  BY <2>1, LitFrames, ZenonT(60)
<1>6. Light(r, p) = Cardinality({lit \in Indicators \X Frames :
                                   lit[1] \in Drawing(r, p)[lit[2]]})
  BY DEF Light, LightOf
<1>7. (k - 1) + 1 = k  OBVIOUS
<1>8. Light(r, p) = (k * NumFrames) + b  BY <1>4, <1>5, <1>6, <1>7, Zenon
<1> QED  BY <1>1, <1>8, Zenon

(* The ring is turned over the whole position range.                       *)
RingInv == subject = "ring" => map = Whole /\ ring \in Ringed

LEMMA RingAlways == Spec => []RingInv
<1>1. Init => RingInv
  BY DEF Init, RingInv
<1>2. RingInv /\ [Next]_vars => RingInv'
  BY DEF RingInv, Next, vars, Turn, Host, NextHue, Brighten, Compare
<1> QED  BY <1>1, <1>2, PTL DEF Spec

(* The bar of a ring without a detent is as long as the position says.     *)
THEOREM BarIsProportionalAlways == Spec => []BarIsProportional
<1>1. MapInv /\ RingInv => BarIsProportional
  <2> SUFFICES ASSUME MapInv, RingInv, subject = "ring",
                      ring.mode = "MULTI_PWM", ~ring.detent
               PROVE  LET shown == Light(ring, pos) * EncMax
                          exact == pos * NumIndicators * NumFrames
                      IN  shown <= exact /\ exact - shown <= 2 * EncMax
    BY DEF BarIsProportional
  <2>1. PICK p \in Nat : p = pos /\ p <= EncMax
    BY VirtmapAssumption DEF MapInv, RingInv, Whole, InRange
  <2>2. ring \in Ringed  BY DEF RingInv
  <2>3. PICK k \in Nat, b \in Nat, n \in Nat, e \in Nat :
          /\ k = LeadingIndicator(p) - 1 /\ b = LeadingBrightness(p)
          /\ n = NumFrames /\ e = EncMax
          /\ ((k * n) + b) * e <= p * (11 * n)
          /\ (p * (11 * n)) - (((k * n) + b) * e) <= 2 * e
    BY <2>1, BarLength, VirtmapAssumption, LedAssumption DEF BarOf
  <2>4. Light(ring, p) = (k * n) + b
    BY <2>1, <2>2, <2>3, BarLight
  <2>5. (p * NumIndicators) * n = p * (11 * n)
    BY DEF NumIndicators
  <2> QED  BY <2>1, <2>3, <2>4, <2>5
<1> QED  BY <1>1, MapAlways, RingAlways, PTL

(* Further on, the leading indicator is further on, or it is brighter.     *)
LEMMA BarGrows ==
  ASSUME NEW p \in Nat, NEW q \in Nat, p <= q, q <= EncMax
  PROVE  /\ LeadingIndicator(p) \in 1 .. 11 /\ LeadingIndicator(q) \in 1 .. 11
         /\ LeadingBrightness(p) \in Nat /\ LeadingBrightness(q) \in Nat
         /\ LeadingIndicator(p) <= LeadingIndicator(q)
         /\ LeadingIndicator(p) = LeadingIndicator(q) =>
              LeadingBrightness(p) <= LeadingBrightness(q)
<1>0. PICK e \in Nat \ {0}, n \in Nat \ {0} : e = EncMax /\ n = NumFrames
  BY VirtmapAssumption, LedAssumption
<1>1. BarOf(p, e, n, LeadingIndicator(p) - 1, LeadingBrightness(p))
  BY <1>0, BarLength
<1>2. BarOf(q, e, n, LeadingIndicator(q) - 1, LeadingBrightness(q))
  BY <1>0, BarLength
<1>3. LeadingIndicator(p) \in Int /\ LeadingIndicator(q) \in Int
  BY VirtmapAssumption DEF LeadingIndicator, NumIndicators
<1>4. /\ LeadingIndicator(p) \in 1 .. 11 /\ LeadingIndicator(q) \in 1 .. 11
      /\ LeadingBrightness(p) \in Nat /\ LeadingBrightness(q) \in Nat
      /\ LeadingBrightness(p) < n /\ LeadingBrightness(q) < n
  <2>1. /\ LeadingIndicator(p) - 1 \in Nat /\ LeadingIndicator(p) - 1 <= 10
        /\ LeadingBrightness(p) \in Nat /\ LeadingBrightness(p) < n
    BY <1>1 DEF BarOf
  <2>2. /\ LeadingIndicator(q) - 1 \in Nat /\ LeadingIndicator(q) - 1 <= 10
        /\ LeadingBrightness(q) \in Nat /\ LeadingBrightness(q) < n
    BY <1>2 DEF BarOf
  <2> QED  BY <1>3, <2>1, <2>2
<1>5. CASE p = 0
  <2>1. LeadingIndicator(p) = 1 /\ LeadingBrightness(p) = 0
    BY <1>0, <1>5 DEF LeadingIndicator, LeadingBrightness
  <2> QED  BY <1>4, <2>1
<1>6. CASE q = EncMax
  <2>1. LeadingIndicator(q) = 11 /\ LeadingBrightness(q) = n - 1
    BY <1>0, <1>6 DEF LeadingIndicator, LeadingBrightness, NumIndicators
  <2> QED  BY <1>0, <1>4, <2>1
<1>7. CASE 0 < p /\ q < EncMax
  <2>1. PICK a \in Nat, b \in Nat, c \in Nat, d \in Nat :
          /\ a = ((p * 11) + e) - 1 /\ b = ((q * 11) + e) - 1 /\ a <= b
          /\ c = (p * 11) * 256 /\ d = (q * 11) * 256 /\ c <= d
    OBVIOUS
  <2>2. PICK i \in Nat, j \in Nat, x \in Nat, y \in Nat :
          /\ i = a \div e /\ j = b \div e /\ i <= j
          /\ x = c \div e /\ y = d \div e /\ x <= y
    <3>1. \A k \in Nat, m \in Nat : k <= m =>
            k \div e \in Nat /\ m \div e \in Nat /\ k \div e <= m \div e
      <4> SUFFICES ASSUME NEW k \in Nat, NEW m \in Nat, k <= m
                   PROVE  k \div e \in Nat /\ m \div e \in Nat /\ k \div e <= m \div e
        OBVIOUS
      <4>1. k \div e \in Nat /\ m \div e \in Nat /\ e * (k \div e) \in Nat
            /\ e * (k \div e) <= k
        BY Quotient
      <4>2. e * (k \div e) <= m  BY <4>1
      <4> QED  BY <4>1, <4>2, QuotientIs
    <3>2. a <= b /\ c <= d  BY <2>1
    <3>3. a \div e \in Nat /\ b \div e \in Nat /\ a \div e <= b \div e
      BY <3>1, <3>2, Zenon
    <3>4. c \div e \in Nat /\ d \div e \in Nat /\ c \div e <= d \div e
      BY <3>1, <3>2, Zenon
    <3> QED  BY <3>3, <3>4, Zenon
  <2>3. LeadingIndicator(p) = i /\ LeadingIndicator(q) = j
    BY <1>0, <1>7, <2>1, <2>2 DEF LeadingIndicator, NumIndicators
  <2>4. ASSUME i = j PROVE LeadingBrightness(p) <= LeadingBrightness(q)
    <3>z. PICK w \in Int, z \in Int :
            w = x - ((i - 1) * 256) /\ z = y - ((j - 1) * 256)
      OBVIOUS
    <3>1. w = x - ((i - 1) * 256) /\ z = y - ((j - 1) * 256) /\ w <= z
      BY <2>2, <2>4, <3>z
    <3>2. /\ LeadingBrightness(p) =
               IF w < 0 THEN 0 ELSE Clamp((w * n) \div 256, 0, n - 1)
          /\ LeadingBrightness(q) =
               IF z < 0 THEN 0 ELSE Clamp((z * n) \div 256, 0, n - 1)
      BY <1>0, <1>7, <2>1, <2>2, <2>3, <3>1 DEF LeadingBrightness, NumIndicators
    <3>3. CASE w < 0
      BY <1>4, <3>2, <3>3
    <3>4. CASE w >= 0
      <4>1. w \in Nat /\ z \in Nat  BY <3>1, <3>4
      <4>2. PICK k \in Nat, m \in Nat : k = w * n /\ m = z * n /\ k <= m
        BY <3>1, <4>1, ProductBound
      <4>3. PICK f \in Nat, g \in Nat : f = k \div 256 /\ g = m \div 256 /\ f <= g
        BY <4>2, QuotientGrows
      <4>4. /\ LeadingBrightness(p) = Clamp(f, 0, n - 1)
            /\ LeadingBrightness(q) = Clamp(g, 0, n - 1)
        BY <3>2, <4>1, <4>2, <4>3
      <4> QED  BY <4>3, <4>4 DEF Clamp
    <3> QED  BY <3>1, <3>3, <3>4
  <2> QED  BY <1>4, <2>2, <2>3, <2>4
<1> QED  BY <1>0, <1>4, <1>5, <1>6, <1>7

(* The middle lies under the indicator of the centre.                      *)
LEMMA Sides ==
  ASSUME NEW p \in Nat, p <= EncMax
  PROVE  /\ p > Middle => LeadingIndicator(p) >= Centre
         /\ p <= Middle => LeadingIndicator(p) <= Centre
<1>0. PICK e \in Nat \ {0} : e = EncMax
  BY VirtmapAssumption
<1>1. Middle \in Nat /\ 2 * Middle <= e /\ e <= (2 * Middle) + 1
  BY <1>0 DEF Middle
<1>2. CASE p = 0
  BY <1>1, <1>2 DEF LeadingIndicator, Centre
<1>3. CASE p = EncMax
  <2>1. LeadingIndicator(p) = 11 \/ p = 0  BY <1>3 DEF LeadingIndicator, NumIndicators
  <2>2. p > Middle
    <3>1. e > Middle  BY <1>0, <1>1
    <3> QED  BY <1>0, <1>3, <3>1
  <2> QED  BY <1>0, <1>1, <1>3, <2>1, <2>2 DEF Centre
<1>4. CASE 0 < p /\ p < EncMax
  <2>1. PICK a \in Nat : a = ((p * 11) + e) - 1
    BY <1>0
  <2>2. LeadingIndicator(p) = a \div e
    BY <1>0, <1>4, <2>1 DEF LeadingIndicator, NumIndicators
  <2>3. e * 6 = 6 * e /\ a \div e \in Nat  BY <2>1, Quotient
  <2>4. p > Middle => e * 6 <= a
    BY <1>1, <2>1, <2>3
  <2>5. p <= Middle => a < (e * 6) + e
    BY <1>1, <2>1, <2>3
  <2>6. p <= Middle => a \div e <= 6
    <3>1. e * (a \div e) \in Nat /\ e * (a \div e) <= a  BY Quotient
    <3>2. p <= Middle => e * (a \div e) < e * 7
      <4>1. e * 7 = 7 * e  OBVIOUS
      <4> QED  BY <2>3, <2>5, <3>1, <4>1
    <3>3. p <= Middle => a \div e < 7  BY <2>3, <3>2, Cancel
    <3> QED  BY <2>3, <3>3
  <2>7. p > Middle => 6 <= a \div e  BY <2>4, QuotientIs
  <2> QED  BY <2>2, <2>3, <2>6, <2>7 DEF Centre
<1> QED  BY <1>0, <1>2, <1>3, <1>4

(* A lamp beside the centre of a ring with a detent whose leading          *)
(* indicator is i, lit in the first d frames.                              *)
Beside(i, l) ==
  \/ i < Centre /\ i <= l /\ l < Centre
  \/ Centre < l /\ l <= i

Dimmed(r) == r.mode = "MULTI_PWM"

LEMMA BesideLit ==
  ASSUME NEW r \in Ringed, r.detent, r.mode # "SINGLE",
         NEW p \in Nat, p <= EncMax, NEW f \in Frames, NEW l \in Left \cup Right
  PROVE  l \in Drawing(r, p)[f] <=>
           /\ Beside(LeadingIndicator(p), l)
           /\ Dimmed(r) /\ l = LeadingIndicator(p) => f < DimsFrom(TRUE, p)
<1>1. PICK i \in 1 .. 11, d \in Int :
        i = LeadingIndicator(p) /\ d = DimsFrom(TRUE, p)
  BY BarGrows, LedAssumption DEF DimsFrom
<1>2. /\ l \in Int /\ l # Centre /\ Centre = 6 /\ 1 <= l /\ l <= 11
  BY DEF Left, Right, Centre, NumIndicators
<1>3. r.detent = TRUE /\ (r.mode = "MULTI" \/ r.mode = "MULTI_PWM")
  BY DEF Ringed, DisplayModes
<1>4. l \in Pattern(r.mode, r.detent, p) <=> l \in CentreOut(i)
  BY <1>1, <1>2, <1>3 DEF Pattern
<1>5. l \in CentreOut(i) <=> Beside(i, l)
  BY <1>1, <1>2 DEF CentreOut, Beside
<1>6. l = i => (Dims(r.mode, r.detent, p) <=> Dimmed(r))
  BY <1>1, <1>2 DEF Dims, Dimmed
<1>7. l \in Ring(r.mode, r.detent, p, f) <=>
        /\ l \in Pattern(r.mode, r.detent, p)
        /\ ~(Dims(r.mode, r.detent, p) /\ f >= d /\ l = i)
  BY <1>1, <1>3 DEF Ring
<1>8. f >= d <=> ~(f < d)
  <2>1. f \in Int  BY LedAssumption DEF Frames
  <2> QED  BY <2>1
<1>9. Drawing(r, p)[f] = Ring(r.mode, r.detent, p, f)  BY RingDrawn
<1> QED  BY <1>1, <1>4, <1>5, <1>6, <1>7, <1>8, <1>9, Zenon

LEMMA LightFacts ==
  ASSUME NEW lamps \in SUBSET Indicators, NEW r, NEW p
  PROVE  /\ LightOf(r, p, lamps) \in Nat
         /\ (\A l \in lamps, f \in Frames : l \notin Drawing(r, p)[f])
              => LightOf(r, p, lamps) = 0
         /\ \A q : (\A l \in lamps, f \in Frames :
                      l \in Drawing(r, p)[f] => l \in Drawing(r, q)[f])
              => LightOf(r, p, lamps) <= LightOf(r, q, lamps)
<1> DEFINE Lit(q) == {lit \in lamps \X Frames : lit[1] \in Drawing(r, q)[lit[2]]}
<1>1. IsFiniteSet(lamps \X Frames)
  <2>1. IsFiniteSet(Indicators)
    <3>1. 1 \in Int /\ NumIndicators \in Int  BY DEF NumIndicators
    <3> QED  BY <3>1, FS_Interval, Zenon DEF Indicators
  <2>2. IsFiniteSet(lamps)  BY <2>1, FS_Subset
  <2>3. IsFiniteSet(Frames)  BY LedAssumption, FS_Interval DEF Frames
  <2> QED  BY <2>2, <2>3, FS_Product
<1>2. \A q : LightOf(r, q, lamps) = Cardinality(Lit(q))
  BY Zenon DEF LightOf
<1>3. \A q : IsFiniteSet(Lit(q)) /\ Cardinality(Lit(q)) \in Nat
  <2> SUFFICES ASSUME NEW q
               PROVE  IsFiniteSet(Lit(q)) /\ Cardinality(Lit(q)) \in Nat
    OBVIOUS
  <2>1. Lit(q) \subseteq lamps \X Frames  OBVIOUS
  <2>2. IsFiniteSet(Lit(q))  BY <1>1, <2>1, FS_Subset
  <2> QED  BY <2>2, FS_CardinalityType
<1>4. ASSUME \A l \in lamps, f \in Frames : l \notin Drawing(r, p)[f]
      PROVE  Cardinality(Lit(p)) = 0
  <2>1. Lit(p) = {}  BY <1>4
  <2> QED  BY <2>1, FS_EmptySet
<1>5. ASSUME NEW q, \A l \in lamps, f \in Frames :
                      l \in Drawing(r, p)[f] => l \in Drawing(r, q)[f]
      PROVE  Cardinality(Lit(p)) <= Cardinality(Lit(q))
  <2>1. Lit(p) \subseteq Lit(q)  BY <1>5
  <2> QED  BY <1>3, <2>1, FS_Subset
<1> HIDE DEF Lit
<1> QED  BY <1>2, <1>3, <1>4, <1>5, Zenon

(* Turned away from the middle, a ring with a detent grows on its side and *)
(* leaves the other dark.                                                  *)
LEMMA Outward ==
  ASSUME NEW r \in Ringed, r.detent, r.mode # "SINGLE",
         NEW p \in Nat, p <= EncMax, NEW q \in Nat, q <= EncMax
  PROVE  /\ q > p /\ p >= Middle => LightOf(r, q, Right) >= LightOf(r, p, Right)
         /\ q < p /\ p <= Middle => LightOf(r, q, Left) >= LightOf(r, p, Left)
         /\ q > Middle => LightOf(r, q, Left) = 0
         /\ q < Middle => LightOf(r, q, Right) = 0
<1>1. /\ Left \subseteq Indicators /\ Right \subseteq Indicators /\ Centre = 6
      /\ Left = 1 .. 5 /\ Right = 7 .. 11 /\ Middle \in Nat
  BY VirtmapAssumption DEF Left, Right, Indicators, NumIndicators, Centre, Middle
<1>2. LightOf(r, p, Right) \in Nat /\ LightOf(r, q, Right) \in Nat
      /\ LightOf(r, p, Left) \in Nat /\ LightOf(r, q, Left) \in Nat
  BY <1>1, LightFacts
<1>3. PICK n \in Nat : n = NumFrames /\ \A f \in Frames : f \in Nat /\ f < n
  BY LedAssumption DEF Frames
<1>4. ASSUME q > p, p >= Middle
      PROVE  LightOf(r, p, Right) <= LightOf(r, q, Right)
  <2>1. PICK i \in 1 .. 11, j \in 1 .. 11, a \in Nat, b \in Nat :
          /\ i = LeadingIndicator(p) /\ j = LeadingIndicator(q)
          /\ a = LeadingBrightness(p) /\ b = LeadingBrightness(q)
          /\ i <= j /\ (i = j => a <= b)
    BY <1>4, BarGrows
  <2>2. ASSUME NEW l \in Right, NEW f \in Frames, l \in Drawing(r, p)[f]
        PROVE  l \in Drawing(r, q)[f]
    <3>1. l \in Left \cup Right /\ l \in Int /\ f \in Int /\ Centre < l
      BY <1>1, LedAssumption DEF Frames
    <3>2. Beside(i, l) /\ (Dimmed(r) /\ l = i => f < DimsFrom(TRUE, p))
      BY <2>1, <2>2, <3>1, BesideLit
    <3>3. l <= i  BY <1>1, <3>1, <3>2 DEF Beside
    <3>4. Beside(j, l)  BY <1>1, <2>1, <3>1, <3>3 DEF Beside
    <3>5. /\ i >= Centre /\ DimsFrom(TRUE, p) = a
          /\ j >= Centre /\ DimsFrom(TRUE, q) = b
      BY <1>1, <2>1, <3>1, <3>3 DEF DimsFrom
    <3>6. Dimmed(r) /\ l = j => f < b
      <4>1. l = j => l = i /\ a <= b  BY <2>1, <3>1, <3>3
      <4>2. f < a /\ a <= b => f < b  BY <3>1
      <4> QED  BY <3>2, <3>5, <4>1, <4>2, Zenon
    <3>7. Dimmed(r) /\ l = LeadingIndicator(q) => f < DimsFrom(TRUE, q)
      BY <2>1, <3>5, <3>6, Zenon
    <3>8. Beside(LeadingIndicator(q), l)  BY <2>1, <3>4
    <3> QED  BY <3>1, <3>7, <3>8, BesideLit
  <2>3. \A l \in Right, f \in Frames :
          l \in Drawing(r, p)[f] => l \in Drawing(r, q)[f]
    BY <2>2
  <2> QED  BY <1>1, <2>3, LightFacts
<1>5. ASSUME q < p, p <= Middle
      PROVE  LightOf(r, p, Left) <= LightOf(r, q, Left)
  <2>1. PICK i \in 1 .. 11, j \in 1 .. 11, a \in Nat, b \in Nat :
          /\ i = LeadingIndicator(p) /\ j = LeadingIndicator(q)
          /\ a = LeadingBrightness(p) /\ b = LeadingBrightness(q)
          /\ j <= i /\ (i = j => b <= a)
    BY <1>5, BarGrows
  <2>2. ASSUME NEW l \in Left, NEW f \in Frames, l \in Drawing(r, p)[f]
        PROVE  l \in Drawing(r, q)[f]
    <3>1. l \in Left \cup Right /\ l \in Int /\ f \in Int /\ l < Centre
      BY <1>1, LedAssumption DEF Frames
    <3>2. Beside(i, l) /\ (Dimmed(r) /\ l = i => f < DimsFrom(TRUE, p))
      BY <2>1, <2>2, <3>1, BesideLit
    <3>3. i <= l /\ i < Centre  BY <1>1, <3>1, <3>2 DEF Beside
    <3>4. Beside(j, l)  BY <1>1, <2>1, <3>1, <3>3 DEF Beside
    <3>5. /\ DimsFrom(TRUE, p) = (n - 1) - a
          /\ DimsFrom(TRUE, q) = (n - 1) - b
      BY <1>1, <1>3, <2>1, <3>3 DEF DimsFrom
    <3>6. Dimmed(r) /\ l = j => f < (n - 1) - b
      <4>1. l = j => l = i /\ b <= a  BY <2>1, <3>1, <3>3
      <4>2. f < (n - 1) - a /\ b <= a => f < (n - 1) - b  BY <3>1
      <4> QED  BY <3>2, <3>5, <4>1, <4>2, Zenon
    <3>7. Dimmed(r) /\ l = LeadingIndicator(q) => f < DimsFrom(TRUE, q)
      BY <2>1, <3>5, <3>6, Zenon
    <3>8. Beside(LeadingIndicator(q), l)  BY <2>1, <3>4
    <3> QED  BY <3>1, <3>7, <3>8, BesideLit
  <2>3. \A l \in Left, f \in Frames :
          l \in Drawing(r, p)[f] => l \in Drawing(r, q)[f]
    BY <2>2
  <2> QED  BY <1>1, <2>3, LightFacts
<1>6. ASSUME q > Middle PROVE LightOf(r, q, Left) = 0
  <2>1. PICK i \in 1 .. 11 : i = LeadingIndicator(q) /\ i >= Centre
    BY <1>6, BarGrows, Sides
  <2>2. \A l \in Left : ~Beside(LeadingIndicator(q), l)
    BY <1>1, <2>1 DEF Beside
  <2>3. \A l \in Left, f \in Frames : l \notin Drawing(r, q)[f]
    BY <2>2, BesideLit
  <2> QED  BY <1>1, <2>3, LightFacts
<1>7. ASSUME q < Middle PROVE LightOf(r, q, Right) = 0
  <2>1. PICK i \in 1 .. 11 : i = LeadingIndicator(q) /\ i <= Centre
    BY <1>1, <1>7, BarGrows, Sides
  <2>2. \A l \in Right : ~Beside(LeadingIndicator(q), l)
    BY <1>1, <2>1 DEF Beside
  <2>3. \A l \in Right, f \in Frames : l \notin Drawing(r, q)[f]
    BY <2>2, BesideLit
  <2> QED  BY <1>1, <2>3, LightFacts
<1> QED  BY <1>2, <1>4, <1>5, <1>6, <1>7

(* With a detent the ring grows from its middle to the side turned to, and *)
(* the other side stays dark, through every mode that draws a bar.         *)
THEOREM DetentGrowsOutwardAlways == Spec => DetentGrowsOutward
<1> DEFINE Step ==
      subject = "ring" /\ ring.detent /\ ring.mode # "SINGLE" =>
        /\ pos' > pos /\ pos >= Middle =>
             LightOf(ring, pos', Right) >= LightOf(ring, pos, Right)
        /\ pos' < pos /\ pos <= Middle =>
             LightOf(ring, pos', Left) >= LightOf(ring, pos, Left)
        /\ pos' > Middle => LightOf(ring, pos', Left) = 0
        /\ pos' < Middle => LightOf(ring, pos', Right) = 0
<1>1. MapInv /\ RingInv /\ MapInv' /\ RingInv' /\ [Next]_vars => Step
  <2> SUFFICES ASSUME MapInv, RingInv, MapInv', RingInv', [Next]_vars,
                      subject = "ring"
               PROVE  Step
    OBVIOUS
  <2>1. subject' = subject
    BY DEF Next, vars, Turn, Host, NextHue, Brighten, Compare
  <2>2. PICK p \in Nat, q \in Nat :
          p = pos /\ q = pos' /\ p <= EncMax /\ q <= EncMax
    BY <2>1, VirtmapAssumption DEF MapInv, RingInv, Whole, InRange
  <2>3. PICK r \in Ringed : r = ring  BY DEF RingInv
  <2> QED  BY <2>2, <2>3, Outward
<1>2. Spec => [][Step]_vars
  <2>1. MapInv /\ RingInv /\ MapInv' /\ RingInv' /\ [Next]_vars => [Step]_vars
    BY <1>1
  <2> QED  BY <2>1, MapAlways, RingAlways, PTL DEF Spec
<1> QED  BY <1>2 DEF DetentGrowsOutward
=============================================================================
