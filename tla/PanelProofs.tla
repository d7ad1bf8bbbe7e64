---------------------------- MODULE PanelProofs ----------------------------
(***************************************************************************)
(* Theorems about what the panel's hardware is read through: the decoder   *)
(* of an encoder, for any way the shaft may go when no scan misses an      *)
(* edge; its acceleration and the reads of the clock behind it, for every  *)
(* clock and every pace; and the debouncing, for any number of switches    *)
(* and samples.                                                            *)
(***************************************************************************)
EXTENDS Quadrature, SysTime, Debounce, WellFoundedInduction, TLAPS

-----------------------------------------------------------------------------
(* The decoder.                                                            *)

(* The half steps the shaft had made before the first scan.                *)
Before == CASE origin = 3 -> 2 [] origin = 2 -> 1 [] OTHER -> 0

(* Where a state of the decoder takes the shaft to be: its position in the *)
(* cycle, and how far it is from the last one a step was reported for.     *)
Residue(state) ==
  CASE state = "START" -> 0
    [] state = "MIDDLE" -> 2
    [] state \in {"CW", "MID_CCW"} -> 1
    [] OTHER -> 3

Ahead(state) ==
  CASE state \in {"CW", "MID_CW"} -> 1
    [] state \in {"CCW", "MID_CCW"} -> -1
    [] OTHER -> 0

Tracks ==
  /\ scanned = 2 * (steps + Before) + Ahead(rot)
  /\ scanned % 4 = Residue(rot)

NoEdgeMissed == MaxEdges \in {0, 1}

-----------------------------------------------------------------------------
(* What the table holds: a state of the decoder and a direction.           *)
LEMMA TableType ==
  ASSUME NEW s \in States, NEW c \in 0 .. 3
  PROVE  QuadStates(s, c)[1] \in States /\ QuadStates(s, c)[2] \in {-1, 0, 1}
<1>1. CASE c = 0  BY <1>1 DEF QuadStates, States
<1>2. CASE c = 1  BY <1>2 DEF QuadStates, States
<1>3. CASE c = 2  BY <1>3 DEF QuadStates, States
<1>4. CASE c = 3  BY <1>4 DEF QuadStates, States
<1> QED  BY <1>1, <1>2, <1>3, <1>4

LEMMA CodeType == ASSUME NEW p \in Int PROVE Code(p) \in 0 .. 3
BY DEF Code

(* The decoder of quadrature.c stays in its states.                        *)
THEOREM DecoderTypeCorrect == DecoderSpec => []DecoderTypeOK
<1>1. DecoderInit => DecoderTypeOK
  <2> SUFFICES ASSUME DecoderInit PROVE DecoderTypeOK
    OBVIOUS
  <2>1. rot \in States
    BY TableType, CodeType DEF DecoderInit, States
  <2> QED  BY <2>1, QuadratureAssumption DEF DecoderInit, DecoderTypeOK
<1>2. DecoderTypeOK /\ [DecoderNext]_decodervars => DecoderTypeOK'
  <2> SUFFICES ASSUME DecoderTypeOK, [DecoderNext]_decodervars
               PROVE  DecoderTypeOK'
    OBVIOUS
  <2>1. CASE PassEdge(1)  BY <2>1 DEF PassEdge, DecoderTypeOK
  <2>2. CASE PassEdge(-1)  BY <2>2 DEF PassEdge, DecoderTypeOK
  <2>3. CASE Scan
    <3>1. /\ QuadStates(rot, Code(shaft))[1] \in States
          /\ QuadStates(rot, Code(shaft))[2] \in {-1, 0, 1}
      BY TableType, CodeType DEF DecoderTypeOK
    <3> QED  BY <2>3, <3>1, QuadratureAssumption DEF Scan, DecoderTypeOK
  <2>4. CASE UNCHANGED decodervars  BY <2>4 DEF decodervars, DecoderTypeOK
  <2> QED  BY <2>1, <2>2, <2>3, <2>4 DEF DecoderNext
<1> QED  BY <1>1, <1>2, PTL DEF DecoderSpec

-----------------------------------------------------------------------------
(* One row of the table, for a shaft at most one edge further on: the new  *)
(* state and the direction account for how far it has come.                *)
LEMMA TableTracks ==
  ASSUME NEW s \in States, NEW p \in Int, p % 4 = Residue(s),
         NEW d \in {-1, 0, 1},
         NEW c, c = Code(p + d)
  PROVE  /\ Residue(QuadStates(s, c)[1]) = (p + d) % 4
         /\ Ahead(s) + d = 2 * QuadStates(s, c)[2] + Ahead(QuadStates(s, c)[1])
         /\ QuadStates(s, c)[2] > 0 => d > 0
         /\ QuadStates(s, c)[2] < 0 => d < 0
<1> DEFINE r == (p + d) % 4
<1>1. /\ r \in 0 .. 3
      /\ c = CASE r = 0 -> 3 [] r = 1 -> 1 [] r = 2 -> 0 [] OTHER -> 2
  BY DEF Code
<1>2. /\ p % 4 = 0 => r = (IF d = -1 THEN 3 ELSE d)
      /\ p % 4 = 1 => r = 1 + d
      /\ p % 4 = 2 => r = 2 + d
      /\ p % 4 = 3 => r = (IF d = 1 THEN 0 ELSE 3 + d)
  OBVIOUS
<1> HIDE DEF r
<1>3. CASE s = "START"
  <2>1. p % 4 = 0  BY <1>3 DEF Residue
  <2>2. CASE d = -1
    <3>1. r = 3 /\ c = 2  BY <1>1, <1>2, <2>1, <2>2
    <3> QED  BY <1>3, <2>2, <3>1 DEF QuadStates, Residue, Ahead, r
  <2>3. CASE d = 0
    <3>1. r = 0 /\ c = 3  BY <1>1, <1>2, <2>1, <2>3
    <3>2. QuadStates(s, c) = <<"START", 0>>  BY <1>3, <3>1 DEF QuadStates
    <3>3. Residue("START") = 0 /\ Ahead("START") = 0  BY DEF Residue, Ahead
    <3> QED  BY <1>3, <2>3, <3>1, <3>2, <3>3 DEF r
  <2>4. CASE d = 1
    <3>1. r = 1 /\ c = 1  BY <1>1, <1>2, <2>1, <2>4
    <3> QED  BY <1>3, <2>4, <3>1 DEF QuadStates, Residue, Ahead, r
  <2> QED  BY <2>2, <2>3, <2>4
<1>4. CASE s = "CW"
  <2>1. p % 4 = 1  BY <1>4 DEF Residue
  <2> QED  BY <1>1, <1>2, <1>4, <2>1 DEF QuadStates, Residue, Ahead, r
<1>5. CASE s = "CCW"
  <2>1. p % 4 = 3  BY <1>5 DEF Residue
  <2>2. CASE d = -1
    <3>1. r = 2 /\ c = 0  BY <1>1, <1>2, <2>1, <2>2
    <3> QED  BY <1>5, <2>2, <3>1 DEF QuadStates, Residue, Ahead, r
  <2>3. CASE d = 0
    <3>1. r = 3 /\ c = 2  BY <1>1, <1>2, <2>1, <2>3
    <3> QED  BY <1>5, <2>3, <3>1 DEF QuadStates, Residue, Ahead, r
  <2>4. CASE d = 1
    <3>1. r = 0 /\ c = 3  BY <1>1, <1>2, <2>1, <2>4
    <3> QED  BY <1>5, <2>4, <3>1 DEF QuadStates, Residue, Ahead, r
  <2> QED  BY <2>2, <2>3, <2>4
<1>6. CASE s = "MIDDLE"
  <2>1. p % 4 = 2  BY <1>6 DEF Residue
  <2> QED  BY <1>1, <1>2, <1>6, <2>1 DEF QuadStates, Residue, Ahead, r
<1>7. CASE s = "MID_CW"
  <2>1. p % 4 = 3  BY <1>7 DEF Residue
  <2> QED  BY <1>1, <1>2, <1>7, <2>1 DEF QuadStates, Residue, Ahead, r
<1>8. CASE s = "MID_CCW"
  <2>1. p % 4 = 1  BY <1>8 DEF Residue
  <2> QED  BY <1>1, <1>2, <1>8, <2>1 DEF QuadStates, Residue, Ahead, r
<1> QED  BY <1>3, <1>4, <1>5, <1>6, <1>7, <1>8 DEF States

LEMMA ScanTracks ==
  ASSUME DecoderTypeOK, Tracks, NoEdgeMissed, Scan
  PROVE  /\ Tracks'
         /\ steps' > steps => scanned' > scanned
         /\ steps' < steps => scanned' < scanned
<1> DEFINE d == shaft - scanned
           new == QuadStates(rot, Code(shaft))
<1>1. d \in {-1, 0, 1} /\ shaft = scanned + d /\ scanned \in Int /\ steps \in Int
  BY DEF DecoderTypeOK, NoEdgeMissed
<1>2. Before' = Before /\ Before \in Int
  BY DEF Scan, Before
<1>3. /\ rot \in States /\ scanned % 4 = Residue(rot)
      /\ scanned = 2 * (steps + Before) + Ahead(rot)
  BY DEF DecoderTypeOK, Tracks
<1>4. rot' = new[1] /\ steps' = steps + new[2] /\ scanned' = shaft
  BY DEF Scan
<1>5. new[1] \in States /\ new[2] \in {-1, 0, 1}
  BY <1>1, <1>3, TableType, CodeType
<1> HIDE DEF d
<1>6. /\ Residue(new[1]) = (scanned + d) % 4
      /\ Ahead(rot) + d = 2 * new[2] + Ahead(new[1])
      /\ new[2] > 0 => d > 0
      /\ new[2] < 0 => d < 0
  BY <1>1, <1>3, TableTracks
<1> HIDE DEF new
<1>7. Ahead(rot) \in Int /\ Ahead(new[1]) \in Int
  BY DEF Ahead
<1>8. Tracks'
  BY <1>1, <1>2, <1>3, <1>4, <1>5, <1>6, <1>7 DEF Tracks
<1>9. (steps' > steps => scanned' > scanned) /\ (steps' < steps => scanned' < scanned)
  BY <1>1, <1>4, <1>5, <1>6
<1> QED  BY <1>8, <1>9

LEMMA TracksInvariant == NoEdgeMissed /\ DecoderSpec => [](DecoderTypeOK /\ Tracks)
<1> SUFFICES ASSUME NoEdgeMissed PROVE DecoderSpec => [](DecoderTypeOK /\ Tracks)
  OBVIOUS
<1>1. DecoderInit => Tracks
  BY DEF DecoderInit, Tracks, Before, QuadStates, Code, Residue, Ahead
<1>2. DecoderTypeOK /\ Tracks /\ [DecoderNext]_decodervars => Tracks'
  <2> SUFFICES ASSUME DecoderTypeOK, Tracks, [DecoderNext]_decodervars
               PROVE  Tracks'
    OBVIOUS
  <2>1. CASE PassEdge(1)  BY <2>1 DEF PassEdge, Tracks, Before
  <2>2. CASE PassEdge(-1)  BY <2>2 DEF PassEdge, Tracks, Before
  <2>3. CASE Scan  BY <2>3, ScanTracks
  <2>4. CASE UNCHANGED decodervars  BY <2>4 DEF decodervars, Tracks, Before
  <2> QED  BY <2>1, <2>2, <2>3, <2>4 DEF DecoderNext
<1> QED  BY <1>1, <1>2, DecoderTypeCorrect, PTL DEF DecoderSpec

(* However far and however often the shaft is turned to and fro, the steps *)
(* quadrature_direction reports add up to its way, two edges to a step.    *)
THEOREM NoDriftAlways == NoEdgeMissed /\ DecoderSpec => []NoDrift
<1>1. DecoderTypeOK /\ Tracks => NoDrift
  BY DEF DecoderTypeOK, Tracks, Ahead, Before, NoDrift
<1> QED  BY <1>1, TracksInvariant, PTL

(* A step is reported only when the shaft has moved its way since the scan *)
(* before.                                                                 *)
THEOREM StepsFollowShaftAlways == NoEdgeMissed /\ DecoderSpec => StepsFollowShaft
<1> SUFFICES ASSUME NoEdgeMissed PROVE DecoderSpec => StepsFollowShaft
  OBVIOUS
<1> DEFINE Follows == /\ steps' > steps => scanned' > scanned
                      /\ steps' < steps => scanned' < scanned
<1>1. DecoderTypeOK /\ Tracks /\ [DecoderNext]_decodervars => [Follows]_decodervars
  <2> SUFFICES ASSUME DecoderTypeOK, Tracks, [DecoderNext]_decodervars
               PROVE  [Follows]_decodervars
    OBVIOUS
  <2>1. CASE Scan  BY <2>1, ScanTracks
  <2>2. CASE ~Scan
    <3>1. steps' = steps  BY <2>2 DEF DecoderNext, PassEdge, decodervars
    <3> QED  BY <3>1 DEF DecoderTypeOK
  <2> QED  BY <2>1, <2>2
<1> QED  BY <1>1, TracksInvariant, PTL DEF DecoderSpec, StepsFollowShaft

-----------------------------------------------------------------------------
(* The clock.                                                              *)

(* Induction over the naturals, for a set instead of a predicate: the      *)
(* numbers outside it would have a least one.                              *)
LEMMA NoDescent == IsWellFoundedOn({r \in Nat \X Nat : r[1] < r[2]}, Nat)
BY NatLessThanWellFounded, Zenon DEF OpToRel

LEMMA Induct ==
  ASSUME NEW S, 0 \in S, \A n \in Nat : n \in S => n + 1 \in S
  PROVE  Nat \subseteq S
<1>1. SUFFICES ASSUME Nat \ S # {} PROVE FALSE
  OBVIOUS
<1>2. \E x \in Nat \ S : \A y \in Nat \ S :
        ~(<<y, x>> \in {r \in Nat \X Nat : r[1] < r[2]})
  <2>1. Nat \ S \subseteq Nat  OBVIOUS
  <2> QED  BY <1>1, <2>1, NoDescent, WFMin, Zenon
<1>3. PICK x \in Nat \ S : \A y \in Nat \ S : ~(y < x)  BY <1>2
<1>4. x - 1 \in Nat  BY <1>3
<1>5. x - 1 \in S  BY <1>3, <1>4
<1> QED  BY <1>3, <1>4, <1>5

(* A function that gives Place up to n.                                    *)
Climbs(g, n) ==
  /\ g \in [0 .. n -> Nat \ {0}]
  /\ g[0] = 1
  /\ \A i \in 1 .. n : g[i] = ByteSize * g[i - 1]

LEMMA ClimbExists == ASSUME NEW n \in Nat PROVE \E g : Climbs(g, n)
<1> DEFINE S == {k \in Nat : \E g : Climbs(g, k)}
<1>1. 0 \in S
  <2>1. Climbs([i \in 0 .. 0 |-> 1], 0)  BY DEF Climbs
  <2> QED  BY <2>1
<1>2. ASSUME NEW k \in Nat, k \in S PROVE k + 1 \in S
  <2>1. PICK g : Climbs(g, k)  BY <1>2
  <2>2. PICK h : h = [i \in 0 .. k + 1 |-> IF i = k + 1 THEN ByteSize * g[k] ELSE g[i]]
    OBVIOUS
  <2>3. g[k] \in Nat \ {0} /\ ByteSize * g[k] \in Nat \ {0}
    BY <2>1, SysTimeAssumption DEF Climbs
  <2>4. Climbs(h, k + 1)
    <3>1. h \in [0 .. k + 1 -> Nat \ {0}]  BY <2>1, <2>2, <2>3 DEF Climbs
    <3>2. h[0] = 1  BY <2>1, <2>2 DEF Climbs
    <3>3. ASSUME NEW i \in 1 .. k + 1 PROVE h[i] = ByteSize * h[i - 1]
      <4>1. CASE i = k + 1  BY <2>2, <4>1
      <4>2. CASE i # k + 1
        <5>1. i \in 1 .. k /\ i - 1 \in 0 .. k + 1 /\ i - 1 # k + 1  BY <4>2
        <5>2. g[i] = ByteSize * g[i - 1]  BY <2>1, <5>1 DEF Climbs
        <5>3. h[i] = g[i] /\ h[i - 1] = g[i - 1]  BY <2>2, <4>2, <5>1
        <5> QED  BY <5>2, <5>3
      <4> QED  BY <4>1, <4>2
    <3> QED  BY <3>1, <3>2, <3>3 DEF Climbs
  <2> QED  BY <2>4
<1> HIDE DEF S
<1>3. Nat \subseteq S  BY <1>1, <1>2, Induct, Zenon
<1> QED  BY <1>3 DEF S

LEMMA ClimbUnique ==
  ASSUME NEW m \in Nat, NEW n \in Nat, m <= n,
         NEW g, Climbs(g, m), NEW h, Climbs(h, n)
  PROVE  g[m] = h[m]
<1> DEFINE S == {k \in Nat : k <= m => g[k] = h[k]}
<1>1. 0 \in S  BY DEF Climbs
<1>2. ASSUME NEW k \in Nat, k \in S PROVE k + 1 \in S
  <2>1. CASE k + 1 <= m
    <3>1. g[k] = h[k]  BY <1>2, <2>1
    <3>2. k + 1 \in 1 .. m /\ k + 1 \in 1 .. n /\ (k + 1) - 1 = k  BY <2>1
    <3>3. g[k + 1] = ByteSize * g[k]  BY <3>2 DEF Climbs
    <3>4. h[k + 1] = ByteSize * h[k]  BY <3>2 DEF Climbs
    <3> QED  BY <3>1, <3>3, <3>4
  <2> QED  BY <2>1
<1> HIDE DEF S
<1>3. Nat \subseteq S  BY <1>1, <1>2, Induct, Zenon
<1> QED  BY <1>3 DEF S

(* The recursion of Place defines a function.                              *)
LEMMA PlaceIs ==
  Place = [n \in Nat |-> IF n = 0 THEN 1 ELSE ByteSize * Place[n - 1]]
<1>1. \E f : f = [n \in Nat |-> IF n = 0 THEN 1 ELSE ByteSize * f[n - 1]]
  <2>1. PICK p : p = [n \in Nat |-> CHOOSE g : Climbs(g, n)]  OBVIOUS
  <2>2. ASSUME NEW n \in Nat PROVE Climbs(p[n], n)
    BY <2>1, ClimbExists, Zenon
  <2>3. PICK f : f = [n \in Nat |-> p[n][n]]  OBVIOUS
  <2>4. ASSUME NEW n \in Nat
        PROVE  f[n] = IF n = 0 THEN 1 ELSE ByteSize * f[n - 1]
    <3>1. CASE n = 0  BY <2>2, <2>3, <3>1 DEF Climbs
    <3>2. CASE n # 0
      <4>1. n - 1 \in Nat /\ n - 1 <= n /\ n \in 1 .. n  BY <3>2
      <4>2. p[n][n] = ByteSize * p[n][n - 1]  BY <2>2, <4>1 DEF Climbs
      <4>3. Climbs(p[n - 1], n - 1) /\ Climbs(p[n], n)  BY <2>2, <4>1, Zenon
      <4>4. p[n - 1][n - 1] = p[n][n - 1]
        <5>1. PICK k \in Nat : k = n - 1  BY <4>1
        <5>2. PICK g, h : g = p[k] /\ h = p[n]  OBVIOUS
        <5>3. g[k] = h[k]  BY <4>1, <4>3, <5>1, <5>2, ClimbUnique
        <5> QED  BY <5>1, <5>2, <5>3
      <4> QED  BY <2>3, <3>2, <4>1, <4>2, <4>4
    <3> QED  BY <3>1, <3>2
  <2>5. f = [n \in Nat |-> f[n]]  BY <2>3
  <2>6. f = [n \in Nat |-> IF n = 0 THEN 1 ELSE ByteSize * f[n - 1]]  BY <2>4, <2>5
  <2> QED  BY <2>6
<1> QED  BY <1>1 DEF Place

LEMMA PlaceStep ==
  /\ Place[0] = 1
  /\ \A n \in Nat : Place[n + 1] = ByteSize * Place[n]
<1>1. Place[0] = 1  BY PlaceIs
<1>2. ASSUME NEW n \in Nat PROVE Place[n + 1] = ByteSize * Place[n]
  <2>1. n + 1 \in Nat /\ n + 1 # 0 /\ (n + 1) - 1 = n  OBVIOUS
  <2> QED  BY PlaceIs, <2>1
<1> QED  BY <1>1, <1>2

LEMMA PlacePositive == \A n \in Nat : Place[n] \in Nat \ {0}
<1> DEFINE S == {n \in Nat : Place[n] \in Nat \ {0}}
<1>1. 0 \in S  BY PlaceStep
<1>2. ASSUME NEW n \in Nat, n \in S PROVE n + 1 \in S
  <2>1. PICK p \in Nat \ {0} : p = Place[n]  BY <1>2
  <2>2. PICK b \in Nat \ {0} : b = ByteSize  BY SysTimeAssumption
  <2>3. b * p \in Nat \ {0}  OBVIOUS
  <2>4. Place[n + 1] = b * p  BY <2>1, <2>2, PlaceStep
  <2> QED  BY <2>3, <2>4
<1> HIDE DEF S
<1>3. Nat \subseteq S  BY <1>1, <1>2, Induct, Zenon
<1> QED  BY <1>3 DEF S

(* A place divides those above it.                                         *)
LEMMA PlaceDivides ==
  ASSUME NEW m \in Nat, NEW n \in Nat, m <= n
  PROVE  \E c \in Nat : Place[n] = c * Place[m]
<1> DEFINE S == {k \in Nat : \E c \in Nat : Place[m + k] = c * Place[m]}
<1>1. 0 \in S
  <2>1. PICK p \in Nat : p = Place[m]  BY PlacePositive
  <2>2. m + 0 = m /\ p = 1 * p  OBVIOUS
  <2> QED  BY <2>1, <2>2
<1>2. ASSUME NEW k \in Nat, k \in S PROVE k + 1 \in S
  <2>1. PICK p \in Nat : p = Place[m]  BY PlacePositive
  <2>2. PICK c \in Nat : Place[m + k] = c * p  BY <1>2, <2>1
  <2>3. PICK b \in Nat : b = ByteSize  BY SysTimeAssumption
  <2>4. m + k \in Nat /\ m + (k + 1) = (m + k) + 1  OBVIOUS
  <2>5. Place[m + (k + 1)] = b * (c * p)  BY <2>2, <2>3, <2>4, PlaceStep
  <2>6. b * (c * p) = (b * c) * p /\ b * c \in Nat  OBVIOUS
  <2> QED  BY <2>1, <2>5, <2>6
<1> HIDE DEF S
<1>3. Nat \subseteq S  BY <1>1, <1>2, Induct, Zenon
<1>4. PICK k \in Nat : n = m + k
  <2>1. n - m \in Nat /\ n = m + (n - m)  OBVIOUS
  <2> QED  BY <2>1
<1>5. k \in S  BY <1>3
<1> QED  BY <1>4, <1>5 DEF S

LEMMA ModulusPositive == Modulus \in Nat \ {0}
BY PlacePositive, SysTimeAssumption DEF Modulus

-----------------------------------------------------------------------------
(* The acceleration.  The moments are in order, so that a time read later  *)
(* is not an earlier one.                                                  *)
Ordered ==
  /\ ticks \in Nat /\ begun \in Nat /\ begun <= ticks
  /\ lastAt \in Nat \cup {Torn}
  /\ lastAt <= ticks /\ (loaded # 0 => lastAt <= begun)

(* The time kept is that of the moment kept, and a gap is known only with  *)
(* the factor for it.                                                      *)
Paced ==
  /\ lastAt # Torn => last = lastAt % Modulus
  /\ FactorFitsPace

(* A number below m is a multiple of m only if it is none.                 *)
LEMMA Multiple ==
  ASSUME NEW m \in Nat \ {0}, NEW q \in Int
  PROVE  /\ m * q \in Int
         /\ q >= 1 => m * q >= m
         /\ q <= -1 => m * q <= -m
         /\ q = 0 => m * q = 0
<1>1. ASSUME q >= 1 PROVE m * q >= m
  <2>1. PICK k \in Nat : k = q - 1  BY <1>1
  <2>2. q = 1 + k  BY <2>1
  <2>3. m * (1 + k) = m + (m * k) /\ m * k \in Nat  OBVIOUS
  <2> QED  BY <2>2, <2>3
<1>2. ASSUME q <= -1 PROVE m * q <= -m
  <2>1. PICK k \in Nat : k = -1 - q  BY <1>2
  <2>2. q = -1 - k  BY <2>1
  <2>3. m * (-1 - k) = (-m) - (m * k) /\ m * k \in Nat  OBVIOUS
  <2> QED  BY <2>2, <2>3
<1>3. q = 0 => m * q = 0  OBVIOUS
<1> QED  BY <1>1, <1>2, <1>3

LEMMA RemainderIs ==
  ASSUME NEW m \in Nat \ {0}, NEW z \in Int, NEW r \in Nat, r < m,
         z = r \/ z = r - m
  PROVE  z % m = r
<1>1. PICK q \in Int, x \in Nat : z = (m * q) + x /\ x < m /\ x = z % m
  <2>1. z \div m \in Int /\ z % m \in Nat /\ z % m < m /\ z = (m * (z \div m)) + (z % m)
    OBVIOUS
  <2> QED  BY <2>1
<1>2. PICK n \in Int : n = m * q /\ (q >= 1 => n >= m) /\ (q <= -1 => n <= -m)
                       /\ (q = 0 => n = 0)
  BY Multiple
<1>3. CASE z = r
  <2>1. ~(n >= m) /\ ~(n <= -m)  BY <1>1, <1>2, <1>3
  <2>2. q = 0  BY <1>2, <2>1
  <2> QED  BY <1>1, <1>2, <1>3, <2>2
<1>4. CASE z = r - m
  <2>1. PICK p \in Int : p = q + 1  OBVIOUS
  <2>2. m * p = n + m  BY <1>2, <2>1
  <2>3. /\ p >= 1 => m * p >= m
        /\ p <= -1 => m * p <= -m
        /\ p = 0 => m * p = 0
    BY Multiple
  <2>4. m * p = r - x  BY <1>1, <1>2, <1>4, <2>2
  <2>5. ~(m * p >= m) /\ ~(m * p <= -m)  BY <1>1, <2>4
  <2>6. p = 0  BY <2>3, <2>5
  <2> QED  BY <1>1, <2>3, <2>4, <2>6
<1> QED  BY <1>3, <1>4

(* Two times of the clock differ, on its width, by what lies between.      *)
LEMMA DeltaIsGap ==
  ASSUME NEW m \in Nat \ {0}, NEW a \in Nat, NEW b \in Nat, a <= b, b - a < m
  PROVE  ((b % m) - (a % m)) % m = b - a
<1>1. PICK i \in Int, x \in Nat : a = (m * i) + x /\ x = a % m /\ x < m
  <2>1. a \div m \in Int /\ a % m \in Nat /\ a % m < m /\ a = (m * (a \div m)) + (a % m)
    OBVIOUS
  <2> QED  BY <2>1
<1>2. PICK j \in Int, y \in Nat : b = (m * j) + y /\ y = b % m /\ y < m
  <2>1. b \div m \in Int /\ b % m \in Nat /\ b % m < m /\ b = (m * (b \div m)) + (b % m)
    OBVIOUS
  <2> QED  BY <2>1
<1>3. PICK k \in Int, n \in Int, r \in Nat, z \in Int :
        k = j - i /\ n = m * k /\ r = b - a /\ r < m
        /\ z = (b % m) - (a % m) /\ z = y - x
  <2>1. j - i \in Int /\ m * (j - i) \in Int /\ b - a \in Nat  OBVIOUS
  <2>2. (b % m) - (a % m) = y - x  BY <1>1, <1>2, Zenon
  <2>3. y - x \in Int  OBVIOUS
  <2> QED  BY <2>1, <2>2, <2>3
<1>4. r = n + z
  <2>1. PICK p \in Int, q \in Int : p = m * i /\ q = m * j
    OBVIOUS
  <2>2. n = q - p
    <3>1. m * (j - i) = (m * j) - (m * i)  OBVIOUS
    <3> QED  BY <1>3, <2>1, <3>1
  <2>3. a = p + x /\ b = q + y  BY <1>1, <1>2, <2>1
  <2> QED  BY <1>3, <2>2, <2>3
<1>5. (k >= 1 => n >= m) /\ (k <= -1 => n <= -m) /\ (k = 0 => n = 0)
  BY <1>3, Multiple
<1>6. -m < z /\ z < m  BY <1>1, <1>2, <1>3
<1>7. z = r \/ z = r - m
  <2>1. CASE k = 0  BY <1>3, <1>4, <1>5, <2>1
  <2>2. CASE k # 0
    <3>1. ~(n <= -m) /\ n < m + m  BY <1>3, <1>4, <1>6
    <3>2. k >= 1  BY <1>5, <2>2, <3>1
    <3>3. m * (k - 1) = n - m  BY <1>3
    <3>4. k - 1 \in Int /\ (k - 1 >= 1 => m * (k - 1) >= m)  BY Multiple
    <3>5. k = 1  BY <3>1, <3>2, <3>3, <3>4
    <3>6. n = m  BY <1>3, <3>5
    <3> QED  BY <1>3, <1>4, <3>6
  <2> QED  BY <2>1, <2>2
<1>8. z % m = r  BY <1>3, <1>7, RemainderIs
<1> QED  BY <1>3, <1>8

LEMMA PacedInit == ClockInit => Ordered /\ Paced
<1> SUFFICES ASSUME ClockInit PROVE Ordered /\ Paced
  OBVIOUS
<1>1. 0 % Modulus = 0
  BY RemainderIs, ModulusPositive
<1>2. Torn = -1  BY DEF Torn
<1> QED  BY <1>1, <1>2 DEF ClockInit, Ordered, Paced, FactorFitsPace

LEMMA OrderedStep == Ordered /\ [ClockNext]_clockvars => Ordered'
<1> SUFFICES ASSUME Ordered, [ClockNext]_clockvars PROVE Ordered'
  OBVIOUS
<1> USE DEF Torn
<1>1. CASE Tick  BY <1>1 DEF Tick, Ordered
<1>2. CASE Load  BY <1>2 DEF Load, Ordered
<1>3. CASE EncoderStill  BY <1>3 DEF EncoderStill, Ordered
<1>4. ASSUME NEW direction \in {-1, 1}, EncoderMoves(direction)
      PROVE  Ordered'
  <2>1. ReadAt \in {begun, ticks, -1}  BY DEF ReadAt
  <2> QED  BY <1>4, <2>1 DEF EncoderMoves, Ordered
<1>5. CASE UNCHANGED clockvars  BY <1>5 DEF clockvars, Ordered
<1> QED  BY <1>1, <1>2, <1>3, <1>4, <1>5 DEF ClockNext

LEMMA PacedStep ==
  Ordered /\ Paced /\ [ClockNext]_clockvars => Paced'
<1> SUFFICES ASSUME Ordered, Paced, [ClockNext]_clockvars
             PROVE  Paced'
  OBVIOUS
<1>1. CASE Tick \/ Load \/ UNCHANGED clockvars
  BY <1>1 DEF Tick, Load, clockvars, Paced, FactorFitsPace
<1>2. CASE EncoderStill
  BY <1>2 DEF EncoderStill, Paced, FactorFitsPace
<1>3. ASSUME NEW direction \in {-1, 1}, EncoderMoves(direction)
      PROVE  Paced'
  <2> DEFINE now == ReadAt
             torn == Torn
             m == Modulus
  <2>1. /\ lastAt' = now /\ last' = value
        /\ accel_factor' = FactorFor(Delta(value, last))
        /\ gap' = IF torn \in {lastAt, now} THEN torn ELSE now - lastAt
    BY <1>3 DEF EncoderMoves
  <2>2. m \in Nat \ {0} /\ torn = -1  BY ModulusPositive DEF Torn
  <2>3. now # torn => value = now % m /\ (now = begun \/ now = ticks)
    BY DEF ReadAt, thetime
  <2>4. loaded # 0
    BY <1>3, SysTimeAssumption DEF EncoderMoves
  <2>5. ASSUME gap' # torn, gap' < m
        PROVE  accel_factor' = FactorFor(gap')
    <3>1. now # torn /\ lastAt # torn /\ gap' = now - lastAt
      BY <2>1, <2>5
    <3>2. now \in Nat /\ lastAt \in Nat /\ lastAt <= now
      BY <2>2, <2>3, <2>4, <3>1 DEF Ordered
    <3>3. last = lastAt % m  BY <3>1 DEF Paced
    <3>4. ((now % m) - (lastAt % m)) % m = now - lastAt
      BY <2>2, <2>5, <3>1, <3>2, DeltaIsGap
    <3>5. Delta(value, last) = gap'
      BY <2>3, <3>1, <3>3, <3>4 DEF Delta
    <3> QED  BY <2>1, <3>5
  <2>6. lastAt' # torn => last' = lastAt' % m
    BY <2>1, <2>3
  <2> QED  BY <2>5, <2>6 DEF Paced, FactorFitsPace
<1> QED  BY <1>1, <1>2, <1>3 DEF ClockNext

(* The acceleration encoder_movement_update gives is the one for the time  *)
(* between the two edges.                                                  *)
THEOREM FactorFitsPaceAlways == ClockSpec => []FactorFitsPace
<1>1. ClockInit => Ordered /\ Paced  BY PacedInit
<1>2. Ordered /\ Paced /\ [ClockNext]_clockvars => (Ordered /\ Paced)'
  BY OrderedStep, PacedStep
<1>3. Paced => FactorFitsPace  BY DEF Paced
<1> QED  BY <1>1, <1>2, <1>3, PTL DEF ClockSpec

-----------------------------------------------------------------------------
(* The read of the clock.                                                  *)

LEMMA Division ==
  ASSUME NEW m \in Nat \ {0}, NEW t \in Nat
  PROVE  \E q \in Nat, x \in Nat : /\ q = t \div m /\ x = t % m
                                   /\ t = (m * q) + x /\ x < m
<1>1. t \div m \in Nat /\ t % m \in Nat /\ t % m < m /\ t = (m * (t \div m)) + (t % m)
  OBVIOUS
<1> QED  BY <1>1

LEMMA DivisionIs ==
  ASSUME NEW m \in Nat \ {0}, NEW t \in Nat, NEW q \in Nat, NEW x \in Nat,
         x < m, t = (m * q) + x
  PROVE  t \div m = q /\ t % m = x
<1>1. PICK p \in Nat, y \in Nat : p = t \div m /\ y = t % m
                                  /\ t = (m * p) + y /\ y < m
  BY Division
<1>2. PICK k \in Int, n \in Int : k = p - q /\ n = m * k
  OBVIOUS
<1>3. n = x - y
  <2>1. m * (p - q) = (m * p) - (m * q)  OBVIOUS
  <2>2. PICK a \in Int, b \in Int : a = m * p /\ b = m * q  OBVIOUS
  <2>3. n = a - b  BY <1>2, <2>1, <2>2
  <2>4. t = a + y /\ t = b + x  BY <1>1, <2>2
  <2> QED  BY <2>3, <2>4
<1>4. (k >= 1 => n >= m) /\ (k <= -1 => n <= -m) /\ (k = 0 => n = 0)
  BY <1>2, Multiple
<1>5. k = 0  BY <1>1, <1>3, <1>4
<1> QED  BY <1>1, <1>2, <1>3, <1>4, <1>5

(* One digit more of the remainder.                                        *)
LEMMA NextDigit ==
  ASSUME NEW p \in Nat \ {0}, NEW b \in Nat \ {0}, NEW t \in Nat
  PROVE  t % (b * p) = (t % p) + (((t \div p) % b) * p)
<1>1. PICK q \in Nat, x \in Nat : q = t \div p /\ x = t % p
                                  /\ t = (p * q) + x /\ x < p
  BY Division
<1>2. PICK c \in Nat, d \in Nat : c = q \div b /\ d = q % b
                                  /\ q = (b * c) + d /\ d < b
  BY Division
<1>3. PICK m \in Nat \ {0}, y \in Nat : m = b * p /\ y = (d * p) + x
  <2>1. b * p \in Nat \ {0} /\ (d * p) + x \in Nat  OBVIOUS
  <2> QED  BY <2>1
<1>4. y < m
  <2>1. PICK e \in Nat : b = (d + 1) + e
    <3>1. b - (d + 1) \in Nat /\ b = (d + 1) + (b - (d + 1))  BY <1>2
    <3> QED  BY <3>1
  <2>2. ((d + 1) + e) * p = ((d * p) + p) + (e * p) /\ e * p \in Nat /\ d * p \in Nat
    OBVIOUS
  <2>3. PICK u \in Nat, v \in Nat : u = d * p /\ v = e * p  BY <2>2
  <2>4. m = (u + p) + v /\ y = u + x  BY <1>3, <2>1, <2>2, <2>3
  <2> QED  BY <1>1, <2>4
<1>5. t = (m * c) + y
  <2>1. p * ((b * c) + d) = ((b * p) * c) + (d * p)  OBVIOUS
  <2>2. PICK u \in Nat, v \in Nat : u = m * c /\ v = d * p  OBVIOUS
  <2>3. p * q = u + v  BY <1>2, <1>3, <2>1, <2>2
  <2> QED  BY <1>1, <1>3, <2>2, <2>3
<1>6. t % m = y  BY <1>4, <1>5, DivisionIs
<1> QED  BY <1>1, <1>2, <1>3, <1>6

(* The width of the clock does not show in a digit it has.                 *)
LEMMA DigitKept ==
  ASSUME NEW p \in Nat \ {0}, NEW b \in Nat \ {0}, NEW c \in Nat, NEW m \in Nat \ {0},
         m = c * (b * p), NEW t \in Nat
  PROVE  ((t % m) \div p) % b = (t \div p) % b
<1>1. PICK u \in Nat, w \in Nat : w = t % m /\ t = (m * u) + w
  BY Division
<1>2. PICK q \in Nat, x \in Nat : q = w \div p /\ w = (p * q) + x /\ x < p
  BY Division
<1>3. PICK e \in Nat, d \in Nat : d = q % b /\ q = (b * e) + d /\ d < b
  BY Division
<1>4. PICK k \in Nat, f \in Nat : k = (b * f) + d /\ f = (c * u) + e
  <2>1. (c * u) + e \in Nat /\ (b * ((c * u) + e)) + d \in Nat  OBVIOUS
  <2> QED  BY <2>1
<1>5. t = (p * k) + x
  <2>1. p * ((b * ((c * u) + e)) + d) = ((c * (b * p)) * u) + (p * ((b * e) + d))
    OBVIOUS
  <2>2. PICK y \in Nat, z \in Nat : y = m * u /\ z = p * q  OBVIOUS
  <2>3. p * k = y + z  BY <1>3, <1>4, <2>1, <2>2
  <2> QED  BY <1>1, <1>2, <2>2, <2>3
<1>6. t \div p = k  BY <1>2, <1>5, DivisionIs
<1>7. k % b = d  BY <1>3, <1>4, DivisionIs
<1> QED  BY <1>1, <1>2, <1>3, <1>6, <1>7

(* A tick that does not carry leaves the upper digits as they are.         *)
LEMMA NoCarry ==
  ASSUME NEW b \in Nat \ {0}, NEW c \in Nat, NEW p \in Nat \ {0}, p = c * b,
         NEW t \in Nat, (t + 1) % b # 0
  PROVE  (t + 1) \div p = t \div p
<1>1. PICK q \in Nat, x \in Nat : q = t \div p /\ t = (p * q) + x /\ x < p
  BY Division
<1>2. PICK n \in Nat : n = p * q  OBVIOUS
<1>3. x + 1 # p
  <2>1. SUFFICES ASSUME x + 1 = p PROVE FALSE  OBVIOUS
  <2>2. t + 1 = n + p  BY <1>1, <1>2, <2>1
  <2>3. PICK k \in Nat : k = c * (q + 1)  OBVIOUS
  <2>4. (c * b) * (q + 1) = b * (c * (q + 1)) /\ p * (q + 1) = (p * q) + p  OBVIOUS
  <2>5. PICK r \in Nat, z \in Nat : r = t + 1 /\ z = 0  OBVIOUS
  <2>6. r = (b * k) + z /\ z < b  BY <1>2, <2>2, <2>3, <2>4, <2>5
  <2>7. r % b = z  BY <2>6, DivisionIs
  <2> QED  BY <2>5, <2>7
<1>4. t + 1 = (p * q) + (x + 1) /\ x + 1 < p  BY <1>1, <1>2, <1>3
<1>5. (t + 1) \div p = q  BY <1>4, DivisionIs
<1> QED  BY <1>1, <1>5

(* What has been loaded is of the tick the read began at, unless the one   *)
(* it met has carried out of a byte.                                       *)
Loads ==
  /\ loaded \in 0 .. NumBytes
  /\ loaded = 0 => value = 0
  /\ loaded > 0 => ticks = begun \/ ticks = begun + 1
  /\ loaded > 0 /\ (ticks = begun \/ ticks % ByteSize # 0) =>
       value = begun % Place[loaded]

LEMMA LoadsInit == ClockInit => Loads
BY SysTimeAssumption DEF ClockInit, Loads

LEMMA LoadsStep == Ordered /\ Loads /\ [ClockNext]_clockvars => Loads'
<1> SUFFICES ASSUME Ordered, Loads, [ClockNext]_clockvars PROVE Loads'
  OBVIOUS
<1>1. CASE Tick  BY <1>1 DEF Tick, Loads, Ordered
<1>2. CASE EncoderStill \/ \E direction \in {-1, 1} : EncoderMoves(direction)
  BY <1>2, SysTimeAssumption DEF EncoderStill, EncoderMoves, Loads
<1>3. CASE UNCHANGED clockvars  BY <1>3 DEF clockvars, Loads
<1>4. CASE Load
  <2>1. /\ loaded \in Nat /\ loaded < NumBytes /\ NumBytes \in Nat
        /\ loaded' = loaded + 1 /\ ticks' = ticks /\ ticks \in Nat
        /\ begun' = IF loaded = 0 THEN ticks ELSE begun
        /\ begun' \in Nat
    BY <1>4, SysTimeAssumption DEF Load, Loads, Ordered
  <2>2. ticks' = begun' \/ ticks' = begun' + 1  BY <2>1 DEF Loads
  <2>3. ASSUME ticks' = begun' \/ ticks' % ByteSize # 0
        PROVE  value' = begun' % Place[loaded']
    <3>1. PICK p \in Nat \ {0}, b \in Nat \ {0}, m \in Nat \ {0}, t \in Nat :
            /\ p = Place[loaded] /\ b = ByteSize /\ m = Modulus
            /\ t = begun'
      BY <2>1, PlacePositive, ModulusPositive, SysTimeAssumption
    <3>2. Place[loaded'] = b * p  BY <2>1, <3>1, PlaceStep
    <3>3. PICK c \in Nat : m = c * (b * p)
      <4>1. PICK l \in Nat : l = loaded' /\ l <= NumBytes  BY <2>1
      <4>2. \E c \in Nat : Place[NumBytes] = c * Place[l]
        BY <2>1, <4>1, PlaceDivides
      <4> QED  BY <3>1, <3>2, <4>1, <4>2 DEF Modulus
    <3>4. value' = value + (((ticks % m) \div p) % b) * p
      BY <1>4, <3>1 DEF Load, ByteOf, thetime
    <3>5. ((ticks % m) \div p) % b = (ticks \div p) % b
      BY <2>1, <3>1, <3>3, DigitKept
    <3>6. value = t % p /\ ticks \div p = t \div p
      <4>1. CASE loaded = 0
        <5>1. p = 1 /\ value = 0 /\ t = ticks
          BY <2>1, <3>1, <4>1, PlaceStep DEF Loads
        <5>2. t % 1 = 0  OBVIOUS
        <5> QED  BY <5>1, <5>2
      <4>2. CASE loaded # 0
        <5>1. t = begun /\ loaded > 0  BY <2>1, <3>1, <4>2
        <5>2. value = t % p  BY <2>1, <2>3, <3>1, <5>1 DEF Loads
        <5>3. ticks = t \/ (ticks = t + 1 /\ (t + 1) % b # 0)
          BY <2>1, <2>2, <2>3, <3>1
        <5>4. \E q \in Nat : p = q * b
          <6>1. loaded - 1 \in Nat /\ (loaded - 1) + 1 = loaded  BY <2>1, <5>1
          <6>2. PICK q \in Nat : q = Place[loaded - 1]  BY <6>1, PlacePositive
          <6>3. p = b * q  BY <3>1, <6>1, <6>2, PlaceStep
          <6>4. b * q = q * b  OBVIOUS
          <6> QED  BY <6>3, <6>4
        <5>5. ticks \div p = t \div p  BY <5>3, <5>4, NoCarry
        <5> QED  BY <5>2, <5>5
      <4> QED  BY <4>1, <4>2
    <3>7. t % (b * p) = (t % p) + (((t \div p) % b) * p)  BY NextDigit
    <3> QED  BY <3>1, <3>2, <3>4, <3>5, <3>6, <3>7
  <2>4. loaded' \in 0 .. NumBytes /\ loaded' # 0  BY <2>1
  <2> QED  BY <2>2, <2>3, <2>4 DEF Loads
<1> QED  BY <1>1, <1>2, <1>3, <1>4 DEF ClockNext

(* systime_ms returns a time that was not the current one at any moment    *)
(* of the call only if the tick it met carried out of the lowest byte.     *)
THEOREM TornOnlyAtCarryAlways == ClockSpec => []TornOnlyAtCarry
<1>1. ClockInit => Ordered /\ Loads  BY PacedInit, LoadsInit
<1>2. Ordered /\ Loads /\ [ClockNext]_clockvars => (Ordered /\ Loads)'
  BY OrderedStep, LoadsStep
<1>3. Ordered /\ Loads => TornOnlyAtCarry
  <2> SUFFICES ASSUME Ordered, Loads, loaded = NumBytes, ReadAt = Torn,
                      ticks % ByteSize # 0
               PROVE  FALSE
    BY DEF TornOnlyAtCarry
  <2>1. value = begun % Modulus
    BY SysTimeAssumption DEF Loads, Modulus
  <2>2. ReadAt = begun  BY <2>1 DEF ReadAt
  <2>3. begun \in Nat  BY DEF Ordered
  <2> QED  BY <2>2, <2>3 DEF Torn
<1> QED  BY <1>1, <1>2, <1>3, PTL DEF ClockSpec

-----------------------------------------------------------------------------
(* The switches.                                                           *)

(* How many samples ago a slot of the ring was written.                    *)
Age(i) == IF i < index THEN index - 1 - i ELSE index - 1 - i + Samples

(* The ring holds what run remembers: the last run[s] samples found switch *)
(* s closed, and the one before them open.                                 *)
Ring ==
  \A s \in Switches, i \in Slots :
    /\ Age(i) < run[s] => s \in buf[i]
    /\ Age(i) = run[s] => s \notin buf[i]

DebounceInv == SwitchTypeOK /\ Ring /\ PressedWhenSteady /\ EdgesAlternate

-----------------------------------------------------------------------------
(* The index of switch_x16_update wraps round.                             *)
LEMMA IndexWraps ==
  ASSUME NEW k \in Slots
  PROVE  (k + 1) % Samples = IF k + 1 = Samples THEN 0 ELSE k + 1
<1>1. Samples \in Nat \ {0} /\ k \in Nat /\ k < Samples
  BY DebounceAssumption DEF Slots
<1>2. CASE k + 1 = Samples
  BY <1>1, <1>2
<1>3. CASE k + 1 # Samples
  <2>1. k + 1 \in 0 .. Samples - 1  BY <1>1, <1>3
  <2> QED  BY <1>1, <1>3, <2>1
<1> QED  BY <1>2, <1>3

(* A sample ages every slot but the one it is written to.                  *)
LEMMA SlotsAge ==
  ASSUME SwitchTypeOK, NEW closed \in SUBSET Switches, Update(closed), NEW i \in Slots
  PROVE  /\ index' \in Slots
         /\ Age(i)' = IF i = index THEN 0 ELSE Age(i) + 1
         /\ Age(i) \in Slots
<1>1. Samples \in Nat \ {0} /\ i \in Nat /\ i < Samples
      /\ index \in Nat /\ index < Samples
  BY DebounceAssumption DEF Slots, SwitchTypeOK
<1>2. index' = IF index + 1 = Samples THEN 0 ELSE index + 1
  BY IndexWraps DEF SwitchTypeOK, Update
<1>3. index' \in Slots /\ Age(i) \in Slots
  BY <1>1, <1>2 DEF Slots, Age
<1>4. Age(i)' = IF i = index THEN 0 ELSE Age(i) + 1
  BY <1>1, <1>2 DEF Age
<1> QED  BY <1>3, <1>4

LEMMA AgeInRing ==
  ASSUME NEW j \in Slots, NEW i \in Slots
  PROVE  (IF i < j THEN j - 1 - i ELSE j - 1 - i + Samples) \in Slots
BY DebounceAssumption DEF Slots

(* Every age below Samples is the age of some slot.                        *)
LEMMA SlotOfAge ==
  ASSUME NEW j \in Slots, NEW k \in Slots
  PROVE  \E i \in Slots :
           (IF i < j THEN j - 1 - i ELSE j - 1 - i + Samples) = k
<1>1. Samples \in Nat \ {0} /\ j \in Nat /\ j < Samples /\ k \in Nat /\ k < Samples
  BY DebounceAssumption DEF Slots
<1>2. CASE k < j
  <2>1. j - 1 - k \in Slots  BY <1>1, <1>2 DEF Slots
  <2> QED  BY <1>1, <1>2, <2>1
<1>3. CASE ~(k < j)
  <2>1. j - 1 - k + Samples \in Slots  BY <1>1, <1>3 DEF Slots
  <2>2. ~(j - 1 - k + Samples < j)  BY <1>1
  <2> QED  BY <1>1, <2>1, <2>2
<1> QED  BY <1>2, <1>3

-----------------------------------------------------------------------------
LEMMA InitDebounce == SwitchInit => DebounceInv
<1> SUFFICES ASSUME SwitchInit PROVE DebounceInv
  OBVIOUS
<1>1. SwitchTypeOK
  BY DebounceAssumption DEF SwitchInit, SwitchTypeOK, Slots
<1>2. Ring
  BY DebounceAssumption DEF SwitchInit, Ring, Age, Slots
<1>3. PressedWhenSteady /\ EdgesAlternate
  BY DebounceAssumption
     DEF SwitchInit, PressedWhenSteady, EdgesAlternate, Pressed, Released
<1> QED  BY <1>1, <1>2, <1>3 DEF DebounceInv

LEMMA UpdateType ==
  ASSUME SwitchTypeOK, NEW closed \in SUBSET Switches, Update(closed)
  PROVE  SwitchTypeOK'
<1>1. Samples \in Nat \ {0}
  BY DebounceAssumption
<1>2. index' \in Slots
  BY SlotsAge DEF SwitchTypeOK
<1>3. buf' \in [Slots -> SUBSET Switches]
  BY DEF SwitchTypeOK, Update
<1>4. run' \in [Switches -> 0 .. Samples]
  BY <1>1 DEF SwitchTypeOK, Update, History, NextRun
<1>5. reported' \in [Switches -> {Pressed, Released}]
  BY DEF SwitchTypeOK, Update, History, NextReported
<1>6. current' \in SUBSET Switches /\ previous' \in SUBSET Switches
  BY DEF SwitchTypeOK, Update
<1> QED  BY <1>2, <1>3, <1>4, <1>5, <1>6 DEF SwitchTypeOK

LEMMA UpdateRing ==
  ASSUME SwitchTypeOK, Ring, NEW closed \in SUBSET Switches, Update(closed)
  PROVE  Ring'
<1> SUFFICES ASSUME NEW s \in Switches, NEW i \in Slots
             PROVE  /\ Age(i)' < run'[s] => s \in buf'[i]
                    /\ Age(i)' = run'[s] => s \notin buf'[i]
  BY DEF Ring
<1>1. Samples \in Nat \ {0} /\ run[s] \in 0 .. Samples
  BY DebounceAssumption DEF SwitchTypeOK
<1>2. /\ Age(i)' = IF i = index THEN 0 ELSE Age(i) + 1
      /\ Age(i) \in 0 .. Samples - 1
  BY SlotsAge DEF Slots
<1>3. run'[s] = IF s \notin closed THEN 0
                ELSE IF run[s] < Samples THEN run[s] + 1 ELSE Samples
  BY DEF Update, History, NextRun
<1>4. buf'[i] = IF i = index THEN closed ELSE buf[i]
  BY DEF Update, SwitchTypeOK
<1>5. (Age(i) < run[s] => s \in buf[i]) /\ (Age(i) = run[s] => s \notin buf[i])
  BY DEF Ring
<1>6. CASE i = index
  <2>1. Age(i)' = 0 /\ buf'[i] = closed  BY <1>2, <1>4, <1>6
  <2> QED  BY <1>1, <1>3, <2>1
<1>7. CASE i # index
  <2>1. Age(i)' = Age(i) + 1 /\ buf'[i] = buf[i]  BY <1>2, <1>4, <1>7
  <2>2. Age(i) # Samples - 1
    BY <1>1, <1>7 DEF Age, Slots, SwitchTypeOK
  <2> QED  BY <1>1, <1>2, <1>3, <1>5, <2>1, <2>2
<1> QED  BY <1>6, <1>7

(* The AND over the ring finds a switch pressed just when it was closed in *)
(* all of the last samples.                                                *)
LEMMA UpdateSteady ==
  ASSUME SwitchTypeOK, SwitchTypeOK', Ring', NEW closed \in SUBSET Switches, Update(closed)
  PROVE  PressedWhenSteady'
<1> SUFFICES ASSUME NEW s \in Switches
             PROVE  s \in current' <=> run'[s] = Samples
  BY DEF PressedWhenSteady
<1>1. Samples \in Nat \ {0} /\ run'[s] \in 0 .. Samples
  BY DebounceAssumption DEF SwitchTypeOK
<1>2. s \in current' <=> \A i \in Slots : s \in buf'[i]
  BY DEF Update
<1>3. CASE run'[s] = Samples
  <2>1. ASSUME NEW i \in Slots PROVE Age(i)' < run'[s]
    <3>1. index' \in Slots  BY DEF SwitchTypeOK
    <3>2. (IF i < index' THEN index' - 1 - i ELSE index' - 1 - i + Samples) \in Slots
      BY <3>1, AgeInRing
    <3>3. Age(i)' \in Slots  BY <3>2 DEF Age
    <3> QED  BY <1>1, <1>3, <3>3 DEF Slots
  <2> QED  BY <1>2, <1>3, <2>1 DEF Ring
<1>4. CASE run'[s] # Samples
  <2>1. run'[s] \in Slots /\ index' \in Slots
    BY <1>1, <1>4 DEF Slots, SwitchTypeOK
  <2>2. PICK i \in Slots :
          (IF i < index' THEN index' - 1 - i ELSE index' - 1 - i + Samples) = run'[s]
    BY <2>1, SlotOfAge
  <2>3. Age(i)' = run'[s]
    BY <2>2 DEF Age
  <2> QED  BY <1>2, <1>4, <2>2, <2>3 DEF Ring
<1> QED  BY <1>3, <1>4

LEMMA UpdateEdges ==
  ASSUME SwitchTypeOK, EdgesAlternate, NEW closed \in SUBSET Switches, Update(closed)
  PROVE  EdgesAlternate'
<1> SUFFICES ASSUME NEW s \in Switches
             PROVE  s \in current' <=> reported'[s] = Pressed
  BY DEF EdgesAlternate
<1>1. previous' = current
  BY DEF Update
<1>2. reported'[s] = CASE WasPressed(s)' -> Pressed
                       [] WasReleased(s)' -> Released
                       [] OTHER -> reported[s]
  BY DEF Update, History, NextReported
<1>3. WasPressed(s)' <=> s \in current' /\ s \notin current
  BY <1>1 DEF WasPressed, Raw
<1>4. WasReleased(s)' <=> s \notin current' /\ s \in current
  BY <1>1 DEF WasReleased, Raw
<1>5. s \in current <=> reported[s] = Pressed
  BY DEF EdgesAlternate
<1> QED  BY <1>2, <1>3, <1>4, <1>5 DEF Pressed, Released

LEMMA NextDebounce == DebounceInv /\ [SwitchNext]_switchvars => DebounceInv'
<1> SUFFICES ASSUME DebounceInv, [SwitchNext]_switchvars PROVE DebounceInv'
  OBVIOUS
<1>1. ASSUME NEW closed \in SUBSET Switches, Update(closed) PROVE DebounceInv'
  <2>1. SwitchTypeOK'  BY <1>1, UpdateType DEF DebounceInv
  <2>2. Ring'  BY <1>1, UpdateRing DEF DebounceInv
  <2>3. PressedWhenSteady'  BY <1>1, <2>1, <2>2, UpdateSteady DEF DebounceInv
  <2>4. EdgesAlternate'  BY <1>1, UpdateEdges DEF DebounceInv
  <2> QED  BY <2>1, <2>2, <2>3, <2>4 DEF DebounceInv
<1>2. CASE UNCHANGED switchvars
  BY <1>2 DEF switchvars, DebounceInv, SwitchTypeOK, Ring, Age, PressedWhenSteady,
              EdgesAlternate
<1> QED  BY <1>1, <1>2 DEF SwitchNext

LEMMA DebounceInvariant == SwitchSpec => []DebounceInv
BY InitDebounce, NextDebounce, PTL DEF SwitchSpec

(* The context of io/switch.c stays in its type.                           *)
THEOREM SwitchTypeCorrect == SwitchSpec => []SwitchTypeOK
<1>1. DebounceInv => SwitchTypeOK
  BY DEF DebounceInv
<1> QED  BY <1>1, DebounceInvariant, PTL

(* switch_x16_debounce: a switch is pressed just when it was closed in the *)
(* last Samples samples.                                                   *)
THEOREM PressedWhenSteadyAlways == SwitchSpec => []PressedWhenSteady
<1>1. DebounceInv => PressedWhenSteady
  BY DEF DebounceInv
<1> QED  BY <1>1, DebounceInvariant, PTL

(* switchx16_was_pressed and was_released report every edge once.          *)
THEOREM EdgesAlternateAlways == SwitchSpec => []EdgesAlternate
<1>1. DebounceInv => EdgesAlternate
  BY DEF DebounceInv
<1> QED  BY <1>1, DebounceInvariant, PTL

(* is_reset_pressed is true for the one scan with which both switches have *)
(* been closed just long enough, and for no other.                         *)
THEOREM ResetWhenTogetherAlways == SwitchSpec => ResetWhenTogether
<1> DEFINE Together ==
      (\A s \in ResetSwitches : run[s] = Samples - 1 /\ run'[s] = Samples)
        <=> ResetPressed'
<1>1. DebounceInv /\ DebounceInv' /\ [SwitchNext]_switchvars => [Together]_switchvars
  <2> SUFFICES ASSUME DebounceInv, DebounceInv', NEW closed \in SUBSET Switches,
                      Update(closed)
               PROVE  Together
    BY DEF SwitchNext
  <2> SUFFICES ASSUME NEW s \in ResetSwitches
               PROVE  run[s] = Samples - 1 /\ run'[s] = Samples <=> WasPressed(s)'
    BY DEF ResetPressed
  <2>1. s \in Switches /\ Samples \in Nat \ {0} /\ run[s] \in 0 .. Samples
    BY DebounceAssumption DEF DebounceInv, SwitchTypeOK
  <2>2. WasPressed(s)' <=> s \in current' /\ s \notin current
    BY DEF Update, WasPressed, Raw
  <2>3. /\ s \in current <=> run[s] = Samples
        /\ s \in current' <=> run'[s] = Samples
    BY <2>1 DEF DebounceInv, PressedWhenSteady
  <2>4. run'[s] = IF s \notin closed THEN 0
                  ELSE IF run[s] < Samples THEN run[s] + 1 ELSE Samples
    BY <2>1 DEF Update, History, NextRun
  <2> QED  BY <2>1, <2>2, <2>3, <2>4
<1> QED  BY <1>1, DebounceInvariant, PTL DEF SwitchSpec, ResetWhenTogether
=============================================================================
