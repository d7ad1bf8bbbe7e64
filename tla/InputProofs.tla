---------------------------- MODULE InputProofs ----------------------------
(***************************************************************************)
(* Theorems about the controls and their controllers, for any number of    *)
(* banks, encoders and mappings, any modes of the switches and any ranges  *)
(* of the mappings.                                                        *)
(***************************************************************************)
EXTENDS Input, WellFoundedInduction, TLAPS

-----------------------------------------------------------------------------
(* The arithmetic of a mapping.                                            *)
Used(m) == m.mode # "NONE"

LEMMA SendsUsed == ASSUME NEW m, Sends(m) PROVE Used(m)
BY DEF Sends, Used

LEMMA MappingFields ==
  ASSUME NEW vm \in Vmap
  PROVE  /\ Cfg[vm] \in MappingType
         /\ Cfg[vm].mode \in {"NONE", "MUTE", "CC", "CC_14"}
         /\ Cfg[vm].cc \in Nat /\ Cfg[vm].lower \in Int /\ Cfg[vm].upper \in Int
         /\ Cfg[vm].start \in 0 .. EncMax /\ Cfg[vm].stop \in 0 .. EncMax
         /\ Used(Cfg[vm]) => /\ Cfg[vm].start # Cfg[vm].stop
                             /\ Cfg[vm].lower # Cfg[vm].upper
<1>1. Cfg[vm] \in MappingType  BY InputAssumption
<1> QED  BY <1>1, InputAssumption DEF MappingType, Used

LEMMA Int16Type == ASSUME NEW x \in Int PROVE Int16(x) \in Int
BY DEF Int16

LEMMA CQuotientType ==
  ASSUME NEW a \in Int, NEW b \in Int \ {0} PROVE CQuotient(a, b) \in Int
<1> DEFINE magnitude(x) == IF x < 0 THEN -x ELSE x
<1>1. magnitude(a) \in Nat /\ magnitude(b) \in Nat \ {0}  OBVIOUS
<1>2. magnitude(a) \div magnitude(b) \in Int  BY <1>1
<1> QED  BY <1>2 DEF CQuotient

LEMMA ConvertRangeType ==
  ASSUME NEW c \in Int, NEW omin \in Int, NEW omax \in Int, omin # omax,
         NEW nmin \in Int, NEW nmax \in Int
  PROVE  ConvertRange(c, omin, omax, nmin, nmax) \in Int
<1>1. (c - omin) * (nmax - nmin) \in Int  OBVIOUS
<1>2. Int16((c - omin) * (nmax - nmin)) \in Int  BY <1>1, Int16Type
<1>3. omax - omin \in Int \ {0}  OBVIOUS
<1>4. CQuotient(Int16((c - omin) * (nmax - nmin)), omax - omin) \in Int
  BY <1>2, <1>3, CQuotientType
<1>5. CQuotient(Int16((c - omin) * (nmax - nmin)), omax - omin) + nmin \in Int
  BY <1>4
<1> QED  BY <1>5, Int16Type DEF ConvertRange

LEMMA MidiValueType ==
  ASSUME NEW vm \in Vmap, Used(Cfg[vm]), NEW pos \in 0 .. EncMax
  PROVE  MidiValue(Cfg[vm], pos) \in Int
<1> DEFINE m == Cfg[vm]
           val == ConvertRange(pos, m.start, m.stop, m.lower, m.upper)
<1>1. /\ m.start \in Int /\ m.stop \in Int /\ m.start # m.stop
      /\ m.lower \in Int /\ m.upper \in Int /\ pos \in Int
  BY MappingFields, VirtmapAssumption
<1>2. val \in Int  BY <1>1, ConvertRangeType
<1>3. LsbSpan * LsbSpan - 1 \in Int /\ CCMax \in Int  BY VirtmapAssumption
<1> QED  BY <1>2, <1>3 DEF MidiValue

LEMMA ModRange ==
  ASSUME NEW x \in Int, NEW n \in Nat \ {0} PROVE x % n \in 0 .. n - 1
OBVIOUS

LEMMA HostPositionType ==
  ASSUME NEW vm \in Vmap, Used(Cfg[vm]), NEW value \in Int
  PROVE  HostPosition(Cfg[vm], value) \in 0 .. EncMax
<1> DEFINE m == Cfg[vm]
           pos == ConvertRange(value, m.lower, m.upper, m.start, m.stop)
<1>1. /\ m.start \in Int /\ m.stop \in Int
      /\ m.lower \in Int /\ m.upper \in Int /\ m.lower # m.upper
  BY MappingFields, VirtmapAssumption
<1>2. pos \in Int  BY <1>1, ConvertRangeType
<1>3. EncMax + 1 \in Nat \ {0} /\ 0 .. (EncMax + 1) - 1 = 0 .. EncMax
  BY VirtmapAssumption
<1> HIDE DEF pos
<1>4. pos % (EncMax + 1) \in 0 .. EncMax  BY <1>2, <1>3, ModRange
<1> USE DEF pos
<1> QED  BY <1>4 DEF HostPosition

(* A turn leaves the position on the circle of the encoder.                *)
LEMMA NewPositionType ==
  ASSUME NEW vm \in Vmap, NEW pos \in 0 .. EncMax, NEW speed \in Int
  PROVE  NewPosition(Cfg[vm], pos, speed) \in 0 .. EncMax
<1>1. Clamp(pos + speed, 0, EncMax) \in 0 .. EncMax
  BY VirtmapAssumption DEF Clamp
<1> QED  BY <1>1, MappingFields DEF NewPosition, Clamp

-----------------------------------------------------------------------------
(* Types.                                                                  *)
Message == [cc : Controllers, value : Int]

LEMMA MessagesType ==
  ASSUME NEW vm \in Vmap, Sends(Cfg[vm]), NEW val \in Int
  PROVE  /\ Messages(Cfg[vm], val) \in Seq(Message)
         /\ Len(Messages(Cfg[vm], val)) \in {1, 2}
         /\ \A k \in 1 .. Len(Messages(Cfg[vm], val)) :
              Messages(Cfg[vm], val)[k].cc \in CcsOf(Cfg[vm])
<1> DEFINE m == Cfg[vm]
<1>1. LsbSpan \in Nat \ {0} /\ CCMax + 1 \in Nat \ {0}
  BY VirtmapAssumption
<1>2. val \div LsbSpan \in Int  BY <1>1
<1>3. /\ (val \div LsbSpan) % LsbSpan \in Int
      /\ val % LsbSpan \in Int /\ val % (CCMax + 1) \in Int
  BY <1>1, <1>2, ModRange
<1>4. m.cc \in CcsOf(m) /\ (m.mode = "CC_14" => m.cc + 32 \in CcsOf(m))
  BY MappingFields DEF CcsOf, Sends
<1>5. CcsOf(m) \subseteq Controllers  BY DEF Controllers
<1>6. CASE m.mode = "CC_14"
  <2>1. Messages(m, val) =
          << [cc |-> m.cc, value |-> (val \div LsbSpan) % LsbSpan],
             [cc |-> m.cc + 32, value |-> val % LsbSpan] >>
    BY <1>6 DEF Messages
  <2>2. /\ [cc |-> m.cc, value |-> (val \div LsbSpan) % LsbSpan] \in Message
        /\ [cc |-> m.cc + 32, value |-> val % LsbSpan] \in Message
    BY <1>3, <1>4, <1>5, <1>6 DEF Message
  <2> HIDE DEF m
  <2> QED  BY <1>4, <1>6, <2>1, <2>2 DEF m
<1>7. CASE m.mode # "CC_14"
  <2>1. Messages(m, val) = << [cc |-> m.cc, value |-> val % (CCMax + 1)] >>
    BY <1>7 DEF Messages
  <2>2. [cc |-> m.cc, value |-> val % (CCMax + 1)] \in Message
    BY <1>3, <1>4, <1>5 DEF Message
  <2> QED  BY <1>4, <2>1, <2>2
<1> QED  BY <1>6, <1>7

(* A queue never fills its last slot, and keeps what it has.               *)
LEMMA PostType ==
  ASSUME NEW S, NEW queue \in Seq(S), NEW size \in Nat, NEW msg \in S,
         Len(queue) < size
  PROVE  /\ Post(queue, size, msg) \in Seq(S)
         /\ Len(Post(queue, size, msg)) < size
         /\ Len(Post(queue, size, msg)) \in {Len(queue), Len(queue) + 1}
BY DEF Post, HasRoom

Types ==
  /\ TypeOK
  /\ in \in Seq(HostMessages) /\ out \in Seq(Message) /\ anim \in Seq(Bank)
  /\ wire \in [Controllers -> Int] /\ host \in [Controllers -> Int]
  /\ todo # {} => phase = "encoders" /\ at \in Enc

LEMMA TypesInit == Init => Types
<1> SUFFICES ASSUME Init PROVE Types
  OBVIOUS
<1>1. 0 \in Bank /\ 0 \in VIdx  BY InputAssumption DEF Bank, VIdx
<1>2. TypeOK
  BY <1>1, InputAssumption DEF Init, TypeOK, BankEnc
<1> QED  BY <1>2 DEF Init, Types

LEMMA EncoderSwitchTypes ==
  ASSUME Types, AtEncoder, NEW edge \in {"idle", "pressed", "released"},
         EncoderSwitch(<<bank, at>>, edge)
  PROVE  /\ encHeld' \subseteq Enc /\ tinted' \subseteq Enc
         /\ vmap_active' \in [BankEnc -> VIdx]
         /\ curr_pos' \in [Vmap -> 0 .. EncMax]
<1>1. at \in Enc /\ <<bank, at>> \in BankEnc
  BY DEF AtEncoder, Types, TypeOK, BankEnc
<1>2. encHeld' \subseteq Enc /\ tinted' \subseteq Enc
  BY <1>1 DEF EncoderSwitch, HeldAfter, Types, TypeOK
<1>3. vmap_active' \in [BankEnc -> VIdx]
  <2>1. vmap_active[<<bank, at>>] \in VIdx  BY <1>1 DEF Types, TypeOK
  <2>2. vmap_active[<<bank, at>>] + 1 \in Int /\ NumVmaps \in Nat \ {0}
    BY <2>1, InputAssumption DEF VIdx
  <2>3. (vmap_active[<<bank, at>>] + 1) % NumVmaps \in VIdx
    BY <2>2, ModRange DEF VIdx
  <2> QED  BY <1>1, <2>3 DEF EncoderSwitch, Types, TypeOK
<1>4. curr_pos' \in [Vmap -> 0 .. EncMax]
  <2> DEFINE vm == <<bank, at, vmap_active[<<bank, at>>]>>
  <2>1. curr_pos' \in {curr_pos, [curr_pos EXCEPT ![vm] = 0]}
    BY DEF EncoderSwitch
  <2>2. 0 \in 0 .. EncMax  BY VirtmapAssumption
  <2>3. curr_pos \in [Vmap -> 0 .. EncMax]  BY DEF Types, TypeOK
  <2> HIDE DEF vm
  <2> QED  BY <2>1, <2>2, <2>3
<1> QED  BY <1>2, <1>3, <1>4

LEMMA EncoderTypes ==
  ASSUME Types, EncoderStill \/ EncoderTurns
  PROVE  Types'
<1>1. AtEncoder  BY DEF EncoderStill, EncoderTurns
<1>2. PICK edge \in {"idle", "pressed", "released"} : EncoderSwitch(<<bank, at>>, edge)
  BY DEF EncoderStill, EncoderTurns, Edges
<1>3. /\ encHeld' \subseteq Enc /\ tinted' \subseteq Enc
      /\ vmap_active' \in [BankEnc -> VIdx]
      /\ curr_pos' \in [Vmap -> 0 .. EncMax]
  BY <1>1, <1>2, EncoderSwitchTypes
<1>4. at \in Enc /\ at \in Nat /\ phase = "encoders" /\ <<bank, at>> \in BankEnc
  BY <1>1 DEF AtEncoder, Types, TypeOK, BankEnc, Enc
<1>5. /\ phase' = phase /\ boot' = boot /\ bank' = bank /\ curr_val' = curr_val
      /\ prev_vmap_active' = prev_vmap_active /\ flashing' = flashing
      /\ sideHeld' = sideHeld /\ in' = in /\ out' = out /\ anim' = anim
      /\ wire' = wire /\ host' = host /\ shifted' = shifted /\ lagging' = lagging
  BY DEF EncoderStill, EncoderTurns, queues, link, history
<1>6. CASE EncoderStill
  <2>1. velocity' \in [BankEnc -> -7 .. 7]
    <3>1. velocity' = [velocity EXCEPT ![<<bank, at>>] = 0]  BY <1>6 DEF EncoderStill
    <3>2. velocity \in [BankEnc -> -7 .. 7]  BY DEF Types, TypeOK
    <3>3. 0 \in -7 .. 7  OBVIOUS
    <3> QED  BY <3>1, <3>2, <3>3
  <2>2. at' = at + 1 /\ UNCHANGED <<todo, redraw, moved>> /\ todo = {}
    BY <1>1, <1>6 DEF EncoderStill, history, AtEncoder
  <2>3. TypeOK'  BY <1>3, <1>4, <1>5, <2>1, <2>2 DEF Types, TypeOK
  <2> QED  BY <1>5, <2>2, <2>3 DEF Types
<1>7. CASE EncoderTurns
  <2>1. velocity' \in [BankEnc -> -7 .. 7]
    <3>1. PICK dir \in {-1, 1}, factor \in Factors :
            velocity' = [velocity EXCEPT ![<<bank, at>>] = dir * factor]
      BY <1>7 DEF EncoderTurns
    <3>2. factor \in 1 .. 7  BY InputAssumption
    <3>3. dir * factor \in -7 .. 7  BY <3>2
    <3> QED  BY <3>1, <3>3 DEF Types, TypeOK
  <2>2. todo' \subseteq VIdx
    BY <1>3, <1>4, <1>7 DEF EncoderTurns
  <2>3. at' = at /\ moved' \subseteq BankEnc /\ redraw' \subseteq BankEnc
    BY <1>4, <1>7 DEF EncoderTurns, Types, TypeOK
  <2>4. TypeOK'  BY <1>3, <1>4, <1>5, <2>1, <2>2, <2>3 DEF Types, TypeOK
  <2> QED  BY <1>4, <1>5, <2>3, <2>4 DEF Types
<1> QED  BY <1>6, <1>7

(* What a mapping's turn does.                                             *)
LEMMA VmapSteps ==
  ASSUME Types, NEW v \in VIdx, NextVmap(v)
  PROVE  /\ at \in Enc /\ bank \in Bank /\ <<bank, at, v>> \in Vmap
         /\ <<bank, at>> \in BankEnc
         /\ Target(<<bank, at, v>>) \in 0 .. EncMax
         /\ Used(Cfg[<<bank, at, v>>]) =>
              MidiValue(Cfg[<<bank, at, v>>], Target(<<bank, at, v>>)) \in Int
<1> DEFINE vm == <<bank, at, v>>
<1>1. at \in Enc /\ bank \in Bank  BY DEF NextVmap, Types, TypeOK
<1>2. vm \in Vmap /\ <<bank, at>> \in BankEnc  BY <1>1 DEF Vmap, BankEnc
<1>3. Target(vm) \in 0 .. EncMax
  <2>1. curr_pos[vm] \in 0 .. EncMax  BY <1>2 DEF Types, TypeOK
  <2>2. velocity[<<bank, at>>] \in -7 .. 7  BY <1>2 DEF Types, TypeOK
  <2>3. velocity[<<bank, at>>] \in Int  BY <2>2
  <2> HIDE DEF vm
  <2> QED  BY <1>2, <2>1, <2>3, NewPositionType DEF Target
<1> HIDE DEF vm
<1>4. Used(Cfg[vm]) => MidiValue(Cfg[vm], Target(vm)) \in Int
  BY <1>2, <1>3, MidiValueType
<1> QED  BY <1>1, <1>2, <1>3, <1>4 DEF vm

LEMMA VmapTypes ==
  ASSUME Types, NEW v \in VIdx,
         VmapStays(v) \/ VmapMovesSilently(v) \/ VmapMovesAndSends(v)
  PROVE  Types'
<1> DEFINE vm == <<bank, at, v>>
<1>1. NextVmap(v)  BY DEF VmapStays, VmapMovesSilently, VmapMovesAndSends
<1>2. /\ at \in Enc /\ vm \in Vmap /\ Target(vm) \in 0 .. EncMax
      /\ Used(Cfg[vm]) => MidiValue(Cfg[vm], Target(vm)) \in Int
  BY <1>1, VmapSteps
<1>3. /\ phase = "encoders" /\ todo' = todo \ {v} /\ v \in todo
      /\ at' = IF todo = {v} THEN at + 1 ELSE at
      /\ phase' = phase /\ boot' = boot /\ bank' = bank
      /\ vmap_active' = vmap_active /\ velocity' = velocity
      /\ prev_vmap_active' = prev_vmap_active /\ redraw' = redraw
      /\ frame' = frame /\ flashing' = flashing /\ tinted' = tinted
      /\ encHeld' = encHeld /\ sideHeld' = sideHeld
      /\ in' = in /\ anim' = anim /\ wire' = wire /\ host' = host
      /\ moved' = moved /\ holdFrom' = holdFrom
  BY <1>1 DEF NextVmap, leds, switches, link
<1>4. /\ curr_pos' \in [Vmap -> 0 .. EncMax] /\ curr_val' \in [Vmap -> Int]
      /\ shifted' \subseteq Vmap /\ lagging' \subseteq Vmap
      /\ out' \in Seq(Message) /\ Len(out') < OutSize
  <2> HIDE DEF vm
  <2>1. /\ curr_pos \in [Vmap -> 0 .. EncMax] /\ curr_val \in [Vmap -> Int]
        /\ shifted \subseteq Vmap /\ lagging \subseteq Vmap
        /\ out \in Seq(Message) /\ Len(out) < OutSize
    BY DEF Types, TypeOK
  <2>2. CASE VmapStays(v)  BY <2>1, <2>2 DEF VmapStays
  <2>3. CASE VmapMovesSilently(v)
    BY <1>2, <2>1, <2>3 DEF VmapMovesSilently, vm
  <2>4. CASE VmapMovesAndSends(v)
    <3> DEFINE val == MidiValue(Cfg[vm], Target(vm))
               msgs == Messages(Cfg[vm], val)
               once == Post(out, OutSize, msgs[1])
    <3>1. /\ Sends(Cfg[vm]) /\ curr_pos' = [curr_pos EXCEPT ![vm] = Target(vm)]
          /\ shifted' = shifted \cup {vm}
          /\ curr_val' = [curr_val EXCEPT ![vm] = val]
          /\ out' = IF Len(msgs) = 1 THEN once ELSE Post(once, OutSize, msgs[2])
          /\ lagging' \subseteq lagging \cup {vm}
      BY <2>4 DEF VmapMovesAndSends, vm
    <3>2. val \in Int  BY <1>2, <3>1, SendsUsed
    <3>3. msgs \in Seq(Message) /\ Len(msgs) \in {1, 2}
      BY <1>2, <3>1, <3>2, MessagesType
    <3> HIDE DEF val, msgs
    <3>4. once \in Seq(Message) /\ Len(once) < OutSize
      <4>1. msgs[1] \in Message  BY <3>3
      <4>2. OutSize \in Nat  BY InputAssumption
      <4> QED  BY <2>1, <4>1, <4>2, PostType
    <3>5. CASE Len(msgs) = 1
      BY <1>2, <2>1, <3>1, <3>2, <3>4, <3>5
    <3>6. CASE Len(msgs) = 2
      <4>1. msgs[2] \in Message
        <5>1. 2 \in 1 .. Len(msgs)  BY <3>6
        <5> QED  BY <3>3, <5>1
      <4>2. OutSize \in Nat  BY InputAssumption
      <4> HIDE DEF once
      <4>3. Post(once, OutSize, msgs[2]) \in Seq(Message)
            /\ Len(Post(once, OutSize, msgs[2])) < OutSize
        BY <3>4, <4>1, <4>2, PostType
      <4> QED  BY <1>2, <2>1, <3>1, <3>2, <3>6, <4>3
    <3> QED  BY <3>3, <3>5, <3>6
  <2> QED  BY <2>2, <2>3, <2>4
<1>5. at' \in Nat /\ (todo' # {} => at' = at)
  BY <1>2, <1>3 DEF Enc
<1>6. TypeOK'  BY <1>3, <1>4, <1>5 DEF Types, TypeOK
<1> QED  BY <1>2, <1>3, <1>4, <1>5, <1>6 DEF Types

LEMMA NextIndex ==
  ASSUME NEW n \in Nat \ {0}, NEW k \in 0 .. n - 1
  PROVE  /\ (k + 1) % n \in 0 .. n - 1
         /\ (IF k > 0 THEN k - 1 ELSE n - 1) \in 0 .. n - 1
<1>1. k + 1 \in Int  OBVIOUS
<1> QED  BY <1>1, ModRange

LEMMA CycleTypes ==
  ASSUME Types
  PROVE  /\ CycleBank \in [BankEnc -> VIdx]
         /\ RestoreBank \in [BankEnc -> VIdx]
<1>1. CycleBank \in [BankEnc -> VIdx]
  <2> SUFFICES ASSUME NEW be \in BankEnc
               PROVE  (vmap_active[be] + 1) % NumVmaps \in VIdx
    BY DEF CycleBank, Types, TypeOK
  <2>1. vmap_active[be] \in 0 .. NumVmaps - 1  BY DEF Types, TypeOK, VIdx
  <2> QED  BY <2>1, NextIndex, InputAssumption DEF VIdx
<1>2. RestoreBank \in [BankEnc -> VIdx]
  BY DEF RestoreBank, BankEnc, Types, TypeOK
<1> QED  BY <1>1, <1>2

SideAction ==
  \/ SideNothing \/ CyclePressed \/ HoldPressed \/ HoldReleased
  \/ BankPrevPressed \/ BankNextPressed

(* What every side switch's step leaves alone.                             *)
LEMMA SideSteps ==
  ASSUME SideAction
  PROVE  /\ phase = "switches" /\ at \in Side /\ at' = at + 1
         /\ \E edge \in {"idle", "pressed", "released"} : AtSide(edge)
         /\ UNCHANGED <<phase, boot, todo, velocity, curr_pos, curr_val, redraw,
                        flashing, encHeld, in, out, wire, host, moved, shifted,
                        lagging>>
<1>1. PICK edge \in {"idle", "pressed", "released"} : AtSide(edge)
  BY DEF SideAction, SideNothing, CyclePressed, HoldPressed, HoldReleased,
         BankPrevPressed, BankNextPressed, ShowBank
<1> QED  BY <1>1 DEF AtSide, link

LEMMA ShowBankTypes ==
  ASSUME Types, NEW new \in Bank, ShowBank(new)
  PROVE  bank' \in Bank /\ anim' \in Seq(Bank) /\ Len(anim') < AnimSize
<1>1. anim \in Seq(Bank) /\ Len(anim) < AnimSize /\ AnimSize \in Nat
  BY InputAssumption DEF Types, TypeOK
<1>2. bank' = new /\ anim' = Post(anim, AnimSize, new)  BY DEF ShowBank
<1> QED  BY <1>1, <1>2, PostType

LEMMA SideTypes ==
  ASSUME Types, SideAction
  PROVE  Types'
<1>1. /\ phase = "switches" /\ at \in Side /\ at \in Nat /\ at' = at + 1
      /\ phase' = phase /\ boot' = boot /\ todo' = todo /\ velocity' = velocity
      /\ curr_pos' = curr_pos /\ curr_val' = curr_val /\ redraw' = redraw
      /\ flashing' = flashing /\ encHeld' = encHeld /\ in' = in /\ out' = out
      /\ wire' = wire /\ host' = host /\ moved' = moved /\ shifted' = shifted
      /\ lagging' = lagging
  BY SideSteps, InputAssumption
<1>2. sideHeld' \subseteq Side
  BY <1>1, SideSteps DEF AtSide, HeldAfter, Types, TypeOK
<1>3. tinted' \subseteq Enc
  BY DEF SideAction, SideNothing, CyclePressed, HoldPressed, HoldReleased,
         BankPrevPressed, BankNextPressed, ShowBank, DrawBank, Types, TypeOK
<1>4. /\ bank' \in Bank /\ anim' \in Seq(Bank) /\ Len(anim') < AnimSize
      /\ vmap_active' \in [BankEnc -> VIdx] /\ prev_vmap_active' \in [Enc -> VIdx]
  <2>1. /\ bank \in Bank /\ anim \in Seq(Bank) /\ Len(anim) < AnimSize
        /\ vmap_active \in [BankEnc -> VIdx] /\ prev_vmap_active \in [Enc -> VIdx]
    BY DEF Types, TypeOK
  <2>2. CASE SideNothing  BY <2>1, <2>2 DEF SideNothing
  <2>3. CASE CyclePressed  BY <2>1, <2>3, CycleTypes DEF CyclePressed
  <2>4. CASE HoldPressed
    <3>1. \A e \in Enc : vmap_active[<<bank, e>>] \in VIdx
      BY <2>1 DEF BankEnc
    <3> QED  BY <2>1, <2>4, <3>1, CycleTypes DEF HoldPressed
  <2>5. CASE HoldReleased  BY <2>1, <2>5, CycleTypes DEF HoldReleased
  <2>6. CASE BankPrevPressed
    <3>1. (IF bank > 0 THEN bank - 1 ELSE NumBanks - 1) \in Bank
      BY <2>1, NextIndex, InputAssumption DEF Bank
    <3> QED  BY <2>1, <2>6, <3>1, ShowBankTypes DEF BankPrevPressed, ShowBank
  <2>7. CASE BankNextPressed
    <3>1. (bank + 1) % NumBanks \in Bank
      BY <2>1, NextIndex, InputAssumption DEF Bank
    <3> QED  BY <2>1, <2>7, <3>1, ShowBankTypes DEF BankNextPressed, ShowBank
  <2> QED  BY <2>2, <2>3, <2>4, <2>5, <2>6, <2>7 DEF SideAction
<1>5. TypeOK'  BY <1>1, <1>2, <1>3, <1>4 DEF Types, TypeOK
<1> QED  BY <1>1, <1>4, <1>5 DEF Types

LoopAction ==
  EncodersDone \/ BootScanAgain \/ BootDone \/ ScanDone \/ MidiInDone
    \/ EventsDone \/ TurnDone

(* Between the parts of the loop only a boot that ends changes a device.   *)
LEMMA LoopSteps ==
  ASSUME Types, LoopAction
  PROVE  /\ at' \in Nat /\ todo = {} /\ todo' = {}
         /\ boot' \in 0 .. BootScans
         /\ UNCHANGED <<bank, velocity, curr_pos, curr_val, redraw,
                        prev_vmap_active, encHeld, sideHeld, flashing, tinted, in,
                        out, anim, holdFrom, wire, host, lagging>>
         /\ ~BootDone => UNCHANGED <<vmap_active, frame>>
         /\ moved' \in {moved, {}} /\ shifted' \in {shifted, {}}
<1>1. todo = {}
  <2>1. CASE EncodersDone
    <3>1. at = NumEncoders /\ at \notin Enc
      BY <2>1, InputAssumption DEF EncodersDone, Enc
    <3> QED  BY <3>1 DEF Types
  <2>2. CASE ~EncodersDone
    <3>1. phase # "encoders"
      BY <2>2 DEF LoopAction, BootScanAgain, BootDone, ScanDone, MidiInDone,
                  EventsDone, TurnDone
    <3> QED  BY <3>1 DEF Types
  <2> QED  BY <2>1, <2>2
<1>2. boot \in 0 .. BootScans /\ BootScans \in Nat /\ at \in Nat
  BY InputAssumption DEF Types, TypeOK
<1>3. CASE EncodersDone
  BY <1>1, <1>2, <1>3 DEF EncodersDone, BootDone, devices, leds, switches, queues,
                          link, history
<1>4. CASE BootScanAgain
  BY <1>1, <1>2, <1>4 DEF BootScanAgain, NextScan, devices, leds, switches, queues,
                          link
<1>5. CASE BootDone
  BY <1>1, <1>2, <1>5 DEF BootDone, NextScan, switches, queues, link
<1>6. CASE ScanDone \/ MidiInDone \/ EventsDone
  BY <1>1, <1>2, <1>6 DEF ScanDone, MidiInDone, EventsDone, BootDone, devices, leds,
                          switches, queues, link, history
<1>7. CASE TurnDone
  BY <1>1, <1>2, <1>7 DEF TurnDone, NextScan, devices, leds, switches, queues, link
<1> QED  BY <1>3, <1>4, <1>5, <1>6, <1>7 DEF LoopAction

LEMMA LoopTypes ==
  ASSUME Types, LoopAction
  PROVE  Types'
<1>1. vmap_active' \in [BankEnc -> VIdx]
  <2>1. vmap_active' = vmap_active \/ vmap_active' \in {StoredActive, vmap_active}
    BY LoopSteps DEF BootDone
  <2> QED  BY <2>1, InputAssumption DEF Types, TypeOK
<1>2. phase' \in {"encoders", "switches", "midi_in", "midi_out", "display", "midi"}
  BY DEF LoopAction, EncodersDone, BootScanAgain, BootDone, ScanDone, MidiInDone,
         EventsDone, TurnDone, NextScan, Types, TypeOK
<1>3. /\ at' \in Nat /\ todo' = {} /\ boot' \in 0 .. BootScans
      /\ bank' = bank /\ velocity' = velocity /\ curr_pos' = curr_pos
      /\ curr_val' = curr_val /\ redraw' = redraw
      /\ prev_vmap_active' = prev_vmap_active /\ encHeld' = encHeld
      /\ sideHeld' = sideHeld /\ flashing' = flashing /\ tinted' = tinted
      /\ in' = in /\ out' = out /\ anim' = anim /\ wire' = wire /\ host' = host
      /\ lagging' = lagging
      /\ moved' \in {moved, {}} /\ shifted' \in {shifted, {}}
  BY LoopSteps
<1>4. TypeOK'  BY <1>1, <1>2, <1>3 DEF Types, TypeOK
<1> QED  BY <1>3, <1>4 DEF Types

LEMMA DisplayTypes ==
  ASSUME Types, DisplayUpdate
  PROVE  Types'
<1>1. /\ UNCHANGED <<boot, at, todo, devices, switches, queues, link, history>>
      /\ phase = "display" /\ phase' = "midi"
      /\ flashing' \subseteq Enc
      /\ tinted' \subseteq Enc /\ redraw' \subseteq BankEnc
  BY DEF DisplayUpdate, FlashPlays, FlashEnds, DrawRequested, Draw, Types, TypeOK,
         BankEnc
<1>2. TypeOK'
  BY <1>1 DEF devices, switches, queues, history, Types, TypeOK
<1> QED  BY <1>1, <1>2 DEF devices, queues, link, Types

LEMMA HandleHostTypes ==
  ASSUME Types, HandleHostMessage
  PROVE  Types'
<1>1. /\ in \in Seq(HostMessages) /\ in # <<>> /\ in' = Tail(in)
      /\ UNCHANGED <<phase, boot, at, todo, bank, vmap_active, velocity, curr_val,
                     prev_vmap_active, leds, switches, out, anim, link, history>>
  BY DEF HandleHostMessage, Types
<1>2. in' \in Seq(HostMessages) /\ Len(in') <= InRoom
  BY <1>1, InputAssumption DEF Types, TypeOK
<1>3. curr_pos' \in [Vmap -> 0 .. EncMax]
  <2>1. Head(in) \in HostMessages  BY <1>1
  <2>2. Head(in).value \in Int  BY <2>1, InputAssumption
  <2>3. \A vm \in Vmap : Cfg[vm].mode # "NONE" =>
          HostPosition(Cfg[vm], Head(in).value) \in 0 .. EncMax
    BY <2>2, HostPositionType DEF Used
  <2> QED  BY <2>3 DEF HandleHostMessage, Types, TypeOK
<1>4. TypeOK'
  BY <1>1, <1>2, <1>3 DEF leds, switches, history, Types, TypeOK
<1> QED  BY <1>1, <1>2, <1>4 DEF link, Types

LEMMA SendTypes ==
  ASSUME Types, SendMessage \/ SendFails
  PROVE  Types'
<1>1. /\ out \in Seq(Message) /\ out # <<>> /\ out' = Tail(out)
      /\ UNCHANGED <<phase, boot, at, todo, devices, leds, switches, in, anim,
                     moved, shifted, holdFrom>>
  BY DEF SendMessage, SendFails, Types, history
<1>2. out' \in Seq(Message) /\ Len(out') < OutSize
  BY <1>1, InputAssumption DEF Types, TypeOK
<1>3. Head(out).cc \in Controllers /\ Head(out).value \in Int
  <2>1. Head(out) \in Message  BY <1>1
  <2> QED  BY <2>1 DEF Message
<1>4. wire' \in [Controllers -> Int] /\ host' \in [Controllers -> Int]
  BY <1>3 DEF SendMessage, SendFails, Types, link
<1>5. lagging' \subseteq Vmap
  BY DEF SendMessage, SendFails, Types, TypeOK, history
<1>6. TypeOK'
  BY <1>1, <1>2, <1>5 DEF devices, leds, switches, Types, TypeOK
<1> QED  BY <1>1, <1>2, <1>4, <1>6 DEF Types

LEMMA StartFlashTypes ==
  ASSUME Types, StartFlash
  PROVE  Types'
<1>1. /\ anim \in Seq(Bank) /\ anim # <<>> /\ anim' = Tail(anim)
      /\ UNCHANGED <<phase, boot, at, todo, devices, frame, tinted, switches, in,
                     out, link, history>>
  BY DEF StartFlash, Types
<1>2. anim' \in Seq(Bank) /\ Len(anim') < AnimSize /\ Head(anim) \in Bank
  BY <1>1, InputAssumption DEF Types, TypeOK
<1>3. flashing' \subseteq Enc /\ redraw' \subseteq BankEnc
  BY <1>2, InputAssumption DEF StartFlash, Types, TypeOK, BankEnc
<1>4. TypeOK'
  BY <1>1, <1>2, <1>3 DEF devices, switches, history, Types, TypeOK
<1> QED  BY <1>1, <1>2, <1>4 DEF devices, link, Types

LEMMA HostSendsTypes ==
  ASSUME Types, HostSends
  PROVE  Types'
<1>1. PICK msg \in HostMessages :
        in' = Append(in, msg) /\ host' = [host EXCEPT ![msg.cc] = msg.value]
  BY DEF HostSends
<1>2. /\ in \in Seq(HostMessages) /\ Len(in) < InRoom /\ InRoom \in Nat
      /\ host \in [Controllers -> Int] /\ msg.value \in Int
      /\ UNCHANGED <<phase, boot, at, todo, devices, leds, switches, out, anim,
                     wire, history>>
  BY InputAssumption DEF HostSends, Types
<1>3. in' \in Seq(HostMessages) /\ Len(in') <= InRoom  BY <1>1, <1>2
<1>4. host' \in [Controllers -> Int]  BY <1>1, <1>2
<1>5. TypeOK'
  BY <1>2, <1>3 DEF devices, leds, switches, history, Types, TypeOK
<1> QED  BY <1>2, <1>3, <1>4, <1>5 DEF Types

LEMMA TypesStep == Types /\ [Next]_vars => Types'
<1> SUFFICES ASSUME Types, [Next]_vars PROVE Types'
  OBVIOUS
<1>1. CASE EncoderStill \/ EncoderTurns  BY <1>1, EncoderTypes
<1>2. CASE \E v \in VIdx : VmapStays(v) \/ VmapMovesSilently(v) \/ VmapMovesAndSends(v)
  BY <1>2, VmapTypes
<1>3. CASE SideAction  BY <1>3, SideTypes
<1>4. CASE LoopAction  BY <1>4, LoopTypes
<1>5. CASE DisplayUpdate  BY <1>5, DisplayTypes
<1>6. CASE HandleHostMessage  BY <1>6, HandleHostTypes
<1>7. CASE SendMessage \/ SendFails  BY <1>7, SendTypes
<1>8. CASE StartFlash  BY <1>8, StartFlashTypes
<1>9. CASE HostSends  BY <1>9, HostSendsTypes
<1>10. CASE UNCHANGED vars  BY <1>10 DEF vars, Types, TypeOK
<1> QED
  BY <1>1, <1>2, <1>3, <1>4, <1>5, <1>6, <1>7, <1>8, <1>9, <1>10
     DEF Next, InputUpdate, EventUpdate, SideAction, LoopAction

LEMMA TypesAlways == Spec => []Types
BY TypesInit, TypesStep, PTL DEF Spec

(* Every variable stays in its type; the queues never fill their last slot.*)
THEOREM TypeCorrect == Spec => []TypeOK
<1>1. Types => TypeOK  BY DEF Types
<1> QED  BY <1>1, TypesAlways, PTL

-----------------------------------------------------------------------------
(* The hold switch.  As long as it is held, prev_vmap_active is what was   *)
(* active in the bank it was pressed in.                                   *)
HoldInv ==
  \A s \in sideHeld : SideMode[s] = "ALL_VMAP_HOLD" =>
    \A e \in Enc : prev_vmap_active[e] = holdFrom[2][<<holdFrom[1], e>>]

LEMMA HoldSide ==
  ASSUME Types, HoldInv, SideAction
  PROVE  HoldInv'
<1>1. at \in Side /\ sideHeld \subseteq Side
  BY SideSteps DEF Types, TypeOK
<1>2. CASE HoldPressed
  BY <1>2 DEF HoldPressed, HoldInv
<1>3. CASE HoldReleased
  <2>1. SideMode[at] = "ALL_VMAP_HOLD" /\ sideHeld' = sideHeld \ {at}
    BY <1>3 DEF HoldReleased, AtSide, HeldAfter
  <2>2. \A s \in sideHeld' : SideMode[s] # "ALL_VMAP_HOLD"
    BY <1>1, <2>1, InputAssumption
  <2> QED  BY <2>2 DEF HoldInv
<1>4. CASE SideNothing
  <2>1. PICK edge \in {"idle", "pressed", "released"} :
          /\ AtSide(edge)
          /\ \/ edge = "idle"
             \/ SideMode[at] = "NONE"
             \/ edge = "released" /\ SideMode[at] # "ALL_VMAP_HOLD"
    BY <1>4 DEF SideNothing
  <2>2. \A s \in sideHeld' : s \in sideHeld \/ SideMode[s] = "NONE"
    BY <2>1 DEF AtSide, HeldAfter
  <2>3. UNCHANGED <<prev_vmap_active, holdFrom>>  BY <1>4 DEF SideNothing
  <2> QED  BY <2>2, <2>3 DEF HoldInv
<1>5. CASE CyclePressed \/ BankPrevPressed \/ BankNextPressed
  <2>1. /\ SideMode[at] # "ALL_VMAP_HOLD"
        /\ sideHeld' = sideHeld \cup {at}
        /\ UNCHANGED <<prev_vmap_active, holdFrom>>
    BY <1>5 DEF CyclePressed, BankPrevPressed, BankNextPressed, ShowBank, AtSide,
                HeldAfter
  <2> QED  BY <2>1 DEF HoldInv
<1> QED  BY <1>2, <1>3, <1>4, <1>5 DEF SideAction

LEMMA HoldStep == Types /\ HoldInv /\ [Next]_vars => HoldInv'
<1> SUFFICES ASSUME Types, HoldInv, [Next]_vars PROVE HoldInv'
  OBVIOUS
<1>1. CASE SideAction  BY <1>1, HoldSide
<1>2. CASE ~SideAction
  <2>1. UNCHANGED <<sideHeld, prev_vmap_active, holdFrom>>
    BY <1>2, LoopSteps DEF Next, InputUpdate, EventUpdate, DisplayUpdate, SideAction,
       LoopAction, EncoderStill, EncoderTurns, VmapStays, VmapMovesSilently,
       VmapMovesAndSends, NextVmap, HandleHostMessage, SendMessage, SendFails,
       StartFlash, FlashPlays, FlashEnds, DrawRequested, Draw, HostSends, devices,
       switches, history, vars
  <2> QED  BY <2>1 DEF HoldInv
<1> QED  BY <1>1, <1>2

(* Releasing the hold switch brings back the vmaps that were active when   *)
(* it was pressed, whatever else the user and the host did in between, as  *)
(* long as the same bank is shown.                                         *)
THEOREM HoldRestoresAlways == Spec => HoldRestores
<1>1. Init => HoldInv  BY DEF Init, HoldInv
<1>2. Spec => []HoldInv  BY <1>1, TypesAlways, HoldStep, PTL DEF Spec
<1>3. ASSUME Types, HoldInv, HoldReleased, holdFrom[1] = bank
      PROVE  \A e \in Enc : vmap_active'[<<bank, e>>] = holdFrom[2][<<bank, e>>]
  <2>1. at \in sideHeld /\ SideMode[at] = "ALL_VMAP_HOLD"
    BY <1>3 DEF HoldReleased, AtSide, Edges
  <2>2. SUFFICES ASSUME NEW e \in Enc
                 PROVE  vmap_active'[<<bank, e>>] = holdFrom[2][<<bank, e>>]
    OBVIOUS
  <2>3. <<bank, e>> \in BankEnc  BY <1>3 DEF Types, TypeOK, BankEnc
  <2>4. vmap_active'[<<bank, e>>] = prev_vmap_active[e]
    BY <1>3, <2>3 DEF HoldReleased, RestoreBank
  <2> QED  BY <1>3, <2>1, <2>4 DEF HoldInv
<1> QED  BY <1>2, <1>3, TypesAlways, PTL DEF HoldRestores

-----------------------------------------------------------------------------
(* The velocities.  During the scan the encoders of the bank shown that    *)
(* have been read, the one whose mappings still move among them, have a    *)
(* velocity just when they were turned; the others have not been turned.   *)
Read(e) == e < at \/ (e = at /\ todo # {})

FreshInv ==
  /\ phase = "encoders" =>
       \A e \in Enc : IF Read(e) THEN velocity[<<bank, e>>] # 0 <=> <<bank, e>> \in moved
                                 ELSE <<bank, e>> \notin moved
  /\ VelocityFreshAfterScan

LEMMA FreshStill ==
  ASSUME Types, FreshInv, EncoderStill
  PROVE  FreshInv'
<1>1. /\ phase = "encoders" /\ at \in Enc /\ todo = {} /\ bank \in Bank
      /\ phase' = phase /\ todo' = {} /\ at' = at + 1 /\ bank' = bank
      /\ velocity' = [velocity EXCEPT ![<<bank, at>>] = 0] /\ moved' = moved
      /\ velocity \in [BankEnc -> -7 .. 7]
  BY DEF EncoderStill, AtEncoder, history, Types, TypeOK
<1>2. ASSUME NEW e \in Enc
      PROVE  IF Read(e)' THEN velocity'[<<bank, e>>] # 0 <=> <<bank, e>> \in moved
                         ELSE <<bank, e>> \notin moved
  <2>1. e \in Int /\ at \in Int /\ <<bank, e>> \in BankEnc
    BY <1>1 DEF Enc, BankEnc
  <2>2. Read(e)' <=> e < at + 1  BY <1>1 DEF Read
  <2>3. CASE e = at
    <3>1. ~Read(e)  BY <1>1, <2>1, <2>3 DEF Read
    <3>2. <<bank, e>> \notin moved  BY <1>1, <3>1 DEF FreshInv
    <3>3. velocity'[<<bank, e>>] = 0  BY <1>1, <2>1, <2>3
    <3> QED  BY <3>2, <3>3
  <2>4. CASE e # at
    <3>1. Read(e)' <=> Read(e)  BY <1>1, <2>1, <2>2, <2>4 DEF Read
    <3>2. velocity'[<<bank, e>>] = velocity[<<bank, e>>]
      BY <1>1, <2>1, <2>4
    <3> QED  BY <1>1, <3>1, <3>2 DEF FreshInv
  <2> QED  BY <2>3, <2>4
<1> QED  BY <1>1, <1>2 DEF FreshInv, VelocityFreshAfterScan

LEMMA TodoNotEmpty ==
  ASSUME Types, EncoderTurns
  PROVE  /\ todo' # {} /\ at' = at /\ todo = {} /\ at \in Enc
         /\ UNCHANGED <<phase, bank>> /\ phase = "encoders"
<1>1. 0 \in VIdx  BY InputAssumption DEF VIdx
<1> QED  BY <1>1 DEF EncoderTurns, AtEncoder

LEMMA FreshTurns ==
  ASSUME Types, FreshInv, EncoderTurns
  PROVE  FreshInv'
<1>1. /\ phase = "encoders" /\ at \in Enc /\ todo = {} /\ bank \in Bank
      /\ phase' = phase /\ todo' # {} /\ at' = at /\ bank' = bank
      /\ moved' = moved \cup {<<bank, at>>}
      /\ velocity \in [BankEnc -> -7 .. 7]
  BY TodoNotEmpty DEF EncoderTurns, Types, TypeOK
<1>2. PICK speed : speed # 0 /\ velocity' = [velocity EXCEPT ![<<bank, at>>] = speed]
  <2>1. PICK dir \in {-1, 1}, factor \in Factors :
          velocity' = [velocity EXCEPT ![<<bank, at>>] = dir * factor]
    BY DEF EncoderTurns
  <2>2. factor \in 1 .. 7  BY InputAssumption
  <2>3. dir * factor # 0  BY <2>2
  <2> QED  BY <2>1, <2>3
<1>3. ASSUME NEW e \in Enc
      PROVE  IF Read(e)' THEN velocity'[<<bank, e>>] # 0 <=> <<bank, e>> \in moved'
                         ELSE <<bank, e>> \notin moved'
  <2>1. e \in Int /\ at \in Int /\ <<bank, e>> \in BankEnc
    BY <1>1 DEF Enc, BankEnc
  <2>2. CASE e = at
    <3>1. Read(e)'  BY <1>1, <2>2 DEF Read
    <3>2. velocity'[<<bank, e>>] # 0 /\ <<bank, e>> \in moved'
      BY <1>1, <1>2, <2>1, <2>2
    <3> QED  BY <3>1, <3>2
  <2>3. CASE e # at
    <3>1. Read(e)' <=> Read(e)  BY <1>1, <2>3 DEF Read
    <3>2. velocity'[<<bank, e>>] = velocity[<<bank, e>>]
      BY <1>1, <1>2, <2>1, <2>3
    <3>3. <<bank, e>> \in moved' <=> <<bank, e>> \in moved  BY <1>1, <2>3
    <3> QED  BY <1>1, <3>1, <3>2, <3>3 DEF FreshInv
  <2> QED  BY <2>2, <2>3
<1> QED  BY <1>1, <1>3 DEF FreshInv, VelocityFreshAfterScan

LEMMA ReadAfterVmap ==
  ASSUME Types, NEW v \in VIdx, NextVmap(v), NEW e \in Enc
  PROVE  Read(e)' <=> Read(e)
<1>1. at \in Enc /\ v \in todo /\ todo' = todo \ {v}
      /\ at' = IF todo = {v} THEN at + 1 ELSE at
  BY VmapSteps DEF NextVmap
<1>2. e \in Int /\ at \in Int  BY <1>1 DEF Enc
<1>3. CASE todo = {v}
  BY <1>1, <1>2, <1>3 DEF Read
<1>4. CASE todo # {v}
  <2>1. todo' # {} /\ at' = at /\ todo # {}  BY <1>1, <1>4
  <2> QED  BY <2>1 DEF Read
<1> QED  BY <1>3, <1>4

LEMMA FreshVmap ==
  ASSUME Types, FreshInv, NEW v \in VIdx, NextVmap(v)
  PROVE  FreshInv'
<1>1. phase = "encoders" /\ UNCHANGED <<phase, bank, velocity, moved>>
  BY DEF NextVmap
<1> QED  BY <1>1, ReadAfterVmap DEF FreshInv, VelocityFreshAfterScan

LEMMA FreshDone ==
  ASSUME Types, FreshInv, EncodersDone
  PROVE  FreshInv'
<1>1. /\ phase = "encoders" /\ at = NumEncoders /\ phase' = "switches"
      /\ UNCHANGED <<bank, velocity, moved>>
  BY DEF EncodersDone, devices, history
<1>2. \A e \in Enc : Read(e)
  <2>1. \A e \in Enc : e < at  BY <1>1, InputAssumption DEF Enc
  <2> QED  BY <2>1 DEF Read
<1>3. \A e \in Enc : velocity[<<bank, e>>] # 0 <=> <<bank, e>> \in moved
  BY <1>1, <1>2 DEF FreshInv
<1> QED  BY <1>1, <1>3 DEF FreshInv, VelocityFreshAfterScan

LEMMA FreshStep == Types /\ FreshInv /\ [Next]_vars => FreshInv'
<1> SUFFICES ASSUME Types, FreshInv, [Next]_vars PROVE FreshInv'
  OBVIOUS
<1>1. CASE EncoderStill  BY <1>1, FreshStill
<1>2. CASE EncoderTurns  BY <1>2, FreshTurns
<1>3. CASE \E v \in VIdx : VmapStays(v) \/ VmapMovesSilently(v) \/ VmapMovesAndSends(v)
  BY <1>3, FreshVmap DEF VmapStays, VmapMovesSilently, VmapMovesAndSends
<1>4. CASE EncodersDone  BY <1>4, FreshDone
<1>5. CASE SideAction
  <2>1. phase' = "switches" /\ at' = at + 1 /\ at \in Nat
    BY <1>5, SideSteps, InputAssumption
  <2> QED  BY <2>1 DEF FreshInv, VelocityFreshAfterScan
<1>6. CASE BootScanAgain \/ BootDone \/ TurnDone
  <2>1. phase' = "encoders" /\ at' = 0 /\ moved' = {} /\ todo' = {}
    BY <1>6, LoopSteps
       DEF BootScanAgain, BootDone, TurnDone, NextScan, LoopAction
  <2>2. \A e \in Enc : ~Read(e)'  BY <2>1 DEF Read, Enc
  <2> QED  BY <2>1, <2>2 DEF FreshInv, VelocityFreshAfterScan
<1>7. CASE ScanDone \/ EventUpdate \/ DisplayUpdate \/ HostSends
  <2>1. phase' \notin {"encoders", "switches"}
    BY <1>7 DEF ScanDone, EventUpdate, DisplayUpdate, HostSends, HandleHostMessage,
       MidiInDone, SendMessage, SendFails, StartFlash, EventsDone, FlashPlays,
       FlashEnds, DrawRequested, Draw
  <2> QED  BY <2>1 DEF FreshInv, VelocityFreshAfterScan
<1>8. CASE UNCHANGED vars
  BY <1>8 DEF vars, FreshInv, VelocityFreshAfterScan, Read
<1> QED
  BY <1>1, <1>2, <1>3, <1>4, <1>5, <1>6, <1>7, <1>8
     DEF Next, InputUpdate, SideAction

(* When the encoders have been read, those of the bank shown have a        *)
(* velocity just when they were turned in this very scan: what makes       *)
(* midi_in_handler pass over them is never left from an earlier turn.      *)
THEOREM VelocityFreshAlways == Spec => []VelocityFreshAfterScan
<1>1. Init => FreshInv
  <2> SUFFICES ASSUME Init PROVE FreshInv
    OBVIOUS
  <2>1. \A e \in Enc : ~Read(e)  BY DEF Init, Read, Enc
  <2> QED  BY <2>1 DEF Init, FreshInv, VelocityFreshAfterScan
<1>2. FreshInv => VelocityFreshAfterScan  BY DEF FreshInv
<1> QED  BY <1>1, <1>2, TypesAlways, FreshStep, PTL DEF Spec

-----------------------------------------------------------------------------
(* The LEDs, as long as nothing but a turn changes a position: one that a  *)
(* host message or the switch of an encoder changes is not drawn, and what *)
(* is drawn in the boot window is cleared (UpToDateUnlessRequested fails   *)
(* on MCInputHostDraw and MCInputBoot).                                    *)
HostSilent == InRoom = 0 \/ HostMessages = {}

Undisturbed ==
  /\ HostSilent
  /\ BootScans = 0
  /\ \A be \in BankEnc : SwMode[be] \in {"NONE", "VMAP_CYCLE"}

LEMMA NothingFromHost ==
  ASSUME HostSilent, Types
  PROVE  in = <<>> /\ ~HandleHostMessage /\ ~HostSends
<1>1. in = <<>>
  <2>1. in \in Seq(HostMessages) /\ Len(in) <= InRoom  BY DEF Types, TypeOK
  <2>2. CASE InRoom = 0
    <3>1. Len(in) = 0  BY <2>1, <2>2
    <3> QED  BY <2>1, <3>1
  <2>3. CASE HostMessages = {}
    <3>1. in # <<>> => Head(in) \in HostMessages  BY <2>1
    <3> QED  BY <2>3, <3>1
  <2> QED  BY <2>2, <2>3 DEF HostSilent
<1>2. ~HandleHostMessage  BY <1>1 DEF HandleHostMessage
<1>3. ~HostSends
  <2>1. Len(in) = 0  BY <1>1
  <2> QED  BY <2>1 DEF HostSends, HostSilent
<1> QED  BY <1>1, <1>2, <1>3

Covered(e) == UpToDate(e) \/ e \in flashing \/ e \in Requested

DrawnInv ==
  /\ DOMAIN frame = Enc
  /\ \A e \in Enc : Covered(e)
  /\ todo # {} => <<bank, at>> \in redraw

LEMMA DrawnSame ==
  ASSUME DrawnInv, UNCHANGED <<at, bank, vmap_active, curr_pos, frame, flashing, tinted>>,
         redraw \subseteq redraw', todo' # {} => todo # {}
  PROVE  DrawnInv'
<1>1. ASSUME NEW e \in Enc PROVE Covered(e)'
  <2>1. Covered(e)  BY DEF DrawnInv
  <2>2. UpToDate(e)' <=> UpToDate(e)  BY DEF UpToDate, View
  <2>3. e \in Requested => e \in Requested'  BY DEF Requested
  <2> QED  BY <2>1, <2>2, <2>3 DEF Covered
<1> QED  BY <1>1 DEF DrawnInv

(* The switch of the encoder: only its own vmap and its own LEDs change.   *)
LEMMA SwitchDrawn ==
  ASSUME Undisturbed, Types, DrawnInv, AtEncoder,
         NEW edge \in {"idle", "pressed", "released"},
         EncoderSwitch(<<bank, at>>, edge),
         bank' = bank, flashing' = flashing, redraw \subseteq redraw'
  PROVE  DOMAIN frame' = Enc /\ \A e \in Enc : Covered(e)'
<1>0. DOMAIN frame' = Enc  BY DEF EncoderSwitch, DrawnInv
<1>1. at \in Enc /\ bank \in Bank /\ <<bank, at>> \in BankEnc
  BY DEF AtEncoder, Types, TypeOK, BankEnc
<1>2. curr_pos' = curr_pos
  BY <1>1 DEF EncoderSwitch, Resets, Undisturbed
<1> SUFFICES ASSUME NEW e \in Enc PROVE Covered(e)'
  BY <1>0
<1>3. Covered(e) /\ (e \in Requested => e \in Requested')
  BY DEF DrawnInv, Requested
<1>4. <<bank, e>> \in BankEnc  BY <1>1 DEF BankEnc
<1>5. CASE SwMode[<<bank, at>>] = "VMAP_CYCLE" /\ edge = "pressed"
  <2> DEFINE next == (vmap_active[<<bank, at>>] + 1) % NumVmaps
  <2>1. /\ vmap_active' = [vmap_active EXCEPT ![<<bank, at>>] = next]
        /\ frame' = [frame EXCEPT ![at] = View(bank, at, next, curr_pos)]
        /\ tinted' = tinted \ {at}
    BY <1>5 DEF EncoderSwitch
  <2>2. vmap_active \in [BankEnc -> VIdx]  BY DEF Types, TypeOK
  <2> HIDE DEF next
  <2>3. CASE e = at
    <3>1. vmap_active'[<<bank, at>>] = next  BY <1>1, <2>1, <2>2
    <3>2. frame'[at] = View(bank, at, next, curr_pos)
      BY <1>1, <2>1 DEF DrawnInv
    <3> QED  BY <1>2, <2>1, <2>3, <3>1, <3>2 DEF Covered, UpToDate, View
  <2>4. CASE e # at
    <3>1. vmap_active'[<<bank, e>>] = vmap_active[<<bank, e>>]
      BY <1>4, <2>1, <2>2, <2>4
    <3>2. frame'[e] = frame[e] /\ (e \in tinted' <=> e \in tinted)
      BY <2>1, <2>4
    <3> QED  BY <1>2, <1>3, <3>1, <3>2 DEF Covered, UpToDate, View
  <2> QED  BY <2>3, <2>4
<1>6. CASE ~(SwMode[<<bank, at>>] = "VMAP_CYCLE" /\ edge = "pressed")
  <2>1. vmap_active' = vmap_active /\ frame' = frame /\ tinted' = tinted
    BY <1>6 DEF EncoderSwitch
  <2> QED  BY <1>2, <1>3, <2>1 DEF Covered, UpToDate, View
<1> QED  BY <1>5, <1>6

LEMMA EncoderDrawn ==
  ASSUME Undisturbed, Types, DrawnInv, EncoderStill \/ EncoderTurns
  PROVE  DrawnInv'
<1>1. PICK edge \in {"idle", "pressed", "released"} : EncoderSwitch(<<bank, at>>, edge)
  BY DEF EncoderStill, EncoderTurns, Edges
<1>2. AtEncoder /\ bank' = bank /\ flashing' = flashing /\ redraw \subseteq redraw'
  BY DEF EncoderStill, EncoderTurns
<1>3. DOMAIN frame' = Enc /\ \A e \in Enc : Covered(e)'
  BY <1>1, <1>2, SwitchDrawn
<1>4. todo' # {} => <<bank', at'>> \in redraw'
  BY <1>2 DEF EncoderStill, EncoderTurns, AtEncoder
<1> QED  BY <1>3, <1>4 DEF DrawnInv

(* A mapping that moves belongs to an encoder whose redraw is requested.   *)
LEMMA VmapDrawn ==
  ASSUME Undisturbed, Types, DrawnInv, NEW v \in VIdx,
         VmapStays(v) \/ VmapMovesSilently(v) \/ VmapMovesAndSends(v)
  PROVE  DrawnInv'
<1>1. NextVmap(v)  BY DEF VmapStays, VmapMovesSilently, VmapMovesAndSends
<1>2. /\ v \in todo /\ todo' = todo \ {v}
      /\ at' = IF todo = {v} THEN at + 1 ELSE at
      /\ UNCHANGED <<bank, vmap_active, redraw, frame, flashing, tinted>>
  BY <1>1 DEF NextVmap, leds
<1>3. \/ curr_pos' = curr_pos
      \/ curr_pos' = [curr_pos EXCEPT ![<<bank, at, v>>] = Target(<<bank, at, v>>)]
  BY DEF VmapStays, VmapMovesSilently, VmapMovesAndSends
<1>4. <<bank, at>> \in redraw /\ at \in Enc  BY <1>1, <1>2, VmapSteps DEF DrawnInv
<1>5. ASSUME NEW e \in Enc PROVE Covered(e)'
  <2>1. Covered(e) /\ (e \in Requested' <=> e \in Requested)
    BY <1>2 DEF DrawnInv, Requested
  <2>2. CASE e = at  BY <1>2, <1>4, <2>2 DEF Covered, Requested
  <2>3. CASE e # at
    <3>1. curr_pos \in [Vmap -> 0 .. EncMax] /\ vmap_active[<<bank, e>>] \in VIdx
          /\ bank \in Bank
      BY DEF Types, TypeOK, BankEnc
    <3>2. <<bank, e, vmap_active[<<bank, e>>]>> \in Vmap
      BY <3>1 DEF Vmap
    <3>3. curr_pos'[<<bank, e, vmap_active[<<bank, e>>]>>]
            = curr_pos[<<bank, e, vmap_active[<<bank, e>>]>>]
      BY <1>3, <2>3, <3>1, <3>2
    <3>4. UpToDate(e)' <=> UpToDate(e)  BY <1>2, <3>3 DEF UpToDate, View
    <3> QED  BY <1>2, <2>1, <3>4 DEF Covered
  <2> QED  BY <2>2, <2>3
<1>6. todo' # {} => <<bank', at'>> \in redraw'  BY <1>2, <1>4
<1> QED  BY <1>2, <1>5, <1>6 DEF DrawnInv

LEMMA SideDrawn ==
  ASSUME Undisturbed, Types, DrawnInv, SideAction
  PROVE  DrawnInv'
<1>1. todo = {} /\ todo' = {}
  <2>1. phase = "switches" /\ todo' = todo  BY SideSteps
  <2> QED  BY <2>1 DEF Types
<1>2. ASSUME NEW e \in Enc PROVE Covered(e)'
  <2>1. curr_pos' = curr_pos /\ redraw' = redraw /\ flashing' = flashing
    BY SideSteps
  <2>2. CASE SideNothing
    <3>1. UNCHANGED <<bank, vmap_active, frame, tinted>>  BY <2>2 DEF SideNothing
    <3> QED  BY <2>1, <3>1 DEF DrawnInv, Covered, UpToDate, View, Requested
  <2>3. CASE ~SideNothing
    <3>1. /\ frame' = [x \in Enc |-> View(bank', x, vmap_active'[<<bank', x>>], curr_pos)]
          /\ tinted' = {}
      BY <2>3 DEF SideAction, CyclePressed, HoldPressed, HoldReleased,
         BankPrevPressed, BankNextPressed, ShowBank, DrawBank
    <3>2. UpToDate(e)'  BY <2>1, <3>1 DEF UpToDate, View
    <3> QED  BY <3>2 DEF Covered
  <2> QED  BY <2>2, <2>3
<1>3. DOMAIN frame' = Enc
  BY DEF SideAction, SideNothing, CyclePressed, HoldPressed, HoldReleased,
         BankPrevPressed, BankNextPressed, ShowBank, DrawBank, DrawnInv
<1> QED  BY <1>1, <1>2, <1>3 DEF DrawnInv

LEMMA FlashDrawn ==
  ASSUME Undisturbed, Types, DrawnInv, StartFlash \/ DisplayUpdate
  PROVE  DrawnInv'
<1>1. todo = {} /\ todo' = {}
  BY DEF StartFlash, DisplayUpdate, FlashPlays, FlashEnds, DrawRequested, Draw, Types
<1>2. UNCHANGED <<bank, vmap_active, curr_pos>> /\ bank \in Bank
  BY DEF StartFlash, DisplayUpdate, FlashPlays, FlashEnds, DrawRequested, Draw,
         devices, Types, TypeOK
<1>3. ASSUME NEW e \in Enc PROVE Covered(e)'
  <2>1. Covered(e)  BY DEF DrawnInv
  <2>2. CASE StartFlash
    <3>1. frame' = frame /\ tinted' = tinted /\ redraw' = redraw \cup {bank} \X flashing
      BY <2>2 DEF StartFlash
    <3>2. UpToDate(e) => UpToDate(e)'  BY <1>2, <3>1 DEF UpToDate, View
    <3>3. e \in flashing => e \in Requested'  BY <1>2, <3>1 DEF Requested
    <3>4. e \in Requested => e \in Requested'  BY <1>2, <3>1 DEF Requested
    <3> QED  BY <2>1, <3>2, <3>3, <3>4 DEF Covered
  <2>3. CASE FlashPlays
    <3>1. /\ frame' = frame /\ tinted' = tinted \cup flashing /\ flashing' = flashing
          /\ redraw \subseteq redraw'
      BY <2>3 DEF FlashPlays
    <3>2. e \notin flashing /\ UpToDate(e) => UpToDate(e)'
      BY <1>2, <3>1 DEF UpToDate, View
    <3>3. e \in Requested => e \in Requested'  BY <1>2, <3>1 DEF Requested
    <3> QED  BY <2>1, <3>1, <3>2, <3>3 DEF Covered
  <2>4. CASE FlashEnds
    <3>1. frame' = frame /\ tinted' = tinted /\ redraw' = redraw \cup {bank} \X flashing
      BY <2>4 DEF FlashEnds
    <3>2. UpToDate(e) => UpToDate(e)'  BY <1>2, <3>1 DEF UpToDate, View
    <3>3. e \in flashing => e \in Requested'  BY <1>2, <3>1 DEF Requested
    <3>4. e \in Requested => e \in Requested'  BY <1>2, <3>1 DEF Requested
    <3> QED  BY <2>1, <3>2, <3>3, <3>4 DEF Covered
  <2>5. CASE DrawRequested
    <3>1. PICK due \in SUBSET Requested : Draw(due)  BY <2>5 DEF DrawRequested
    <3>2. /\ redraw' = redraw \ ({bank} \X due)
          /\ frame' = [x \in Enc |-> IF x \in due
                                     THEN View(bank, x, vmap_active[<<bank, x>>], curr_pos)
                                     ELSE frame[x]]
          /\ tinted' = tinted \ due /\ flashing' = flashing
      BY <3>1 DEF Draw
    <3>3. CASE e \in due
      BY <1>2, <3>2, <3>3 DEF Covered, UpToDate, View
    <3>4. CASE e \notin due
      <4>1. UpToDate(e) => UpToDate(e)'  BY <1>2, <3>2, <3>4 DEF UpToDate, View
      <4>2. e \in Requested => e \in Requested'  BY <1>2, <3>2, <3>4 DEF Requested
      <4> QED  BY <2>1, <3>2, <4>1, <4>2 DEF Covered
    <3> QED  BY <3>3, <3>4
  <2> QED  BY <2>2, <2>3, <2>4, <2>5 DEF DisplayUpdate
<1>4. DOMAIN frame' = Enc
  BY DEF StartFlash, DisplayUpdate, FlashPlays, FlashEnds, DrawRequested, Draw,
         DrawnInv
<1> QED  BY <1>1, <1>3, <1>4 DEF DrawnInv

LEMMA DrawnStep == Undisturbed /\ Types /\ DrawnInv /\ [Next]_vars => DrawnInv'
<1> SUFFICES ASSUME Undisturbed, Types, DrawnInv, [Next]_vars PROVE DrawnInv'
  OBVIOUS
<1>1. CASE EncoderStill \/ EncoderTurns  BY <1>1, EncoderDrawn
<1>2. CASE \E v \in VIdx : VmapStays(v) \/ VmapMovesSilently(v) \/ VmapMovesAndSends(v)
  BY <1>2, VmapDrawn
<1>3. CASE SideAction  BY <1>3, SideDrawn
<1>4. CASE LoopAction
  <2>1. boot = 0  BY DEF Undisturbed, Types, TypeOK
  <2>2. ~BootDone  BY <2>1 DEF BootDone
  <2>3. /\ todo' = {} /\ todo = {}
        /\ UNCHANGED <<bank, vmap_active, curr_pos, frame, flashing, tinted, redraw>>
    BY <1>4, <2>2, LoopSteps
  <2>4. \A e \in Enc : Covered(e)' <=> Covered(e)
    BY <2>3 DEF Covered, UpToDate, View, Requested
  <2> QED  BY <2>3, <2>4 DEF DrawnInv
<1>5. CASE StartFlash \/ DisplayUpdate  BY <1>5, FlashDrawn
<1>6. CASE HandleHostMessage \/ HostSends
  BY <1>6, NothingFromHost DEF Undisturbed
<1>7. CASE SendMessage \/ SendFails \/ UNCHANGED vars
  <2>1. UNCHANGED <<at, todo, bank, vmap_active, curr_pos, frame, flashing, tinted,
                    redraw>>
    BY <1>7 DEF SendMessage, SendFails, vars, devices, leds
  <2> QED  BY <2>1, DrawnSame
<1> QED
  BY <1>1, <1>2, <1>3, <1>4, <1>5, <1>6, <1>7
     DEF Next, InputUpdate, EventUpdate, SideAction, LoopAction

(* As long as only the panel moves positions, the LEDs of every encoder    *)
(* show its active vmap's position or a redraw has been asked for: through *)
(* every change of bank and vmap and every animation cut short.            *)
THEOREM UpToDateAlways ==
  ASSUME Undisturbed PROVE Spec => []UpToDateUnlessRequested
<1>1. Init => DrawnInv
  BY DEF Init, DrawnInv, Covered, Requested
<1>2. DrawnInv => UpToDateUnlessRequested
  BY DEF DrawnInv, Covered, UpToDateUnlessRequested
<1>3. Types /\ DrawnInv /\ [Next]_vars => DrawnInv'  BY DrawnStep
<1> QED  BY <1>1, <1>2, <1>3, TypesAlways, PTL DEF Spec

-----------------------------------------------------------------------------
(* What the host has been told last.                                       *)
Told(queue, c) == {k \in 1 .. Len(queue) : queue[k].cc = c}

Last(queue, sent, c) ==
  IF Told(queue, c) = {} THEN sent[c]
  ELSE queue[CHOOSE k \in Told(queue, c) : \A j \in Told(queue, c) : j <= k].value

(* A set of naturals has a least element.                                  *)
LEMMA LeastNat ==
  ASSUME NEW T, T \subseteq Nat, T # {}
  PROVE  \E x \in T : \A y \in T : x <= y
<1>1. PICK x \in T : \A y \in T : ~ (<<y, x>> \in OpToRel(<, Nat))
  BY NatLessThanWellFounded, WFMin
<1>2. ASSUME NEW y \in T, y < x PROVE FALSE
  <2>1. <<y, x>> \in Nat \X Nat  OBVIOUS
  <2>2. <<y, x>> \in OpToRel(<, Nat)  BY <1>2, <2>1 DEF OpToRel
  <2> QED  BY <1>1, <2>2
<1> QED  BY <1>2

(* Of the messages to a controller one is the last.                        *)
LEMMA LastExists ==
  ASSUME NEW queue \in Seq(Message), NEW c, Told(queue, c) # {}
  PROVE  \E k \in Told(queue, c) : \A j \in Told(queue, c) : j <= k
<1> DEFINE n == Len(queue)
           T == {d \in Nat : n - d \in Told(queue, c)}
<1>1. n \in Nat /\ Told(queue, c) \subseteq 1 .. n  BY DEF Told
<1>2. T \subseteq Nat /\ T # {}
  <2>1. PICK k \in Told(queue, c) : TRUE  OBVIOUS
  <2>2. n - k \in Nat /\ n - (n - k) = k  BY <1>1, <2>1
  <2>3. n - k \in T  BY <2>1, <2>2
  <2> QED  BY <2>3
<1>3. PICK d \in T : \A f \in T : d <= f
  <2> HIDE DEF T
  <2> QED  BY <1>2, LeastNat
<1>4. n - d \in Told(queue, c) /\ d \in Nat  BY <1>3
<1>5. ASSUME NEW j \in Told(queue, c) PROVE j <= n - d
  <2>1. j \in 1 .. n  BY <1>1
  <2>2. n - j \in Nat /\ n - (n - j) = j  BY <1>1, <2>1
  <2>3. n - j \in T  BY <2>2
  <2>4. d <= n - j  BY <1>3, <2>3
  <2> QED  BY <1>1, <1>4, <2>1, <2>4
<1> QED  BY <1>4, <1>5

LEMMA LastIs ==
  ASSUME NEW queue \in Seq(Message), NEW sent, NEW c, NEW k \in Told(queue, c),
         \A j \in Told(queue, c) : j <= k
  PROVE  Last(queue, sent, c) = queue[k].value
<1> DEFINE l == CHOOSE x \in Told(queue, c) : \A j \in Told(queue, c) : j <= x
<1>1. l \in Told(queue, c) /\ \A j \in Told(queue, c) : j <= l
  OBVIOUS
<1>2. l \in Int /\ k \in Int  BY <1>1 DEF Told
<1>3. l <= k /\ k <= l  BY <1>1
<1>4. l = k  BY <1>2, <1>3
<1> HIDE DEF l
<1>5. Last(queue, sent, c) = queue[l].value  BY DEF Last, l
<1> QED  BY <1>4, <1>5

LEMMA LastAppend ==
  ASSUME NEW queue \in Seq(Message), NEW msg \in Message, NEW sent, NEW c
  PROVE  Last(Append(queue, msg), sent, c)
           = IF msg.cc = c THEN msg.value ELSE Last(queue, sent, c)
<1> DEFINE longer == Append(queue, msg)
           n == Len(queue)
<1>1. /\ longer \in Seq(Message) /\ Len(longer) = n + 1 /\ n \in Nat
      /\ longer[n + 1] = msg /\ \A k \in 1 .. n : longer[k] = queue[k]
  OBVIOUS
<1> HIDE DEF longer
<1>2. CASE msg.cc = c
  <2>1. n + 1 \in Told(longer, c)  BY <1>1, <1>2 DEF Told
  <2>2. \A j \in Told(longer, c) : j <= n + 1  BY <1>1 DEF Told
  <2>3. Last(longer, sent, c) = longer[n + 1].value
    BY <1>1, <2>1, <2>2, LastIs
  <2> QED  BY <1>1, <1>2, <2>3 DEF longer
<1>3. CASE msg.cc # c
  <2>1. Told(longer, c) = Told(queue, c)
    <3>1. ASSUME NEW k PROVE k \in Told(longer, c) <=> k \in Told(queue, c)
      <4>1. k \in 1 .. n + 1 <=> k \in 1 .. n \/ k = n + 1  BY <1>1
      <4>2. k = n + 1 => k \notin Told(longer, c) /\ k \notin Told(queue, c)
        BY <1>1, <1>3 DEF Told
      <4>3. k \in 1 .. n => longer[k] = queue[k]  BY <1>1
      <4> QED  BY <1>1, <4>1, <4>2, <4>3 DEF Told
    <3> QED  BY <3>1
  <2>2. CASE Told(queue, c) = {}
    BY <1>3, <2>1, <2>2 DEF Last, longer
  <2>3. CASE Told(queue, c) # {}
    <3>1. PICK k \in Told(queue, c) : \A j \in Told(queue, c) : j <= k
      BY <2>3, LastExists
    <3>2. Last(queue, sent, c) = queue[k].value  BY <3>1, LastIs
    <3>3. Last(longer, sent, c) = longer[k].value
      BY <1>1, <2>1, <3>1, LastIs
    <3>4. longer[k] = queue[k]  BY <1>1, <3>1 DEF Told
    <3> QED  BY <1>3, <3>2, <3>3, <3>4 DEF longer
  <2> QED  BY <2>2, <2>3
<1> QED  BY <1>2, <1>3

(* The message at the head matters only where no later one follows.        *)
LEMMA LastTail ==
  ASSUME NEW queue \in Seq(Message), queue # <<>>, NEW sent, NEW c
  PROVE  /\ Told(Tail(queue), c) # {} =>
              \A now : Last(Tail(queue), now, c) = Last(queue, sent, c)
         /\ Told(Tail(queue), c) = {} =>
              Last(queue, sent, c) = IF Head(queue).cc = c THEN Head(queue).value
                                                           ELSE sent[c]
<1> DEFINE rest == Tail(queue)
           n == Len(queue)
<1>1. /\ rest \in Seq(Message) /\ n \in Nat \ {0} /\ Len(rest) = n - 1
      /\ \A k \in 1 .. n - 1 : rest[k] = queue[k + 1]
      /\ Head(queue) = queue[1]
  OBVIOUS
<1> HIDE DEF rest
<1>2. \A k \in Told(rest, c) : k + 1 \in Told(queue, c)
  BY <1>1 DEF Told
<1>3. \A k \in Told(queue, c) : k # 1 => k - 1 \in Told(rest, c)
  <2> SUFFICES ASSUME NEW k \in Told(queue, c), k # 1 PROVE k - 1 \in Told(rest, c)
    OBVIOUS
  <2>1. k \in 1 .. n /\ queue[k].cc = c  BY DEF Told
  <2>2. k - 1 \in 1 .. n - 1 /\ (k - 1) + 1 = k  BY <1>1, <2>1
  <2>3. rest[k - 1] = queue[k]  BY <1>1, <2>2
  <2> QED  BY <1>1, <2>1, <2>2, <2>3 DEF Told
<1>4. ASSUME Told(rest, c) # {}, NEW now
      PROVE  Last(rest, now, c) = Last(queue, sent, c)
  <2>1. PICK k \in Told(rest, c) : \A j \in Told(rest, c) : j <= k
    BY <1>1, <1>4, LastExists
  <2>2. k \in 1 .. n - 1 /\ k + 1 \in Told(queue, c)  BY <1>1, <1>2 DEF Told
  <2>3. ASSUME NEW j \in Told(queue, c) PROVE j <= k + 1
    <3>1. j \in Int /\ k \in Int /\ k >= 1  BY <1>1, <2>2 DEF Told
    <3>2. j # 1 => j - 1 <= k  BY <1>3, <2>1
    <3> QED  BY <3>1, <3>2
  <2>4. Last(queue, sent, c) = queue[k + 1].value  BY <2>2, <2>3, LastIs
  <2>5. Last(rest, now, c) = rest[k].value  BY <1>1, <2>1, LastIs
  <2> QED  BY <1>1, <2>2, <2>4, <2>5
<1>5. ASSUME Told(rest, c) = {}
      PROVE  Last(queue, sent, c) = IF Head(queue).cc = c THEN Head(queue).value
                                                          ELSE sent[c]
  <2>1. \A k \in Told(queue, c) : k = 1  BY <1>3, <1>5
  <2>2. CASE Head(queue).cc = c
    <3>1. 1 \in Told(queue, c)  BY <1>1, <2>2 DEF Told
    <3>2. \A j \in Told(queue, c) : j <= 1  BY <2>1
    <3>3. Last(queue, sent, c) = queue[1].value  BY <3>1, <3>2, LastIs
    <3> QED  BY <1>1, <2>2, <3>3
  <2>3. CASE Head(queue).cc # c
    <3>1. Told(queue, c) = {}
      <4>1. 1 \notin Told(queue, c)  BY <1>1, <2>3 DEF Told
      <4> QED  BY <2>1, <4>1
    <3> QED  BY <2>3, <3>1 DEF Last
  <2> QED  BY <2>2, <2>3
<1> QED  BY <1>4, <1>5 DEF rest

LEMMA LastToldIs == \A c : LastTold(c) = Last(out, wire, c)
BY DEF LastTold, Last, Told

(* No two mappings send to one controller: sw_encoder_init numbers them    *)
(* through.                                                                *)
OwnControllers ==
  \A vm, other \in Vmap : vm # other => CcsOf(Cfg[vm]) \cap CcsOf(Cfg[other]) = {}

(* WireCurrent of one mapping.                                             *)
Current(vm) ==
  Sends(Cfg[vm]) =>
    \A k \in 1 .. Len(Messages(Cfg[vm], curr_val[vm])) :
      LastTold(Messages(Cfg[vm], curr_val[vm])[k].cc)
        = Messages(Cfg[vm], curr_val[vm])[k].value

LEMMA WireCurrentIs == WireCurrent <=> \A vm \in Vmap \ lagging : Current(vm)
BY DEF WireCurrent, Current

LEMMA CurrentSame ==
  ASSUME Types, NEW vm \in Vmap, Current(vm), curr_val'[vm] = curr_val[vm],
         Sends(Cfg[vm]) => \A c \in CcsOf(Cfg[vm]) : LastTold(c)' = LastTold(c)
  PROVE  Current(vm)'
<1> SUFFICES ASSUME Sends(Cfg[vm]), NEW k \in 1 .. Len(Messages(Cfg[vm], curr_val[vm]))
             PROVE  LastTold(Messages(Cfg[vm], curr_val[vm])[k].cc)'
                      = Messages(Cfg[vm], curr_val[vm])[k].value
  BY DEF Current
<1>1. curr_val[vm] \in Int  BY DEF Types, TypeOK
<1>2. Messages(Cfg[vm], curr_val[vm])[k].cc \in CcsOf(Cfg[vm])
  BY <1>1, MessagesType
<1> QED  BY <1>2 DEF Current

LEMMA LastPost ==
  ASSUME NEW queue \in Seq(Message), NEW size, NEW msg \in Message, NEW sent, NEW c,
         msg.cc # c
  PROVE  Last(Post(queue, size, msg), sent, c) = Last(queue, sent, c)
BY LastAppend DEF Post

(* The controllers of a mapping's messages are its own and differ.         *)
LEMMA MessageCcs ==
  ASSUME NEW vm \in Vmap, Sends(Cfg[vm]), NEW val \in Int
  PROVE  LET msgs == Messages(Cfg[vm], val) IN
         /\ msgs \in Seq(Message) /\ msgs[1] \in Message /\ msgs[1].cc \in CcsOf(Cfg[vm])
         /\ \/ Len(msgs) = 1
            \/ /\ Len(msgs) = 2 /\ msgs[2] \in Message
               /\ msgs[2].cc \in CcsOf(Cfg[vm]) /\ msgs[1].cc # msgs[2].cc
<1> DEFINE msgs == Messages(Cfg[vm], val)
<1>1. /\ msgs \in Seq(Message) /\ Len(msgs) \in {1, 2}
      /\ \A k \in 1 .. Len(msgs) : msgs[k].cc \in CcsOf(Cfg[vm])
  BY MessagesType
<1>2. Len(msgs) = 2 => msgs[1].cc # msgs[2].cc
  BY MappingFields DEF Messages
<1> HIDE DEF msgs
<1>3. 1 \in 1 .. Len(msgs) /\ (Len(msgs) = 2 => 2 \in 1 .. Len(msgs))
  <2>1. Len(msgs) = 1 \/ Len(msgs) = 2  BY <1>1
  <2> QED  BY <2>1
<1>4. msgs[1] \in Message /\ (Len(msgs) = 2 => msgs[2] \in Message)
  BY <1>1, <1>3
<1> QED  BY <1>1, <1>2, <1>3, <1>4 DEF msgs

LEMMA WireSends ==
  ASSUME OwnControllers, Types, WireCurrent, NEW v \in VIdx, VmapMovesAndSends(v)
  PROVE  WireCurrent'
<1>0. PICK vm, val, msgs :
        /\ vm = <<bank, at, v>> /\ val = MidiValue(Cfg[vm], Target(vm))
        /\ msgs = Messages(Cfg[vm], val)
  OBVIOUS
<1> DEFINE once == Post(out, OutSize, msgs[1])
<1>1. /\ NextVmap(v) /\ Sends(Cfg[vm])
      /\ curr_val' = [curr_val EXCEPT ![vm] = val]
      /\ out' = IF Len(msgs) = 1 THEN once ELSE Post(once, OutSize, msgs[2])
      /\ lagging' = IF Len(out') = Len(out) + Len(msgs)
                    THEN lagging \ {vm} ELSE lagging \cup {vm}
  BY <1>0 DEF VmapMovesAndSends
<1>2. vm \in Vmap /\ val \in Int  BY <1>0, <1>1, VmapSteps, SendsUsed
<1>3. wire' = wire  BY <1>1 DEF NextVmap, link
<1>4. /\ out \in Seq(Message) /\ Len(out) < OutSize /\ OutSize \in Nat
      /\ curr_val \in [Vmap -> Int]
  BY InputAssumption DEF Types, TypeOK
<1>5. /\ msgs \in Seq(Message) /\ msgs[1] \in Message /\ msgs[1].cc \in CcsOf(Cfg[vm])
      /\ \/ Len(msgs) = 1
         \/ /\ Len(msgs) = 2 /\ msgs[2] \in Message
            /\ msgs[2].cc \in CcsOf(Cfg[vm]) /\ msgs[1].cc # msgs[2].cc
  BY <1>0, <1>1, <1>2, MessageCcs
<1>6. /\ once \in Seq(Message) /\ Len(once) < OutSize
      /\ Len(once) \in {Len(out), Len(out) + 1}
  BY <1>4, <1>5, PostType
<1>7. ASSUME NEW other \in Vmap \ lagging', other # vm
      PROVE  Current(other)'
  <2>1. other \in Vmap \ lagging  BY <1>1, <1>7
  <2>2. Current(other)  BY <2>1, WireCurrentIs
  <2>3. ASSUME NEW c \in CcsOf(Cfg[other]) PROVE LastTold(c)' = LastTold(c)
    <3>1. c \notin CcsOf(Cfg[vm])  BY <1>2, <1>7 DEF OwnControllers
    <3>2. Last(once, wire, c) = Last(out, wire, c)
      BY <1>4, <1>5, <3>1, LastPost
    <3> HIDE DEF once
    <3>3. Last(out', wire, c) = Last(out, wire, c)
      <4>1. CASE Len(msgs) = 1  BY <1>1, <3>2, <4>1
      <4>2. CASE Len(msgs) # 1
        BY <1>1, <1>5, <1>6, <3>1, <3>2, <4>2, LastPost
      <4> QED  BY <4>1, <4>2
    <3>4. LastTold(c)' = Last(out', wire', c)  BY DEF LastTold, Last, Told
    <3> QED  BY <1>3, <3>3, <3>4, LastToldIs
  <2>4. curr_val'[other] = curr_val[other]  BY <1>1, <1>4, <1>7
  <2> QED  BY <2>2, <2>3, <2>4, CurrentSame
<1>8. ASSUME vm \notin lagging' PROVE Current(vm)'
  <2>1. Len(out') = Len(out) + Len(msgs)  BY <1>1, <1>8
  <2>2. Len(out) \in Nat  BY <1>4
  <2>3. curr_val'[vm] = val  BY <1>1, <1>2, <1>4
  <2>4. \A c : LastTold(c)' = Last(out', wire, c)
    BY <1>3 DEF LastTold, Last, Told
  <2>5. CASE Len(msgs) = 1
    <3>1. out' = once  BY <1>1, <2>5
    <3>2. out' = Append(out, msgs[1])  BY <2>1, <2>2, <2>5, <3>1 DEF Post
    <3>3. Last(out', wire, msgs[1].cc) = msgs[1].value
      BY <1>4, <1>5, <3>2, LastAppend
    <3>4. \A k \in 1 .. Len(msgs) : LastTold(msgs[k].cc)' = msgs[k].value
      BY <2>4, <2>5, <3>3
    <3> QED  BY <1>0, <2>3, <3>4 DEF Current
  <2>6. CASE Len(msgs) # 1
    <3>1. Len(msgs) = 2 /\ msgs[2] \in Message /\ msgs[1].cc # msgs[2].cc
      BY <1>5, <2>6
    <3>2. out' = Post(once, OutSize, msgs[2])  BY <1>1, <2>6
    <3>3. Len(once) = Len(out) + 1 /\ out' = Append(once, msgs[2])
      <4> HIDE DEF once
      <4>1. Len(out') \in {Len(once), Len(once) + 1}
        BY <1>4, <1>6, <3>1, <3>2, PostType
      <4>2. Len(once) = Len(out) + 1 /\ Len(out') # Len(once)
        BY <1>6, <2>1, <2>2, <3>1, <4>1
      <4>3. out' = Append(once, msgs[2])  BY <3>2, <4>2 DEF Post
      <4> QED  BY <4>2, <4>3
    <3>4. once = Append(out, msgs[1])
      <4>1. Len(once) # Len(out)  BY <2>2, <3>3
      <4> QED  BY <4>1 DEF Post
    <3> HIDE DEF once
    <3>5. Last(out', wire, msgs[2].cc) = msgs[2].value
      BY <1>6, <3>1, <3>3, LastAppend
    <3>6. Last(out', wire, msgs[1].cc) = Last(once, wire, msgs[1].cc)
      BY <1>6, <3>1, <3>3, LastAppend
    <3>7. Last(once, wire, msgs[1].cc) = msgs[1].value
      BY <1>4, <1>5, <3>4, LastAppend
    <3>8. \A k \in 1 .. Len(msgs) : LastTold(msgs[k].cc)' = msgs[k].value
      <4>1. \A k \in 1 .. Len(msgs) : k = 1 \/ k = 2  BY <3>1
      <4> QED  BY <2>4, <3>5, <3>6, <3>7, <4>1
    <3> QED  BY <1>0, <2>3, <3>8 DEF Current
  <2> QED  BY <2>5, <2>6
<1>9. \A other \in Vmap \ lagging' : Current(other)'  BY <1>7, <1>8
<1> QED  BY <1>9 DEF WireCurrent, Current

LEMMA WireTold ==
  ASSUME OwnControllers, Types, WireCurrent, SendMessage \/ SendFails
  PROVE  WireCurrent'
<1>1. out \in Seq(Message) /\ out # <<>> /\ out' = Tail(out) /\ curr_val' = curr_val
      /\ wire \in [Controllers -> Int]
  BY DEF SendMessage, SendFails, devices, Types
<1>2. Head(out) \in Message  BY <1>1
<1>3. ASSUME NEW vm \in Vmap \ lagging' PROVE Current(vm)'
  <2>1. vm \in Vmap \ lagging /\ Current(vm)
    <3>1. lagging \subseteq lagging'
      BY DEF SendMessage, SendFails, history
    <3> QED  BY <3>1, WireCurrentIs
  <2>2. ASSUME NEW c \in CcsOf(Cfg[vm]) PROVE LastTold(c)' = LastTold(c)
    <3>1. c \in Controllers  BY DEF Controllers
    <3>2. LastTold(c)' = Last(Tail(out), wire', c)
      BY <1>1 DEF LastTold, Last, Told
    <3>3. CASE Told(Tail(out), c) # {}
      BY <1>1, <3>2, <3>3, LastTail, LastToldIs
    <3>4. CASE Told(Tail(out), c) = {}
      <4>1. Last(out, wire, c) = IF Head(out).cc = c THEN Head(out).value ELSE wire[c]
        BY <1>1, <3>4, LastTail
      <4>2. LastTold(c)' = wire'[c]  BY <3>2, <3>4 DEF Last
      <4>3. CASE SendMessage
        <5>1. wire' = [wire EXCEPT ![Head(out).cc] = Head(out).value]
          BY <4>3 DEF SendMessage
        <5>2. wire'[c] = IF Head(out).cc = c THEN Head(out).value ELSE wire[c]
          BY <1>1, <3>1, <5>1
        <5> QED  BY <4>1, <4>2, <5>2, LastToldIs
      <4>4. CASE SendFails
        <5>1. wire' = wire  BY <4>4 DEF SendFails, link
        <5>2. Head(out).cc # c
          <6>1. Head(out).cc = c => ~ \E k \in 1 .. Len(out') : out'[k].cc = Head(out).cc
            BY <1>1, <3>4 DEF Told
          <6>2. Head(out).cc = c => vm \in lagging'
            BY <4>4, <6>1 DEF SendFails
          <6> QED  BY <6>2
        <5> QED  BY <4>1, <4>2, <5>1, <5>2, LastToldIs
      <4> QED  BY <4>3, <4>4
    <3> QED  BY <3>3, <3>4
  <2> QED  BY <1>1, <2>1, <2>2, CurrentSame
<1> QED  BY <1>3 DEF WireCurrent, Current

LEMMA WireSame ==
  ASSUME Types, WireCurrent, UNCHANGED <<curr_val, out, wire, lagging>>
  PROVE  WireCurrent'
<1>1. ASSUME NEW vm \in Vmap \ lagging PROVE Current(vm)'
  <2>1. Current(vm)  BY WireCurrentIs
  <2>2. \A c \in CcsOf(Cfg[vm]) : LastTold(c)' = LastTold(c)
    BY DEF LastTold
  <2> QED  BY <2>1, <2>2, CurrentSame
<1> QED  BY <1>1 DEF WireCurrent, Current

LEMMA WireStep == OwnControllers /\ Types /\ WireCurrent /\ [Next]_vars => WireCurrent'
<1> SUFFICES ASSUME OwnControllers, Types, WireCurrent, [Next]_vars PROVE WireCurrent'
  OBVIOUS
<1>1. CASE EncoderStill \/ EncoderTurns
  BY <1>1, WireSame DEF EncoderStill, EncoderTurns, queues, link, history
<1>2. CASE \E v \in VIdx : VmapStays(v) \/ VmapMovesSilently(v)
  BY <1>2, WireSame DEF VmapStays, VmapMovesSilently, NextVmap, link
<1>3. CASE \E v \in VIdx : VmapMovesAndSends(v)  BY <1>3, WireSends
<1>4. CASE SideAction  BY <1>4, SideSteps, WireSame
<1>5. CASE LoopAction  BY <1>5, LoopSteps, WireSame
<1>6. CASE SendMessage \/ SendFails  BY <1>6, WireTold
<1>7. CASE HandleHostMessage \/ StartFlash \/ DisplayUpdate \/ HostSends
  BY <1>7, WireSame DEF HandleHostMessage, StartFlash, DisplayUpdate, FlashPlays,
     FlashEnds, DrawRequested, Draw, HostSends, devices, queues, link, history
<1>8. CASE UNCHANGED vars  BY <1>8, WireSame DEF vars
<1> QED
  BY <1>1, <1>2, <1>3, <1>4, <1>5, <1>6, <1>7, <1>8
     DEF Next, InputUpdate, EventUpdate, SideAction, LoopAction

LEMMA WireInit == Init => WireCurrent
<1> SUFFICES ASSUME Init, NEW vm \in Vmap, Sends(Cfg[vm]),
                    NEW k \in 1 .. Len(Messages(Cfg[vm], 0))
             PROVE  LastTold(Messages(Cfg[vm], 0)[k].cc) = Messages(Cfg[vm], 0)[k].value
  BY DEF Init, WireCurrent
<1> DEFINE msgs == Messages(Cfg[vm], 0)
<1>1. msgs[k].cc \in CcsOf(Cfg[vm])  BY MessagesType
<1>2. msgs[k].cc \in Controllers  BY <1>1 DEF Controllers
<1>3. LastTold(msgs[k].cc) = 0
  <2> HIDE DEF msgs
  <2>1. Told(out, msgs[k].cc) = {}  BY DEF Init, Told
  <2>2. wire[msgs[k].cc] = 0  BY <1>2 DEF Init
  <2> QED  BY <2>1, <2>2, LastToldIs DEF Last
<1>4. msgs[k].value = 0
  <2>1. 0 \div LsbSpan = 0 /\ 0 % LsbSpan = 0 /\ 0 % (CCMax + 1) = 0
    BY VirtmapAssumption
  <2>2. CASE Cfg[vm].mode = "CC_14"
    <3>1. msgs = << [cc |-> Cfg[vm].cc, value |-> 0],
                    [cc |-> Cfg[vm].cc + 32, value |-> 0] >>
      BY <2>1, <2>2 DEF Messages
    <3> QED  BY <3>1
  <2>3. CASE Cfg[vm].mode # "CC_14"
    <3>1. msgs = << [cc |-> Cfg[vm].cc, value |-> 0] >>
      BY <2>1, <2>3 DEF Messages
    <3> QED  BY <3>1
  <2> QED  BY <2>2, <2>3
<1> QED  BY <1>3, <1>4

(* What the host will have been told once the queue is empty is the value  *)
(* of every mapping none of whose last messages was refused by the queue   *)
(* or by USB: both bytes of it, whatever turns, host messages and failed   *)
(* sends come between them.                                                *)
THEOREM WireCurrentAlways ==
  ASSUME OwnControllers PROVE Spec => []WireCurrent
<1>1. Types /\ WireCurrent /\ [Next]_vars => WireCurrent'  BY WireStep
<1> QED  BY <1>1, WireInit, TypesAlways, PTL DEF Spec

-----------------------------------------------------------------------------
(* A position within its range stands for a value within its range: the    *)
(* 16 bits of the conversion are enough for positions and values of the    *)
(* size the firmware has (255 * 127).                                      *)
FitsInt16 == EncMax * CCMax <= 32767

LEMMA ProductBound ==
  ASSUME NEW x \in Nat, NEW d \in Nat, NEW y \in Nat, x <= d
  PROVE  x * y \in Nat /\ x * y <= d * y /\ d * y \in Nat
<1>1. PICK z \in Nat : d = x + z
  <2>1. d - x \in Nat /\ d = x + (d - x)  OBVIOUS
  <2> QED  BY <2>1
<1>2. d * y = x * y + z * y  BY <1>1
<1>3. x * y \in Nat /\ z * y \in Nat  BY <1>1
<1> QED  BY <1>2, <1>3

LEMMA QuotientBound ==
  ASSUME NEW a \in Nat, NEW d \in Nat \ {0}, NEW y \in Nat, a <= d * y
  PROVE  a \div d \in 0 .. y
<1> DEFINE q == a \div d
<1>1. q \in Int /\ a = (d * q) + (a % d) /\ a % d \in 0 .. d - 1
  OBVIOUS
<1> HIDE DEF q
<1>2. q >= 0
  <2> SUFFICES ASSUME q <= -1 PROVE FALSE
    BY <1>1
  <2>1. PICK k \in Nat : q = -1 - k
    <3>1. -1 - q \in Nat /\ q = -1 - (-1 - q)  BY <1>1
    <3> QED  BY <3>1
  <2>2. d * q = -d - d * k /\ d * k \in Nat  BY <2>1
  <2> QED  BY <1>1, <2>2
<1>3. q <= y
  <2> SUFFICES ASSUME q >= y + 1 PROVE FALSE
    BY <1>1
  <2>1. PICK k \in Nat : q = y + 1 + k
    <3>1. q - (y + 1) \in Nat /\ q = y + 1 + (q - (y + 1))  BY <1>1
    <3> QED  BY <3>1
  <2>2. d * q = d * y + d + d * k /\ d * k \in Nat  BY <2>1
  <2> QED  BY <1>1, <2>2
<1> QED  BY <1>1, <1>2, <1>3 DEF q

LEMMA Int16Same ==
  ASSUME NEW x \in Int, -32767 <= x, x <= 32767 PROVE Int16(x) = x
<1>1. x + 32768 >= 0 /\ x + 32768 < 65536  OBVIOUS
<1> QED  BY <1>1 DEF Int16

(* The scaled distance keeps the sign of the value range and stays inside. *)
LEMMA ScaledBound ==
  ASSUME NEW x \in Nat, NEW d \in Nat \ {0}, x <= d, NEW y \in Int
  PROVE  /\ y >= 0 => CQuotient(x * y, d) \in 0 .. y
         /\ y < 0 => CQuotient(x * y, d) \in y .. 0
<1> DEFINE magnitude(n) == IF n < 0 THEN -n ELSE n
<1>1. CASE y >= 0
  <2>1. y \in Nat  BY <1>1
  <2>2. x * y \in Nat /\ x * y <= d * y  BY <2>1, ProductBound
  <2>3. (x * y) \div d \in 0 .. y  BY <2>1, <2>2, QuotientBound
  <2>4. CQuotient(x * y, d) = (x * y) \div d  BY <2>2 DEF CQuotient
  <2> QED  BY <1>1, <2>3, <2>4
<1>2. CASE y < 0
  <2>1. PICK m \in Nat : y = -m
    <3>1. -y \in Nat /\ y = -(-y)  BY <1>2
    <3> QED  BY <3>1
  <2>2. x * m \in Nat /\ x * m <= d * m  BY <2>1, ProductBound
  <2>3. (x * m) \div d \in 0 .. m  BY <2>1, <2>2, QuotientBound
  <2>4. x * y = -(x * m)  BY <2>1
  <2> DEFINE n == x * m
  <2>5. n \in Nat /\ n \div d \in 0 .. m /\ x * y = -n  BY <2>2, <2>3, <2>4
  <2> HIDE DEF n
  <2>6. CQuotient(-n, d) \in -m .. 0
    <3>1. CASE n = 0
      <4>1. CQuotient(-n, d) = n \div d \/ CQuotient(-n, d) = -(n \div d)
        BY <2>5, <3>1 DEF CQuotient
      <4>2. n \div d = 0  BY <3>1
      <4> QED  BY <2>1, <4>1, <4>2
    <3>2. CASE n # 0
      <4>1. CQuotient(-n, d) = -(n \div d)  BY <2>5, <3>2 DEF CQuotient
      <4> QED  BY <2>1, <2>5, <4>1
    <3> QED  BY <3>1, <3>2
  <2> QED  BY <1>2, <2>1, <2>5, <2>6
<1> QED  BY <1>1, <1>2

LEMMA ConvertRangeBound ==
  ASSUME FitsInt16,
         NEW start \in 0 .. EncMax, NEW stop \in 0 .. EncMax, start # stop,
         NEW pos \in Int, InRange(pos, start, stop),
         NEW lower \in 0 .. CCMax, NEW upper \in 0 .. CCMax
  PROVE  ConvertRange(pos, start, stop, lower, upper) \in 0 .. CCMax
<1> DEFINE x == pos - start
           d == stop - start
           y == upper - lower
<1>1. x \in Nat /\ d \in Nat \ {0} /\ x <= d /\ d <= EncMax /\ EncMax \in Nat
  BY VirtmapAssumption DEF InRange
<1>2. y \in -CCMax .. CCMax /\ y \in Int /\ CCMax \in Nat  BY VirtmapAssumption
<1>3. EncMax * CCMax \in Nat /\ CCMax <= EncMax * CCMax
  <2>1. 1 * CCMax <= EncMax * CCMax /\ EncMax * CCMax \in Nat
    BY ProductBound, VirtmapAssumption
  <2>2. 1 * CCMax = CCMax  BY VirtmapAssumption
  <2> QED  BY <2>1, <2>2
<1> HIDE DEF x, d, y
<1>4. x * y \in Int /\ -32767 <= x * y /\ x * y <= 32767
  <2>1. PICK top \in Nat : top = CCMax * x /\ top <= 32767
    <3>1. x * CCMax \in Nat /\ x * CCMax <= EncMax * CCMax
      BY <1>1, <1>2, ProductBound
    <3>2. x * CCMax <= 32767  BY <1>3, <3>1 DEF FitsInt16
    <3>3. CCMax * x = x * CCMax  BY <1>1, <1>2
    <3> QED  BY <3>1, <3>2, <3>3
  <2>2. CASE y >= 0
    <3>1. y \in Nat /\ y <= CCMax  BY <1>2, <2>2
    <3>2. y * x <= top /\ y * x \in Nat  BY <1>1, <1>2, <2>1, <3>1, ProductBound
    <3>3. PICK n \in Nat : n = y * x  BY <3>2
    <3>4. x * y = n  BY <1>1, <1>2, <3>3
    <3> QED  BY <2>1, <3>2, <3>3, <3>4
  <2>3. CASE y < 0
    <3>1. PICK m \in Nat : y = -m /\ m <= CCMax
      <4>1. -y \in Nat /\ y = -(-y) /\ -y <= CCMax  BY <1>2, <2>3
      <4> QED  BY <4>1
    <3>2. m * x <= top /\ m * x \in Nat  BY <1>1, <1>2, <2>1, <3>1, ProductBound
    <3>3. PICK n \in Nat : n = m * x  BY <3>2
    <3>4. x * y = -n  BY <1>1, <3>1, <3>3
    <3> QED  BY <2>1, <3>2, <3>3, <3>4
  <2> QED  BY <1>2, <2>2, <2>3
<1>5. Int16(x * y) = x * y  BY <1>4, Int16Same
<1> DEFINE r == CQuotient(x * y, d)
<1>6. (y >= 0 => r \in 0 .. y) /\ (y < 0 => r \in y .. 0)
  BY <1>1, <1>2, ScaledBound
<1> HIDE DEF r
<1>7. r + lower \in 0 .. CCMax
  BY <1>2, <1>6, VirtmapAssumption DEF y
<1>8. CCMax <= 32767  BY <1>2, <1>3 DEF FitsInt16
<1>9. Int16(r + lower) = r + lower  BY <1>2, <1>7, <1>8, Int16Same
<1>10. ConvertRange(pos, start, stop, lower, upper) = Int16(r + lower)
  BY <1>5 DEF ConvertRange, r, x, d, y
<1> QED  BY <1>7, <1>9, <1>10

-----------------------------------------------------------------------------
(* What the host hears of a turn.  The value ranges are those of a data    *)
(* byte, and the host sends nothing that could replace what it was told.   *)
ValuesInRange ==
  /\ FitsInt16
  /\ \A vm \in Vmap : Cfg[vm].mode = "CC" =>
       Cfg[vm].lower \in 0 .. CCMax /\ Cfg[vm].upper \in 0 .. CCMax

Listening == OwnControllers /\ ValuesInRange /\ HostSilent

LEMMA MidiValueBound ==
  ASSUME ValuesInRange, NEW vm \in Vmap, Cfg[vm].mode = "CC",
         NEW pos \in 0 .. EncMax, InRange(pos, Cfg[vm].start, Cfg[vm].stop)
  PROVE  MidiValue(Cfg[vm], pos) \in 0 .. CCMax
<1> DEFINE m == Cfg[vm]
<1>1. /\ m.start \in 0 .. EncMax /\ m.stop \in 0 .. EncMax /\ m.start # m.stop
      /\ m.lower \in 0 .. CCMax /\ m.upper \in 0 .. CCMax /\ pos \in Int
  BY MappingFields, VirtmapAssumption DEF ValuesInRange, Used
<1>2. ConvertRange(pos, m.start, m.stop, m.lower, m.upper) \in 0 .. CCMax
  BY <1>1, ConvertRangeBound DEF ValuesInRange
<1>3. MidiValue(m, pos) = IF m.lower > m.upper
                          THEN CCMax - ConvertRange(pos, m.start, m.stop, m.lower, m.upper)
                          ELSE ConvertRange(pos, m.start, m.stop, m.lower, m.upper)
  BY DEF MidiValue
<1> QED  BY <1>2, <1>3, VirtmapAssumption

(* The mappings a turn has moved in this scan, all of encoders already     *)
(* read, stand at the position whose value was stored as the last sent.    *)
Settled(vm) ==
  /\ Cfg[vm].mode = "CC" => /\ InRange(curr_pos[vm], Cfg[vm].start, Cfg[vm].stop)
                            /\ curr_val[vm] = MidiValue(Cfg[vm], curr_pos[vm])
  /\ phase = "encoders" => vm[1] = bank /\ Read(vm[2])

HeardInv ==
  /\ host = wire
  /\ phase = "display" => out = <<>>
  /\ \A vm \in shifted : Settled(vm)

LEMMA EncoderHeard ==
  ASSUME Types, HeardInv, EncoderStill \/ EncoderTurns
  PROVE  HeardInv'
<1>1. PICK edge \in {"idle", "pressed", "released"} : EncoderSwitch(<<bank, at>>, edge)
  BY DEF EncoderStill, EncoderTurns, Edges
<1>2. /\ phase = "encoders" /\ at \in Enc /\ todo = {}
      /\ UNCHANGED <<phase, bank, curr_val, out, host, wire, shifted>>
  BY DEF EncoderStill, EncoderTurns, AtEncoder, queues, link, history
<1>3. at' = at + 1 \/ (at' = at /\ todo' # {})
  BY TodoNotEmpty DEF EncoderStill
<1>4. ASSUME NEW vm \in shifted PROVE Settled(vm)'
  <2>1. vm \in Vmap /\ Settled(vm) /\ vm[1] = bank /\ vm[2] < at /\ vm[2] \in Enc
    BY <1>2 DEF HeardInv, Settled, Read, Types, TypeOK, Vmap
  <2>2. Read(vm[2])'
    <3>1. vm[2] \in Int /\ at \in Int  BY <1>2, <2>1 DEF Enc
    <3> QED  BY <1>3, <2>1, <3>1 DEF Read
  <2>3. curr_pos'[vm] = curr_pos[vm]
    <3>1. PICK other : other = <<bank, at, vmap_active[<<bank, at>>]>>
      OBVIOUS
    <3>2. curr_pos' \in {curr_pos, [curr_pos EXCEPT ![other] = 0]}
      BY <1>1, <3>1 DEF EncoderSwitch
    <3>3. vm # other
      <4>1. other[2] = at  BY <3>1
      <4>2. vm[2] # at  BY <1>2, <2>1 DEF Enc
      <4> QED  BY <4>1, <4>2
    <3>4. curr_pos \in [Vmap -> 0 .. EncMax]  BY DEF Types, TypeOK
    <3> QED  BY <2>1, <3>2, <3>3, <3>4
  <2> QED  BY <1>2, <2>1, <2>2, <2>3 DEF Settled
<1> QED  BY <1>2, <1>4 DEF HeardInv

LEMMA VmapHeard ==
  ASSUME Types, HeardInv, NEW v \in VIdx,
         VmapStays(v) \/ VmapMovesSilently(v) \/ VmapMovesAndSends(v)
  PROVE  HeardInv'
<1>1. PICK turned : turned = <<bank, at, v>>
  OBVIOUS
<1>2. NextVmap(v)  BY DEF VmapStays, VmapMovesSilently, VmapMovesAndSends
<1>3. /\ turned \in Vmap /\ at \in Enc /\ Target(turned) \in 0 .. EncMax
      /\ turned[1] = bank /\ turned[2] = at
  BY <1>1, <1>2, VmapSteps
<1>4. /\ phase = "encoders" /\ UNCHANGED <<phase, bank, host, wire>> /\ v \in todo
  BY <1>2 DEF NextVmap, link
<1>5. /\ curr_pos \in [Vmap -> 0 .. EncMax] /\ curr_val \in [Vmap -> Int]
      /\ shifted \subseteq Vmap
  BY DEF Types, TypeOK
<1>6. ASSUME NEW vm \in shifted, vm # turned \/ VmapStays(v)
      PROVE  Settled(vm)'
  <2>1. vm \in Vmap /\ Settled(vm) /\ vm[1] = bank /\ vm[2] \in Enc /\ Read(vm[2])
    BY <1>4, <1>5 DEF HeardInv, Settled, Vmap
  <2>2. curr_pos'[vm] = curr_pos[vm] /\ curr_val'[vm] = curr_val[vm]
    BY <1>1, <1>5, <1>6, <2>1 DEF VmapStays, VmapMovesSilently, VmapMovesAndSends
  <2>3. Read(vm[2])'  BY <1>2, <2>1, ReadAfterVmap
  <2> QED  BY <1>4, <2>1, <2>2, <2>3 DEF Settled
<1>7. CASE VmapStays(v)
  BY <1>4, <1>6, <1>7 DEF VmapStays, HeardInv
<1>8. CASE ~VmapStays(v)
  <2>1. /\ TakesPosition(Cfg[turned], curr_pos[turned], Target(turned))
        /\ curr_pos' = [curr_pos EXCEPT ![turned] = Target(turned)]
        /\ shifted' = shifted \cup {turned}
    BY <1>1, <1>8 DEF VmapMovesSilently, VmapMovesAndSends
  <2>2. Cfg[turned].mode = "CC" =>
          curr_val'[turned] = MidiValue(Cfg[turned], Target(turned))
    BY <1>1, <1>3, <1>5, <1>8 DEF VmapMovesSilently, VmapMovesAndSends, Sends
  <2>3. Read(turned[2])'
    <3>1. Read(at)  BY <1>4 DEF Read
    <3> QED  BY <1>2, <1>3, <3>1, ReadAfterVmap
  <2>4. curr_pos'[turned] = Target(turned)  BY <1>3, <1>5, <2>1
  <2>5. Settled(turned)'
    BY <1>3, <1>4, <2>1, <2>2, <2>3, <2>4 DEF Settled, TakesPosition
  <2> QED  BY <1>4, <1>6, <2>1, <2>5 DEF HeardInv
<1> QED  BY <1>7, <1>8

LEMMA HeardSame ==
  ASSUME HeardInv, UNCHANGED <<curr_pos, curr_val, host, wire>>, phase' # "encoders",
         shifted' \subseteq shifted, phase' = "display" => out' = <<>>
  PROVE  HeardInv'
BY DEF HeardInv, Settled

LEMMA HeardStep == Listening /\ Types /\ HeardInv /\ [Next]_vars => HeardInv'
<1> SUFFICES ASSUME Listening, Types, HeardInv, [Next]_vars PROVE HeardInv'
  OBVIOUS
<1>1. CASE EncoderStill \/ EncoderTurns  BY <1>1, EncoderHeard
<1>2. CASE \E v \in VIdx : VmapStays(v) \/ VmapMovesSilently(v) \/ VmapMovesAndSends(v)
  BY <1>2, VmapHeard
<1>3. CASE SideAction
  BY <1>3, SideSteps, HeardSame
<1>4. CASE EncodersDone \/ ScanDone \/ MidiInDone \/ EventsDone
  <2>1. UNCHANGED <<curr_pos, curr_val, host, wire, shifted, out>>
    BY <1>4 DEF EncodersDone, ScanDone, MidiInDone, EventsDone, devices, queues,
                link, history
  <2>2. phase' # "encoders" /\ (phase' = "display" => out = <<>>)
    BY <1>4 DEF EncodersDone, ScanDone, MidiInDone, EventsDone
  <2> QED  BY <2>1, <2>2, HeardSame
<1>5. CASE BootScanAgain \/ BootDone \/ TurnDone
  <2>1. host' = wire' /\ shifted' = {} /\ phase' = "encoders"
    BY <1>5 DEF BootScanAgain, BootDone, TurnDone, NextScan, link, HeardInv
  <2> QED  BY <2>1 DEF HeardInv
<1>6. CASE HandleHostMessage \/ HostSends
  BY <1>6, NothingFromHost DEF Listening
<1>7. CASE SendMessage \/ SendFails
  <2>1. /\ phase = "midi_out" /\ UNCHANGED <<phase, curr_pos, curr_val, shifted>>
        /\ host' = wire'
    BY <1>7 DEF SendMessage, SendFails, devices, history, link, HeardInv
  <2> QED  BY <2>1 DEF HeardInv, Settled
<1>8. CASE StartFlash
  BY <1>8, HeardSame DEF StartFlash, devices, link, history
<1>9. CASE DisplayUpdate
  BY <1>9, HeardSame DEF DisplayUpdate, FlashPlays, FlashEnds, DrawRequested, Draw,
     devices, link, history
<1>10. CASE UNCHANGED vars
  BY <1>10 DEF vars, HeardInv, Settled, Read
<1> QED
  BY <1>1, <1>2, <1>3, <1>4, <1>5, <1>6, <1>7, <1>8, <1>9, <1>10
     DEF Next, InputUpdate, EventUpdate, SideAction

LEMMA HeardTold ==
  ASSUME Listening, Types, HeardInv, WireCurrent, phase = "display",
         NEW vm \in shifted \ lagging, Cfg[vm].mode = "CC"
  PROVE  host[Cfg[vm].cc] = MidiValue(Cfg[vm], curr_pos[vm])
<1>1. vm \in Vmap \ lagging /\ Sends(Cfg[vm]) /\ curr_pos[vm] \in 0 .. EncMax
  BY DEF Types, TypeOK, Sends
<1>2. /\ InRange(curr_pos[vm], Cfg[vm].start, Cfg[vm].stop)
      /\ curr_val[vm] = MidiValue(Cfg[vm], curr_pos[vm])
  BY DEF HeardInv, Settled
<1>3. curr_val[vm] \in 0 .. CCMax
  BY <1>1, <1>2, MidiValueBound DEF Listening
<1>4. Messages(Cfg[vm], curr_val[vm])
        = << [cc |-> Cfg[vm].cc, value |-> curr_val[vm] % (CCMax + 1)] >>
  BY DEF Messages
<1>5. LastTold(Cfg[vm].cc) = curr_val[vm] % (CCMax + 1)
  <2>1. Current(vm)  BY <1>1, WireCurrentIs
  <2>2. \A k \in 1 .. 1 : LastTold(Messages(Cfg[vm], curr_val[vm])[k].cc)
                            = Messages(Cfg[vm], curr_val[vm])[k].value
    BY <1>1, <1>4, <2>1 DEF Current
  <2> QED  BY <1>4, <2>2
<1>6. LastTold(Cfg[vm].cc) = wire[Cfg[vm].cc]
  <2>1. Told(out, Cfg[vm].cc) = {}  BY DEF HeardInv, Told
  <2> QED  BY <2>1, LastToldIs DEF Last
<1>7. curr_val[vm] % (CCMax + 1) = curr_val[vm]
  <2>1. CCMax \in Nat  BY VirtmapAssumption
  <2> QED  BY <1>3, <2>1
<1> QED  BY <1>2, <1>5, <1>6, <1>7 DEF HeardInv

(* After the events of a turn of the loop the host holds the value of      *)
(* every position that was turned in it: the conversion stays within the   *)
(* 7 bits that are sent, its 16-bit product does not overflow, and no      *)
(* later message has replaced the value.                                   *)
THEOREM HostHearsTurnAlways ==
  ASSUME Listening PROVE Spec => []HostHearsTurn
<1>1. Init => HeardInv
  <2> SUFFICES ASSUME Init PROVE HeardInv
    OBVIOUS
  <2> QED  BY DEF Init, HeardInv
<1>2. Types /\ HeardInv /\ [Next]_vars => HeardInv'  BY HeardStep
<1>3. Types /\ HeardInv /\ WireCurrent => HostHearsTurn
  BY HeardTold DEF HostHearsTurn
<1>4. Spec => []WireCurrent  BY WireCurrentAlways DEF Listening
<1> QED  BY <1>1, <1>2, <1>3, <1>4, TypesAlways, PTL DEF Spec

=============================================================================
