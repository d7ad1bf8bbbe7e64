--------------------------- MODULE DisplayProofs ---------------------------
(***************************************************************************)
(* Theorems about the display, for any number of banks, encoders, frames,  *)
(* looks and animation slots.                                              *)
(***************************************************************************)
EXTENDS Display, FiniteSetTheorems, WellFoundedInduction, TLAPS

-----------------------------------------------------------------------------
(* The animation.  Only the first slot is ever used; it marks the bank     *)
(* shown unless a bank change waits, and the last that waits is that bank. *)
AnimTypes ==
  /\ bank \in Bank /\ asked \in Seq(Bank)
  /\ anims \in [Slot -> [enc : Enc, step : Int] \cup {Off}]

FlashInv ==
  /\ AnimTypes
  /\ \A s \in Slot \ {0} : anims[s] = Off
  /\ asked # <<>> => asked[Len(asked)] = bank
  /\ asked = <<>> => anims[0] = Off \/ anims[0].enc = FlashEncoder[bank]
  /\ phase \in {"display", "flash", "plain"} => asked = <<>>

LEMMA FirstSlot == 0 \in Slot /\ 0 \in Bank
BY DisplayAssumption DEF Slot, Bank

LEMMA FlashInvInit == Init => FlashInv
<1> SUFFICES ASSUME Init PROVE FlashInv
  OBVIOUS
<1>1. AnimTypes  BY FirstSlot DEF Init, AnimTypes
<1> QED  BY <1>1, FirstSlot DEF Init, FlashInv

LEMMA FlashInvSame ==
  ASSUME FlashInv, UNCHANGED <<bank, asked, anims>>,
         phase' \in {"display", "flash", "plain"} => asked = <<>>
  PROVE  FlashInv'
BY DEF FlashInv, AnimTypes, Off

LEMMA FlashInvShow ==
  ASSUME FlashInv, ShowBank
  PROVE  FlashInv'
<1>1. PICK new \in Bank : bank' = new /\ asked' = Append(asked, new)
  BY DEF ShowBank
<1>2. /\ asked' \in Seq(Bank) /\ asked' # <<>>
      /\ asked'[Len(asked')] = new
  BY <1>1 DEF FlashInv, AnimTypes
<1>3. phase' = "bank" /\ anims' = anims  BY DEF ShowBank
<1> QED  BY <1>1, <1>2, <1>3 DEF FlashInv, AnimTypes, Off

LEMMA FlashInvStart ==
  ASSUME FlashInv, AnimationStartBankChange
  PROVE  FlashInv'
<1>1. /\ asked \in Seq(Bank) /\ asked # <<>> /\ asked' = Tail(asked)
      /\ bank' = bank /\ phase' = "events"
  BY DEF AnimationStartBankChange, FlashInv, AnimTypes
<1>2. asked' \in Seq(Bank) /\ Head(asked) \in Bank /\ Len(asked) \in Nat \ {0}
  BY <1>1
<1>3. asked' # <<>> => asked'[Len(asked')] = asked[Len(asked)]
  BY <1>1, <1>2
<1>4. asked' = <<>> => Head(asked) = asked[Len(asked)]
  <2>1. Len(asked') = Len(asked) - 1 /\ Head(asked) = asked[1]  BY <1>1
  <2>2. asked' = <<>> => Len(asked') = 0  OBVIOUS
  <2>3. Len(asked') = 0 => Len(asked) = 1  BY <1>2, <2>1
  <2>4. Len(asked) = 1 => Head(asked) = asked[Len(asked)]  BY <2>1
  <2> QED  BY <2>2, <2>3, <2>4, Zenon
<1>5. /\ anims'[0] = [enc |-> FlashEncoder[Head(asked)], step |-> 0]
      /\ \A s \in Slot \ {0} : anims'[s] = Off
      /\ anims' \in [Slot -> [enc : Enc, step : Int] \cup {Off}]
  BY <1>2, FirstSlot, DisplayAssumption DEF AnimationStartBankChange, Off
<1>6. asked[Len(asked)] = bank  BY <1>1 DEF FlashInv
<1> QED  BY <1>1, <1>2, <1>3, <1>4, <1>5, <1>6 DEF FlashInv, AnimTypes, Off

LEMMA FlashInvMove ==
  ASSUME FlashInv, AnimationUpdate
  PROVE  FlashInv'
<1>1. PICK over \in SUBSET Active : AnimationsMove(over)
  BY DEF AnimationUpdate
<1>2. PICK steps \in [Active \ over -> 0 .. LastStep] :
        anims' = [s \in Slot |-> IF s \in Active \ over
                                 THEN [anims[s] EXCEPT !.step = steps[s]] ELSE Off]
  BY <1>1 DEF AnimationsMove
<1>3. UNCHANGED <<bank, asked>> /\ asked = <<>>
  BY <1>1 DEF AnimationsMove, FlashInv
<1>4. ASSUME NEW s \in Slot
      PROVE  /\ anims'[s] \in [enc : Enc, step : Int] \cup {Off}
             /\ \/ anims'[s] = Off
                \/ anims[s] # Off /\ anims'[s].enc = anims[s].enc
  <2>1. CASE s \in Active \ over
    <3>1. anims'[s] = [anims[s] EXCEPT !.step = steps[s]] /\ steps[s] \in Int
      BY <1>2, <2>1, DisplayAssumption
    <3>2. anims[s] \in [enc : Enc, step : Int] /\ anims[s] # Off
      BY <2>1 DEF FlashInv, AnimTypes, Active
    <3> QED  BY <3>1, <3>2
  <2>2. CASE s \notin Active \ over
    BY <1>2, <2>2 DEF Off
  <2> QED  BY <2>1, <2>2
<1>5. anims' \in [Slot -> [enc : Enc, step : Int] \cup {Off}]
  BY <1>2, <1>4
<1> QED  BY <1>3, <1>4, <1>5, FirstSlot DEF FlashInv, AnimTypes, Off

LEMMA FlashInvNext == FlashInv /\ [Next]_vars => FlashInv'
<1> SUFFICES ASSUME FlashInv, [Next]_vars PROVE FlashInv'
  OBVIOUS
<1>1. CASE ShowBank  BY <1>1, FlashInvShow
<1>2. CASE AnimationStartBankChange  BY <1>2, FlashInvStart
<1>3. CASE AnimationUpdate  BY <1>3, FlashInvMove
<1>4. CASE TurnEncoder \/ InputDone \/ EventsDone \/ DisplayUpdate
  BY <1>4, FlashInvSame
     DEF TurnEncoder, InputDone, EventsDone, DisplayUpdate, DrawOld, FlashInv
<1>5. CASE WriteByte
  BY <1>5, FlashInvSame DEF WriteByte, NextWord, FlashInv
<1>6. CASE TimerInterrupt \/ DmaByte \/ UNCHANGED vars
  BY <1>6, FlashInvSame DEF TimerInterrupt, DmaByte, vars, control, FlashInv
<1> QED  BY <1>1, <1>2, <1>3, <1>4, <1>5, <1>6 DEF Next, MainLoop

(* However fast banks change, what flashes is the bank that is shown.      *)
THEOREM FlashShowsBankAlways == Spec => []FlashShowsBank
<1>1. Init => FlashInv  BY FlashInvInit
<1>2. FlashInv /\ [Next]_vars => FlashInv'  BY FlashInvNext
<1>3. FlashInv => FlashShowsBank
  <2> SUFFICES ASSUME FlashInv, phase = "display"
               PROVE  Cardinality(Active) <= 1 /\ Animated \subseteq {FlashEncoder[bank]}
    BY DEF FlashShowsBank
  <2>1. Active \subseteq {0}  BY DEF Active, FlashInv
  <2>2. Cardinality(Active) <= 1
    <3>1. Active = {} \/ Active = {0}  BY <2>1
    <3>2. Cardinality({}) = 0 /\ Cardinality({0}) = 1  BY FS_EmptySet, FS_Singleton
    <3> QED  BY <3>1, <3>2
  <2>3. Animated \subseteq {FlashEncoder[bank]}
    BY <2>1, FirstSlot DEF Animated, Active, FlashInv
  <2> QED  BY <2>2, <2>3
<1> QED  BY <1>1, <1>2, <1>3, PTL DEF Spec

-----------------------------------------------------------------------------
(* The drawings.  Every encoder is whole, but for the one being drawn: of  *)
(* that, what has been written belongs to the new drawing, and of an       *)
(* animation what is kept to one old look.                                 *)
Shown == Looks \cup {Dark}
Tints == {"own", "white", "none"}

Whole(e) == \E l \in Shown, tint \in Tints : IsDrawing(e, l, tint)

Words == [hi : Shown \X Frame, lo : Shown \X Tints \X Frame]

DrawTypes ==
  /\ bank \in Bank /\ look \in [Bank \X Enc -> Looks]
  /\ todraw \subseteq Enc /\ line \in Frame /\ half \in {"lo", "hi"}
  /\ buffer \in [Frame -> [Enc -> Words]]
  /\ todraw = {} <=> phase \in {"input", "events", "display"}
  /\ phase \in {"input", "events", "display", "bank", "flash", "plain"}
  /\ todraw = {} => line = 0 /\ half = "lo"

Written(f) == f < line \/ (f = line /\ half = "hi")

FlashTint(f) ==
  IF StepOf(Drawn) % 2 = 0 /\ f < NumFrames - 1 THEN "white" ELSE "none"

PlainPart ==
  \A f \in Frame :
    /\ f < line => buffer[f][Drawn] = Word(look[<<bank, Drawn>>], "own", f)
    /\ Written(f) => buffer[f][Drawn].lo = Word(look[<<bank, Drawn>>], "own", f).lo

FlashPart ==
  \E l \in Shown : \A f \in Frame :
    /\ buffer[f][Drawn].hi = <<l, f>> /\ buffer[f][Drawn].lo[1] = l
    /\ Written(f) => buffer[f][Drawn].lo = <<l, FlashTint(f), f>>

OthersWhole == \A e \in Enc : Whole(e) \/ (todraw # {} /\ e = Drawn)

DrawInv ==
  /\ DrawTypes
  /\ OthersWhole
  /\ phase = "flash" => FlashPart
  /\ phase \in {"bank", "plain"} => PlainPart

(* A set of naturals has a least element.                                  *)
LEMMA LeastNat ==
  ASSUME NEW T, T \subseteq Nat, T # {}
  PROVE  \E x \in T : \A y \in T : x <= y
<1>1. PICK x \in T : \A y \in T : ~ (<<y, x>> \in OpToRel(<, Nat))
  BY NatLessThanWellFounded, WFMin
<1>2. ASSUME NEW y \in T, y < x PROVE FALSE
  <2>1. <<y, x>> \in Nat \X Nat  OBVIOUS
  <2>2. <<y, x>> \in OpToRel(<, Nat)  BY <1>2, <2>1 DEF OpToRel
  <2> QED  BY <1>1, <2>2
<1> QED  BY <1>2

LEMMA DrawnIsToDraw ==
  ASSUME todraw \subseteq Enc, todraw # {}
  PROVE  Drawn \in todraw
<1>1. todraw \subseteq Nat  BY DisplayAssumption DEF Enc
<1>2. \E x \in todraw : \A y \in todraw : x <= y  BY <1>1, LeastNat
<1> QED  BY <1>2 DEF Drawn

LEMMA DrawnIsToDrawNext ==
  ASSUME todraw' \subseteq Enc, todraw' # {}
  PROVE  Drawn' \in todraw'
<1>1. todraw' \subseteq Nat  BY DisplayAssumption DEF Enc
<1>2. \E x \in todraw' : \A y \in todraw' : x <= y  BY <1>1, LeastNat
<1> QED  BY <1>2 DEF Drawn

(* An encoder with a drawing is fit to be drawn anew, in either way.       *)
LEMMA DrawingStarts ==
  ASSUME NEW b, NEW e \in Enc, NEW l \in Shown, NEW tint \in Tints,
         \A f \in Frame : b[f][e] = Word(l, IF tint = "white" /\ f = NumFrames - 1
                                            THEN "none" ELSE tint, f)
  PROVE  \A f \in Frame : b[f][e].hi = <<l, f>> /\ b[f][e].lo[1] = l
<1> SUFFICES ASSUME NEW f \in Frame
             PROVE  b[f][e].hi = <<l, f>> /\ b[f][e].lo[1] = l
  OBVIOUS
<1>1. \E t : b[f][e] = Word(l, t, f)  OBVIOUS
<1> QED  BY <1>1 DEF Word

LEMMA WholeKept ==
  ASSUME NEW e \in Enc, Whole(e), \A f \in Frame : buffer'[f][e] = buffer[f][e]
  PROVE  Whole(e)'
<1>1. PICK l \in Shown, tint \in Tints : IsDrawing(e, l, tint)
  BY DEF Whole
<1>2. IsDrawing(e, l, tint)'
  BY <1>1 DEF IsDrawing
<1> QED  BY <1>2 DEF Whole

LEMMA DrawInvInit == Init => DrawInv
<1> SUFFICES ASSUME Init PROVE DrawInv
  OBVIOUS
<1>1. 0 \in Bank /\ 0 \in Frame /\ Dark \in Shown /\ "own" \in Tints
  BY DisplayAssumption DEF Bank, Frame, Shown, Tints
<1>2. look \in [Bank \X Enc -> Looks]
  BY DEF Init
<1>3. buffer \in [Frame -> [Enc -> Words]]
  BY <1>1 DEF Init, Word, Words
<1>4. DrawTypes
  BY <1>1, <1>2, <1>3 DEF Init, DrawTypes
<1>5. \A e \in Enc : IsDrawing(e, Dark, "own")
  BY DEF Init, IsDrawing
<1>6. ASSUME NEW e \in Enc PROVE Whole(e)  BY <1>1, <1>5 DEF Whole
<1>7. OthersWhole  BY <1>6 DEF OthersWhole
<1> QED  BY <1>4, <1>7 DEF Init, DrawInv

(* Steps that write nothing and draw nothing.                              *)
LEMMA DrawInvIdle ==
  ASSUME DrawInv, todraw = {}, UNCHANGED <<todraw, line, half, buffer>>,
         bank' \in Bank, look' \in [Bank \X Enc -> Looks],
         phase' \in {"input", "events", "display"}
  PROVE  DrawInv'
<1>1. DrawTypes'  BY DEF DrawInv, DrawTypes
<1>2. OthersWhole'
  BY WholeKept DEF DrawInv, OthersWhole
<1> QED  BY <1>1, <1>2 DEF DrawInv

(* Steps that begin to draw.                                               *)
LEMMA DrawInvBegin ==
  ASSUME DrawInv, todraw = {}, UNCHANGED <<line, half, buffer, look>>,
         bank' \in Bank, todraw' \subseteq Enc, todraw' # {},
         phase' \in {"bank", "flash", "plain"}
  PROVE  DrawInv'
<1>1. DrawTypes'  BY DEF DrawInv, DrawTypes
<1>2. (\A e \in Enc : Whole(e)) /\ OthersWhole'
  BY WholeKept DEF DrawInv, OthersWhole
<1>3. line' = 0 /\ half' = "lo"  BY DEF DrawInv, DrawTypes
<1>4. \A f \in Frame : ~(f < line') /\ ~Written(f)'
  BY <1>3, DisplayAssumption DEF Frame, Written
<1>5. Drawn' \in Enc  BY DrawnIsToDrawNext
<1>6. FlashPart'
  <2>1. PICK l \in Shown : \A f \in Frame :
          buffer[f][Drawn'].hi = <<l, f>> /\ buffer[f][Drawn'].lo[1] = l
    BY <1>2, <1>5, DrawingStarts DEF Whole, IsDrawing
  <2> QED  BY <2>1, <1>4 DEF FlashPart
<1>7. PlainPart'  BY <1>4 DEF PlainPart
<1> QED  BY <1>1, <1>2, <1>6, <1>7 DEF DrawInv

LEMMA DrawInvControl ==
  ASSUME FlashInv, DrawInv,
         \/ TurnEncoder \/ ShowBank \/ InputDone \/ AnimationStartBankChange
         \/ EventsDone \/ AnimationUpdate \/ DisplayUpdate
  PROVE  DrawInv'
<1>1. todraw = {} /\ bank \in Bank /\ look \in [Bank \X Enc -> Looks]
  BY DEF DrawInv, DrawTypes, TurnEncoder, ShowBank, InputDone, AnimationStartBankChange,
         EventsDone, AnimationUpdate, AnimationsMove, DisplayUpdate, DrawOld
<1>2. CASE TurnEncoder
  <2>1. PICK e \in Enc : \E l \in LooksOf[<<bank, e>>] : look' = [look EXCEPT ![<<bank, e>>] = l]
    BY <1>2 DEF TurnEncoder
  <2>2. <<bank, e>> \in Bank \X Enc /\ LooksOf[<<bank, e>>] \subseteq Looks
    BY <1>1, <2>1 DEF Looks
  <2>3. look' \in [Bank \X Enc -> Looks]  BY <1>1, <2>1, <2>2
  <2> QED  BY <1>1, <1>2, <2>3, DrawInvIdle DEF TurnEncoder, drawing
<1>3. CASE ShowBank
  <2>1. Enc # {}  BY DisplayAssumption DEF Enc
  <2> QED  BY <1>1, <1>3, <2>1, DrawInvBegin DEF ShowBank
<1>4. CASE InputDone \/ AnimationStartBankChange \/ EventsDone
  BY <1>1, <1>4, DrawInvIdle
     DEF InputDone, AnimationStartBankChange, EventsDone, drawing
<1>5. CASE AnimationUpdate
  <2>1. PICK over \in SUBSET Active : AnimationsMove(over)
    BY <1>5 DEF AnimationUpdate
  <2>2. CASE todraw' = {}
    BY <1>1, <2>1, <2>2, DrawInvIdle DEF AnimationsMove
  <2>3. CASE todraw' # {}
    <3>1. ASSUME NEW s \in Active PROVE anims[s].enc \in Enc
      BY DEF Active, FlashInv, AnimTypes
    <3>2. todraw' \subseteq Enc  BY <2>1, <3>1 DEF AnimationsMove
    <3> QED  BY <1>1, <2>1, <2>3, <3>2, DrawInvBegin DEF AnimationsMove
  <2> QED  BY <2>2, <2>3
<1>6. CASE DisplayUpdate
  <2>1. PICK due \in SUBSET Requested : DrawOld(due)
    BY <1>6 DEF DisplayUpdate
  <2>2. due \subseteq Enc  BY DEF Requested
  <2>3. CASE due = {}
    BY <1>1, <2>1, <2>3, DrawInvIdle DEF DrawOld
  <2>4. CASE due # {}
    BY <1>1, <2>1, <2>2, <2>4, DrawInvBegin DEF DrawOld
  <2> QED  BY <2>3, <2>4
<1> QED  BY <1>2, <1>3, <1>4, <1>5, <1>6

(* What a step writes: one half of the current word of one encoder.        *)
LEMMA ByteWritten ==
  ASSUME DrawInv, WriteByte
  PROVE  /\ Drawn \in todraw /\ Drawn \in Enc
         /\ buffer[line][Drawn] \in Words
         /\ buffer'[line][Drawn] = [buffer[line][Drawn] EXCEPT ![half] = NewWord[half]]
         /\ \A f \in Frame, e \in Enc :
              f # line \/ e # Drawn => buffer'[f][e] = buffer[f][e]
         /\ buffer' \in [Frame -> [Enc -> Words]]
<1>1. Drawn \in todraw /\ Drawn \in Enc /\ line \in Frame
  BY DrawnIsToDraw DEF WriteByte, DrawInv, DrawTypes
<1>2. buffer[line][Drawn] \in Words
  BY <1>1 DEF DrawInv, DrawTypes
<1>3. /\ NewWord.hi \in Shown \X Frame
      /\ NewWord.lo \in Shown \X Tints \X Frame
  <2>1. CASE phase = "flash"
    <3>1. NewWord.hi = buffer[line][Drawn].hi
      BY <2>1 DEF NewWord
    <3>2. NewWord.lo = <<buffer[line][Drawn].lo[1], FlashTint(line), line>>
      BY <2>1 DEF NewWord, FlashTint
    <3>3. FlashTint(line) \in Tints  BY DEF FlashTint, Tints
    <3> QED  BY <1>1, <1>2, <3>1, <3>2, <3>3 DEF Words
  <2>2. CASE phase # "flash"
    <3>1. NewWord = Word(look[<<bank, Drawn>>], "own", line)
      BY <2>2 DEF NewWord
    <3>2. look[<<bank, Drawn>>] \in Shown
      BY <1>1 DEF DrawInv, DrawTypes, Shown
    <3> QED  BY <1>1, <3>1, <3>2 DEF Word, Tints
  <2> QED  BY <2>1, <2>2
<1> DEFINE w == [buffer[line][Drawn] EXCEPT ![half] = NewWord[half]]
<1>4. w \in Words
  <2>1. CASE half = "lo"
    <3>1. w = [buffer[line][Drawn] EXCEPT !.lo = NewWord.lo]  BY <2>1
    <3> QED  BY <1>2, <1>3, <3>1 DEF Words
  <2>2. CASE half = "hi"
    <3>1. w = [buffer[line][Drawn] EXCEPT !.hi = NewWord.hi]  BY <2>2
    <3> QED  BY <1>2, <1>3, <3>1 DEF Words
  <2> QED  BY <2>1, <2>2 DEF DrawInv, DrawTypes
<1>5. buffer' = [buffer EXCEPT ![line] = [buffer[line] EXCEPT ![Drawn] = w]]
  BY DEF WriteByte
<1> HIDE DEF w
<1>6. buffer' \in [Frame -> [Enc -> Words]]
  BY <1>1, <1>4, <1>5 DEF DrawInv, DrawTypes
<1>7. /\ buffer'[line][Drawn] = w
      /\ \A f \in Frame, e \in Enc : f # line \/ e # Drawn => buffer'[f][e] = buffer[f][e]
  BY <1>1, <1>5 DEF DrawInv, DrawTypes
<1> QED  BY <1>1, <1>2, <1>6, <1>7 DEF w

(* The word written, by the way of drawing.                                *)
LEMMA WordDrawn ==
  ASSUME DrawInv, WriteByte
  PROVE  /\ half = "lo" => /\ buffer'[line][Drawn].lo = NewWord.lo
                           /\ buffer'[line][Drawn].hi = buffer[line][Drawn].hi
         /\ half = "hi" => /\ buffer'[line][Drawn].hi = NewWord.hi
                           /\ buffer'[line][Drawn].lo = buffer[line][Drawn].lo
         /\ buffer'[line][Drawn] =
              [hi |-> buffer'[line][Drawn].hi, lo |-> buffer'[line][Drawn].lo]
         /\ phase = "flash" =>
              /\ NewWord.hi = buffer[line][Drawn].hi
              /\ NewWord.lo = <<buffer[line][Drawn].lo[1], FlashTint(line), line>>
         /\ phase # "flash" => NewWord = Word(look[<<bank, Drawn>>], "own", line)
<1>1. /\ half = "lo" => buffer'[line][Drawn] = [buffer[line][Drawn] EXCEPT !.lo = NewWord.lo]
      /\ half = "hi" => buffer'[line][Drawn] = [buffer[line][Drawn] EXCEPT !.hi = NewWord.hi]
      /\ buffer[line][Drawn] \in Words
  BY ByteWritten
<1>2. buffer'[line][Drawn] \in Words /\ half \in {"lo", "hi"}
  <2>1. line \in Frame /\ half \in {"lo", "hi"}  BY DEF DrawInv, DrawTypes
  <2>2. Drawn \in Enc /\ buffer' \in [Frame -> [Enc -> Words]]  BY ByteWritten
  <2> QED  BY <2>1, <2>2
<1>3. phase = "flash" =>
        /\ NewWord.hi = buffer[line][Drawn].hi
        /\ NewWord.lo = <<buffer[line][Drawn].lo[1], FlashTint(line), line>>
  BY DEF NewWord, FlashTint
<1>4. phase # "flash" => NewWord = Word(look[<<bank, Drawn>>], "own", line)
  BY DEF NewWord
<1> QED  BY <1>1, <1>2, <1>3, <1>4 DEF Words

(* The tint of the animation does not change while its encoder is drawn.   *)
LEMMA TintKept ==
  ASSUME WriteByte, Drawn' = Drawn, NEW f \in Frame
  PROVE  FlashTint(f)' = FlashTint(f)
<1>1. anims' = anims  BY DEF WriteByte
<1>2. Active' = Active  BY <1>1 DEF Active
<1> QED  BY <1>1, <1>2 DEF FlashTint, StepOf

LEMMA OthersKept ==
  ASSUME DrawInv, WriteByte, NEW e \in Enc, e # Drawn
  PROVE  Whole(e)'
<1>1. Whole(e)  BY DEF DrawInv, OthersWhole
<1>2. \A f \in Frame : buffer'[f][e] = buffer[f][e]  BY ByteWritten
<1> QED  BY <1>1, <1>2, WholeKept

(* The low byte of a word.                                                 *)
LEMMA DrawInvLow ==
  ASSUME DrawInv, WriteByte, half = "lo"
  PROVE  DrawInv'
<1>1. half' = "hi" /\ UNCHANGED <<line, todraw, phase, bank, look>>
  BY DEF WriteByte
<1>2. Drawn' = Drawn /\ todraw # {}  BY <1>1 DEF Drawn, WriteByte
<1>3. DrawTypes'
  BY <1>1, <1>2, ByteWritten DEF DrawInv, DrawTypes
<1>4. OthersWhole'
  BY <1>1, <1>2, OthersKept DEF OthersWhole
<1>5. \A f \in Frame : Written(f)' <=> f < line \/ f = line
  BY <1>1 DEF Written
<1>6. \A f \in Frame : f # line => buffer'[f][Drawn] = buffer[f][Drawn]
  BY ByteWritten
<1>7. line \in Frame /\ \A f \in Frame : f < line => f # line /\ Written(f)
  BY DisplayAssumption DEF DrawInv, DrawTypes, Written, Frame
<1>8. ASSUME phase = "flash" PROVE FlashPart'
  <2>1. PICK l \in Shown : \A f \in Frame :
          /\ buffer[f][Drawn].hi = <<l, f>> /\ buffer[f][Drawn].lo[1] = l
          /\ Written(f) => buffer[f][Drawn].lo = <<l, FlashTint(f), f>>
    BY <1>8 DEF DrawInv, FlashPart
  <2>2. /\ buffer'[line][Drawn].hi = <<l, line>>
        /\ buffer'[line][Drawn].lo = <<l, FlashTint(line), line>>
    BY <1>7, <1>8, <2>1, WordDrawn
  <2>3. \A f \in Frame :
          /\ buffer'[f][Drawn].hi = <<l, f>> /\ buffer'[f][Drawn].lo[1] = l
          /\ Written(f)' => buffer'[f][Drawn].lo = <<l, FlashTint(f), f>>
    BY <1>5, <1>6, <1>7, <2>1, <2>2
  <2>4. \A f \in Frame : FlashTint(f)' = FlashTint(f)  BY <1>2, TintKept
  <2> QED  BY <1>2, <2>3, <2>4 DEF FlashPart
<1>9. ASSUME phase \in {"bank", "plain"} PROVE PlainPart'
  <2> DEFINE new(f) == Word(look[<<bank, Drawn>>], "own", f)
  <2>1. \A f \in Frame :
          /\ f < line => buffer[f][Drawn] = new(f)
          /\ Written(f) => buffer[f][Drawn].lo = new(f).lo
    BY <1>9 DEF DrawInv, PlainPart
  <2>2. buffer'[line][Drawn].lo = new(line).lo
    BY <1>7, <1>9, WordDrawn
  <2>3. \A f \in Frame :
          /\ f < line => buffer'[f][Drawn] = new(f)
          /\ Written(f)' => buffer'[f][Drawn].lo = new(f).lo
    BY <1>5, <1>6, <1>7, <2>1, <2>2
  <2> QED  BY <1>1, <1>2, <2>3 DEF PlainPart
<1> QED  BY <1>1, <1>3, <1>4, <1>8, <1>9 DEF DrawInv

(* The high byte: every word up to this one is then of the new drawing.    *)
LEMMA WordsDone ==
  ASSUME DrawInv, WriteByte, half = "hi"
  PROVE  /\ phase = "flash" =>
              \E l \in Shown : \A f \in Frame :
                /\ buffer'[f][Drawn].hi = <<l, f>> /\ buffer'[f][Drawn].lo[1] = l
                /\ f <= line => buffer'[f][Drawn] = Word(l, FlashTint(f), f)
         /\ phase \in {"bank", "plain"} =>
              \A f \in Frame : f <= line =>
                buffer'[f][Drawn] = Word(look[<<bank, Drawn>>], "own", f)
<1>1. \A f \in Frame : f # line => buffer'[f][Drawn] = buffer[f][Drawn]
  BY ByteWritten
<1>2. line \in Frame /\ \A f \in Frame : f <= line => Written(f) /\ (f < line \/ f = line)
  BY DisplayAssumption DEF DrawInv, DrawTypes, Written, Frame
<1>3. \A f \in Frame : buffer[f][Drawn] \in Words
  BY ByteWritten DEF DrawInv, DrawTypes
<1>4. ASSUME phase = "flash"
      PROVE  \E l \in Shown : \A f \in Frame :
               /\ buffer'[f][Drawn].hi = <<l, f>> /\ buffer'[f][Drawn].lo[1] = l
               /\ f <= line => buffer'[f][Drawn] = Word(l, FlashTint(f), f)
  <2>1. PICK l \in Shown : \A f \in Frame :
          /\ buffer[f][Drawn].hi = <<l, f>> /\ buffer[f][Drawn].lo[1] = l
          /\ Written(f) => buffer[f][Drawn].lo = <<l, FlashTint(f), f>>
    BY <1>4 DEF DrawInv, FlashPart
  <2>2. /\ buffer'[line][Drawn].hi = <<l, line>>
        /\ buffer'[line][Drawn].lo = <<l, FlashTint(line), line>>
        /\ buffer'[line][Drawn] =
             [hi |-> buffer'[line][Drawn].hi, lo |-> buffer'[line][Drawn].lo]
    <3>1. Written(line)  BY DEF Written
    <3>2. /\ buffer[line][Drawn].hi = <<l, line>>
          /\ buffer[line][Drawn].lo = <<l, FlashTint(line), line>>
      BY <1>2, <2>1, <3>1
    <3> QED  BY <1>4, <3>2, WordDrawn
  <2>3. \A f \in Frame :
          /\ buffer'[f][Drawn].hi = <<l, f>>
          /\ f <= line => buffer'[f][Drawn].lo = <<l, FlashTint(f), f>>
          /\ buffer'[f][Drawn].lo[1] = l
    BY <1>1, <1>2, <2>1, <2>2
  <2>4. \A f \in Frame : buffer'[f][Drawn] =
          [hi |-> buffer'[f][Drawn].hi, lo |-> buffer'[f][Drawn].lo]
    BY <1>1, <1>3, <2>2 DEF Words
  <2>5. \A f \in Frame : f <= line => buffer'[f][Drawn] = Word(l, FlashTint(f), f)
    BY <2>3, <2>4 DEF Word
  <2> QED  BY <2>3, <2>5
<1>5. ASSUME phase \in {"bank", "plain"}, NEW f \in Frame, f <= line
      PROVE  buffer'[f][Drawn] = Word(look[<<bank, Drawn>>], "own", f)
  <2>1. CASE f < line
    BY <1>1, <1>5, <2>1 DEF DrawInv, PlainPart, Frame
  <2>2. CASE f = line
    <3>1. buffer[line][Drawn].lo = Word(look[<<bank, Drawn>>], "own", line).lo
      BY <1>2, <1>5, <2>2 DEF DrawInv, PlainPart
    <3>2. /\ buffer'[line][Drawn].hi = Word(look[<<bank, Drawn>>], "own", line).hi
          /\ buffer'[line][Drawn].lo = Word(look[<<bank, Drawn>>], "own", line).lo
          /\ buffer'[line][Drawn] =
               [hi |-> buffer'[line][Drawn].hi, lo |-> buffer'[line][Drawn].lo]
      BY <1>5, <3>1, WordDrawn
    <3> QED  BY <2>2, <3>2 DEF Word
  <2> QED  BY <1>2, <1>5, <2>1, <2>2
<1> QED  BY <1>4, <1>5

(* ... and when it was the last one, the encoder is whole again and the    *)
(* next one is begun, or the drawing is over.                              *)
LEMMA LastWord ==
  ASSUME DrawInv, WriteByte, half = "hi", line = NumFrames - 1,
         NEW e \in Enc, e = Drawn
  PROVE  Whole(e)'
<1>1. Drawn \in Enc /\ phase \in {"bank", "flash", "plain"} /\ bank \in Bank
  BY ByteWritten DEF WriteByte, DrawInv, DrawTypes
<1>2. \A f \in Frame : f <= line
  BY DisplayAssumption DEF Frame
<1>3. CASE phase = "flash"
  <2>1. PICK l \in Shown : \A f \in Frame : buffer'[f][Drawn] = Word(l, FlashTint(f), f)
    BY <1>2, <1>3, WordsDone
  <2> DEFINE tint == IF StepOf(Drawn) % 2 = 0 THEN "white" ELSE "none"
  <2>2. ASSUME NEW f \in Frame
        PROVE  FlashTint(f) = IF tint = "white" /\ f = NumFrames - 1 THEN "none" ELSE tint
    BY DisplayAssumption DEF FlashTint, Frame
  <2>3. tint \in Tints  BY DEF Tints
  <2>6. PICK c \in Tints : c = tint  BY <2>3
  <2> HIDE DEF tint
  <2>4. \A f \in Frame : buffer'[f][e] =
          Word(l, IF tint = "white" /\ f = NumFrames - 1 THEN "none" ELSE tint, f)
    BY <2>1, <2>2
  <2>5. IsDrawing(e, l, c)'  BY <2>4, <2>6 DEF IsDrawing
  <2> QED  BY <2>5 DEF Whole
<1>4. CASE phase \in {"bank", "plain"}
  <2> DEFINE l == look[<<bank, Drawn>>]
  <2>1. l \in Shown /\ "own" \in Tints
    BY <1>1 DEF DrawInv, DrawTypes, Shown, Tints
  <2>2. \A f \in Frame : buffer'[f][e] = Word(l, "own", f)
    BY <1>2, <1>4, WordsDone
  <2> HIDE DEF l
  <2>3. \E k \in Shown : k = l  BY <2>1
  <2>4. PICK k \in Shown : \A f \in Frame : buffer'[f][e] = Word(k, "own", f)
    BY <2>2, <2>3
  <2>5. IsDrawing(e, k, "own")'  BY <2>4 DEF IsDrawing
  <2> QED  BY <2>1, <2>5 DEF Whole
<1> QED  BY <1>1, <1>3, <1>4

LEMMA DrawInvNextWord ==
  ASSUME DrawInv, WriteByte, half = "hi", line < NumFrames - 1
  PROVE  DrawInv'
<1>1. /\ half' = "lo" /\ line' = line + 1
      /\ UNCHANGED <<todraw, phase, bank, look>> /\ todraw # {}
  BY DEF WriteByte, NextWord
<1>2. Drawn' = Drawn  BY <1>1 DEF Drawn
<1>3. line \in Frame /\ line' \in Frame
  BY <1>1, DisplayAssumption DEF DrawInv, DrawTypes, Frame
<1>4. DrawTypes'
  BY <1>1, <1>3, ByteWritten DEF DrawInv, DrawTypes
<1>5. OthersWhole'
  BY <1>1, <1>2, OthersKept DEF OthersWhole
<1>6. \A f \in Frame : (f < line' => f <= line) /\ (Written(f)' => f <= line)
  BY <1>1, <1>3 DEF Written, Frame
<1>7. ASSUME phase = "flash" PROVE FlashPart'
  <2>1. PICK l \in Shown : \A f \in Frame :
          /\ buffer'[f][Drawn].hi = <<l, f>> /\ buffer'[f][Drawn].lo[1] = l
          /\ f <= line => buffer'[f][Drawn] = Word(l, FlashTint(f), f)
    BY <1>7, WordsDone
  <2>2. \A f \in Frame : FlashTint(f)' = FlashTint(f)  BY <1>2, TintKept
  <2>3. ASSUME NEW f \in Frame, Written(f)'
        PROVE  buffer'[f][Drawn].lo = <<l, FlashTint(f), f>>
    <3>1. f <= line  BY <1>6, <2>3
    <3>2. buffer'[f][Drawn] = Word(l, FlashTint(f), f)  BY <2>1, <3>1
    <3> QED  BY <3>2 DEF Word
  <2> QED  BY <1>2, <2>1, <2>2, <2>3 DEF FlashPart
<1>8. ASSUME phase \in {"bank", "plain"} PROVE PlainPart'
  <2>1. \A f \in Frame : f <= line =>
          buffer'[f][Drawn] = Word(look[<<bank, Drawn>>], "own", f)
    BY <1>8, WordsDone
  <2> QED  BY <1>1, <1>2, <1>6, <2>1 DEF PlainPart
<1> QED  BY <1>1, <1>4, <1>5, <1>7, <1>8 DEF DrawInv

LEMMA DrawInvNextEncoder ==
  ASSUME DrawInv, WriteByte, half = "hi", ~(line < NumFrames - 1)
  PROVE  DrawInv'
<1>1. /\ half' = "lo" /\ line' = 0 /\ todraw' \subseteq todraw
      /\ phase' = IF todraw' = {} THEN "input" ELSE phase
      /\ UNCHANGED <<bank, look>> /\ todraw # {}
  BY DEF WriteByte, NextWord
<1>2. line = NumFrames - 1 /\ 0 \in Frame
  <2>1. line \in Frame  BY DEF DrawInv, DrawTypes
  <2>2. NumFrames \in Nat \ {0}  BY DisplayAssumption
  <2> QED  BY <2>1, <2>2 DEF Frame
<1>3. DrawTypes'
  BY <1>1, <1>2, ByteWritten DEF DrawInv, DrawTypes
<1>4. ASSUME NEW e \in Enc PROVE Whole(e)'
  BY <1>2, OthersKept, LastWord
<1>5. OthersWhole'  BY <1>4 DEF OthersWhole
<1>6. \A f \in Frame : ~(f < line') /\ ~Written(f)'
  BY <1>1, DisplayAssumption DEF Written, Frame
<1>7. ASSUME todraw' # {} PROVE FlashPart'
  <2>1. Drawn' \in Enc
    BY <1>7, <1>3, DrawnIsToDrawNext DEF DrawTypes
  <2>2. \A e \in Enc : \E l \in Shown, tint \in Tints : IsDrawing(e, l, tint)'
    BY <1>4 DEF Whole
  <2>3. PICK l \in Shown : \A f \in Frame :
          buffer'[f][Drawn'].hi = <<l, f>> /\ buffer'[f][Drawn'].lo[1] = l
    BY <2>1, <2>2, DrawingStarts DEF IsDrawing
  <2> QED  BY <1>6, <2>3 DEF FlashPart
<1>8. PlainPart'  BY <1>6 DEF PlainPart
<1>9. phase' = "flash" => todraw' # {}  BY <1>1
<1> QED  BY <1>3, <1>5, <1>7, <1>8, <1>9 DEF DrawInv

(* The interrupt and the DMA only read the buffer.                         *)
LEMMA DrawInvSender ==
  ASSUME DrawInv, UNCHANGED <<control, drawing>>
  PROVE  DrawInv'
<1>1. Active' = Active /\ Drawn' = Drawn
  BY DEF control, drawing, Active, Drawn
<1>2. \A f \in Frame : (Written(f)' <=> Written(f)) /\ FlashTint(f)' = FlashTint(f)
  BY <1>1 DEF control, drawing, Written, FlashTint, StepOf
<1>3. DrawTypes'  BY DEF DrawInv, DrawTypes, control, drawing
<1>4. OthersWhole'
  BY <1>1, WholeKept DEF DrawInv, OthersWhole, control, drawing
<1>5. phase' = "flash" => FlashPart'
  BY <1>1, <1>2 DEF DrawInv, FlashPart, control, drawing
<1>6. phase' \in {"bank", "plain"} => PlainPart'
  BY <1>1, <1>2 DEF DrawInv, PlainPart, control, drawing
<1> QED  BY <1>3, <1>4, <1>5, <1>6 DEF DrawInv

LEMMA DrawInvNext == FlashInv /\ DrawInv /\ [Next]_vars => DrawInv'
<1> SUFFICES ASSUME FlashInv, DrawInv, [Next]_vars PROVE DrawInv'
  OBVIOUS
<1>1. CASE \/ TurnEncoder \/ ShowBank \/ InputDone \/ AnimationStartBankChange
           \/ EventsDone \/ AnimationUpdate \/ DisplayUpdate
  BY <1>1, DrawInvControl
<1>2. CASE WriteByte
  <2>1. half \in {"lo", "hi"}  BY DEF DrawInv, DrawTypes
  <2> QED  BY <1>2, <2>1, DrawInvLow, DrawInvNextWord, DrawInvNextEncoder
<1>3. CASE TimerInterrupt \/ DmaByte \/ UNCHANGED vars
  BY <1>3, DrawInvSender DEF TimerInterrupt, DmaByte, vars, control, drawing
<1> QED  BY <1>1, <1>2, <1>3 DEF Next, MainLoop

(* Whatever is drawn over what, and however an animation is cut short,     *)
(* every encoder is left with one drawing.                                 *)
THEOREM WholeDrawingAlways == Spec => []WholeDrawing
<1>1. Init => FlashInv /\ DrawInv  BY FlashInvInit, DrawInvInit
<1>2. (FlashInv /\ DrawInv) /\ [Next]_vars => (FlashInv /\ DrawInv)'
  BY FlashInvNext, DrawInvNext
<1>3. FlashInv /\ DrawInv => WholeDrawing
  BY DEF DrawInv, OthersWhole, Whole, WholeDrawing, Shown, Tints
<1> QED  BY <1>1, <1>2, <1>3, PTL DEF Spec

-----------------------------------------------------------------------------
(* What the LEDs have shown.  Since the first interrupt after a write, the *)
(* words shifted out are those of the frame that is sent, and what was     *)
(* latched goes back from it frame by frame.                               *)
Following(f) == IF f + 1 >= NumFrames THEN 0 ELSE f + 1
Before(f, n) == IF n <= f THEN f - n ELSE f - n + NumFrames

Taken ==
  [hi : (Shown \cup {Reset}) \X Frame, lo : (Shown \cup {Reset}) \X Tints \X Frame]

LatchTypes ==
  /\ sending \in [frame : Frame, sent : 0 .. 2 * NumEncoders] /\ mf_frame \in Frame
  /\ shifted \in [Enc -> Taken]
  /\ seen \in Seq([Enc -> Taken]) /\ Len(seen) <= NumFrames
  /\ \A f \in Frame, e \in Enc : buffer[f][e].hi[2] = f

Shifting ==
  \A e \in Enc :
    /\ 2 * e < sending.sent => shifted[e].lo = buffer[sending.frame][e].lo
    /\ 2 * e + 1 < sending.sent => shifted[e].hi = buffer[sending.frame][e].hi

LatchInv ==
  /\ LatchTypes
  /\ seen # <<>> => quiet
  /\ quiet =>
       /\ mf_frame = Following(sending.frame)
       /\ Shifting
       /\ \A k \in 1 .. Len(seen) :
            seen[k] = buffer[Before(sending.frame, Len(seen) + 1 - k)]

LEMMA Turns ==
  ASSUME NEW f \in Frame
  PROVE  /\ Following(f) \in Frame
         /\ Before(Following(f), 1) = f
         /\ \A n \in 1 .. NumFrames : Before(f, n) \in Frame
         /\ \A n \in 1 .. NumFrames - 1 : Before(Following(f), n + 1) = Before(f, n)
BY DisplayAssumption DEF Following, Before, Frame

LEMMA LatchInvInit == Init => LatchInv
<1> SUFFICES ASSUME Init PROVE LatchInv
  OBVIOUS
<1>1. 0 \in Frame /\ NumEncoders \in Nat /\ NumFrames \in Nat
  BY DisplayAssumption DEF Frame
<1>2. shifted \in [Enc -> Taken]
  BY <1>1 DEF Init, Blank, Word, Taken, Tints
<1>3. sending \in [frame : Frame, sent : 0 .. 2 * NumEncoders] /\ mf_frame \in Frame
  BY <1>1 DEF Init
<1>4. seen \in Seq([Enc -> Taken]) /\ Len(seen) <= NumFrames
  BY <1>1 DEF Init
<1>5. \A f \in Frame, e \in Enc : buffer[f][e].hi[2] = f
  BY DEF Init, Word
<1> QED  BY <1>2, <1>3, <1>4, <1>5 DEF Init, LatchInv, LatchTypes

(* A write ends the history; it puts each word where its frame is.         *)
LEMMA LatchInvWrite ==
  ASSUME DrawInv, LatchInv, WriteByte
  PROVE  LatchInv'
<1>1. /\ UNCHANGED <<sending, mf_frame, shifted>>
      /\ seen' = <<>> /\ quiet' = FALSE
  BY DEF WriteByte
<1>2. line \in Frame /\ Drawn \in Enc /\ half \in {"lo", "hi"}
  BY ByteWritten DEF DrawInv, DrawTypes
<1>3. buffer'[line][Drawn].hi[2] = line
  <2>1. buffer[line][Drawn].hi[2] = line
    BY <1>2 DEF LatchInv, LatchTypes
  <2>2. NewWord.hi[2] = line
    BY <2>1, WordDrawn DEF Word
  <2> QED  BY <1>2, <2>1, <2>2, WordDrawn
<1>4. ASSUME NEW f \in Frame, NEW e \in Enc
      PROVE  buffer'[f][e].hi[2] = f
  BY <1>3, ByteWritten DEF LatchInv, LatchTypes
<1>5. <<>> \in Seq([Enc -> Taken]) /\ Len(<<>>) <= NumFrames
  BY DisplayAssumption
<1>6. LatchTypes'
  BY <1>1, <1>4, <1>5 DEF LatchInv, LatchTypes
<1> QED  BY <1>1, <1>6 DEF LatchInv

(* A word of which both bytes were sent is the word of the buffer.         *)
LEMMA WholeFrameSent ==
  ASSUME DrawInv, LatchInv, quiet, sending.sent = 2 * NumEncoders
  PROVE  shifted = buffer[sending.frame]
<1>1. sending.frame \in Frame  BY DEF LatchInv, LatchTypes
<1>2. buffer[sending.frame] \in [Enc -> Words] /\ shifted \in [Enc -> Taken]
  BY <1>1 DEF DrawInv, DrawTypes, LatchInv, LatchTypes
<1>3. ASSUME NEW e \in Enc PROVE shifted[e] = buffer[sending.frame][e]
  <2>1. 2 * e < sending.sent /\ 2 * e + 1 < sending.sent
    BY DisplayAssumption DEF Enc
  <2>2. /\ shifted[e].lo = buffer[sending.frame][e].lo
        /\ shifted[e].hi = buffer[sending.frame][e].hi
    BY <2>1 DEF LatchInv, Shifting
  <2>3. shifted[e] \in Taken /\ buffer[sending.frame][e] \in Words
    BY <1>2
  <2> QED  BY <2>2, <2>3 DEF Taken, Words
<1> QED  BY <1>2, <1>3

LEMMA Appended ==
  ASSUME NEW S, NEW u \in Seq(S), NEW w \in S
  PROVE  /\ Append(u, w) \in Seq(S) /\ Len(Append(u, w)) = Len(u) + 1
         /\ Append(u, w)[Len(u) + 1] = w
         /\ \A k \in 1 .. Len(u) : Append(u, w)[k] = u[k]
<1>1. Len(u) \in Nat  OBVIOUS
<1> QED  BY <1>1

(* The history grows by a frame, and keeps to the last NumFrames of them.  *)
Longer(s, w) == Append(IF Len(s) = NumFrames THEN Tail(s) ELSE s, w)

LastOnes(t, s, w) ==
  /\ Len(t) <= NumFrames /\ Len(t) \in Nat \ {0}
  /\ t[Len(t)] = w
  /\ \A k \in 1 .. Len(t) - 1 :
       \E j \in 1 .. Len(s) :
         t[k] = s[j] /\ Len(s) + 1 - j = Len(t) - k /\ Len(t) - k < NumFrames

LEMMA Latched ==
  ASSUME NEW S, NEW s \in Seq(S), NEW w \in S, Len(s) <= NumFrames
  PROVE  Longer(s, w) \in Seq(S) /\ LastOnes(Longer(s, w), s, w)
<1> SUFFICES ASSUME NEW t, t = Longer(s, w)
             PROVE  t \in Seq(S) /\ LastOnes(t, s, w)
  OBVIOUS
<1> USE DEF LastOnes
<1>1. NumFrames \in Nat \ {0} /\ Len(s) \in Nat  BY DisplayAssumption
<1>2. CASE Len(s) = NumFrames
  <2>1. /\ Tail(s) \in Seq(S) /\ Len(Tail(s)) = Len(s) - 1
        /\ \A k \in 1 .. Len(s) - 1 : Tail(s)[k] = s[k + 1]
    BY <1>1, <1>2
  <2>2. PICK u \in Seq(S) :
          /\ u = Tail(s) /\ Len(u) = Len(s) - 1
          /\ \A k \in 1 .. Len(s) - 1 : u[k] = s[k + 1]
    BY <2>1, Zenon
  <2>3. t = Append(u, w)  BY <1>2, <2>2, Zenon DEF Longer
  <2>4. /\ t \in Seq(S) /\ Len(t) = Len(u) + 1 /\ t[Len(u) + 1] = w
        /\ \A k \in 1 .. Len(u) : t[k] = u[k]
    <3>1. /\ Append(u, w) \in Seq(S) /\ Len(Append(u, w)) = Len(u) + 1
          /\ Append(u, w)[Len(u) + 1] = w
          /\ \A k \in 1 .. Len(u) : Append(u, w)[k] = u[k]
      BY Appended
    <3> QED  BY <2>3, <3>1, Zenon
  <2>5. Len(u) + 1 = Len(s) /\ Len(t) = Len(s)
    <3>1. PICK n \in Nat, m \in Nat : n = Len(s) /\ m = Len(u)  BY <1>1
    <3>2. m = n - 1 /\ Len(t) = m + 1  BY <2>2, <2>4, <3>1, Zenon
    <3>3. m + 1 = n /\ Len(t) = n  BY <3>2
    <3> QED  BY <3>1, <3>3, Zenon
  <2>6. ASSUME NEW k \in 1 .. Len(t) - 1
        PROVE  \E j \in 1 .. Len(s) :
                 t[k] = s[j] /\ Len(s) + 1 - j = Len(t) - k /\ Len(t) - k < NumFrames
    <3>1. k \in 1 .. Len(u) /\ k \in 1 .. Len(s) - 1 /\ k + 1 \in 1 .. Len(s)
      <4>1. PICK n \in Nat \ {0}, m \in Nat : n = Len(s) /\ m = Len(u) /\ m + 1 = n
        BY <1>1, <1>2, <2>5
      <4>2. k \in 1 .. n - 1  BY <2>5, <2>6, <4>1
      <4>3. k \in 1 .. m /\ k + 1 \in 1 .. n  BY <4>1, <4>2
      <4> QED  BY <4>1, <4>2, <4>3
    <3>2. t[k] = s[k + 1]  BY <2>2, <2>4, <3>1
    <3>3. Len(s) + 1 - (k + 1) = Len(t) - k /\ Len(t) - k < NumFrames
      BY <1>1, <1>2, <2>5
    <3> QED  BY <3>1, <3>2, <3>3
  <2> QED  BY <1>1, <1>2, <2>4, <2>5, <2>6
<1>3. CASE Len(s) < NumFrames
  <2>1. t = Append(s, w)  BY <1>1, <1>3 DEF Longer
  <2>2. t \in Seq(S) /\ Len(t) = Len(s) + 1 /\ t[Len(t)] = w
        /\ \A k \in 1 .. Len(t) - 1 : t[k] = s[k]
    BY <1>1, <2>1
  <2> QED  BY <1>1, <1>3, <2>2
<1> QED  BY <1>1, <1>2, <1>3

LEMMA LatchInvInterrupt ==
  ASSUME DrawInv, LatchInv, TimerInterrupt
  PROVE  LatchInv'
<1>1. /\ sending.sent = 2 * NumEncoders /\ sending' = [frame |-> mf_frame, sent |-> 0]
      /\ mf_frame' = Following(mf_frame) /\ shifted' = Blank
      /\ quiet' = TRUE /\ buffer' = buffer
  BY DEF TimerInterrupt, Latch, Following, drawing
<1>2. mf_frame \in Frame /\ 0 \in Frame /\ NumEncoders \in Nat
  BY DisplayAssumption DEF LatchInv, LatchTypes, Frame
<1>3. sending' \in [frame : Frame, sent : 0 .. 2 * NumEncoders] /\ mf_frame' \in Frame
  BY <1>1, <1>2, Turns
<1>4. shifted' \in [Enc -> Taken]
  BY <1>1, <1>2 DEF Blank, Word, Taken, Tints
<1>5. Shifting'
  <2>1. sending'.sent = 0  BY <1>1
  <2>2. \A e \in Enc : ~(2 * e < 0) /\ ~(2 * e + 1 < 0)  BY DEF Enc
  <2> QED  BY <2>1, <2>2 DEF Shifting
<1>6. \A f \in Frame, e \in Enc : buffer'[f][e].hi[2] = f
  BY <1>1 DEF LatchInv, LatchTypes
<1>7. /\ seen' \in Seq([Enc -> Taken]) /\ Len(seen') <= NumFrames
      /\ \A k \in 1 .. Len(seen') :
           seen'[k] = buffer[Before(mf_frame, Len(seen') + 1 - k)]
  <2>1. CASE ~quiet
    <3>1. seen' = <<>>  BY <2>1 DEF TimerInterrupt, Latch
    <3> QED  BY <3>1, DisplayAssumption
  <2>2. CASE quiet
    <3>1. seen' = Longer(seen, shifted)
      BY <2>2 DEF TimerInterrupt, Latch, Longer
    <3>2. /\ seen \in Seq([Enc -> Taken]) /\ shifted \in [Enc -> Taken]
          /\ Len(seen) <= NumFrames
      BY DEF LatchInv, LatchTypes
    <3>3. PICK t : t = seen'  OBVIOUS
    <3>4. t \in Seq([Enc -> Taken]) /\ LastOnes(t, seen, shifted)
      <4>1. /\ Longer(seen, shifted) \in Seq([Enc -> Taken])
            /\ LastOnes(Longer(seen, shifted), seen, shifted)
        BY <3>2, Latched
      <4> QED  BY <3>1, <3>3, <4>1, Zenon
    <3> USE DEF LastOnes
    <3>5. sending.frame \in Frame /\ mf_frame = Following(sending.frame)
      BY <2>2 DEF LatchInv, LatchTypes
    <3>6. shifted = buffer[sending.frame]  BY <1>1, <2>2, WholeFrameSent
    <3>7. ASSUME NEW k \in 1 .. Len(t)
          PROVE  t[k] = buffer[Before(mf_frame, Len(t) + 1 - k)]
      <4>1. CASE k = Len(t)
        <5>1. Len(t) + 1 - k = 1  BY <3>4, <4>1
        <5>2. Before(mf_frame, 1) = sending.frame  BY <3>5, Turns
        <5> QED  BY <3>4, <3>6, <4>1, <5>1, <5>2
      <4>2. CASE k # Len(t)
        <5>1. PICK j \in 1 .. Len(seen) :
                /\ t[k] = seen[j] /\ Len(seen) + 1 - j = Len(t) - k
                /\ Len(t) - k < NumFrames
          <6>1. k \in 1 .. Len(t) - 1  BY <3>4, <4>2
          <6> QED  BY <3>4, <6>1
        <5>2. PICK n \in 1 .. NumFrames - 1 : n = Len(t) - k
          <6>1. Len(t) - k \in 1 .. NumFrames - 1
            BY <3>4, <4>2, <5>1, DisplayAssumption
          <6> QED  BY <6>1
        <5>3. Before(mf_frame, n + 1) = Before(sending.frame, n)
          BY <3>5, Turns
        <5>4. Len(t) + 1 - k = n + 1  BY <3>4, <5>2
        <5>5. seen[j] = buffer[Before(sending.frame, n)]
          BY <2>2, <5>1, <5>2 DEF LatchInv
        <5> QED  BY <5>1, <5>3, <5>4, <5>5
      <4> QED  BY <4>1, <4>2
    <3> QED  BY <3>3, <3>4, <3>7
  <2> QED  BY <2>1, <2>2
<1>8. LatchTypes'
  BY <1>3, <1>4, <1>6, <1>7 DEF LatchTypes
<1>9. sending'.frame = mf_frame  BY <1>1
<1> QED  BY <1>1, <1>5, <1>7, <1>8, <1>9 DEF LatchInv, Following

LEMMA LatchInvByte ==
  ASSUME DrawInv, LatchInv, DmaByte
  PROVE  LatchInv'
<1>1. PICK n \in 0 .. 2 * NumEncoders - 1 : n = sending.sent
  <2>1. sending.sent \in 0 .. 2 * NumEncoders /\ sending.sent < 2 * NumEncoders
    BY DEF DmaByte, LatchInv, LatchTypes
  <2>2. sending.sent \in 0 .. 2 * NumEncoders - 1  BY <2>1, DisplayAssumption
  <2> QED  BY <2>2
<1>2. PICK fr \in Frame : fr = sending.frame  BY DEF LatchInv, LatchTypes
<1>3. PICK e \in Enc : e = n \div 2
  <2>1. n \div 2 \in Enc  BY DisplayAssumption DEF Enc
  <2> QED  BY <2>1
<1>4. PICK h \in {"lo", "hi"} : h = IF n % 2 = 0 THEN "lo" ELSE "hi"
  OBVIOUS
<1>5. h = "lo" => n = 2 * e
  BY <1>3, <1>4
<1>6. h = "hi" => n = 2 * e + 1
  BY <1>3, <1>4
<1>7. shifted' = [shifted EXCEPT ![e] = [shifted[e] EXCEPT ![h] = buffer[fr][e][h]]]
  BY <1>1, <1>2, <1>3, <1>4 DEF DmaByte
<1>8. sending' = [sending EXCEPT !.sent = n + 1]
      /\ UNCHANGED <<mf_frame, seen, quiet, buffer>>
  BY <1>1 DEF DmaByte, drawing
<1>9. sending'.frame = fr /\ sending'.sent = n + 1
      /\ sending' \in [frame : Frame, sent : 0 .. 2 * NumEncoders]
  <2>1. sending \in [frame : Frame, sent : 0 .. 2 * NumEncoders]
    BY DEF LatchInv, LatchTypes
  <2>2. n + 1 \in 0 .. 2 * NumEncoders  BY DisplayAssumption
  <2> QED  BY <1>2, <1>8, <2>1, <2>2
<1>10. /\ shifted[e] \in Taken /\ buffer[fr][e] \in Taken
       /\ DOMAIN shifted = Enc
  <2>1. buffer[fr][e] \in Words  BY DEF DrawInv, DrawTypes
  <2> QED  BY <2>1 DEF Words, Taken, LatchInv, LatchTypes
<1>11. /\ h = "lo" => shifted'[e] = [shifted[e] EXCEPT !.lo = buffer[fr][e].lo]
       /\ h = "hi" => shifted'[e] = [shifted[e] EXCEPT !.hi = buffer[fr][e].hi]
       /\ \A d \in Enc : d # e => shifted'[d] = shifted[d]
  BY <1>7, <1>10
<1>12. /\ shifted'[e] \in Taken
       /\ h = "lo" => shifted'[e].lo = buffer[fr][e].lo /\ shifted'[e].hi = shifted[e].hi
       /\ h = "hi" => shifted'[e].hi = buffer[fr][e].hi /\ shifted'[e].lo = shifted[e].lo
  <2>1. CASE h = "lo"  BY <1>10, <1>11, <2>1 DEF Taken
  <2>2. CASE h = "hi"  BY <1>10, <1>11, <2>2 DEF Taken
  <2> QED  BY <2>1, <2>2
<1>13. shifted' \in [Enc -> Taken]
  <2>1. shifted \in [Enc -> Taken]  BY DEF LatchInv, LatchTypes
  <2>2. [shifted[e] EXCEPT ![h] = buffer[fr][e][h]] \in Taken
    BY <1>7, <1>10, <1>12
  <2> QED  BY <1>7, <2>1, <2>2
<1>14. LatchTypes'
  BY <1>8, <1>9, <1>13 DEF LatchInv, LatchTypes
<1>15. ASSUME quiet PROVE Shifting'
  <2> SUFFICES ASSUME NEW d \in Enc
               PROVE  /\ 2 * d < n + 1 => shifted'[d].lo = buffer[fr][d].lo
                      /\ 2 * d + 1 < n + 1 => shifted'[d].hi = buffer[fr][d].hi
    BY <1>8, <1>9 DEF Shifting
  <2>1. /\ 2 * d < n => shifted[d].lo = buffer[fr][d].lo
        /\ 2 * d + 1 < n => shifted[d].hi = buffer[fr][d].hi
    BY <1>1, <1>2, <1>15 DEF LatchInv, Shifting
  <2>2. d \in Nat /\ e \in Nat  BY DEF Enc
  <2>3. CASE d # e
    <3>1. shifted'[d] = shifted[d]  BY <1>11, <2>3
    <3>2. /\ 2 * d < n + 1 => 2 * d < n
          /\ 2 * d + 1 < n + 1 => 2 * d + 1 < n
      BY <1>4, <1>5, <1>6, <2>2, <2>3
    <3> QED  BY <2>1, <3>1, <3>2
  <2>4. CASE d = e
    <3>1. h = "lo" => ~(2 * d + 1 < n + 1)  BY <1>5, <2>2, <2>4
    <3>2. h = "hi" => 2 * d < n  BY <1>6, <2>2, <2>4
    <3> QED  BY <1>4, <1>12, <2>1, <2>4, <3>1, <3>2
  <2> QED  BY <2>3, <2>4
<1>16. \A k \in 1 .. Len(seen) : quiet =>
         seen'[k] = buffer'[Before(sending'.frame, Len(seen') + 1 - k)]
  BY <1>2, <1>8, <1>9 DEF LatchInv
<1> QED  BY <1>2, <1>8, <1>9, <1>14, <1>15, <1>16 DEF LatchInv

LEMMA LatchInvOther ==
  ASSUME LatchInv, UNCHANGED <<buffer, mf_frame, sending, shifted, seen, quiet>>
  PROVE  LatchInv'
BY DEF LatchInv, LatchTypes, Shifting

LEMMA LatchInvNext == DrawInv /\ LatchInv /\ [Next]_vars => LatchInv'
<1> SUFFICES ASSUME DrawInv, LatchInv, [Next]_vars PROVE LatchInv'
  OBVIOUS
<1>1. CASE \/ TurnEncoder \/ ShowBank \/ InputDone \/ AnimationStartBankChange
           \/ EventsDone \/ AnimationUpdate \/ DisplayUpdate \/ UNCHANGED vars
  BY <1>1, LatchInvOther
     DEF TurnEncoder, ShowBank, InputDone, AnimationStartBankChange, EventsDone,
         AnimationUpdate, AnimationsMove, DisplayUpdate, DrawOld, vars, drawing, sender
<1>2. CASE WriteByte  BY <1>2, LatchInvWrite
<1>3. CASE TimerInterrupt  BY <1>3, LatchInvInterrupt
<1>4. CASE DmaByte  BY <1>4, LatchInvByte
<1> QED  BY <1>1, <1>2, <1>3, <1>4 DEF Next, MainLoop

(* A cycle of frames after the last write the LEDs have shown every frame  *)
(* of the buffer once, whenever the write came and however the bytes sent  *)
(* fell between those written.                                             *)
THEOREM ShownAsDrawnAlways == Spec => []ShownAsDrawn
<1>1. Init => FlashInv /\ DrawInv /\ LatchInv
  BY FlashInvInit, DrawInvInit, LatchInvInit
<1>2. (FlashInv /\ DrawInv /\ LatchInv) /\ [Next]_vars
        => (FlashInv /\ DrawInv /\ LatchInv)'
  BY FlashInvNext, DrawInvNext, LatchInvNext
<1>3. LatchInv => ShownAsDrawn
  <2> SUFFICES ASSUME LatchInv, Len(seen) = NumFrames, NEW e \in Enc, NEW f \in Frame
               PROVE  Cardinality({k \in 1 .. NumFrames : seen[k][e] = buffer[f][e]}) = 1
    BY DEF ShownAsDrawn
  <2>1. PICK at \in Frame : at = sending.frame  BY DEF LatchInv, LatchTypes
  <2>2. quiet
    <3>1. seen # <<>>  BY DisplayAssumption
    <3> QED  BY <3>1 DEF LatchInv
  <2>3. NumFrames \in Nat \ {0}  BY DisplayAssumption
  <2> DEFINE ago(k) == NumFrames + 1 - k
             mine == NumFrames + 1 - (IF f < at THEN at - f ELSE at - f + NumFrames)
  <2>4. mine \in 1 .. NumFrames /\ Before(at, ago(mine)) = f
    BY <2>3 DEF Frame, Before
  <2>5. ASSUME NEW k \in 1 .. NumFrames PROVE seen[k] = buffer[Before(at, ago(k))]
    BY <2>1, <2>2 DEF LatchInv
  <2>6. ASSUME NEW k \in 1 .. NumFrames, seen[k][e] = buffer[f][e]
        PROVE  k = mine
    <3>1. ago(k) \in 1 .. NumFrames  BY <2>3
    <3>2. Before(at, ago(k)) \in Frame  BY <3>1, Turns
    <3>3. Before(at, ago(k)) = f
      BY <2>5, <2>6, <3>2 DEF LatchInv, LatchTypes
    <3> QED  BY <2>3, <3>3 DEF Frame, Before
  <2>7. seen[mine][e] = buffer[f][e]  BY <2>4, <2>5
  <2> HIDE DEF mine
  <2>8. {k \in 1 .. NumFrames : seen[k][e] = buffer[f][e]} = {mine}
    BY <2>4, <2>6, <2>7
  <2>9. Cardinality({mine}) = 1  BY FS_Singleton
  <2> QED  BY <2>8, <2>9
<1> QED  BY <1>1, <1>2, <1>3, PTL DEF Spec
=============================================================================
