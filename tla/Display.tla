------------------------------ MODULE Display ------------------------------
(***************************************************************************)
(* From a drawing to the LEDs: led/led.c and animation/animation.c write   *)
(* the frame buffer in the main loop, led/hw_led.c sends it to the LEDs    *)
(* from an interrupt.                                                      *)
(*                                                                         *)
(* The buffer has a word for every frame and encoder, written one byte at  *)
(* a time.  At every interrupt the LEDs take over the words that have been *)
(* shifted out since the last one, and the DMA controller begins to shift  *)
(* out the words of the next frame, byte by byte, while the main loop goes *)
(* on.  What an encoder is to show is one of a few looks (Led computes the *)
(* lamps of a look).                                                       *)
(***************************************************************************)
EXTENDS Integers, Sequences, FiniteSets

CONSTANTS
  NumBanks, NumEncoders,  \* NUM_ENC_BANKS, NUM_ENCODERS
  NumFrames,    \* NUM_PWM_FRAMES
  NumSlots,     \* ANIMATION_MAX_CONCURRENT
  LastStep,     \* largest quotient of an animation's age and frame duration
  FlashEncoder, \* encoder that flashes when a bank is shown, by bank
  LooksOf,      \* what it may have to show, by <<bank, encoder>>
  AskRoom       \* bound on the bank changes of one scan

Bank == 0 .. NumBanks - 1
Enc == 0 .. NumEncoders - 1
Frame == 0 .. NumFrames - 1
Slot == 0 .. NumSlots - 1

ASSUME DisplayAssumption ==
  /\ NumBanks \in Nat \ {0} /\ NumEncoders \in Nat \ {0}
  /\ NumFrames \in Nat \ {0} /\ NumSlots \in Nat \ {0}
  /\ LastStep \in Nat /\ AskRoom \in Nat \ {0}
  /\ FlashEncoder \in [Bank -> Enc]
  /\ DOMAIN LooksOf = Bank \X Enc

Looks == UNION {LooksOf[be] : be \in Bank \X Enc}
Dark == "dark"
Reset == "reset"

VARIABLES
  bank,         \* gRT.curr_bank
  look,         \* what <<bank, encoder>> is to show
  redraw,       \* <<bank, encoder>> with update_display # 0
  asked,        \* bank changes in the queue of ANIMATION
  anims,        \* anim_states: the encoder and step of each active slot
  phase,        \* which part of the main loop runs
  todraw,       \* encoders still to be drawn, in the order of their index
  line, half,   \* the frame being written, and which byte of its word is next
  buffer,       \* gFRAME_BUFFER
  mf_frame,     \* the next frame to be sent
  sending,      \* the frame the DMA sends and the bytes it has sent
  shifted,      \* the words in the shift registers, by encoder
  seen,         \* history: what the LEDs showed in the last frames, of those
                \* that were sent after the buffer was last written
  quiet         \* history: whether an interrupt has come since then

control == <<bank, look, redraw, asked, anims, phase>>
drawing == <<todraw, line, half, buffer>>
sender == <<mf_frame, sending, shifted, seen>>
vars == <<bank, look, redraw, asked, anims, phase, todraw, line, half, buffer,
          mf_frame, sending, shifted, seen, quiet>>

Off == [enc |-> -1, step |-> 0]
Active == {s \in Slot : anims[s] # Off}
Animated == {anims[s].enc : s \in Active}

(* A word: eight indicators in the high byte; the others and the colour in *)
(* the low one.  The tint is the look's own colour, or an animation's.     *)
Word(l, tint, f) ==
  [hi |-> <<l, f>>, lo |-> <<l, tint, f>>]

Blank == [e \in Enc |-> Word(Reset, "own", 0)]

(* hw_led_init and display_init: all LEDs off, the first bank to be drawn. *)
Init ==
  /\ bank = 0
  /\ look \in [Bank \X Enc -> Looks]
  /\ \A be \in Bank \X Enc : look[be] \in LooksOf[be]
  /\ redraw = {0} \X Enc
  /\ asked = <<>>
  /\ anims = [s \in Slot |-> Off]
  /\ phase = "input"
  /\ todraw = {} /\ line = 0 /\ half = "lo"
  /\ buffer = [f \in Frame |-> [e \in Enc |-> Word(Dark, "own", f)]]
  /\ mf_frame = 0
  /\ sending = [frame |-> 0, sent |-> 2 * NumEncoders]
  /\ shifted = Blank
  /\ seen = <<>>
  /\ quiet = FALSE

-----------------------------------------------------------------------------
(* input_update: a turn changes what an encoder is to show, and asks for   *)
(* its redraw; or the bank changes, is drawn, and a flash is asked for.    *)
TurnEncoder ==
  /\ phase = "input"
  /\ \E e \in Enc : \E l \in LooksOf[<<bank, e>>] :
       /\ look' = [look EXCEPT ![<<bank, e>>] = l]
       /\ redraw' = redraw \cup {<<bank, e>>}
  /\ phase' = "events"
  /\ UNCHANGED <<bank, asked, anims, drawing, sender, quiet>>

(* Fault: instead of drawing the new bank, the redraw of the old one is    *)
(* asked for.                                                              *)
ShowBankAsksOld ==
  /\ phase = "input" /\ Len(asked) < AskRoom
  /\ \E new \in Bank \ {bank} :
       /\ bank' = new
       /\ asked' = Append(asked, new)
  /\ redraw' = redraw \cup {bank} \X Enc
  /\ UNCHANGED <<look, phase, anims, drawing, sender, quiet>>

ShowBank ==
  /\ phase = "input" /\ Len(asked) < AskRoom
  /\ \E new \in Bank \ {bank} :
       /\ bank' = new
       /\ asked' = Append(asked, new)
  /\ todraw' = Enc
  /\ phase' = "bank"
  /\ UNCHANGED <<look, redraw, anims, line, half, buffer, sender, quiet>>

InputDone ==
  /\ phase = "input"
  /\ phase' = "events"
  /\ UNCHANGED <<bank, look, redraw, asked, anims, drawing, sender, quiet>>

(* animation_start_bank_change: the animations in progress are cancelled   *)
(* and their encoders, in the bank shown now, redrawn; the first free slot *)
(* is taken: the first of all, for none is left in use.                    *)
FreeSlots == {s \in Slot : anims[s] = Off}

(* Fault: animations in progress are not cancelled.                        *)
StartInFreeSlot ==
  /\ phase = "events" /\ asked # <<>>
  /\ asked' = Tail(asked)
  /\ IF FreeSlots = {} THEN anims' = anims
     ELSE \E s \in FreeSlots :
            /\ \A t \in FreeSlots : s <= t
            /\ anims' = [anims EXCEPT ![s] = [enc |-> FlashEncoder[Head(asked)], step |-> 0]]
  /\ redraw' = redraw
  /\ UNCHANGED <<bank, look, phase, drawing, sender, quiet>>

AnimationStartBankChange ==
  /\ phase = "events" /\ asked # <<>>
  /\ asked' = Tail(asked)
  /\ anims' = [s \in Slot |->
                IF s = 0 THEN [enc |-> FlashEncoder[Head(asked)], step |-> 0] ELSE Off]
  /\ redraw' = redraw \cup {bank} \X Animated
  /\ UNCHANGED <<bank, look, phase, drawing, sender, quiet>>

EventsDone ==
  /\ phase = "events" /\ asked = <<>>
  /\ phase' = "display"
  /\ UNCHANGED <<bank, look, redraw, asked, anims, drawing, sender, quiet>>

-----------------------------------------------------------------------------
(* display_update with an animation: each moves on to the step its age     *)
(* says, or is over; and the encoders still animated are drawn.            *)
AnimationsMove(over) ==
  /\ phase = "display" /\ Active # {}
  /\ \E steps \in [Active \ over -> 0 .. LastStep] :
       /\ \A s \in Active \ over : steps[s] >= anims[s].step
       /\ anims' = [s \in Slot |-> IF s \in Active \ over
                                   THEN [anims[s] EXCEPT !.step = steps[s]] ELSE Off]
  /\ todraw' = {anims[s].enc : s \in Active \ over}
  /\ phase' = IF todraw' = {} THEN "input" ELSE "flash"
  /\ UNCHANGED <<bank, look, asked, line, half, buffer, sender, quiet>>

(* Fault: an animation that is over leaves its encoder as it is.           *)
AnimationEndsSilently ==
  \E over \in SUBSET Active : AnimationsMove(over) /\ redraw' = redraw

(* ... those that are over, and after any change those still animated, are *)
(* to be redrawn.                                                          *)
AnimationUpdate ==
  \E over \in SUBSET Active :
    /\ AnimationsMove(over)
    /\ redraw' = redraw \cup {bank} \X {anims[s].enc : s \in over}
                       \cup (IF anims' # anims THEN {bank} \X todraw' ELSE {})

(* ... and without one: the encoders of the bank whose request is older    *)
(* than 15 ms are drawn.                                                   *)
Requested == {e \in Enc : <<bank, e>> \in redraw}

DrawOld(due) ==
  /\ phase = "display" /\ Active = {}
  /\ due \subseteq Requested
  /\ todraw' = due
  /\ phase' = IF due = {} THEN "input" ELSE "plain"
  /\ UNCHANGED <<bank, look, redraw, asked, anims, line, half, buffer, sender, quiet>>

DisplayUpdate == \E due \in SUBSET Requested : DrawOld(due)

-----------------------------------------------------------------------------
(* The word to be written: draw_bank_change_animation keeps what it reads  *)
(* of the indicators, and puts white or nothing in place of the colour     *)
(* (no white in the last frame); mf_draw_encoder writes the look.          *)
Drawn == CHOOSE e \in todraw : \A d \in todraw : e <= d
StepOf(e) == anims[CHOOSE s \in Active : anims[s].enc = e].step

NewWord ==
  LET old == buffer[line][Drawn]
      white == StepOf(Drawn) % 2 = 0 /\ line < NumFrames - 1
  IN  IF phase = "flash"
      THEN [hi |-> old.hi, lo |-> <<old.lo[1], IF white THEN "white" ELSE "none", line>>]
      ELSE Word(look[<<bank, Drawn>>], "own", line)

(* After a word comes that of the next frame, after the last one the next  *)
(* encoder; display_update takes back the request when it is drawn.        *)
NextWord(frames) ==
  IF line < frames - 1
  THEN line' = line + 1 /\ UNCHANGED <<todraw, redraw, phase>>
  ELSE /\ line' = 0
       /\ todraw' = todraw \ {Drawn}
       /\ redraw' = IF phase = "plain" THEN redraw \ {<<bank, Drawn>>} ELSE redraw
       /\ phase' = IF todraw' = {} THEN "input" ELSE phase

(* Fault: the last frame is never written.                                 *)
WriteByteShort ==
  /\ todraw # {}
  /\ buffer' = [buffer EXCEPT ![line][Drawn][half] = NewWord[half]]
  /\ quiet' = FALSE /\ seen' = <<>>
  /\ IF half = "lo" THEN half' = "hi" /\ UNCHANGED <<line, todraw, redraw, phase>>
     ELSE half' = "lo" /\ NextWord(NumFrames - 1)
  /\ UNCHANGED <<bank, look, asked, anims, mf_frame, sending, shifted>>

(* One byte of a drawing is written; of a volatile word the compiler       *)
(* writes the low byte first.                                              *)
WriteByte ==
  /\ todraw # {}
  /\ buffer' = [buffer EXCEPT ![line][Drawn][half] = NewWord[half]]
  /\ quiet' = FALSE /\ seen' = <<>>
  /\ IF half = "lo" THEN half' = "hi" /\ UNCHANGED <<line, todraw, redraw, phase>>
     ELSE half' = "lo" /\ NextWord(NumFrames)
  /\ UNCHANGED <<bank, look, asked, anims, mf_frame, sending, shifted>>

MainLoop ==
  \/ TurnEncoder \/ ShowBank \/ InputDone
  \/ AnimationStartBankChange \/ EventsDone
  \/ AnimationUpdate \/ DisplayUpdate
  \/ WriteByte

-----------------------------------------------------------------------------
(* The LEDs take over the shift registers, which are then filled anew.  A  *)
(* frame that was begun after the last write is remembered.                *)
Latch ==
  /\ quiet' = TRUE
  /\ seen' = IF ~quiet THEN <<>>
             ELSE Append(IF Len(seen) = NumFrames THEN Tail(seen) ELSE seen, shifted)

(* Fault: the frame counter skips the last frame.                          *)
TimerInterruptShort ==
  /\ sending.sent = 2 * NumEncoders
  /\ Latch
  /\ sending' = [frame |-> mf_frame, sent |-> 0]
  /\ mf_frame' = IF mf_frame + 1 >= NumFrames - 1 THEN 0 ELSE mf_frame + 1
  /\ shifted' = Blank
  /\ UNCHANGED <<control, drawing>>

(* TCD0_CCB_vect: the LEDs take over what was shifted, and the DMA begins  *)
(* with the next frame.  It has sent the last byte long before the next    *)
(* interrupt: 32 bytes take 32 us of 256 us.                               *)
TimerInterrupt ==
  /\ sending.sent = 2 * NumEncoders
  /\ Latch
  /\ sending' = [frame |-> mf_frame, sent |-> 0]
  /\ mf_frame' = IF mf_frame + 1 >= NumFrames THEN 0 ELSE mf_frame + 1
  /\ shifted' = Blank
  /\ UNCHANGED <<control, drawing>>

(* The DMA sends the next byte of the frame, low bytes first.              *)
DmaByte ==
  /\ sending.sent < 2 * NumEncoders
  /\ LET e == sending.sent \div 2
         h == IF sending.sent % 2 = 0 THEN "lo" ELSE "hi"
     IN  shifted' = [shifted EXCEPT ![e][h] = buffer[sending.frame][e][h]]
  /\ sending' = [sending EXCEPT !.sent = @ + 1]
  /\ UNCHANGED <<control, drawing, mf_frame, seen, quiet>>

Next == MainLoop \/ TimerInterrupt \/ DmaByte

Spec == Init /\ [][Next]_vars

(* The main loop goes on between the interrupts.  An animation lasts a     *)
(* fixed time: it ends, or a bank change starts another.  Each request has *)
(* an age of its own, which turning again does not renew: it grows old and *)
(* is met the next time display_update looks at its encoder, with or       *)
(* without those of others.                                                *)
FlashOver == AnimationUpdate /\ anims' = [s \in Slot |-> Off]

RequestMet(e) == \E due \in SUBSET Requested : e \in due /\ DrawOld(due)

Fairness ==
  /\ WF_vars(MainLoop)
  /\ SF_vars(FlashOver \/ AnimationStartBankChange)
  /\ \A e \in Enc : SF_vars(RequestMet(e))

FairSpec == Spec /\ Fairness

-----------------------------------------------------------------------------
(* The LEDs show each drawing at the brightness it was drawn with: once    *)
(* the buffer has not been written for a cycle, the last NumFrames frames  *)
(* they showed are all the frames of the buffer, each of them once and     *)
(* none of them with bytes of two drawings.                                *)
ShownAsDrawn ==
  Len(seen) = NumFrames =>
    \A e \in Enc, f \in Frame :
      Cardinality({k \in 1 .. NumFrames : seen[k][e] = buffer[f][e]}) = 1

(* Between two drawings no encoder shows parts of two: all its frames come *)
(* from one look, with its own colour or with one step of an animation.    *)
IsDrawing(e, l, tint) ==
  \A f \in Frame : buffer[f][e] = Word(l, IF tint = "white" /\ f = NumFrames - 1
                                          THEN "none" ELSE tint, f)

WholeDrawing ==
  todraw = {} =>
    \A e \in Enc : \E l \in Looks \cup {Dark}, tint \in {"own", "white", "none"} :
      IsDrawing(e, l, tint)

(* An animation marks the bank that is shown, however fast banks change,   *)
(* and there is one at most, so the slots never run out.                   *)
FlashShowsBank ==
  phase = "display" =>
    /\ Cardinality(Active) <= 1
    /\ Animated \subseteq {FlashEncoder[bank]}

(* However the user plays, turning encoders by turns or changing banks     *)
(* again and again, each encoder of the bank shown is seen with its own    *)
(* look and colour again and again: none is left behind for the others, or *)
(* with the colour of an animation.  (Nothing says that all are right at   *)
(* the same time: two encoders turned by turns may never be.)              *)
ShowsItsLook(e) == IsDrawing(e, look[<<bank, e>>], "own")

DisplayCatchesUp == \A e \in Enc : []<>ShowsItsLook(e)

(* Once the user lets go, all encoders come to show their looks and keep   *)
(* doing so, whatever was queued, requested or animated at that moment.    *)
LeftAlone == <>[][~(TurnEncoder \/ ShowBank)]_vars

DisplaySettles == LeftAlone => <>[](\A e \in Enc : ShowsItsLook(e))
=============================================================================
