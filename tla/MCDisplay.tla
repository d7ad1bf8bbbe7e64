----------------------------- MODULE MCDisplay -----------------------------
(* A small panel for TLC.                                                  *)
EXTENDS Display, TLC

FlashInTurn == [b \in Bank |-> (NumEncoders - 1 - b) % NumEncoders]

(* A look for each bank, so that only a change of bank changes one ...     *)
LookPerBank == [be \in Bank \X Enc |-> IF be[1] = 0 THEN {"a"} ELSE {"b"}]

(* ... or two for every encoder to be turned to.                           *)
TwoLooks == [be \in Bank \X Enc |-> {"a", "b"}]

(* The main loop on its own: it reads nothing of what the interrupt and    *)
(* the DMA controller change, and they change nothing it writes.           *)
LoopSpec == Init /\ [][MainLoop]_vars /\ Fairness
=============================================================================
