----------------------------- MODULE MessageFifo -----------------------------
(***************************************************************************)
(* What a device that passes messages on promises: a reader takes the      *)
(* oldest message, nobody else gets it, and it does not change while the   *)
(* reader copies it.  A message that was taken may get lost on the way.    *)
(***************************************************************************)
EXTENDS Sequences

CONSTANTS Procs, Msgs, None

VARIABLES
  fifo,  \* messages written and not taken, oldest first
  hand   \* the message each reader is copying, or None

fifoVars == <<fifo, hand>>

Init == fifo = <<>> /\ hand = [p \in Procs |-> None]

Put(m) == fifo' = Append(fifo, m) /\ UNCHANGED hand

Take(p) ==
  /\ fifo # <<>> /\ hand[p] = None
  /\ hand' = [hand EXCEPT ![p] = Head(fifo)]
  /\ fifo' = Tail(fifo)

LetGo(p) == hand' = [hand EXCEPT ![p] = None] /\ UNCHANGED fifo

(* The driver is unloaded and loaded again.                                *)
Forget == fifo' = <<>> /\ UNCHANGED hand

Next ==
  \/ \E m \in Msgs : Put(m)
  \/ \E p \in Procs : Take(p) \/ LetGo(p)
  \/ Forget

Spec == Init /\ [][Next]_fifoVars
=============================================================================
