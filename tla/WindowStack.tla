---------------------------- MODULE WindowStack ----------------------------
(***************************************************************************)
(* What the window commands of an output node promise to the controlling   *)
(* software: the screen shows a stack of windows, each cut from an area of *)
(* its source.  A new window appears on top, an adjusted one is brought to *)
(* the top (interactivepro.h, command 5), a closed one disappears, and     *)
(* none of these changes the order of the other windows.                   *)
(***************************************************************************)
EXTENDS Naturals, SequencesExt

CONSTANTS Window, Area

VARIABLE stack   \* [win, area] records, the bottom window first

IsShown(w) == \E k \in 1..Len(stack) : stack[k].win = w

(* Where a window is, and the stack it leaves when it is taken out.        *)
Place(w) == CHOOSE k \in 1..Len(stack) : stack[k].win = w

Without(w) == RemoveAt(stack, Place(w))

Init == stack = <<>>

Open(w, a) ==
  /\ ~IsShown(w)
  /\ stack' = Append(stack, [win |-> w, area |-> a])

Adjust(w, a) ==
  /\ IsShown(w)
  /\ stack' = Append(Without(w), [win |-> w, area |-> a])

Close(w) ==
  /\ IsShown(w)
  /\ stack' = Without(w)

Clear == stack' = <<>>

Next ==
  \/ \E w \in Window :
       \/ Close(w)
       \/ \E a \in Area : Open(w, a) \/ Adjust(w, a)
  \/ Clear

Spec == Init /\ [][Next]_stack
=============================================================================
