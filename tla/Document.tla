------------------------------- MODULE Document -------------------------------
(***************************************************************************)
(* What opening a file promises the user of the scene: what is shown is    *)
(* either all of the file or all of what was shown before, never a part,   *)
(* and the undo history goes exactly when the document does.  Only when    *)
(* even putting the old document back fails is the scene left empty.       *)
(***************************************************************************)
EXTENDS Naturals

CONSTANTS Empty, None

VARIABLES
  shown,   \* the document on the screen
  past,    \* the document the undo history leads to, None when it is empty
  asked    \* the document that is being opened, or None

vars == <<shown, past, asked>>

Init == shown = Empty /\ past = None /\ asked = None

Edit == /\ asked = None /\ asked' = None
        /\ past' \in {None, shown'}
        /\ past # None => past' # None

Ask    == asked = None /\ asked' # None /\ UNCHANGED <<shown, past>>
Open   == asked # None /\ shown' = asked /\ past' = None /\ asked' = None
Refuse == asked # None /\ asked' = None /\ UNCHANGED <<shown, past>>
Lose   == asked # None /\ shown' = Empty /\ asked' = None /\ UNCHANGED past

Next == Edit \/ Ask \/ Open \/ Refuse \/ Lose

Spec == Init /\ [][Next]_vars
=============================================================================
