--------------------------- MODULE FirmwareStore ---------------------------
(***************************************************************************)
(* What the bootloader promises: one firmware is installed, a commit       *)
(* replaces it by another complete one or not at all, and nothing but the  *)
(* installed firmware ever runs.  Only a commit that is cut short breaks   *)
(* the promise, and then firmware is lost, never mixed.                    *)
(***************************************************************************)
CONSTANTS
  Images,
  NoImage,     \* none of them
  MayBeCut     \* whether power or flash may fail inside a commit

VARIABLES
  installed, running,
  phase        \* "whole", "changing" from a commit to its end, "torn" by one

Init == installed = NoImage /\ running = NoImage /\ phase = "whole"

\* A complete transfer, while no firmware runs: it takes effect in one step.
Begin ==
  /\ running = NoImage /\ phase # "changing"
  /\ phase' = "changing"
  /\ UNCHANGED <<installed, running>>

Install(img) ==
  /\ running = NoImage /\ phase = "changing"
  /\ installed' = img
  /\ UNCHANGED <<running, phase>>

\* The commit ends when the new firmware starts, or a reset comes first.
Finish ==
  /\ phase = "changing" /\ installed # NoImage
  /\ phase' = "whole" /\ running' \in {installed, NoImage}
  /\ UNCHANGED installed

\* The commit stops in the middle: what was installed stays or is lost.
Cut ==
  /\ MayBeCut /\ phase = "changing"
  /\ installed' \in {installed, NoImage}
  /\ phase' \in {"whole", "torn"}
  /\ UNCHANGED running

\* After a torn commit the next session may write over what is certified, or
\* bring it back.
Overwrite ==
  /\ running = NoImage /\ phase = "torn"
  /\ installed' \in Images \cup {NoImage}
  /\ UNCHANGED <<running, phase>>

Start ==
  /\ running = NoImage /\ installed # NoImage /\ phase # "changing"
  /\ running' = installed
  /\ UNCHANGED <<installed, phase>>

\* A reset of any cause.
Stop ==
  /\ running' = NoImage
  /\ UNCHANGED <<installed, phase>>

Next ==
  \/ Begin \/ (\E img \in Images : Install(img)) \/ Finish \/ Cut
  \/ Overwrite \/ Start \/ Stop

Spec == Init /\ [][Next]_<<installed, running, phase>>
=============================================================================
