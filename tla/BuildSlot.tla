------------------------------ MODULE BuildSlot ------------------------------
(***************************************************************************)
(* What tarsimage promises its users about one TImage object: builds take  *)
(* turns in the build slot, each turn ends with a failure, or with a new   *)
(* release in front of the earlier ones, and nothing else touches the      *)
(* releases.                                                               *)
(***************************************************************************)
EXTENDS Sequences

CONSTANTS Task, None

VARIABLES holder, releases

slotVars == <<holder, releases>>

Acquire(t) ==
    /\ holder = None
    /\ holder' = t
    /\ UNCHANGED releases

Fail ==
    /\ holder # None
    /\ holder' = None
    /\ UNCHANGED releases

Succeed ==
    /\ holder # None
    /\ holder' = None
    /\ releases' = <<holder>> \o releases

SlotInit == holder = None /\ releases = <<>>

SlotNext == (\E t \in Task : Acquire(t)) \/ Fail \/ Succeed

SlotSpec == SlotInit /\ [][SlotNext]_slotVars
=============================================================================
