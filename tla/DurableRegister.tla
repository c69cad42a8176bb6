-------------------------- MODULE DurableRegister --------------------------
(***************************************************************************)
(* What checkpoints are for: a register with the last step published.  A   *)
(* run starts from it, works step by step, publishes the step it has       *)
(* reached and may die at any moment, in which case it loses no more than  *)
(* the work done since.                                                    *)
(***************************************************************************)
EXTENDS Integers

CONSTANT MaxSteps

VARIABLES
    value,      \* the step published last
    runner      \* the step the run has reached, Down when there is no run

vars == <<value, runner>>

Down == -1

Init == value = 0 /\ runner = Down

Start == runner = Down /\ runner' = value /\ UNCHANGED value

Work ==
    /\ runner # Down /\ runner < MaxSteps
    /\ runner' = runner + 1 /\ UNCHANGED value

Publish == runner > value /\ value' = runner /\ UNCHANGED runner

Stop == runner # Down /\ runner' = Down /\ UNCHANGED value

Next == Start \/ Work \/ Publish \/ Stop

Spec == Init /\ [][Next]_vars
=============================================================================
