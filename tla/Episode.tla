------------------------------- MODULE Episode -------------------------------
(***************************************************************************)
(* What a rollout is of one sample: the model and the environment take     *)
(* turns.  Every answer is the sample's own and earns one reward of the    *)
(* environment for it, and the messages stay within the maximum length.    *)
(***************************************************************************)
EXTENDS Naturals, Sequences

CONSTANTS Sample, MaxSeqLen, MaxTurns

VARIABLES
    length,     \* tokens of the messages
    answers,    \* the answers <<of whom, at which turn>>
    earned,     \* the rewards, in the same way
    status      \* "asking", "answered", "over"

vars == <<length, answers, earned, status>>

Init ==
    /\ length \in 1..MaxSeqLen
    /\ answers = <<>>
    /\ earned = <<>>
    /\ status = "asking"

Grows == length' \in length..MaxSeqLen

Answer ==
    /\ status = "asking"
    /\ Len(answers) < MaxTurns
    /\ Grows
    /\ answers' = Append(answers, <<Sample, Len(answers) + 1>>)
    /\ status' = "answered"
    /\ UNCHANGED earned

\* A full log, or the last turn, ends the episode.
Feedback ==
    /\ status = "answered"
    /\ Grows
    /\ earned' = Append(earned, <<Sample, Len(answers)>>)
    /\ status' \in {"asking", "over"}
    /\ status' = "asking" => length' < MaxSeqLen /\ Len(answers) < MaxTurns
    /\ UNCHANGED answers

\* A fault ends it with what it has.
GiveUp ==
    /\ status # "over"
    /\ status' = "over"
    /\ UNCHANGED <<length, answers, earned>>

Next == Answer \/ Feedback \/ GiveUp

Spec == Init /\ [][Next]_vars
=============================================================================
