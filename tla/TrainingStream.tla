--------------------------- MODULE TrainingStream ---------------------------
(***************************************************************************)
(* What a training job promises about its data, whichever algorithm it     *)
(* runs and however often it is killed: the weights at hand have learned   *)
(* from a prefix of one stream of prompts, in order; what is durable is    *)
(* such a prefix too, it only grows, and a restart begins at it.           *)
(*                                                                         *)
(* A selective job (dynamic sampling) may leave prompts of the stream out. *)
(***************************************************************************)
EXTENDS Naturals, Sequences

CONSTANT GroupSize          \* prompts of one update

VARIABLES learned,          \* the prompts the weights have learned from
          durable,          \* the same, for the weights a restart begins with
          selective         \* whether prompts may be left out

streamVars == <<learned, durable, selective>>

Ascending(s) == \A i, j \in DOMAIN s : i < j => s[i] < s[j]

Unbroken(s) == \A i \in DOMAIN s : s[i] = i

Init ==
    /\ learned = <<>>
    /\ durable = <<>>
    /\ selective \in BOOLEAN

\* One update: a whole group is added, later in the stream than what was
\* learned before, and without a gap unless the job is selective.
Update ==
    /\ Len(learned') = Len(learned) + GroupSize
    /\ SubSeq(learned', 1, Len(learned)) = learned
    /\ Ascending(learned')
    /\ selective \/ Unbroken(learned')
    /\ UNCHANGED <<durable, selective>>

Persist ==
    /\ durable' = learned
    /\ UNCHANGED <<learned, selective>>

Restart ==
    /\ learned' = durable
    /\ UNCHANGED <<durable, selective>>

Next == Update \/ Persist \/ Restart

Spec == Init /\ [][Next]_streamVars
=============================================================================
