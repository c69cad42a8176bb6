------------------------------ MODULE MCRollouts ------------------------------
\* Instances of Rollouts: three samples of two tasks, in one or two threads.
EXTENDS Rollouts

\* The third prompt fills the context.
Prompts == {<<1, 1, 5>>}

TwoTasks == <<"a", "b", "a">>
OneThread == <<1, 1, 1>>
TwoThreads == <<1, 2, 2>>
=============================================================================
