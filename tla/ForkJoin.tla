------------------------------ MODULE ForkJoin ------------------------------
(***************************************************************************)
(* What a caller of ThreadPool::processWorkload expects, with no threads:  *)
(* a call is given a set of tasks that have never run, each of them runs   *)
(* once, and the call returns when all have run.                           *)
(***************************************************************************)
EXTENDS Naturals

CONSTANT Tasks

VARIABLES
    inside,  \* the owner is between processWorkload and the end of wait()
    todo,    \* tasks of the current call that have not run
    ran      \* how often each task has run

vars == <<inside, todo, ran>>

Init == inside = FALSE /\ todo = {} /\ ran = [t \in Tasks |-> 0]

Call(S) ==
    /\ ~inside /\ S # {} /\ \A t \in S : ran[t] = 0
    /\ inside' = TRUE
    /\ todo' = S
    /\ UNCHANGED ran

Execute(t) ==
    /\ inside /\ t \in todo
    /\ todo' = todo \ {t}
    /\ ran' = [ran EXCEPT ![t] = @ + 1]
    /\ UNCHANGED inside

Return ==
    /\ inside /\ todo = {}
    /\ inside' = FALSE
    /\ UNCHANGED <<todo, ran>>

Next ==
    \/ \E S \in SUBSET Tasks : Call(S)
    \/ \E t \in Tasks : Execute(t)
    \/ Return

\* A call that was made makes progress until it returns.
Spec == Init /\ [][Next]_vars /\ WF_vars(Return \/ \E t \in Tasks : Execute(t))
=============================================================================
