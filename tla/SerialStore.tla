---------------------------- MODULE SerialStore ----------------------------
(***************************************************************************)
(* What the game expects of Database: operations are queued, and each is   *)
(* executed once, at any time later, but after those that were queued      *)
(* before it with the same serial id.  There are no threads and no queues. *)
(***************************************************************************)
EXTENDS Integers, Sequences

CONSTANT Serials   \* the serial ids, 0 for "none"

VARIABLES
    ops,    \* the operations queued so far
    done,   \* those that have been executed
    row     \* the write that each row holds

vars == <<ops, done, row>>

Init == ops = << >> /\ done = {} /\ row = [s \in Serials |-> 0]

Queue ==
    /\ Len(ops') = Len(ops) + 1
    /\ \E s \in Serials, kind \in {"write", "read"} :
          ops' = Append(ops, [serial |-> s, kind |-> kind])
    /\ UNCHANGED <<done, row>>

Before(i) == {j \in DOMAIN ops : j < i /\ ops[j].serial = ops[i].serial}

\* It has its effect, or fails and has none.
Execute(i) ==
    /\ i \notin done /\ done' = done \cup {i}
    /\ ops[i].serial # 0 => Before(i) \subseteq done
    /\ row' \in {row} \cup
         (IF ops[i].kind = "write" THEN {[row EXCEPT ![ops[i].serial] = i]} ELSE {})
    /\ UNCHANGED ops

Next == Queue \/ \E i \in DOMAIN ops : Execute(i)

Spec == Init /\ [][Next]_vars
=============================================================================
