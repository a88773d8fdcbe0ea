------------------------------- MODULE EventLog -------------------------------
(***************************************************************************)
(* What a scheduler queue promises: a log of events.  Signalling an event  *)
(* appends it, and every reader takes the events one by one in the order   *)
(* of the log, none left out and none repeated.                            *)
(***************************************************************************)
EXTENDS Integers, Sequences

CONSTANTS Reader, EventId

VARIABLES log,     \* the events signalled
          taken    \* for each reader, the events it has taken

logVars == << log, taken >>

Init == /\ log = << >>
        /\ taken = [r \in Reader |-> << >>]

Signal(e) == /\ log' = Append(log, e)
             /\ UNCHANGED taken

Take(r) == /\ Len(taken[r]) < Len(log)
           /\ taken' = [taken EXCEPT ![r] = Append(@, log[Len(@) + 1])]
           /\ UNCHANGED log

Next == \/ \E e \in EventId : Signal(e)
        \/ \E r \in Reader : Take(r)

Spec == Init /\ [][Next]_logVars
=============================================================================
