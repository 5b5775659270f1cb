--------------------------- MODULE CommandSchedule ---------------------------
(***************************************************************************)
(* What the queue of the world promises, without a queue shared by the      *)
(* entities and without a sort: every entity has its own first-in-first-out *)
(* line of commands, and a tick takes from the front of every line the      *)
(* commands of that tick, the last one taken being in force afterwards.     *)
(***************************************************************************)
EXTENDS Integers, Sequences

CONSTANTS Entities, Ticks, Numbers, Motions

VARIABLES
    now,      \* current tick
    line,     \* entity |-> its commands, oldest first
    inForce   \* entity |-> last command taken from its line

scheduleVars == <<now, line, inForce>>

Scheduled == [tick : Ticks, number : Numbers, motion : Motions]

Init ==
    /\ now = 0
    /\ line = [e \in {} |-> <<>>]
    /\ inForce = [e \in {} |-> 0]

Enter(e, m) ==
    /\ e \notin DOMAIN line
    /\ line' = [f \in DOMAIN line \cup {e} |->
                    IF f = e THEN <<>> ELSE line[f]]
    /\ inForce' = [f \in DOMAIN line \cup {e} |->
                    IF f = e THEN [number |-> 0, motion |-> m] ELSE inForce[f]]
    /\ UNCHANGED now

(* A command joins the end of its entity's line, behind only older ones.    *)
Join(e, c) ==
    /\ e \in DOMAIN line
    /\ c.tick > now
    /\ c.number > inForce[e].number
    /\ \A i \in DOMAIN line[e] :
          line[e][i].number < c.number /\ line[e][i].tick <= c.tick
    /\ line' = [line EXCEPT ![e] = Append(@, c)]
    /\ UNCHANGED <<now, inForce>>

(* The number of commands at the front of e's line that belong to tick t.   *)
Taken(e, t) ==
    CHOOSE n \in 0 .. Len(line[e]) :
        /\ \A i \in 1 .. n : line[e][i].tick = t
        /\ n < Len(line[e]) => line[e][n + 1].tick # t

PassTick ==
    /\ now' = now + 1
    /\ line' = [e \in DOMAIN line |->
                    SubSeq(line[e], Taken(e, now + 1) + 1, Len(line[e]))]
    /\ inForce' = [e \in DOMAIN line |->
                    IF Taken(e, now + 1) = 0 THEN inForce[e]
                    ELSE LET c == line[e][Taken(e, now + 1)]
                         IN  [number |-> c.number, motion |-> c.motion]]

Next ==
    \/ \E e \in Entities, m \in Motions : Enter(e, m)
    \/ \E e \in Entities, c \in Scheduled : Join(e, c)
    \/ PassTick

Spec == Init /\ [][Next]_scheduleVars
=============================================================================
