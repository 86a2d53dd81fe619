------------------------------ MODULE EffectOnce ------------------------------
(***************************************************************************)
(* What durable tool calls promise an agent, whatever happens to the       *)
(* workers that carry them out: an effect happens once, its result is      *)
(* settled once, what post-tool policy makes of it is recorded once, in    *)
(* this order, and none of it ever changes.                                *)
(***************************************************************************)
EXTENDS Integers

CONSTANTS
    Calls,
    Projections,   \* what policy can make of a result
    NoValue        \* nothing yet; not a member of Projections

VARIABLES
    performed,   \* how often the effect of a call happened
    answer,      \* its settled result: the number of the execution it came from
    projection   \* the recorded projection of that result

onceVars == <<performed, answer, projection>>

OnceInit ==
    /\ performed = [c \in Calls |-> 0]
    /\ answer = [c \in Calls |-> NoValue]
    /\ projection = [c \in Calls |-> NoValue]

Happen(c) ==
    /\ performed[c] = 0
    /\ performed' = [performed EXCEPT ![c] = 1]
    /\ UNCHANGED <<answer, projection>>

Settle(c) ==
    /\ performed[c] = 1
    /\ answer[c] = NoValue
    /\ answer' = [answer EXCEPT ![c] = 1]
    /\ UNCHANGED <<performed, projection>>

Project(c) ==
    /\ answer[c] # NoValue
    /\ projection[c] = NoValue
    /\ \E v \in Projections : projection' = [projection EXCEPT ![c] = v]
    /\ UNCHANGED <<performed, answer>>

OnceNext == \E c \in Calls : Happen(c) \/ Settle(c) \/ Project(c)

OnceSpec == OnceInit /\ [][OnceNext]_onceVars

=============================================================================
