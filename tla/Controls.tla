------------------------------- MODULE Controls -------------------------------
(***************************************************************************)
(* The composition rules of the host's control points (semora.controls).   *)
(* A stage is what one host function decides; a control is a sequence of   *)
(* stages and yields one decision.                                         *)
(***************************************************************************)
EXTENDS Integers, FiniteSets

ToolDecisions == {"continue", "deny", "suspend"}

TurnDecisions == {"proceed", "halt"}

(* Permissions: any denial denies, else any suspension suspends; a stage that *)
(* allows does not keep the others from being asked.                          *)
Permissions(stages) ==
    IF \E n \in DOMAIN stages : stages[n] = "deny" THEN "deny"
    ELSE IF \E n \in DOMAIN stages : stages[n] = "suspend" THEN "suspend"
    ELSE "continue"

(* Steering: any source may halt the turn. *)
Steering(sources) ==
    IF \E n \in DOMAIN sources : sources[n] = "halt" THEN "halt" ELSE "proceed"

(* FinishPolicy: any gate may keep the run going. *)
FinishPolicy(gates) ==
    IF \E n \in DOMAIN gates : gates[n] = "proceed" THEN "proceed" ELSE "halt"

(* A screen halts the turn, or removes parts of the request and queued inputs, *)
(* which it is given by their places.                                          *)
Halting == [halt |-> TRUE, parts |-> {}, queued |-> {}]

Removing(parts, queued) == [halt |-> FALSE, parts |-> parts, queued |-> queued]

Halts(screens) == \E n \in DOMAIN screens : screens[n].halt

(* The numbers of a finite set, the least one first. *)
Ascending(S) ==
    CHOOSE s \in [1..Cardinality(S) -> S] : \A m, n \in DOMAIN s : m < n => s[m] < s[n]

(* The items that are at none of the places, in their order. *)
Without(items, places) ==
    LET left == Ascending(DOMAIN items \ places)
    IN  [n \in DOMAIN left |-> items[left[n]]]

PartsRemoved(screens) == UNION {screens[n].parts : n \in DOMAIN screens}

QueuedRemoved(screens) == UNION {screens[n].queued : n \in DOMAIN screens}

(* Ingress: each screen sees what the previous one left, so an item stays that *)
(* none of them removes.                                                       *)
Ingress(screens, parts, queued) ==
    [parts  |-> Without(parts, PartsRemoved(screens)),
     queued |-> Without(queued, QueuedRemoved(screens))]

=============================================================================
