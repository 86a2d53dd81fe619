--------------------------------- MODULE Fork ---------------------------------
(***************************************************************************)
(* AgentRuntime.fork: a target branch is started from a point of a source  *)
(* branch's history.  The records the source has of the calls that history *)
(* leaves unanswered are copied into the target's ledger, one call to the  *)
(* store at a time, while the source may still be running; then the target *)
(* runs them through its gates and its journal, which are those of         *)
(* EffectJournal.  An attempt is a call of fork, which may be repeated, or *)
(* an ordinary run of the target.                                          *)
(***************************************************************************)
EXTENDS EffectJournal, Controls

CONSTANT Stages    \* how many gates the host chains

ASSUME ForkConstants ==
    /\ Stages \in Nat
    /\ MaxRuns > 0

VARIABLES
    source,     \* the source ledger's record of each call
    copy,       \* copy[f][c], where fork f is in copying call c
    held,       \* held[f][c], the source record in its hands
    copied,     \* copied[f], the calls whose results it has copied
    placed,     \* placed[f], its transcript branch of the target has the history
    regate,     \* fork(regate=...), which never changes
    gated,      \* gated[a][c], what the policy decided about the call
    inherited   \* the calls any fork has started in the target

copyVars  == <<copy, held, copied, placed, inherited>>
forkVars  == <<source, copyVars, regate, gated>>
allVars   == <<vars, forkVars>>

(* What the source's execution of a call returns: no execution in the target  *)
(* returns it, for the attempts are fewer.                                    *)
SourceResult == MaxRuns

Absent == [status |-> "absent", value |-> NoValue]

SourceRecords == {Absent} \cup [status : {"running", "ready"}, value : {NoValue}]
                          \cup [status : {"done"}, value : {SourceResult}]

ForkTypeOK ==
    /\ TypeOK
    /\ source \in [ToolKeys -> SourceRecords]
    /\ copy \in [Attempts -> [ToolKeys -> {"todo", "read", "started", "over"}]]
    /\ held \in [Attempts -> [ToolKeys -> SourceRecords]]
    /\ copied \in [Attempts -> SUBSET ToolKeys]
    /\ placed \in [Attempts -> BOOLEAN]
    /\ regate \in BOOLEAN
    /\ gated \in [Attempts -> [ToolKeys -> ToolDecisions \cup {"unasked", "bypassed"}]]
    /\ inherited \in SUBSET ToolKeys

ForkInit ==
    /\ Init
    /\ source = [c \in ToolKeys |-> Absent]
    /\ copy = [f \in Attempts |-> [c \in ToolKeys |-> "todo"]]
    /\ held = [f \in Attempts |-> [c \in ToolKeys |-> Absent]]
    /\ copied = [f \in Attempts |-> {}]
    /\ placed = [f \in Attempts |-> FALSE]
    /\ regate \in BOOLEAN
    /\ gated = [a \in Attempts |-> [c \in ToolKeys |-> "unasked"]]
    /\ inherited = {}

-----------------------------------------------------------------------------
(* The source branch runs on: its journal starts, forgets and finishes the    *)
(* call, or a host grants its retry.  Its steps matter, and are taken, only   *)
(* while a fork may still read the record.                                    *)

SourceMoves(c, status) ==
    source' = [source EXCEPT ![c] = [status |-> status,
                                     value  |-> IF status = "done" THEN SourceResult ELSE NoValue]]

SourceStep(c) ==
    /\ \E f \in Attempts : phase[f] \in {"new", "open"} /\ copy[f][c] = "todo"
    /\ \/ source[c].status \in {"absent", "ready"} /\ SourceMoves(c, "running")
       \/ source[c].status = "running" /\ \E s \in {"absent", "ready", "done"} : SourceMoves(c, s)
    /\ UNCHANGED <<vars, copyVars, regate, gated>>

-----------------------------------------------------------------------------
(* The copy, under the target's lease *)

CopyGoto(f, c, p) == copy' = [copy EXCEPT ![f][c] = p]

(* One call after the other. *)
Copying(f, c, p) ==
    /\ phase[f] = "open"
    /\ copy[f][c] = p
    /\ \A d \in ToolKeys \ {c} : copy[f][d] \in {"todo", "over"}

Copied(f, c) ==
    /\ CopyGoto(f, c, "over")
    /\ held' = [held EXCEPT ![f][c] = Absent]

(* What the source never began is left to run fresh. *)
CopyRead(f, c) ==
    /\ Copying(f, c, "todo")
    /\ IF source[c].status = "absent"
         THEN Copied(f, c)
         ELSE held' = [held EXCEPT ![f][c] = source[c]] /\ CopyGoto(f, c, "read")
    /\ UNCHANGED <<vars, source, copied, placed, regate, gated, inherited>>

(* Fault: a call the source has not finished is left to run fresh. *)
CopyFinishedOnly(f, c) ==
    /\ Copying(f, c, "read")
    /\ Fence(tok[f])
    /\ inherited' = inherited \cup {c}
    /\ IF StartGranted(c) /\ held[f][c].status = "done"
         THEN Start(c, tok[f]) /\ CopyGoto(f, c, "started") /\ UNCHANGED held
         ELSE Copied(f, c) /\ UNCHANGED ledgerVars
    /\ UNCHANGED <<journalVars, source, copied, placed, regate, gated>>

(* Everything else is started in the target, but a record the target has      *)
(* already is left alone.  Only a finished one goes on to be settled.         *)
CopyStart(f, c) ==
    /\ Copying(f, c, "read")
    /\ Fence(tok[f])
    /\ IF StartGranted(c)
         THEN /\ Start(c, tok[f])
              /\ inherited' = inherited \cup {c}
              /\ IF held[f][c].status = "done" THEN CopyGoto(f, c, "started") /\ UNCHANGED held
                                               ELSE Copied(f, c)
         ELSE Copied(f, c) /\ UNCHANGED <<ledgerVars, inherited>>
    /\ UNCHANGED <<journalVars, source, copied, placed, regate, gated>>

CopyFinish(f, c) ==
    /\ Copying(f, c, "started")
    /\ FinishEffect(c, held[f][c].value, tok[f])
    /\ copied' = [copied EXCEPT ![f] = @ \cup {c}]
    /\ Copied(f, c)
    /\ UNCHANGED <<journalVars, source, placed, regate, gated, inherited>>

(* The store raises Fenced. *)
CopyRefused(f, c) ==
    /\ Copying(f, c, "read") \/ Copying(f, c, "started")
    /\ ~Fence(tok[f])
    /\ Raise(f)
    /\ UNCHANGED <<ledgerVars, tok, lapsed, callVars, worldVars, verdict, retry,
                   controlled, forkVars>>

(* _attempt moves the target's branch to the history; from then on a run of   *)
(* the target finds it.                                                       *)
Place(f) ==
    /\ phase[f] = "open"
    /\ ~placed[f]
    /\ \A c \in ToolKeys : copy[f][c] = "over"
    /\ placed' = [placed EXCEPT ![f] = TRUE]
    /\ UNCHANGED <<vars, source, copy, held, copied, regate, gated, inherited>>

-----------------------------------------------------------------------------
(* The target's round *)

Driving(a) == phase[a] = "open" /\ placed[a]

(* Only this attempt's own copies are gated again. *)
Regated(a, c) == regate /\ c \in copied[a]

(* Fault: a record that is not finished bypasses the gate. *)
RecordedIfStarted(c) == entries[c].status \in {"running", "done"}

(* EffectJournal.recorded *)
Recorded(c) == entries[c].status = "done"

(* PolicyRunner.decide_tool.  A denial is the call's result; a suspension     *)
(* ends the call here.  What becomes of the calls behind a suspended one is   *)
(* modelled in Suspension.                                                    *)
DecideTool(a, c) ==
    /\ Driving(a)
    /\ pc[a][c] = "read"
    /\ gated[a][c] = "unasked"
    /\ \E stages \in [1..Stages -> ToolDecisions] :
         LET decision == IF Recorded(c) /\ ~Regated(a, c) THEN "bypassed"
                                                          ELSE Permissions(stages)
         IN  /\ gated' = [gated EXCEPT ![a][c] = decision]
             /\ IF decision \in {"deny", "suspend"} THEN Goto(a, c, "end") ELSE UNCHANGED pc
    /\ UNCHANGED <<ledgerVars, scopeVars, result, shown, worldVars, verdict, retry,
                   controlled, source, copyVars, regate>>

PassedGate(a, c) == c \in ToolKeys => gated[a][c] \in {"continue", "bypassed"}

GatedCall(a, c) ==
    /\ Driving(a)
    /\ PassedGate(a, c)
    /\ CallStep(a, c)
    /\ UNCHANGED forkVars

-----------------------------------------------------------------------------
(* A run finds the history in the target once a fork has placed it, and has   *)
(* nothing to copy.                                                           *)
BeginRun(a) ==
    /\ \E f \in Attempts : placed[f]
    /\ Begin(a)
    /\ copy' = [copy EXCEPT ![a] = [c \in ToolKeys |-> "over"]]
    /\ placed' = [placed EXCEPT ![a] = TRUE]
    /\ UNCHANGED <<source, held, copied, regate, gated, inherited>>

ScopeStep(o) ==
    /\ Begin(o) \/ Renew(o) \/ Unwind(o) \/ Interrupt(o) \/ Crash(o)
    /\ UNCHANGED forkVars

CopyStep(f, c) == CopyRead(f, c) \/ CopyStart(f, c) \/ CopyFinish(f, c) \/ CopyRefused(f, c)

ForkNext ==
    \/ \E o \in Owners : ScopeStep(o)
    \/ \E f \in Attempts : BeginRun(f) \/ Place(f) \/ \E c \in ToolKeys : CopyStep(f, c)
    \/ \E a \in Attempts, c \in ToolKeys : DecideTool(a, c)
    \/ \E a \in Attempts, c \in EffectKeys : GatedCall(a, c)
    \/ \E a \in Attempts, c \in EffectKeys : ProviderAnswersLate(a, c) /\ UNCHANGED forkVars
    \/ Lapse /\ UNCHANGED forkVars
    \/ \E c \in ToolKeys : SourceStep(c)

ForkSpec == ForkInit /\ [][ForkNext]_allVars

(* The event loop runs every ready coroutine, and handlers, hooks, gates and  *)
(* the store eventually answer or raise.  Nothing makes a scope begin, renew, *)
(* crash or be interrupted, and of the source nothing is assumed.             *)
ForkFairness ==
    /\ \A f \in Attempts : WF_allVars(Place(f) \/ \E c \in ToolKeys : CopyStep(f, c))
    /\ \A a \in Attempts, c \in ToolKeys : WF_allVars(DecideTool(a, c) \/ GatedCall(a, c))
    /\ \A o \in Owners : WF_allVars(Unwind(o) /\ UNCHANGED forkVars)

ForkFairSpec == ForkSpec /\ ForkFairness

-----------------------------------------------------------------------------
(* Properties *)

(* What the source finished or left in doubt, at the moment it was read, the  *)
(* target never executes, unless retrying was asked for: not after a fork     *)
(* that died between the start and the end of a copy, not after a repeated    *)
(* fork, and not on a retry that was granted to the source.                   *)
InheritedNotRepeated == ~retry => \A c \in inherited : ran[c] = 0

(* A call that bypassed the gate, because a record of it was seen, is never   *)
(* executed by that attempt, though the journal reads the record again later. *)
UngatedNeverRuns ==
    \A a \in Attempts, c \in ToolKeys :
        pc[a][c] \in InFlight \cup {"forget", "start"} => gated[a][c] = "continue"

=============================================================================
