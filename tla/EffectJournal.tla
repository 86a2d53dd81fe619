---------------------------- MODULE EffectJournal ----------------------------
(***************************************************************************)
(* Attempts on one branch and the journal through which they run effects   *)
(* (semora.journal, the lease scope of semora.runtime, the reconciliation  *)
(* of unfinished effects), over the store of StepLedger.                   *)
(*                                                                         *)
(* An attempt is one lease scope: it has its own owner id and is used      *)
(* once.  It replays a round of calls, which run concurrently: pc[a][c] is *)
(* where attempt a is in call c.  Every await of the code is a boundary    *)
(* between two actions.  Attempts crash, are cancelled, and stall past     *)
(* their lease while others take it over.                                  *)
(***************************************************************************)
EXTENDS StepLedger

CONSTANTS
    Attempts,       \* lease scopes that run the agent
    ControlChoices, \* which attempts may be given controls: sets of attempts
    Hosts,          \* lease scopes that deliver a reconciliation decision
    ToolKeys,       \* tool effects
    ModelKeys,      \* model effects
    AfterKey,       \* the key of a tool effect's projection marker
    Rounds,         \* the rounds of calls that attempts may have to finish
    MaxRuns,        \* bound on the executions of one effect and of one hook
    MaxToken        \* bound on the tokens a stalled attempt's renewals consume

ASSUME JournalConstants ==
    /\ Owners = Attempts \cup Hosts
    /\ Attempts \cap Hosts = {}
    /\ ControlChoices \subseteq SUBSET Attempts
    /\ EffectKeys = ToolKeys \cup ModelKeys
    /\ ToolKeys \cap ModelKeys = {}
    /\ AfterKey \in [ToolKeys -> ControlKeys]
    /\ \A c, d \in ToolKeys : AfterKey[c] = AfterKey[d] => c = d
    /\ Rounds \subseteq SUBSET EffectKeys
    /\ MaxRuns \in Nat
    /\ Values = 1..2 * MaxRuns

VARIABLES
    phase,       \* of each lease scope: "new", "open", "leaving", "over"
    tok,         \* the fencing token it was given
    lapsed,      \* whether its lease ever ran out while it was open
    pc,          \* pc[a][c], the call's control point
    result,      \* result[a][c], the value in the call's hands
    shown,       \* shown[a][c], what the call returned to the agent
    ran,         \* how often the effect happened in the outside world
    hooks,       \* how often the post-tool hook ran
    verdict,     \* verdict[h], the decision a host delivers
    retry,       \* AgentRuntime(retry_running=...), which never changes
    controlled   \* the attempts that were given controls, which never changes

scopeVars   == <<phase, tok, lapsed>>
callVars    == <<pc, result, shown>>
worldVars   == <<ran, hooks>>
journalVars == <<scopeVars, callVars, worldVars, verdict, retry, controlled>>
vars        == <<ledgerVars, journalVars>>

(* The n-th execution of an effect returns n, the n-th run of its post-tool  *)
(* hook leaves MaxRuns + n: no two of these values are equal, so a result is *)
(* told from what a hook made of it.                                         *)
Result == Values \cup {NoValue}

ControlPoints ==
    {"read", "forget", "start", "running", "applied", "drop",
     "project", "hook", "mark", "end", "outstanding"}

(* The effect was asked for and its intent is not settled yet. *)
InFlight == {"running", "applied", "drop", "outstanding"}

Verdicts == [id : DecisionIds, payload : Resolutions]

TypeOK ==
    /\ LedgerTypeOK
    /\ phase \in [Owners -> {"new", "open", "leaving", "over"}]
    /\ tok \in [Owners -> Nat]
    /\ lapsed \in [Owners -> BOOLEAN]
    /\ pc \in [Attempts -> [EffectKeys -> ControlPoints]]
    /\ result \in [Attempts -> [EffectKeys -> Result]]
    /\ shown \in [Attempts -> [EffectKeys -> Result]]
    /\ ran \in [EffectKeys -> 0..MaxRuns]
    /\ hooks \in [ToolKeys -> 0..MaxRuns]
    /\ verdict \in [Hosts -> Verdicts \cup {NoDecision}]
    /\ retry \in BOOLEAN
    /\ controlled \in SUBSET Attempts

Init ==
    /\ LedgerInit
    /\ phase = [o \in Owners |-> "new"]
    /\ tok = [o \in Owners |-> 0]
    /\ lapsed = [o \in Owners |-> FALSE]
    /\ \E round \in Rounds :
         pc = [a \in Attempts |-> [c \in EffectKeys |-> IF c \in round THEN "read" ELSE "end"]]
    /\ result = [a \in Attempts |-> [c \in EffectKeys |-> NoValue]]
    /\ shown = [a \in Attempts |-> [c \in EffectKeys |-> NoValue]]
    /\ ran = [c \in EffectKeys |-> 0]
    /\ hooks = [c \in ToolKeys |-> 0]
    /\ verdict = [h \in Hosts |-> NoDecision]
    /\ retry \in BOOLEAN
    /\ controlled \in ControlChoices

-----------------------------------------------------------------------------
(* The lease scope *)

(* acquire answers a token, and the scope opens.  When it answers 0 the      *)
(* caller gets Contended and no state changes.                               *)
Begin(o) ==
    /\ phase[o] = "new"
    /\ o \in Hosts => verdict[o] # NoDecision
    /\ Acquire(o)
    /\ tok' = [tok EXCEPT ![o] = lease'.token]
    /\ phase' = [phase EXCEPT ![o] = "open"]
    /\ UNCHANGED <<lapsed, callVars, worldVars, verdict, retry, controlled>>

(* The renewal task.  Its answer is ignored: a scope that lost its lease     *)
(* goes on, and may even take the lease again under a token it never uses.   *)
Renew(o) ==
    /\ phase[o] = "open"
    /\ tokens < MaxToken \/ lease.owner = o
    /\ Acquire(o)
    /\ UNCHANGED journalVars

(* The TTL passes, because renewals are late or the owner is gone. *)
Lapse ==
    /\ Expire
    /\ lapsed' = [o \in Owners |-> lapsed[o] \/ (o = lease.owner /\ phase[o] = "open")]
    /\ UNCHANGED <<phase, tok, callVars, worldVars, verdict, retry, controlled>>

(* The coroutines of an attempt are gone; a provider may still carry out the *)
(* request one of them sent.                                                 *)
Stopped(o) ==
    pc' = [a \in Attempts |-> [c \in EffectKeys |->
             IF a # o THEN pc[a][c]
             ELSE IF pc[a][c] \in {"running", "outstanding"} THEN "outstanding" ELSE "end"]]

RoundEnded(o) == o \in Attempts /\ \A c \in EffectKeys : pc[o][c] = "end"

(* A scope is left when its round has ended or an exception ends it, and the *)
(* lease is released if the scope still owns it.                             *)
Unwind(o) ==
    /\ \/ phase[o] = "leaving"
       \/ phase[o] = "open" /\ RoundEnded(o)
    /\ Release(o)
    /\ phase' = [phase EXCEPT ![o] = "over"]
    /\ Stopped(o)
    /\ UNCHANGED <<tok, lapsed, result, shown, worldVars, verdict, retry, controlled>>

(* A cancellation, or an exception from outside the store, ends the scope. *)
Interrupt(o) ==
    /\ phase[o] = "open"
    /\ phase' = [phase EXCEPT ![o] = "leaving"]
    /\ UNCHANGED <<ledgerVars, tok, lapsed, callVars, worldVars, verdict, retry, controlled>>

(* The process dies: nothing is released. *)
Crash(o) ==
    /\ phase[o] \in {"open", "leaving"}
    /\ phase' = [phase EXCEPT ![o] = "over"]
    /\ Stopped(o)
    /\ UNCHANGED <<ledgerVars, tok, lapsed, result, shown, worldVars, verdict, retry, controlled>>

-----------------------------------------------------------------------------
(* One call of an attempt: EffectJournal.model, .tool and .project_once *)

At(a, c, p) == phase[a] = "open" /\ pc[a][c] = p

Goto(a, c, p) == pc' = [pc EXCEPT ![a][c] = p]

Raise(a) == phase' = [phase EXCEPT ![a] = "leaving"]

(* The record's value is in the call's hands.  A model response is returned  *)
(* as it is; a tool result goes on to its post-tool projection.              *)
Obtain(a, c, v) ==
    /\ result' = [result EXCEPT ![a][c] = v]
    /\ IF c \in ToolKeys
         THEN Goto(a, c, "project") /\ UNCHANGED shown
         ELSE Goto(a, c, "end") /\ shown' = [shown EXCEPT ![a][c] = v]

(* Fault: an unfinished intent is taken for an unstarted one. *)
ReadIgnoresRunning(a, c) ==
    /\ At(a, c, "read")
    /\ IF entries[c].status = "done"
         THEN Obtain(a, c, entries[c].value) /\ UNCHANGED phase
         ELSE Goto(a, c, "forget") /\ UNCHANGED <<phase, result, shown>>
    /\ UNCHANGED <<ledgerVars, tok, lapsed, worldVars, verdict, retry, controlled>>

(* Fault: an unfinished intent is waited for. *)
ReadWaitsForRunning(a, c) ==
    /\ At(a, c, "read")
    /\ \/ /\ entries[c].status = "done"
          /\ Obtain(a, c, entries[c].value)
       \/ /\ entries[c].status \in {"absent", "ready"}
          /\ Goto(a, c, "start")
          /\ UNCHANGED <<result, shown>>
    /\ UNCHANGED <<ledgerVars, phase, tok, lapsed, worldVars, verdict, retry, controlled>>

(* Replay a settled effect, start an unstarted one, and never guess about an *)
(* unfinished one unless retrying was asked for.                             *)
Read(a, c) ==
    /\ At(a, c, "read")
    /\ \/ /\ entries[c].status = "done"
          /\ Obtain(a, c, entries[c].value)
          /\ UNCHANGED phase
       \/ /\ entries[c].status \in {"absent", "ready"}
          /\ Goto(a, c, "start")
          /\ UNCHANGED <<phase, result, shown>>
       \/ /\ entries[c].status = "running"
          /\ IF retry THEN Goto(a, c, "forget") /\ UNCHANGED phase
                             ELSE Raise(a) /\ UNCHANGED pc      \* Indeterminate
          /\ UNCHANGED <<result, shown>>
    /\ UNCHANGED <<ledgerVars, tok, lapsed, worldVars, verdict, retry, controlled>>

(* Fault: the row is deleted, and its version with it. *)
DeleteIntent(a, c) ==
    /\ At(a, c, "forget")
    /\ Fence(tok[a])
    /\ entries' = [entries EXCEPT ![c] = [status |-> "absent", value |-> NoValue, version |-> 0]]
    /\ Goto(a, c, "start")
    /\ UNCHANGED <<decisions, leaseVars, queueVars, scopeVars, result, shown, worldVars, verdict,
                   retry, controlled>>

ForgetIntent(a, c) ==
    /\ At(a, c, "forget")
    /\ Forget(c, tok[a])
    /\ Goto(a, c, "start")
    /\ UNCHANGED <<scopeVars, result, shown, worldVars, verdict, retry, controlled>>

StartIntent(a, c) ==
    /\ At(a, c, "start")
    /\ Start(c, tok[a])
    /\ Goto(a, c, "running")
    /\ UNCHANGED <<scopeVars, result, shown, worldVars, verdict, retry, controlled>>

(* The handler: the effect happens in the outside world and it returns. *)
Perform(a, c) ==
    /\ At(a, c, "running")
    /\ ran[c] < MaxRuns
    /\ ran' = [ran EXCEPT ![c] = @ + 1]
    /\ result' = [result EXCEPT ![a][c] = ran[c] + 1]
    /\ Goto(a, c, "applied")
    /\ UNCHANGED <<ledgerVars, scopeVars, shown, hooks, verdict, retry, controlled>>

(* A tool signals that nothing has happened, or a model request fails, which *)
(* it may do after the provider has carried it out.                          *)
HandlerRaises(a, c) ==
    /\ \/ At(a, c, "running")
       \/ At(a, c, "applied") /\ c \in ModelKeys
    /\ Goto(a, c, "drop")
    /\ UNCHANGED <<ledgerVars, scopeVars, result, shown, worldVars, verdict, retry, controlled>>

DropIntent(a, c) ==
    /\ At(a, c, "drop")
    /\ Forget(c, tok[a])
    /\ Goto(a, c, "end")
    /\ IF c \in ToolKeys THEN UNCHANGED phase ELSE Raise(a)
    /\ UNCHANGED <<tok, lapsed, result, shown, worldVars, verdict, retry, controlled>>

CommitResult(a, c) ==
    /\ At(a, c, "applied")
    /\ FinishEffect(c, result[a][c], tok[a])
    /\ Obtain(a, c, result[a][c])
    /\ UNCHANGED <<scopeVars, worldVars, verdict, retry, controlled>>

(* The provider carries out, or never carries out, a request whose attempt   *)
(* is gone.                                                                  *)
ProviderAnswersLate(a, c) ==
    /\ pc[a][c] = "outstanding"
    /\ \/ /\ ran[c] < MaxRuns
          /\ ran' = [ran EXCEPT ![c] = @ + 1]
       \/ UNCHANGED ran
    /\ Goto(a, c, "end")
    /\ UNCHANGED <<ledgerVars, scopeVars, result, shown, hooks, verdict, retry, controlled>>

(* Fault: the marker is read only when there are controls to replay. *)
ProjectOnlyControlled(a, c) ==
    /\ At(a, c, "project")
    /\ IF a \in controlled
         THEN \/ /\ entries[AfterKey[c]].status = "done"
                 /\ shown' = [shown EXCEPT ![a][c] = entries[AfterKey[c]].value]
                 /\ Goto(a, c, "end")
              \/ /\ entries[AfterKey[c]].status # "done"
                 /\ Goto(a, c, "hook")
                 /\ UNCHANGED shown
         ELSE shown' = [shown EXCEPT ![a][c] = result[a][c]] /\ Goto(a, c, "end")
    /\ UNCHANGED <<ledgerVars, scopeVars, result, worldVars, verdict, retry, controlled>>

(* A projection that is there is shown.  Else controls make one, and without *)
(* controls the record itself is shown and nothing is marked.                *)
ReadProjection(a, c) ==
    /\ At(a, c, "project")
    /\ \/ /\ entries[AfterKey[c]].status = "done"
          /\ shown' = [shown EXCEPT ![a][c] = entries[AfterKey[c]].value]
          /\ Goto(a, c, "end")
       \/ /\ entries[AfterKey[c]].status # "done"
          /\ a \in controlled
          /\ Goto(a, c, "hook")
          /\ UNCHANGED shown
       \/ /\ entries[AfterKey[c]].status # "done"
          /\ a \notin controlled
          /\ shown' = [shown EXCEPT ![a][c] = result[a][c]]
          /\ Goto(a, c, "end")
    /\ UNCHANGED <<ledgerVars, scopeVars, result, worldVars, verdict, retry, controlled>>

(* The post-tool hook rewrites its copy of the record. *)
RunHook(a, c) ==
    /\ At(a, c, "hook")
    /\ hooks[c] < MaxRuns
    /\ hooks' = [hooks EXCEPT ![c] = @ + 1]
    /\ result' = [result EXCEPT ![a][c] = MaxRuns + hooks[c] + 1]
    /\ Goto(a, c, "mark")
    /\ UNCHANGED <<ledgerVars, scopeVars, shown, ran, verdict, retry, controlled>>

(* Fault: the marker is written outside the fence. *)
MarkWithoutToken(a, c) ==
    /\ At(a, c, "mark")
    /\ WriteControl(AfterKey[c], result[a][c], 0)
    /\ shown' = [shown EXCEPT ![a][c] = result[a][c]]
    /\ Goto(a, c, "end")
    /\ UNCHANGED <<scopeVars, result, worldVars, verdict, retry, controlled>>

MarkProjected(a, c) ==
    /\ At(a, c, "mark")
    /\ WriteControl(AfterKey[c], result[a][c], tok[a])
    /\ shown' = [shown EXCEPT ![a][c] = result[a][c]]
    /\ Goto(a, c, "end")
    /\ UNCHANGED <<scopeVars, result, worldVars, verdict, retry, controlled>>

(* The store raises: Fenced at any write, Indeterminate when the intent is   *)
(* not granted, EffectConflict when a result cannot be recorded.             *)
Refused(a, c) ==
    /\ phase[a] = "open"
    /\ pc[a][c] \in {"forget", "start", "applied", "drop", "mark"}
    /\ \/ ~Fence(tok[a])
       \/ pc[a][c] = "start" /\ ~StartGranted(c)
       \/ pc[a][c] = "applied" /\ entries[c].status # "running"
    /\ Raise(a)
    /\ UNCHANGED <<ledgerVars, tok, lapsed, callVars, worldVars, verdict, retry, controlled>>

-----------------------------------------------------------------------------
(* A host reconciles an unfinished tool effect: Runtime.unresolved_effects   *)
(* and Runtime.resolve_effect.  It says what really happened, and it waits   *)
(* for the workers and providers of that effect to stop before it judges;    *)
(* delivering the judgement takes a lease scope of its own, later.           *)

WorkersStopped(c) == \A a \in Attempts : pc[a][c] \notin InFlight

Judgement(c) ==
    IF ran[c] > 0
      THEN [key |-> c, action |-> "complete", expected |-> entries[c].version, value |-> ran[c]]
      ELSE [key |-> c, action |-> "retry", expected |-> entries[c].version, value |-> NoValue]

Decide(h) ==
    /\ verdict[h] = NoDecision
    /\ \/ \E c \in ToolKeys, d \in DecisionIds :
            /\ entries[c].status = "running"
            /\ WorkersStopped(c)
            /\ verdict' = [verdict EXCEPT ![h] = [id |-> d, payload |-> Judgement(c)]]
       \/ \E g \in Hosts :                                  \* delivered again
            /\ verdict[g] # NoDecision
            /\ verdict' = [verdict EXCEPT ![h] = verdict[g]]
    /\ UNCHANGED <<ledgerVars, scopeVars, callVars, worldVars, retry, controlled>>

Deliver(h) ==
    /\ phase[h] = "open"
    /\ ResolveEffect(verdict[h].id, verdict[h].payload, tok[h])
    /\ Raise(h)
    /\ UNCHANGED <<tok, lapsed, callVars, worldVars, verdict, retry, controlled>>

DeliveryRefused(h) ==
    /\ phase[h] = "open"
    /\ LET d == verdict[h].id
           p == verdict[h].payload
       IN  \/ ~Fence(tok[h])
           \/ decisions[d] \notin {p, NoDecision}
           \/ decisions[d] = NoDecision /\ ~IntentUnresolved(p)
    /\ Raise(h)
    /\ UNCHANGED <<ledgerVars, tok, lapsed, callVars, worldVars, verdict, retry, controlled>>

-----------------------------------------------------------------------------

CallStep(a, c) ==
    \/ Read(a, c)
    \/ ForgetIntent(a, c)
    \/ StartIntent(a, c)
    \/ Perform(a, c)
    \/ HandlerRaises(a, c)
    \/ DropIntent(a, c)
    \/ CommitResult(a, c)
    \/ c \in ToolKeys /\ ReadProjection(a, c)
    \/ c \in ToolKeys /\ RunHook(a, c)
    \/ c \in ToolKeys /\ MarkProjected(a, c)
    \/ Refused(a, c)

HostStep(h) == Deliver(h) \/ DeliveryRefused(h)

Next ==
    \/ \E o \in Owners : Begin(o) \/ Renew(o) \/ Unwind(o) \/ Interrupt(o) \/ Crash(o)
    \/ \E a \in Attempts, c \in EffectKeys : CallStep(a, c) \/ ProviderAnswersLate(a, c)
    \/ \E h \in Hosts : Decide(h) \/ HostStep(h)
    \/ Lapse

Spec == Init /\ [][Next]_vars

-----------------------------------------------------------------------------
(* Properties *)

(* A tool effect happens at most once, over crashes, lost leases, takeovers  *)
(* and late answers, when nobody asked to retry unfinished work and hosts    *)
(* report truthfully: docs and tests call it "run once".                     *)
AtMostOnce == ~retry => \A c \in ToolKeys : ran[c] <= 1

(* What happened is never forgotten: a tool effect that took place is        *)
(* settled, or its intent still stands and keeps everyone from guessing.     *)
EffectRemembered ==
    ~retry => \A c \in ToolKeys : ran[c] > 0 => entries[c].status \in {"running", "done"}

(* Nobody takes the intent away from the worker that is executing it: while  *)
(* the current token holder is at an effect, its intent is in the ledger, so *)
(* its result is never in conflict.  A stale worker's forget would break it. *)
IntentStands ==
    \A a \in Attempts, c \in EffectKeys :
        phase[a] = "open" /\ Fence(tok[a]) /\ pc[a][c] \in {"running", "applied", "drop"}
          => entries[c].status = "running"

(* An attempt whose renewals were in time owns the lease and passes the      *)
(* fence, whatever the other scopes do to the lease.                         *)
PunctualHolderKeepsFence ==
    \A o \in Owners : phase[o] = "open" /\ ~lapsed[o]
        => lease.owner = o /\ lease.live /\ tok[o] = tokens

(* What the attempts return to the agent of one tool call agrees, though the *)
(* hook may run again: attempts with controls return the same projection,    *)
(* and an attempt without returns that one, or the settled result as it is.  *)
ShownResultsAgree ==
    \A a, b \in Attempts, c \in ToolKeys :
        shown[a][c] # NoValue /\ shown[b][c] # NoValue =>
            \/ shown[a][c] = shown[b][c]
            \/ \E o \in {a, b} \ controlled : shown[o][c] = entries[c].value

(* What is recorded as the projection of a result is what every attempt      *)
(* returns from then on, be it with controls or without.                     *)
ProjectionReplayed ==
    [][\A a \in Attempts, c \in ToolKeys :
         entries[AfterKey[c]].status = "done" /\ shown'[a][c] # shown[a][c]
           => shown'[a][c] = entries[AfterKey[c]].value]_vars

(* Two scopes never both pass the fence. *)
OneWorker ==
    \A o, p \in Owners : o # p /\ phase[o] # "new" /\ phase[p] # "new" => tok[o] # tok[p]

(* Every scope is left in the end, whatever it meets on the way: no intent, *)
(* lease or marker of another scope makes it wait for ever.                  *)
EveryScopeReturns == \A o \in Owners : phase[o] = "open" ~> phase[o] = "over"

(* The journal over the ledger keeps the promise of durable tool calls, when *)
(* nobody asked to retry unfinished work and hosts report truthfully; where  *)
(* retrying was asked for, the abstract state shows nothing.                 *)
Standing(k) == IF ~retry /\ entries[k].status = "done" THEN entries[k].value ELSE NoValue

Once == INSTANCE EffectOnce WITH
    Calls       <- ToolKeys,
    Projections <- Values,
    performed   <- [c \in ToolKeys |-> IF retry THEN 0 ELSE ran[c]],
    answer      <- [c \in ToolKeys |-> Standing(c)],
    projection  <- [c \in ToolKeys |-> Standing(AfterKey[c])]

ToolCallsOnce == Once!OnceSpec

(* Attempts and hosts use the store only through its operations, so all that *)
(* is proved of the store holds of the whole.                                *)
UsesLedger == LedgerSpec

=============================================================================
