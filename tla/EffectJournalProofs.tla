------------------------- MODULE EffectJournalProofs -------------------------
(***************************************************************************)
(* What the journal guarantees for any number of attempts, hosts, calls,   *)
(* rounds and decisions, and for any bounds on executions and tokens.      *)
(*                                                                         *)
(* The inductive invariant has four parts.  Scopes and Hands speak of the  *)
(* lease scopes and of what the coroutines hold, Marks of the projection   *)
(* markers, and OnceInv (Intent and Truth) of what an effect record says   *)
(* about the world.                                                        *)
(***************************************************************************)
EXTENDS EffectJournal, StepLedgerProofs

(* A scope that has begun has a token of its own that the store issued, and   *)
(* one that has not owns nothing.                                             *)
Scopes ==
    /\ lease.token = tokens
    /\ \A o \in Owners : phase[o] = "new" => lease.owner # o
    /\ \A o \in Owners : phase[o] # "new" => tok[o] \in 1..tokens
    /\ OneWorker

(* A call that is about to write a value has one; a decision is about a tool  *)
(* effect and a version which that effect's record has had.                   *)
Hands ==
    /\ \A a \in Attempts, c \in EffectKeys :
         /\ pc[a][c] \in {"project", "hook", "mark"} => c \in ToolKeys
         /\ pc[a][c] \in {"applied", "mark"} => result[a][c] \in Values
         /\ phase[a] = "new" => pc[a][c] \in {"read", "end"}
    /\ \A c \in EffectKeys : entries[c].status \in {"ready", "running"} => entries[c].version > 0
    /\ \A h \in Hosts :
         /\ phase[h] # "new" => verdict[h] # NoDecision
         /\ verdict[h] # NoDecision =>
              /\ verdict[h].payload.key \in ToolKeys
              /\ verdict[h].payload.expected <= entries[verdict[h].payload.key].version

JournalInv == TypeOK /\ Scopes /\ Hands

(* The record k is settled with v. *)
Settled(k, v) == entries[k].status = "done" /\ entries[k].value = v

(* What the attempt that passes the fence may assume of the ledger: the       *)
(* intent it works under stands, and the marker it is about to write is not   *)
(* there.  The result a call is about to project is the settled one, and what *)
(* an attempt returned to the agent is what the marker says or, without       *)
(* controls, that result.                                                     *)
Marks ==
    /\ \A a \in Attempts, c \in ToolKeys :
         phase[a] = "open" /\ Fence(tok[a]) /\ pc[a][c] \in {"hook", "mark"}
           => entries[AfterKey[c]].status # "done"
    /\ \A a \in Attempts, c \in ToolKeys :
         pc[a][c] = "project" => Settled(c, result[a][c])
    /\ \A a \in Attempts, c \in ToolKeys :
         shown[a][c] # NoValue =>
           \/ Settled(AfterKey[c], shown[a][c])
           \/ a \notin controlled /\ Settled(c, shown[a][c])

(* One effect is in the hands of one attempt at a time, stale ones included,  *)
(* under an intent that stands, and a record that invites to start it says    *)
(* that it has not happened.                                                  *)
Intent(c) ==
    /\ ran[c] <= 1
    /\ entries[c].status \in {"absent", "ready"} => ran[c] = 0
    /\ \A a \in Attempts :
         /\ pc[a][c] # "forget"
         /\ pc[a][c] \in InFlight => entries[c].status = "running"
         /\ pc[a][c] \in InFlight \ {"applied"} => ran[c] = 0
         /\ pc[a][c] = "applied" => ran[c] = 1 /\ result[a][c] = 1
    /\ \A a, b \in Attempts : pc[a][c] \in InFlight /\ pc[b][c] \in InFlight => a = b

(* A settled record is the result of the one execution, and a decision that   *)
(* can still be applied is true.                                              *)
Truth(c) ==
    /\ entries[c].status = "done" => ran[c] = 1 /\ entries[c].value = 1
    /\ \A a \in Attempts : pc[a][c] \in {"project", "hook", "mark"} => entries[c].status = "done"
    /\ \A h \in Hosts :
         verdict[h] # NoDecision /\ verdict[h].payload.key = c /\ IntentUnresolved(verdict[h].payload) =>
           /\ WorkersStopped(c)
           /\ IF verdict[h].payload.action = "complete" THEN ran[c] = 1 /\ verdict[h].payload.value = 1
                                                        ELSE ran[c] = 0

OnceInv == ~retry => \A c \in ToolKeys : Intent(c) /\ Truth(c)

(* A step of a lease scope, or of time. *)
ScopeMove(o) ==
    \/ o \in Owners /\ (Begin(o) \/ Renew(o) \/ Unwind(o) \/ Interrupt(o) \/ Crash(o))
    \/ Lapse

-----------------------------------------------------------------------------
(* Every step is a step of the store. *)

(* A decision in the hands of a host is one of the decisions the store can *)
(* be asked to apply, about a version that its record has had.             *)
LEMMA VerdictKnown ==
    ASSUME TypeOK, Hands, NEW h \in Hosts, verdict[h] # NoDecision
    PROVE  /\ verdict[h].id \in DecisionIds
           /\ verdict[h].payload \in Resolutions
           /\ verdict[h].payload.key \in EffectKeys
           /\ verdict[h].payload \in DecisionsAbout(verdict[h].payload.key)
  <1>1. verdict[h] \in Verdicts
    BY DEF TypeOK
  <1>2. verdict[h].payload \in Resolutions
    BY <1>1 DEF Verdicts
  <1>3. verdict[h].payload.expected <= entries[verdict[h].payload.key].version
    BY DEF Hands
  <1>4. verdict[h].payload.key \in EffectKeys
    BY <1>2 DEF Resolutions
  <1>5. entries[verdict[h].payload.key].version \in Nat
    BY <1>4 DEF TypeOK, LedgerTypeOK, Steps, Keys
  <1>6. verdict[h].payload.expected \in Nat \ {0}
    BY <1>2 DEF Resolutions
  <1>7. verdict[h].payload.expected \in 1..entries[verdict[h].payload.key].version
    BY <1>3, <1>5, <1>6
  <1> QED
    BY <1>1, <1>2, <1>4, <1>7 DEF Verdicts, Resolutions, DecisionsAbout

(* The token of an open scope is one the store has issued. *)
LEMMA IssuedToken ==
    ASSUME TypeOK, Scopes, NEW o \in Owners, phase[o] = "open"
    PROVE  tok[o] \in Tokens
  BY DEF Scopes, Tokens, TypeOK, LedgerTypeOK

(* A move of a lease scope is a lease call of the store or none. *)
LEMMA ScopeUsesLedger ==
    ASSUME JournalInv, NEW o, ScopeMove(o)
    PROVE  [LedgerNext]_ledgerVars
  BY DEF ScopeMove, Begin, Renew, Unwind, Interrupt, Crash, Lapse, LedgerNext, LeaseCalls

(* A step of a call, and a provider that answers late, is a record call of *)
(* the store, with a token it has issued, or none.                         *)
LEMMA CallUsesLedger ==
    ASSUME JournalConstants, JournalInv, NEW a \in Attempts, NEW c \in EffectKeys,
           CallStep(a, c) \/ ProviderAnswersLate(a, c)
    PROVE  [LedgerNext]_ledgerVars
  <1> a \in Owners
    BY DEF JournalConstants
  <1>1. CASE ForgetIntent(a, c)
    BY <1>1, IssuedToken DEF ForgetIntent, At, JournalInv, LedgerNext, RecordCalls
  <1>2. CASE StartIntent(a, c)
    BY <1>2, IssuedToken DEF StartIntent, At, JournalInv, LedgerNext, RecordCalls
  <1>3. CASE DropIntent(a, c)
    BY <1>3, IssuedToken DEF DropIntent, At, JournalInv, LedgerNext, RecordCalls
  <1>4. CASE CommitResult(a, c)
    <2>1. result[a][c] \in Values
      BY <1>4 DEF CommitResult, At, JournalInv, Hands
    <2> QED
      BY <1>4, <2>1, IssuedToken DEF CommitResult, At, JournalInv, LedgerNext, RecordCalls
  <1>5. CASE c \in ToolKeys /\ MarkProjected(a, c)
    <2>1. result[a][c] \in Values
      BY <1>5 DEF MarkProjected, At, JournalInv, Hands
    <2>2. AfterKey[c] \in ControlKeys
      BY <1>5 DEF JournalConstants
    <2> QED
      BY <1>5, <2>1, <2>2, IssuedToken DEF MarkProjected, At, JournalInv, LedgerNext, RecordCalls
  <1>6. CASE \/ Read(a, c) \/ Perform(a, c) \/ HandlerRaises(a, c) \/ ReadProjection(a, c)
             \/ RunHook(a, c) \/ Refused(a, c) \/ ProviderAnswersLate(a, c)
    BY <1>6 DEF Read, Perform, HandlerRaises, ReadProjection, RunHook, Refused, ProviderAnswersLate
  <1> QED
    BY <1>1, <1>2, <1>3, <1>4, <1>5, <1>6 DEF CallStep

(* A host's step, resolving an unfinished effect, is a decision call of the *)
(* store or none.                                                           *)
LEMMA HostUsesLedger ==
    ASSUME JournalConstants, JournalInv, NEW h \in Hosts, Decide(h) \/ HostStep(h)
    PROVE  [LedgerNext]_ledgerVars
  <1>1. CASE Deliver(h)
    <2>1. verdict[h] # NoDecision
      BY <1>1 DEF Deliver, JournalInv, Hands
    <2>2. tok[h] \in Tokens
      BY <1>1, IssuedToken DEF Deliver, JournalInv, JournalConstants
    <2> QED
      BY <1>1, <2>1, <2>2, VerdictKnown DEF Deliver, JournalInv, LedgerNext, DecisionCalls
  <1>2. CASE Decide(h) \/ DeliveryRefused(h)
    BY <1>2 DEF Decide, DeliveryRefused
  <1> QED
    BY <1>1, <1>2 DEF HostStep

-----------------------------------------------------------------------------
(* Types *)

(* A move of a lease scope keeps the types. *)
LEMMA ScopeTyped ==
    ASSUME LedgerConstants, JournalConstants, JournalInv, NEW o, ScopeMove(o)
    PROVE  TypeOK'
  <1> LedgerTypeOK'
    BY ScopeUsesLedger, LedgerStepTyped DEF JournalInv, TypeOK
  <1>1. CASE o \in Owners /\ Begin(o)
    <2>1. lease'.token \in Nat
      BY DEF LedgerTypeOK, Leases
    <2> QED
      BY <1>1, <2>1 DEF Begin, JournalInv, TypeOK, callVars, worldVars
  <1>2. CASE o \in Owners /\ Renew(o)
    BY <1>2 DEF Renew, JournalInv, TypeOK, journalVars, scopeVars, callVars, worldVars
  <1>3. ASSUME Stopped(o)
        PROVE  pc' \in [Attempts -> [EffectKeys -> ControlPoints]]
    BY <1>3 DEF Stopped, JournalInv, TypeOK, ControlPoints
  <1>4. CASE o \in Owners /\ Unwind(o)
    BY <1>3, <1>4 DEF Unwind, JournalInv, TypeOK, worldVars
  <1>5. CASE o \in Owners /\ Interrupt(o)
    BY <1>5 DEF Interrupt, JournalInv, TypeOK, callVars, worldVars
  <1>6. CASE o \in Owners /\ Crash(o)
    BY <1>3, <1>6 DEF Crash, JournalInv, TypeOK, worldVars
  <1>7. CASE Lapse
    BY <1>7 DEF Lapse, JournalInv, TypeOK, callVars, worldVars
  <1> QED
    BY <1>1, <1>2, <1>4, <1>5, <1>6, <1>7 DEF ScopeMove

(* Updating one cell of a two-dimensional table. *)
LEMMA CellUpdate ==
    ASSUME NEW A, NEW C, NEW R, NEW f \in [A -> [C -> R]], NEW a \in A, NEW c \in C, NEW r \in R
    PROVE  /\ [f EXCEPT ![a][c] = r] \in [A -> [C -> R]]
           /\ \A b \in A, d \in C :
                [f EXCEPT ![a][c] = r][b][d] = IF b = a /\ d = c THEN r ELSE f[b][d]
  OBVIOUS

(* A call moves to another control point. *)
LEMMA GotoCell ==
    ASSUME TypeOK, NEW a \in Attempts, NEW c \in EffectKeys, NEW p \in ControlPoints, Goto(a, c, p)
    PROVE  /\ pc' \in [Attempts -> [EffectKeys -> ControlPoints]]
           /\ \A b \in Attempts, d \in EffectKeys :
                pc'[b][d] = IF b = a /\ d = c THEN p ELSE pc[b][d]
  <1>1. pc \in [Attempts -> [EffectKeys -> ControlPoints]]
    BY DEF TypeOK
  <1>2. pc' = [pc EXCEPT ![a][c] = p]
    BY DEF Goto
  <1> QED
    BY <1>1, <1>2, CellUpdate

(* A call takes a value into its hands. *)
LEMMA ResultCell ==
    ASSUME TypeOK, NEW a \in Attempts, NEW c \in EffectKeys, NEW v \in Result,
           result' = [result EXCEPT ![a][c] = v]
    PROVE  /\ result' \in [Attempts -> [EffectKeys -> Result]]
           /\ \A b \in Attempts, d \in EffectKeys :
                result'[b][d] = IF b = a /\ d = c THEN v ELSE result[b][d]
  <1>1. result \in [Attempts -> [EffectKeys -> Result]]
    BY DEF TypeOK
  <1> QED
    BY <1>1, CellUpdate

(* A call returns a value to the agent. *)
LEMMA ShownCell ==
    ASSUME TypeOK, NEW a \in Attempts, NEW c \in EffectKeys, NEW v \in Result,
           shown' = [shown EXCEPT ![a][c] = v]
    PROVE  /\ shown' \in [Attempts -> [EffectKeys -> Result]]
           /\ \A b \in Attempts, d \in EffectKeys :
                shown'[b][d] = IF b = a /\ d = c THEN v ELSE shown[b][d]
  <1>1. shown \in [Attempts -> [EffectKeys -> Result]]
    BY DEF TypeOK
  <1> QED
    BY <1>1, CellUpdate

(* A settled record has a value. *)
LEMMA DoneHasValue ==
    ASSUME TypeOK, NEW k \in Keys, entries[k].status = "done"
    PROVE  entries[k].value \in Values /\ entries[k].value \in Result
  BY DEF TypeOK, LedgerTypeOK, Steps, Result

(* A call moves no other call, and Read and the later steps lead where the    *)
(* code goes on.                                                              *)
LEMMA CallMovesOnly ==
    ASSUME JournalConstants, TypeOK, NEW a \in Attempts, NEW c \in EffectKeys,
           CallStep(a, c) \/ ProviderAnswersLate(a, c),
           NEW b \in Attempts, NEW d \in EffectKeys, ~(b = a /\ d = c)
    PROVE  pc'[b][d] = pc[b][d] /\ result'[b][d] = result[b][d] /\ shown'[b][d] = shown[b][d]
  <1>1. ASSUME NEW p, Goto(a, c, p)
        PROVE  pc'[b][d] = pc[b][d]
    BY <1>1 DEF Goto, TypeOK
  <1>2. ASSUME NEW v, result' = [result EXCEPT ![a][c] = v]
        PROVE  result'[b][d] = result[b][d]
    BY <1>2 DEF TypeOK
  <1>3. ASSUME NEW v, shown' = [shown EXCEPT ![a][c] = v]
        PROVE  shown'[b][d] = shown[b][d]
    BY <1>3 DEF TypeOK
  <1>4. UNCHANGED pc \/ \E p : Goto(a, c, p)
    BY DEF CallStep, Read, ForgetIntent, StartIntent, Perform, HandlerRaises, DropIntent, CommitResult,
           ReadProjection, RunHook, MarkProjected, Refused, ProviderAnswersLate, Obtain, callVars
  <1>5. UNCHANGED result \/ \E v : result' = [result EXCEPT ![a][c] = v]
    BY DEF CallStep, Read, ForgetIntent, StartIntent, Perform, HandlerRaises, DropIntent, CommitResult,
           ReadProjection, RunHook, MarkProjected, Refused, ProviderAnswersLate, Obtain, callVars
  <1>6. UNCHANGED shown \/ \E v : shown' = [shown EXCEPT ![a][c] = v]
    BY DEF CallStep, Read, ForgetIntent, StartIntent, Perform, HandlerRaises, DropIntent, CommitResult,
           ReadProjection, RunHook, MarkProjected, Refused, ProviderAnswersLate, Obtain, callVars
  <1> QED
    BY <1>1, <1>2, <1>3, <1>4, <1>5, <1>6

(* Where a call is after a step that neither enters nor performs the effect.  *)
LEMMA CallLandsOn ==
    ASSUME JournalConstants, TypeOK, NEW a \in Attempts, NEW c \in EffectKeys,
           CallStep(a, c) \/ ProviderAnswersLate(a, c),
           ~(StartIntent(a, c) \/ Perform(a, c) \/ HandlerRaises(a, c))
    PROVE  \/ pc'[a][c] \in {"start", "forget", "project", "end", "hook", "mark"}
           \/ pc'[a][c] = pc[a][c] /\ phase'[a] = "leaving"
  <1>1. ASSUME NEW p, Goto(a, c, p)
        PROVE  pc'[a][c] = p
    BY <1>1 DEF Goto, TypeOK
  <1>2. Raise(a) => phase'[a] = "leaving"
    BY DEF Raise, TypeOK, JournalConstants
  <1>3. CASE Read(a, c) \/ Refused(a, c)
    BY <1>1, <1>2, <1>3 DEF Read, Refused, Obtain, callVars
  <1>4. CASE ForgetIntent(a, c) \/ DropIntent(a, c) \/ CommitResult(a, c) \/ ProviderAnswersLate(a, c)
    BY <1>1, <1>4 DEF ForgetIntent, DropIntent, CommitResult, Obtain, ProviderAnswersLate
  <1>5. CASE ReadProjection(a, c) \/ RunHook(a, c) \/ MarkProjected(a, c)
    BY <1>1, <1>5 DEF ReadProjection, RunHook, MarkProjected
  <1> QED
    BY <1>3, <1>4, <1>5 DEF CallStep

(* A call goes on to its hook only when it has found no marker. *)
LEMMA CallReachesMark ==
    ASSUME JournalConstants, TypeOK, NEW a \in Attempts, NEW c \in EffectKeys,
           CallStep(a, c) \/ ProviderAnswersLate(a, c),
           pc'[a][c] \in {"hook", "mark"}, phase'[a] = "open"
    PROVE  pc[a][c] \in {"hook", "mark"} \/ entries[AfterKey[c]].status # "done"
  <1>1. ASSUME NEW p, Goto(a, c, p)
        PROVE  pc'[a][c] = p
    BY <1>1 DEF Goto, TypeOK
  <1>2. CASE UNCHANGED pc \/ RunHook(a, c)
    BY <1>2 DEF RunHook, At
  <1>3. CASE ReadProjection(a, c)
    BY <1>1, <1>3 DEF ReadProjection
  <1>4. CASE ~(UNCHANGED pc \/ RunHook(a, c) \/ ReadProjection(a, c))
    BY <1>1, <1>4 DEF CallStep, Read, ForgetIntent, StartIntent, Perform, HandlerRaises, DropIntent,
       CommitResult, MarkProjected, Refused, ProviderAnswersLate, Obtain, callVars
  <1> QED
    BY <1>2, <1>3, <1>4

(* A tool call that writes no marker returns what the marker says, or, when   *)
(* there is none and it has no controls, the result in its hands.             *)
LEMMA CallShows ==
    ASSUME JournalConstants, TypeOK, NEW a \in Attempts, NEW c \in ToolKeys, c \in EffectKeys,
           CallStep(a, c) \/ ProviderAnswersLate(a, c), ~MarkProjected(a, c),
           shown'[a][c] # shown[a][c]
    PROVE  /\ UNCHANGED entries
           /\ \/ Settled(AfterKey[c], shown'[a][c])
              \/ /\ a \notin controlled /\ pc[a][c] = "project"
                 /\ entries[AfterKey[c]].status # "done"
                 /\ shown'[a][c] = result[a][c]
  <1>1. ReadProjection(a, c)
    BY DEF CallStep, Read, ForgetIntent, StartIntent, Perform, HandlerRaises, DropIntent,
       CommitResult, RunHook, Refused, ProviderAnswersLate, Obtain, callVars
  <1>2. UNCHANGED entries /\ pc[a][c] = "project"
    BY <1>1 DEF ReadProjection, At, ledgerVars
  <1>3. ASSUME NEW v, shown' = [shown EXCEPT ![a][c] = v]
        PROVE  shown'[a][c] = v
    BY <1>3 DEF TypeOK
  <1> QED
    BY <1>1, <1>2, <1>3 DEF ReadProjection, Settled

(* A tool call comes to its projection with the settled result in its hands.  *)
LEMMA CallObtains ==
    ASSUME JournalConstants, TypeOK, NEW a \in Attempts, NEW c \in ToolKeys, c \in EffectKeys,
           CallStep(a, c) \/ ProviderAnswersLate(a, c), pc'[a][c] = "project"
    PROVE  \/ pc[a][c] = "project" /\ result'[a][c] = result[a][c]
           \/ Settled(c, result[a][c])'
  <1>1. ASSUME NEW p, Goto(a, c, p)
        PROVE  pc'[a][c] = p
    BY <1>1 DEF Goto, TypeOK
  <1>2. ASSUME NEW v, Obtain(a, c, v)
        PROVE  result'[a][c] = v
    BY <1>2 DEF Obtain, TypeOK
  <1>3. CASE UNCHANGED <<pc, result>>
    BY <1>3
  <1>4. CASE Read(a, c) /\ ~UNCHANGED pc
    <2>1. Obtain(a, c, entries[c].value) /\ entries[c].status = "done" /\ UNCHANGED entries
      BY <1>1, <1>4 DEF Read, ledgerVars
    <2> QED
      BY <1>2, <2>1 DEF Settled
  <1>5. CASE CommitResult(a, c)
    <2>1. \/ entries' = [entries EXCEPT ![c] = MovedTo(c, "done", result[a][c])]
          \/ Settled(c, result[a][c]) /\ UNCHANGED entries
      BY <1>5 DEF CommitResult, FinishEffect, Settled
    <2>2. entries'[c].status = "done" /\ entries'[c].value = result[a][c]
      BY <2>1 DEF MovedTo, TypeOK, LedgerTypeOK, Keys, Settled
    <2> QED
      BY <1>2, <1>5, <2>2 DEF CommitResult, Settled
  <1>6. CASE ~(Read(a, c) \/ CommitResult(a, c) \/ UNCHANGED <<pc, result>>)
    BY <1>1, <1>6 DEF CallStep, ForgetIntent, StartIntent, Perform, HandlerRaises, DropIntent,
       ReadProjection, RunHook, MarkProjected, Refused, ProviderAnswersLate, callVars
  <1>7. Read(a, c) /\ UNCHANGED pc => UNCHANGED result
    BY DEF Read, Obtain, At, Goto, TypeOK
  <1> QED
    BY <1>3, <1>4, <1>5, <1>6, <1>7

(* A step of a call keeps the types. *)
LEMMA CallTyped ==
    ASSUME LedgerConstants, JournalConstants, JournalInv, NEW a \in Attempts, NEW c \in EffectKeys,
           CallStep(a, c) \/ ProviderAnswersLate(a, c)
    PROVE  TypeOK'
  <1> DEFINE PcTyped     == pc' \in [Attempts -> [EffectKeys -> ControlPoints]]
             ResultTyped == result' \in [Attempts -> [EffectKeys -> Result]]
             ShownTyped  == shown' \in [Attempts -> [EffectKeys -> Result]]
             PhaseTyped  == phase' \in [Owners -> {"new", "open", "leaving", "over"}]
             RanTyped    == ran' \in [EffectKeys -> 0..MaxRuns]
             HooksTyped  == hooks' \in [ToolKeys -> 0..MaxRuns]
  <1> SUFFICES /\ PcTyped /\ ResultTyped /\ ShownTyped
               /\ PhaseTyped /\ RanTyped /\ HooksTyped
    <2>1. LedgerTypeOK'
      BY CallUsesLedger, LedgerStepTyped DEF JournalInv, TypeOK
    <2>2. UNCHANGED <<tok, lapsed, verdict, retry, controlled>>
      BY DEF CallStep, Read, ForgetIntent, StartIntent, Perform, HandlerRaises, DropIntent,
             CommitResult, ReadProjection, RunHook, MarkProjected, Refused, ProviderAnswersLate,
             scopeVars
    <2> QED
      BY <2>1, <2>2 DEF JournalInv, TypeOK
  <1>1. TypeOK /\ a \in Owners
    BY DEF JournalConstants, JournalInv
  <1>2. UNCHANGED pc => PcTyped
    BY <1>1 DEF TypeOK
  <1>3. UNCHANGED result => ResultTyped
    BY <1>1 DEF TypeOK
  <1>4. UNCHANGED shown => ShownTyped
    BY <1>1 DEF TypeOK
  <1>5. UNCHANGED phase \/ Raise(a) => PhaseTyped
    BY <1>1 DEF TypeOK, Raise
  <1>6. UNCHANGED ran => RanTyped
    BY <1>1 DEF TypeOK
  <1>7. UNCHANGED hooks => HooksTyped
    BY <1>1 DEF TypeOK
  <1>8. ASSUME NEW p \in ControlPoints, Goto(a, c, p)
        PROVE  PcTyped
    BY <1>1, <1>8, GotoCell
  <1>9. ASSUME NEW v \in Values, Obtain(a, c, v)
        PROVE  PcTyped /\ ResultTyped /\ ShownTyped
    <2>1. v \in Result /\ "project" \in ControlPoints /\ "end" \in ControlPoints
      BY DEF Result, ControlPoints
    <2>2. ResultTyped
      BY <1>1, <1>9, <2>1, ResultCell DEF Obtain
    <2>3. CASE c \in ToolKeys
      BY <1>4, <1>8, <1>9, <2>1, <2>2, <2>3 DEF Obtain
    <2>4. CASE c \notin ToolKeys
      BY <1>1, <1>8, <1>9, <2>1, <2>2, <2>4, ShownCell DEF Obtain
    <2> QED
      BY <2>3, <2>4
  <1> HIDE DEF PcTyped, ResultTyped, ShownTyped, PhaseTyped, RanTyped, HooksTyped
  <1>10. \A p \in {"forget", "start", "running", "applied", "drop", "hook", "mark", "end"} :
           p \in ControlPoints
    BY DEF ControlPoints
  <1>11. CASE Read(a, c)
    BY <1>1, <1>2, <1>3, <1>4, <1>5, <1>6, <1>7, <1>8, <1>9, <1>10, <1>11, DoneHasValue
       DEF Read, worldVars, Keys
  <1>12. CASE ForgetIntent(a, c) \/ StartIntent(a, c)
    BY <1>3, <1>4, <1>5, <1>6, <1>7, <1>8, <1>10, <1>12 DEF ForgetIntent, StartIntent, scopeVars, worldVars
  <1>13. CASE Perform(a, c)
    <2>1. /\ ran[c] + 1 \in 0..MaxRuns
          /\ ran[c] + 1 \in Result
      BY <1>1, <1>13 DEF Perform, Result, JournalConstants, TypeOK
    <2>2. RanTyped
      BY <1>1, <1>13, <2>1 DEF Perform, RanTyped, TypeOK
    <2>3. ResultTyped
      <3>1. \E v \in Result : result' = [result EXCEPT ![a][c] = v]
        BY <1>13, <2>1 DEF Perform
      <3> QED
        BY <1>1, <3>1, ResultCell DEF ResultTyped
    <2>4. Goto(a, c, "applied") /\ UNCHANGED <<shown, phase, hooks>>
      BY <1>13 DEF Perform, scopeVars
    <2> QED
      BY <1>4, <1>5, <1>7, <1>8, <1>10, <2>2, <2>3, <2>4
  <1>14. CASE HandlerRaises(a, c)
    BY <1>3, <1>4, <1>5, <1>6, <1>7, <1>8, <1>10, <1>14 DEF HandlerRaises, scopeVars, worldVars
  <1>15. CASE DropIntent(a, c)
    BY <1>3, <1>4, <1>5, <1>6, <1>7, <1>8, <1>10, <1>15 DEF DropIntent, worldVars
  <1>16. CASE CommitResult(a, c)
    <2>1. result[a][c] \in Values
      BY <1>16 DEF CommitResult, At, JournalInv, Hands
    <2> QED
      BY <1>5, <1>6, <1>7, <1>9, <1>16, <2>1 DEF CommitResult, scopeVars, worldVars
  <1>17. CASE c \in ToolKeys /\ ReadProjection(a, c)
    <2>1. AfterKey[c] \in Keys
      BY <1>17 DEF JournalConstants, Keys
    <2>2. result[a][c] \in Result
      BY <1>1 DEF TypeOK
    <2>3. ShownTyped
      <3>1. \/ UNCHANGED shown
            \/ \E v \in Result : shown' = [shown EXCEPT ![a][c] = v]
        BY <1>1, <1>17, <2>1, <2>2, DoneHasValue DEF ReadProjection, Result
      <3> QED
        BY <1>1, <1>4, <3>1, ShownCell DEF ShownTyped
    <2>4. /\ Goto(a, c, "hook") \/ Goto(a, c, "end")
          /\ UNCHANGED <<result, phase, ran, hooks>>
      BY <1>17 DEF ReadProjection, scopeVars, worldVars
    <2> QED
      BY <1>3, <1>5, <1>6, <1>7, <1>8, <1>10, <2>3, <2>4
  <1>18. CASE c \in ToolKeys /\ RunHook(a, c)
    <2>1. /\ hooks[c] + 1 \in 0..MaxRuns
          /\ MaxRuns + hooks[c] + 1 \in Result
      <3>1. hooks[c] \in 0..MaxRuns /\ hooks[c] < MaxRuns
        BY <1>1, <1>18 DEF RunHook, TypeOK
      <3>2. MaxRuns \in Nat /\ Values = 1..2 * MaxRuns
        BY DEF JournalConstants
      <3> QED
        BY <3>1, <3>2 DEF Result
    <2>2. HooksTyped
      BY <1>1, <1>18, <2>1 DEF RunHook, HooksTyped, TypeOK
    <2>3. ResultTyped
      <3>1. \E v \in Result : result' = [result EXCEPT ![a][c] = v]
        BY <1>18, <2>1 DEF RunHook
      <3> QED
        BY <1>1, <3>1, ResultCell DEF ResultTyped
    <2> QED
      BY <1>4, <1>5, <1>6, <1>8, <1>10, <1>18, <2>2, <2>3 DEF RunHook, scopeVars
  <1>19. CASE c \in ToolKeys /\ MarkProjected(a, c)
    <2>1. result[a][c] \in Result
      BY <1>1 DEF TypeOK
    <2>2. ShownTyped
      <3>1. \E v \in Result : shown' = [shown EXCEPT ![a][c] = v]
        BY <1>19, <2>1 DEF MarkProjected
      <3> QED
        BY <1>1, <3>1, ShownCell DEF ShownTyped
    <2>3. Goto(a, c, "end") /\ UNCHANGED <<result, phase, ran, hooks>>
      BY <1>19 DEF MarkProjected, scopeVars, worldVars
    <2> QED
      BY <1>3, <1>5, <1>6, <1>7, <1>8, <1>10, <2>2, <2>3
  <1>20. CASE Refused(a, c)
    BY <1>2, <1>3, <1>4, <1>5, <1>6, <1>7, <1>20 DEF Refused, callVars, worldVars
  <1>21. CASE ProviderAnswersLate(a, c)
    <2>1. RanTyped
      BY <1>1, <1>6, <1>21 DEF ProviderAnswersLate, RanTyped, TypeOK, JournalConstants
    <2> QED
      BY <1>3, <1>4, <1>5, <1>7, <1>8, <1>10, <1>21, <2>1 DEF ProviderAnswersLate, scopeVars
  <1> QED
    BY <1>11, <1>12, <1>13, <1>14, <1>15, <1>16, <1>17, <1>18, <1>19, <1>20, <1>21 DEF CallStep

(* A host's step keeps the types. *)
LEMMA HostTyped ==
    ASSUME LedgerConstants, JournalConstants, JournalInv, NEW h \in Hosts, Decide(h) \/ HostStep(h)
    PROVE  TypeOK'
  <1>1. /\ LedgerTypeOK'
        /\ h \in Owners
        /\ TypeOK
    BY HostUsesLedger, LedgerStepTyped DEF JournalConstants, JournalInv, TypeOK
  <1>2. CASE Decide(h)
    <2>1. ASSUME NEW c \in ToolKeys, NEW d \in DecisionIds, entries[c].status = "running"
          PROVE  [id |-> d, payload |-> Judgement(c)] \in Verdicts
      <3>1. c \in EffectKeys /\ entries[c].version \in Nat \ {0}
        BY <1>1, <2>1 DEF JournalConstants, JournalInv, Hands, TypeOK, LedgerTypeOK, Steps, Keys
      <3>2. ran[c] > 0 => ran[c] \in Values
        BY <1>1, <3>1 DEF TypeOK, JournalConstants
      <3>3. Judgement(c) \in Resolutions
        BY <3>1, <3>2 DEF Judgement, Resolutions
      <3> QED
        BY <3>3 DEF Verdicts
    <2>2. \E v \in Verdicts \cup {NoDecision} : verdict' = [verdict EXCEPT ![h] = v]
      <3>1. \A g \in Hosts : verdict[g] \in Verdicts \cup {NoDecision}
        BY <1>1 DEF TypeOK
      <3> QED
        BY <1>2, <2>1, <3>1 DEF Decide
    <2>3. verdict' \in [Hosts -> Verdicts \cup {NoDecision}]
      BY <1>1, <2>2 DEF TypeOK
    <2> QED
      BY <1>1, <1>2, <2>3 DEF Decide, TypeOK, scopeVars, callVars, worldVars
  <1>3. CASE HostStep(h)
    <2>1. Raise(h) /\ UNCHANGED <<tok, lapsed, callVars, worldVars, verdict, retry, controlled>>
      BY <1>3 DEF HostStep, Deliver, DeliveryRefused
    <2> QED
      BY <1>1, <2>1 DEF Raise, TypeOK, callVars, worldVars
  <1> QED
    BY <1>2, <1>3

-----------------------------------------------------------------------------
(* The lease scopes *)

(* What a step that is not about leases does to them: it may end a scope.     *)
Quiet ==
    /\ UNCHANGED <<lease, tokens, tok, lapsed>>
    /\ \A o \in Owners : phase'[o] = phase[o] \/ (phase[o] = "open" /\ phase'[o] = "leaving")

(* A step of a call leaves the leases, the scopes and the hosts alone. *)
LEMMA CallQuiet ==
    ASSUME JournalConstants, TypeOK, NEW a \in Attempts, NEW c \in EffectKeys,
           CallStep(a, c) \/ ProviderAnswersLate(a, c)
    PROVE  Quiet /\ UNCHANGED <<verdict, retry, controlled>>
  <1>1. UNCHANGED <<lease, tokens, tok, lapsed, verdict, retry, controlled>>
    BY DEF CallStep, Read, ForgetIntent, StartIntent, Perform, HandlerRaises, DropIntent,
           CommitResult, ReadProjection, RunHook, MarkProjected, Refused, ProviderAnswersLate,
           Forget, Start, FinishEffect, WriteControl, scopeVars, ledgerVars, leaseVars
  <1>2. UNCHANGED phase \/ (Raise(a) /\ phase[a] = "open")
    BY DEF CallStep, Read, ForgetIntent, StartIntent, Perform, HandlerRaises, DropIntent,
           CommitResult, ReadProjection, RunHook, MarkProjected, Refused, ProviderAnswersLate,
           At, scopeVars
  <1> QED
    BY <1>1, <1>2 DEF Quiet, Raise, TypeOK, JournalConstants

(* A host's step leaves the leases, the scopes and the attempts' calls *)
(* alone.                                                              *)
LEMMA HostQuiet ==
    ASSUME JournalConstants, TypeOK, NEW h \in Hosts, Decide(h) \/ HostStep(h)
    PROVE  Quiet /\ UNCHANGED <<callVars, worldVars, retry, controlled>>
  <1>1. CASE Decide(h)
    BY <1>1 DEF Decide, Quiet, ledgerVars, scopeVars
  <1>2. CASE HostStep(h)
    <2>1. Raise(h) /\ phase[h] = "open" /\ UNCHANGED <<lease, tokens, tok, lapsed>>
      BY <1>2 DEF HostStep, Deliver, DeliveryRefused, ResolveEffect, ledgerVars, leaseVars
    <2> QED
      BY <1>2, <2>1 DEF Quiet, Raise, TypeOK, HostStep, Deliver, DeliveryRefused
  <1> QED
    BY <1>1, <1>2

(* Where no lease and no scope moves, the scopes stay as they must be. *)
LEMMA QuietKeepsScopes ==
    ASSUME TypeOK, Scopes, Quiet
    PROVE  Scopes'
  BY DEF Quiet, Scopes, OneWorker

(* A scope that begins takes the lease under a token above all others. *)
LEMMA BeginTakesLease ==
    ASSUME LedgerConstants, TypeOK, Scopes, NEW o \in Owners, Begin(o)
    PROVE  /\ ~lease.live
           /\ lease' = [owner |-> o, token |-> tokens + 1, live |-> TRUE]
           /\ tokens' = tokens + 1
           /\ phase[o] = "new"
           /\ phase' = [phase EXCEPT ![o] = "open"]
           /\ tok' = [tok EXCEPT ![o] = tokens + 1]
  <1>1. phase[o] = "new" /\ lease.owner # o
    BY DEF Begin, Scopes
  <1>2. ~lease.live /\ tokens' = tokens + 1
    BY <1>1 DEF Begin, Acquire
  <1>3. lease' = [owner |-> o, token |-> tokens + 1, live |-> TRUE]
    BY <1>1 DEF Begin, Acquire
  <1>4. lease'.token = tokens + 1
    BY <1>3
  <1> QED
    BY <1>1, <1>2, <1>3, <1>4 DEF Begin

(* Entering, renewing, leaving and losing a lease keep tokens distinct and *)
(* at most one worker in possession.                                       *)
LEMMA ScopeKeepsScopes ==
    ASSUME LedgerConstants, JournalInv, NEW o, ScopeMove(o)
    PROVE  Scopes'
  <1>1. /\ TypeOK /\ Scopes
        /\ tokens \in Nat
        /\ NoOwner \notin Owners
    BY DEF JournalInv, TypeOK, LedgerTypeOK, LedgerConstants
  <1>2. CASE o \in Owners /\ Begin(o)
    <2>1. /\ tok'[o] = tokens'
          /\ \A p \in Owners \ {o} : phase'[p] = phase[p] /\ tok'[p] = tok[p]
          /\ phase'[o] = "open"
      BY <1>1, <1>2, BeginTakesLease DEF TypeOK
    <2>2. lease'.owner = o /\ lease'.token = tokens' /\ tokens' = tokens + 1
      BY <1>1, <1>2, BeginTakesLease
    <2> QED
      BY <1>1, <2>1, <2>2 DEF Scopes, OneWorker
  <1>3. CASE o \in Owners /\ Renew(o)
    <2>1. UNCHANGED <<phase, tok>> /\ phase[o] = "open"
      BY <1>3 DEF Renew, journalVars, scopeVars
    <2>2. \/ UNCHANGED tokens /\ lease'.owner = lease.owner /\ lease'.token = lease.token
          \/ tokens' = tokens + 1 /\ lease'.owner = o /\ lease'.token = tokens + 1
      BY <1>1, <1>3 DEF Renew, Acquire, TypeOK, LedgerTypeOK, Leases
    <2> QED
      BY <1>1, <2>1, <2>2 DEF Scopes, OneWorker
  <1>4. CASE (o \in Owners /\ (Unwind(o) \/ Interrupt(o) \/ Crash(o))) \/ Lapse
    <2>1. UNCHANGED <<tok, tokens>>
      BY <1>4 DEF Unwind, Interrupt, Crash, Lapse, Release, Expire, ledgerVars
    <2>2. \A p \in Owners : phase'[p] = "new" <=> phase[p] = "new"
      BY <1>1, <1>4 DEF Unwind, Interrupt, Crash, Lapse, TypeOK
    <2>3. lease'.token = lease.token /\ lease'.owner \in {lease.owner, NoOwner}
      BY <1>1, <1>4 DEF Unwind, Interrupt, Crash, Lapse, Release, Expire, ledgerVars,
                        TypeOK, LedgerTypeOK, Leases
    <2> QED
      BY <1>1, <2>1, <2>2, <2>3 DEF Scopes, OneWorker
  <1> QED
    BY <1>2, <1>3, <1>4 DEF ScopeMove

-----------------------------------------------------------------------------
(* What the coroutines and the hosts hold *)

(* A step of the store never lowers a version, and no record is unfinished    *)
(* before its first one.                                                      *)
LEMMA VersionsGrow ==
    ASSUME LedgerConstants, LedgerTypeOK, [LedgerNext]_ledgerVars, NEW k \in EffectKeys
    PROVE  /\ entries[k].version \in Nat
           /\ entries'[k].version \in Nat
           /\ entries'[k].version >= entries[k].version
           /\ entries'[k] # entries[k] => entries'[k].version > 0
  <1>1. entries[k].version \in Nat
    BY DEF LedgerTypeOK, Steps, Keys
  <1>2. RecordsAdvance
    BY RecordStep
  <1> QED
    BY <1>1, <1>2 DEF RecordsAdvance

(* Hands holds after a step of the store that leaves the coroutines alone.    *)
LEMMA StoreKeepsHands ==
    ASSUME LedgerConstants, JournalConstants, JournalInv, [LedgerNext]_ledgerVars
    PROVE  /\ \A c \in EffectKeys :
                entries'[c].status \in {"ready", "running"} => entries'[c].version > 0
           /\ \A h \in Hosts : verdict[h] # NoDecision =>
                verdict[h].payload.expected <= entries'[verdict[h].payload.key].version
  <1>1. ASSUME NEW c \in EffectKeys, entries'[c].status \in {"ready", "running"}
        PROVE  entries'[c].version > 0
    BY <1>1, VersionsGrow DEF JournalInv, TypeOK, Hands
  <1>2. ASSUME NEW h \in Hosts, verdict[h] # NoDecision
        PROVE  verdict[h].payload.expected <= entries'[verdict[h].payload.key].version
    <2> DEFINE p == verdict[h].payload
    <2>1. p \in Resolutions /\ p.key \in EffectKeys /\ p.expected <= entries[p.key].version
      BY <1>2, VerdictKnown DEF JournalInv, Hands
    <2>2. p.expected \in Nat
      BY <2>1 DEF Resolutions
    <2> HIDE DEF p
    <2>3. p.expected <= entries'[p.key].version
      BY <2>1, <2>2, VersionsGrow DEF JournalInv, TypeOK
    <2> QED
      BY <2>3 DEF p
  <1> QED
    BY <1>1, <1>2

(* A scope step moves a coroutine only by stopping it. *)
LEMMA ScopeStopsCalls ==
    ASSUME JournalConstants, TypeOK, NEW o, ScopeMove(o), NEW a \in Attempts, NEW c \in EffectKeys
    PROVE  \/ pc'[a][c] = pc[a][c]
           \/ pc'[a][c] = "end" /\ phase'[a] = "over"
           \/ pc'[a][c] = "outstanding" /\ pc[a][c] \in {"running", "outstanding"} /\ phase'[a] = "over"
  <1>1. CASE UNCHANGED pc
    BY <1>1
  <1>2. CASE o \in Owners /\ (Unwind(o) \/ Crash(o))
    <2>1. Stopped(o) /\ phase'[o] = "over"
      BY <1>2 DEF Unwind, Crash, TypeOK
    <2> QED
      BY <2>1 DEF Stopped
  <1> QED
    BY <1>1, <1>2 DEF ScopeMove, Begin, Renew, Interrupt, Lapse, journalVars, callVars

(* A move of a lease scope keeps what the calls and the hosts hold in order: *)
(* an attempt that leaves forgets its calls.                                 *)
LEMMA ScopeKeepsHands ==
    ASSUME LedgerConstants, JournalConstants, JournalInv, NEW o, ScopeMove(o)
    PROVE  Hands'
  <1>1. /\ TypeOK /\ Hands
        /\ [LedgerNext]_ledgerVars
    BY ScopeUsesLedger DEF JournalInv
  <1>2. UNCHANGED <<verdict, result>>
    BY DEF ScopeMove, Begin, Renew, Unwind, Interrupt, Crash, Lapse, journalVars, callVars
  <1>3. ASSUME NEW a \in Attempts, NEW c \in EffectKeys
        PROVE  \/ pc'[a][c] = pc[a][c]
               \/ pc'[a][c] = "end"
               \/ pc'[a][c] = "outstanding" /\ phase'[a] = "over"
    BY <1>1, ScopeStopsCalls
  <1>4. ASSUME NEW h \in Hosts, phase'[h] # "new"
        PROVE  verdict[h] # NoDecision
    <2>1. phase[h] # "new" \/ (h = o /\ o \in Owners /\ Begin(o))
      BY <1>1, <1>4 DEF ScopeMove, Begin, Renew, Unwind, Interrupt, Crash, Lapse, journalVars, scopeVars,
                        TypeOK, JournalConstants
    <2> QED
      BY <1>1, <2>1 DEF Hands, Begin
  <1>5. ASSUME NEW a \in Attempts, phase'[a] = "new"
        PROVE  phase[a] = "new"
    BY <1>1, <1>5 DEF ScopeMove, Begin, Renew, Unwind, Interrupt, Crash, Lapse, journalVars, scopeVars,
                      TypeOK, JournalConstants
  <1>6. ASSUME NEW a \in Attempts, NEW c \in EffectKeys
        PROVE  /\ pc'[a][c] \in {"project", "hook", "mark"} => c \in ToolKeys
               /\ pc'[a][c] \in {"applied", "mark"} => result'[a][c] \in Values
               /\ phase'[a] = "new" => pc'[a][c] \in {"read", "end"}
    <2>1. CASE pc'[a][c] = pc[a][c]
      BY <1>1, <1>2, <1>5, <2>1 DEF Hands
    <2>2. CASE pc'[a][c] = "end"
      BY <2>2
    <2>3. CASE pc'[a][c] = "outstanding" /\ phase'[a] = "over"
      BY <2>3
    <2> QED
      BY <1>3, <2>1, <2>2, <2>3
  <1> QED
    BY <1>1, <1>2, <1>4, <1>6, StoreKeepsHands DEF Hands

(* A step of a call keeps what the calls and the hosts hold in order. *)
LEMMA CallKeepsHands ==
    ASSUME LedgerConstants, JournalConstants, JournalInv, NEW a \in Attempts, NEW c \in EffectKeys,
           CallStep(a, c) \/ ProviderAnswersLate(a, c)
    PROVE  Hands'
  <1>1. /\ TypeOK /\ Hands
        /\ [LedgerNext]_ledgerVars
        /\ Quiet /\ UNCHANGED verdict
    BY CallUsesLedger, CallQuiet DEF JournalInv
  <1> DEFINE Held(b, d) == /\ pc[b][d] \in {"project", "hook", "mark"} => d \in ToolKeys
                           /\ pc[b][d] \in {"applied", "mark"} => result[b][d] \in Values
                           /\ phase[b] = "new" => pc[b][d] \in {"read", "end"}
  <1> SUFFICES ASSUME NEW b \in Attempts, NEW d \in EffectKeys
               PROVE  Held(b, d)'
    BY <1>1, StoreKeepsHands DEF Hands, Quiet, JournalConstants
  <1>2. /\ Held(b, d)
        /\ phase'[b] = "new" => phase[b] = "new"
        /\ phase[a] # "new"
    <2>1. pc[a][c] = "outstanding" => phase[a] # "new"
      BY <1>1 DEF Hands
    <2> QED
      BY <1>1, <2>1 DEF Hands, Quiet, JournalConstants, CallStep, Read, ForgetIntent, StartIntent, Perform,
         HandlerRaises, DropIntent, CommitResult, ReadProjection, RunHook, MarkProjected, Refused,
         ProviderAnswersLate, At
  <1>3. CASE UNCHANGED <<pc, result>>
    BY <1>2, <1>3
  <1>4. ASSUME NEW p \in ControlPoints, Goto(a, c, p), UNCHANGED result,
               p \notin {"applied", "mark"}, p \in {"project", "hook"} => c \in ToolKeys
        PROVE  Held(b, d)'
    BY <1>1, <1>2, <1>4, GotoCell
  <1>5. ASSUME NEW p \in ControlPoints, Goto(a, c, p), NEW v \in Values,
               result' = [result EXCEPT ![a][c] = v],
               p \in {"project", "hook", "mark"} => c \in ToolKeys
        PROVE  Held(b, d)'
    <2>1. v \in Result
      BY DEF Result
    <2>2. pc'[b][d] = IF b = a /\ d = c THEN p ELSE pc[b][d]
      BY <1>1, <1>5, GotoCell
    <2>3. result'[b][d] = IF b = a /\ d = c THEN v ELSE result[b][d]
      BY <1>1, <1>5 DEF TypeOK
    <2>4. CASE b = a /\ d = c
      <3>1. pc'[b][d] = p /\ result'[b][d] \in Values
        BY <1>5, <2>2, <2>3, <2>4
      <3> QED
        BY <1>2, <1>5, <2>4, <3>1
    <2>5. CASE ~(b = a /\ d = c)
      BY <1>2, <2>2, <2>3, <2>5
    <2> QED
      BY <2>4, <2>5
  <1> HIDE DEF Held
  <1>6. \A p \in {"forget", "start", "running", "applied", "drop", "project", "hook", "mark", "end"} :
          p \in ControlPoints
    BY DEF ControlPoints
  <1>7. ASSUME NEW v \in Values, Obtain(a, c, v)
        PROVE  Held(b, d)'
    BY <1>5, <1>6, <1>7 DEF Obtain
  <1>8. CASE Read(a, c)
    BY <1>1, <1>3, <1>4, <1>6, <1>7, <1>8, DoneHasValue DEF Read, Keys
  <1>9. CASE ForgetIntent(a, c) \/ StartIntent(a, c) \/ HandlerRaises(a, c) \/ DropIntent(a, c)
    BY <1>4, <1>6, <1>9 DEF ForgetIntent, StartIntent, HandlerRaises, DropIntent
  <1>10. CASE Perform(a, c)
    <2>1. ran[c] + 1 \in Values
      BY <1>1, <1>10 DEF Perform, TypeOK, JournalConstants
    <2>2. "applied" \notin {"project", "hook", "mark"}
      OBVIOUS
    <2>3. Goto(a, c, "applied") /\ result' = [result EXCEPT ![a][c] = ran[c] + 1]
      BY <1>10 DEF Perform
    <2>4. "applied" \in ControlPoints
      BY <1>6
    <2>5. \E v \in Values : result' = [result EXCEPT ![a][c] = v]
      BY <2>1, <2>3
    <2> QED
      BY <1>5, <2>2, <2>3, <2>4, <2>5
  <1>11. CASE CommitResult(a, c)
    BY <1>1, <1>7, <1>11 DEF CommitResult, At, Hands
  <1>12. CASE c \in ToolKeys /\ (ReadProjection(a, c) \/ MarkProjected(a, c))
    BY <1>4, <1>6, <1>12 DEF ReadProjection, MarkProjected
  <1>13. CASE c \in ToolKeys /\ RunHook(a, c)
    <2>1. MaxRuns + hooks[c] + 1 \in Values
      BY <1>1, <1>13 DEF RunHook, TypeOK, JournalConstants
    <2>2. Goto(a, c, "mark") /\ result' = [result EXCEPT ![a][c] = MaxRuns + hooks[c] + 1]
      BY <1>13 DEF RunHook
    <2>3. "mark" \in ControlPoints
      BY <1>6
    <2>4. \E v \in Values : result' = [result EXCEPT ![a][c] = v]
      BY <2>1, <2>2
    <2> QED
      BY <1>5, <1>13, <2>2, <2>3, <2>4
  <1>14. CASE Refused(a, c)
    BY <1>3, <1>14 DEF Refused, callVars
  <1>15. CASE ProviderAnswersLate(a, c)
    BY <1>4, <1>6, <1>15 DEF ProviderAnswersLate
  <1> QED
    BY <1>8, <1>9, <1>10, <1>11, <1>12, <1>13, <1>14, <1>15 DEF CallStep

(* A host's step keeps what the calls and the hosts hold in order. *)
LEMMA HostKeepsHands ==
    ASSUME LedgerConstants, JournalConstants, JournalInv, NEW h \in Hosts, Decide(h) \/ HostStep(h)
    PROVE  Hands'
  <1>1. /\ TypeOK /\ Hands
        /\ [LedgerNext]_ledgerVars
        /\ Quiet /\ UNCHANGED callVars
    BY HostUsesLedger, HostQuiet DEF JournalInv
  <1>2. CASE HostStep(h)
    <2>1. UNCHANGED verdict
      BY <1>2 DEF HostStep, Deliver, DeliveryRefused
    <2> QED
      BY <1>1, <2>1, StoreKeepsHands DEF Hands, Quiet, callVars, JournalConstants
  <1>3. CASE Decide(h)
    <2>1. UNCHANGED <<entries, phase>> /\ verdict[h] = NoDecision
      BY <1>3 DEF Decide, ledgerVars, scopeVars
    <2>2. ASSUME NEW g \in Hosts
          PROVE  /\ phase[g] # "new" => verdict'[g] # NoDecision
                 /\ verdict'[g] # NoDecision =>
                      /\ verdict'[g].payload.key \in ToolKeys
                      /\ verdict'[g].payload.expected <= entries[verdict'[g].payload.key].version
      <3>1. CASE g # h
        BY <1>1, <1>3, <3>1 DEF Decide, Hands, TypeOK
      <3>2. CASE g = h
        <4>1. phase[g] = "new"
          BY <1>1, <2>1, <3>2 DEF Hands, TypeOK
        <4>2. ASSUME NEW c \in ToolKeys, NEW d \in DecisionIds,
                     verdict'[h] = [id |-> d, payload |-> Judgement(c)]
              PROVE  /\ verdict'[h].payload.key \in ToolKeys
                     /\ verdict'[h].payload.expected <= entries[verdict'[h].payload.key].version
          <5>1. entries[c].version \in Nat
            BY <1>1 DEF TypeOK, LedgerTypeOK, Steps, Keys, JournalConstants
          <5>2. Judgement(c).key = c /\ Judgement(c).expected = entries[c].version
            BY DEF Judgement
          <5> QED
            BY <4>2, <5>1, <5>2
        <4>3. \/ \E c \in ToolKeys, d \in DecisionIds :
                   verdict'[h] = [id |-> d, payload |-> Judgement(c)]
              \/ \E f \in Hosts : verdict[f] # NoDecision /\ verdict'[h] = verdict[f]
          BY <1>1, <1>3 DEF Decide, TypeOK
        <4>4. CASE \E f \in Hosts : verdict[f] # NoDecision /\ verdict'[h] = verdict[f]
          BY <1>1, <3>2, <4>1, <4>4 DEF Hands
        <4> QED
          BY <3>2, <4>1, <4>2, <4>3, <4>4
      <3> QED
        BY <3>1, <3>2
    <2> QED
      BY <1>1, <2>1, <2>2 DEF Hands, callVars
  <1> QED
    BY <1>2, <1>3

-----------------------------------------------------------------------------

(* The first state satisfies the invariant. *)
LEMMA JournalInit ==
    ASSUME LedgerConstants, JournalConstants, Init
    PROVE  JournalInv
  <1>1. LedgerTypeOK
    BY DEF Init, LedgerInit, LedgerTypeOK, Steps, Leases, InputRecords
  <1>2. TypeOK
    <2>1. pc \in [Attempts -> [EffectKeys -> ControlPoints]]
      BY DEF Init, ControlPoints
    <2>2. 0 \in 0..MaxRuns
      BY DEF JournalConstants
    <2> QED
      BY <1>1, <2>1, <2>2 DEF Init, TypeOK, Result
  <1>3. Scopes
    BY DEF Init, LedgerInit, Scopes, OneWorker, LedgerConstants
  <1>4. Hands
    <2>1. \A a \in Attempts, c \in EffectKeys : pc[a][c] \in {"read", "end"}
      BY DEF Init
    <2>2. \A c \in EffectKeys : entries[c].status = "absent"
      BY DEF Init, LedgerInit, Keys
    <2>3. \A h \in Hosts : phase[h] = "new" /\ verdict[h] = NoDecision
      BY DEF Init, JournalConstants
    <2> QED
      BY <2>1, <2>2, <2>3 DEF Hands
  <1> QED
    BY <1>2, <1>3, <1>4 DEF JournalInv

(* Every step keeps the invariant. *)
LEMMA JournalStep ==
    ASSUME LedgerConstants, JournalConstants, JournalInv, [Next]_vars
    PROVE  JournalInv'
  <1>1. CASE UNCHANGED vars
    <2> USE <1>1 DEF vars, ledgerVars, journalVars, scopeVars, callVars, worldVars
    <2>1. TypeOK'
      BY DEF JournalInv, TypeOK, LedgerTypeOK
    <2>2. Scopes' /\ Hands'
      BY DEF JournalInv, Scopes, OneWorker, Hands
    <2> QED
      BY <2>1, <2>2 DEF JournalInv
  <1>2. ASSUME NEW o, ScopeMove(o)
        PROVE  JournalInv'
    BY <1>2, ScopeTyped, ScopeKeepsScopes, ScopeKeepsHands DEF JournalInv
  <1>3. ASSUME NEW a \in Attempts, NEW c \in EffectKeys,
               CallStep(a, c) \/ ProviderAnswersLate(a, c)
        PROVE  JournalInv'
    BY <1>3, CallTyped, CallQuiet, QuietKeepsScopes, CallKeepsHands DEF JournalInv
  <1>4. ASSUME NEW h \in Hosts, Decide(h) \/ HostStep(h)
        PROVE  JournalInv'
    BY <1>4, HostTyped, HostQuiet, QuietKeepsScopes, HostKeepsHands DEF JournalInv
  <1> QED
    BY <1>1, <1>2, <1>3, <1>4 DEF Next, ScopeMove

(* The inductive invariant holds in every reachable state. *)
LEMMA JournalInvariant == Spec => []JournalInv
  <1>1. Init => JournalInv
    BY LedgerConstants, JournalConstants, JournalInit
  <1>2. JournalInv /\ [Next]_vars => JournalInv'
    BY LedgerConstants, JournalConstants, JournalStep
  <1> QED
    BY <1>1, <1>2, PTL DEF Spec

(* Every variable of the journal, of its attempts and hosts and of the world  *)
(* keeps its type, whatever crashes, lapses or is delivered late.             *)
THEOREM JournalTypeCorrect == Spec => []TypeOK
  <1>1. JournalInv => TypeOK
    BY DEF JournalInv
  <1> QED
    BY <1>1, JournalInvariant, PTL

(* No two scopes ever hold the same fencing token, so no two of them pass the *)
(* fence of a store that asks for the highest.                                *)
THEOREM JournalOneWorker == Spec => []OneWorker
  <1>1. JournalInv => OneWorker
    BY DEF JournalInv, Scopes
  <1> QED
    BY <1>1, JournalInvariant, PTL

(* The attempts and hosts are clients of the store: each of their steps is a  *)
(* call of StepLedger or leaves it alone.                                     *)
THEOREM JournalUsesLedger == Spec => UsesLedger
  <1>1. Init => LedgerInit
    BY DEF Init
  <1>2. JournalInv /\ [Next]_vars => [LedgerNext]_ledgerVars
    <2> SUFFICES ASSUME JournalInv, [Next]_vars
                 PROVE  [LedgerNext]_ledgerVars
      OBVIOUS
    <2>1. CASE UNCHANGED vars
      BY <2>1 DEF vars
    <2>2. CASE Next
      BY <2>2, JournalConstants, ScopeUsesLedger, CallUsesLedger, HostUsesLedger DEF Next, ScopeMove
    <2> QED
      BY <2>1, <2>2
  <1> QED
    BY <1>1, <1>2, JournalInvariant, PTL DEF Spec, UsesLedger, LedgerSpec

(* Whatever is proved of the store therefore holds of a journal over it: the  *)
(* life cycle of every record, one decision for each execution, a recorded    *)
(* decision behind every granted retry, and a lease that changes hands only   *)
(* when it may.                                                               *)
THEOREM JournalInheritsLedger ==
    Spec => RecordLifecycle /\ []OneDecisionPerIntent /\ []RetryHasDecision /\ LeaseHandOver
  BY JournalUsesLedger, LedgerRecordLifecycle, LedgerOneDecision, LedgerRetryHasDecision,
     LedgerLeaseHandOver DEF UsesLedger

-----------------------------------------------------------------------------
(* Punctual renewals *)

(* An attempt that renews in time cannot lose its lease: nobody takes a live  *)
(* lease, and nobody but its owner releases it.                               *)
THEOREM JournalPunctualHolder == Spec => []PunctualHolderKeepsFence
  <1>1. Init => PunctualHolderKeepsFence
    BY DEF Init, PunctualHolderKeepsFence
  <1>2. JournalInv /\ PunctualHolderKeepsFence /\ [Next]_vars => PunctualHolderKeepsFence'
    <2> SUFFICES ASSUME JournalInv, PunctualHolderKeepsFence, [Next]_vars,
                        NEW p \in Owners, phase'[p] = "open", ~lapsed'[p]
                 PROVE  lease'.owner = p /\ lease'.live /\ tok'[p] = tokens'
      BY DEF PunctualHolderKeepsFence
    <2>1. TypeOK /\ Scopes /\ LedgerTypeOK
      BY DEF JournalInv, TypeOK
    <2>2. CASE UNCHANGED vars \/ Quiet
      BY <2>1, <2>2 DEF Quiet, PunctualHolderKeepsFence, vars, ledgerVars, journalVars, scopeVars
    <2>3. ASSUME NEW o \in Owners, Begin(o)
          PROVE  lease'.owner = p /\ lease'.live /\ tok'[p] = tokens'
      <3>1. CASE p = o
        <4>1. tok'[p] = tokens + 1
          BY <2>1, <2>3, <3>1, LedgerConstants, BeginTakesLease DEF TypeOK
        <4> QED
          BY <2>1, <2>3, <3>1, <4>1, LedgerConstants, BeginTakesLease
      <3>2. CASE p # o
        <4>1. phase[p] = "open" /\ ~lapsed[p]
          BY <2>1, <2>3, <3>2 DEF Begin, TypeOK
        <4> QED
          BY <2>1, <2>3, <4>1, LedgerConstants, BeginTakesLease DEF PunctualHolderKeepsFence
      <3> QED
        BY <3>1, <3>2
    <2>4. ASSUME NEW o \in Owners, Renew(o)
          PROVE  lease'.owner = p /\ lease'.live /\ tok'[p] = tokens'
      <3>1. lease.owner = p /\ lease.live /\ tok[p] = tokens
        BY <2>4 DEF Renew, journalVars, scopeVars, PunctualHolderKeepsFence
      <3>2. lease.owner = o /\ lease' = [lease EXCEPT !.live = TRUE] /\ UNCHANGED <<tokens, tok>>
        BY <2>4, <3>1 DEF Renew, Acquire, journalVars, scopeVars
      <3> QED
        BY <2>1, <3>1, <3>2 DEF LedgerTypeOK, Leases
    <2>5. ASSUME NEW o \in Owners, Unwind(o) \/ Interrupt(o) \/ Crash(o)
          PROVE  lease'.owner = p /\ lease'.live /\ tok'[p] = tokens'
      <3>1. p # o /\ phase[p] = "open" /\ ~lapsed[p] /\ UNCHANGED <<tok, tokens>>
        BY <2>1, <2>5 DEF Unwind, Interrupt, Crash, TypeOK, Release, ledgerVars
      <3>2. lease' = lease
        BY <2>5, <3>1 DEF Unwind, Interrupt, Crash, Release, ledgerVars, PunctualHolderKeepsFence
      <3> QED
        BY <3>1, <3>2 DEF PunctualHolderKeepsFence
    <2>6. CASE Lapse
      <3>1. phase[p] = "open" /\ ~lapsed[p] /\ p # lease.owner
        BY <2>6 DEF Lapse
      <3> QED
        BY <3>1 DEF PunctualHolderKeepsFence
    <2> QED
      BY <2>1, <2>2, <2>3, <2>4, <2>5, <2>6, JournalConstants, CallQuiet, HostQuiet DEF Next
  <1> QED
    BY <1>1, <1>2, JournalInvariant, PTL DEF Spec

-----------------------------------------------------------------------------
(* What the attempt behind the fence may rely on *)

(* Two open scopes that both pass the fence are the same one. *)
LEMMA FencedIsOne ==
    ASSUME TypeOK, Scopes, NEW o \in Owners, NEW p \in Owners,
           phase[o] = "open", phase[p] = "open", Fence(tok[o]), Fence(tok[p])
    PROVE  o = p
  <1>1. tokens \in Nat /\ tok[o] \in 1..tokens /\ tok[p] \in 1..tokens
    BY DEF TypeOK, LedgerTypeOK, Scopes
  <1>2. tok[o] = tokens /\ tok[p] = tokens
    BY <1>1 DEF Fence
  <1> QED
    BY <1>2 DEF Scopes, OneWorker

(* A call writes its own record, or its marker, and only behind the fence.    *)
LEMMA CallWrites ==
    ASSUME JournalConstants, JournalInv, NEW a \in Attempts, NEW c \in EffectKeys,
           CallStep(a, c) \/ ProviderAnswersLate(a, c), NEW k \in Keys, entries'[k] # entries[k]
    PROVE  /\ phase[a] = "open" /\ Fence(tok[a])
           /\ \/ k = c
              \/ c \in ToolKeys /\ k = AfterKey[c] /\ MarkProjected(a, c)
  <1>1. entries \in [Keys -> Steps] /\ c \in Keys
    BY DEF JournalInv, TypeOK, LedgerTypeOK, Keys
  <1>2. CASE ForgetIntent(a, c) \/ StartIntent(a, c) \/ DropIntent(a, c) \/ CommitResult(a, c)
    BY <1>1, <1>2 DEF ForgetIntent, StartIntent, DropIntent, CommitResult, At, Forget, Start, FinishEffect
  <1>3. CASE c \in ToolKeys /\ MarkProjected(a, c)
    BY <1>1, <1>3 DEF MarkProjected, At, WriteControl
  <1>4. CASE ~(\/ ForgetIntent(a, c) \/ StartIntent(a, c) \/ DropIntent(a, c) \/ CommitResult(a, c)
               \/ c \in ToolKeys /\ MarkProjected(a, c))
    BY <1>4 DEF CallStep, Read, Perform, HandlerRaises, ReadProjection, RunHook, Refused,
                ProviderAnswersLate, ledgerVars
  <1> QED
    BY <1>2, <1>3, <1>4

(* A delivery writes the record of a tool effect, behind the fence. *)
LEMMA HostWrites ==
    ASSUME JournalConstants, JournalInv, NEW h \in Hosts, Decide(h) \/ HostStep(h),
           NEW k \in Keys, entries'[k] # entries[k]
    PROVE  /\ phase[h] = "open" /\ Fence(tok[h]) /\ Deliver(h)
           /\ verdict[h] # NoDecision /\ k = verdict[h].payload.key /\ k \in ToolKeys
           /\ IntentUnresolved(verdict[h].payload)
           /\ entries'[k] = IF verdict[h].payload.action = "complete"
                               THEN MovedTo(k, "done", verdict[h].payload.value)
                               ELSE MovedTo(k, "ready", NoValue)
  <1>1. Deliver(h)
    BY DEF Decide, HostStep, DeliveryRefused, ledgerVars
  <1>2. verdict[h] # NoDecision /\ verdict[h].payload.key \in ToolKeys
    BY <1>1 DEF Deliver, JournalInv, Hands
  <1>3. /\ Fence(tok[h])
        /\ IntentUnresolved(verdict[h].payload)
        /\ entries' = [entries EXCEPT ![verdict[h].payload.key] =
                         IF verdict[h].payload.action = "complete"
                           THEN MovedTo(verdict[h].payload.key, "done", verdict[h].payload.value)
                           ELSE MovedTo(verdict[h].payload.key, "ready", NoValue)]
    BY <1>1 DEF Deliver, ResolveEffect, recordVars
  <1> QED
    BY <1>1, <1>2, <1>3 DEF Deliver, JournalInv, TypeOK, LedgerTypeOK

(* No step lets a scope pass the fence that did not before, but its own       *)
(* beginning does.                                                            *)
LEMMA FenceOnlyCloses ==
    ASSUME LedgerConstants, JournalConstants, JournalInv, NEW o, ScopeMove(o),
           NEW p \in Owners, phase'[p] = "open", Fence(tok[p])'
    PROVE  \/ phase[p] = "new" /\ Begin(p)
           \/ phase[p] = "open" /\ Fence(tok[p])
  <1>1. TypeOK /\ Scopes /\ tokens \in Nat /\ tok[p] \in Nat
    BY DEF JournalInv, TypeOK, LedgerTypeOK
  <1>2. CASE o \in Owners /\ Begin(o) /\ p # o
    <2>0. /\ tokens' = tokens + 1
          /\ phase' = [phase EXCEPT ![o] = "open"]
          /\ tok' = [tok EXCEPT ![o] = tokens + 1]
      BY <1>1, <1>2, BeginTakesLease
    <2>1. phase[p] = "open" /\ tok'[p] = tok[p] /\ tokens' = tokens + 1
      BY <1>1, <1>2, <2>0 DEF TypeOK
    <2>2. tok[p] \in 1..tokens
      BY <1>1, <2>1 DEF Scopes
    <2> QED
      BY <1>1, <2>1, <2>2 DEF Fence
  <1>3. CASE o \in Owners /\ Begin(o) /\ p = o
    BY <1>3 DEF Begin
  <1>4. CASE o \in Owners /\ Renew(o)
    <2>1. phase[p] = "open" /\ tok'[p] = tok[p] /\ tokens' \in {tokens, tokens + 1}
      BY <1>4 DEF Renew, Acquire, journalVars, scopeVars
    <2> QED
      BY <1>1, <2>1 DEF Fence
  <1>5. CASE (o \in Owners /\ (Unwind(o) \/ Interrupt(o) \/ Crash(o))) \/ Lapse
    <2>1. phase[p] = "open" /\ tok'[p] = tok[p] /\ tokens' = tokens
      BY <1>1, <1>5 DEF Unwind, Interrupt, Crash, Lapse, Release, Expire, ledgerVars, TypeOK
    <2> QED
      BY <2>1 DEF Fence
  <1> QED
    BY <1>2, <1>3, <1>4, <1>5 DEF ScopeMove

(* Where no lease and no scope moves, the same attempts pass the fence. *)
LEMMA QuietFence ==
    ASSUME Quiet, NEW p \in Owners, phase'[p] = "open", Fence(tok[p])'
    PROVE  phase[p] = "open" /\ Fence(tok[p])
  BY DEF Quiet, Fence

(* A move of a lease scope writes no record. *)
LEMMA ScopeKeepsEntries ==
    ASSUME NEW o, ScopeMove(o)
    PROVE  UNCHANGED <<entries, decisions, result, shown, ran, hooks, verdict, retry, controlled>>
  BY DEF ScopeMove, Begin, Renew, Unwind, Interrupt, Crash, Lapse, Acquire, Release, Expire,
         recordVars, ledgerVars, journalVars, callVars, worldVars

(* A move of a lease scope keeps IntentStands: a scope that begins works *)
(* under no intent yet.                                                  *)
LEMMA ScopeKeepsIntentStands ==
    ASSUME LedgerConstants, JournalConstants, JournalInv, IntentStands, NEW o, ScopeMove(o)
    PROVE  IntentStands'
  <1> SUFFICES ASSUME NEW a \in Attempts, NEW c \in EffectKeys, phase'[a] = "open", Fence(tok[a])',
                      pc'[a][c] \in {"running", "applied", "drop"}
               PROVE  entries'[c].status = "running"
    BY DEF IntentStands
  <1>1. pc'[a][c] = pc[a][c] /\ a \in Owners
    BY ScopeStopsCalls DEF JournalInv, JournalConstants
  <1>2. phase[a] # "new"
    BY <1>1 DEF JournalInv, Hands
  <1>3. phase[a] = "open" /\ Fence(tok[a])
    BY <1>1, <1>2, FenceOnlyCloses
  <1> QED
    BY <1>1, <1>3, ScopeKeepsEntries DEF IntentStands

(* While the attempt behind the fence is at an effect, every other writer is  *)
(* shut out, and its own calls keep to their own records.                     *)
LEMMA CallKeepsIntentStands ==
    ASSUME LedgerConstants, JournalConstants, JournalInv, IntentStands,
           NEW a \in Attempts, NEW c \in EffectKeys, CallStep(a, c) \/ ProviderAnswersLate(a, c)
    PROVE  IntentStands'
  <1> SUFFICES ASSUME NEW b \in Attempts, NEW d \in EffectKeys, phase'[b] = "open", Fence(tok[b])',
                      pc'[b][d] \in {"running", "applied", "drop"}
               PROVE  entries'[d].status = "running"
    BY DEF IntentStands
  <1>1. /\ TypeOK /\ Scopes
        /\ a \in Owners /\ b \in Owners
        /\ phase[b] = "open" /\ Fence(tok[b])
        /\ d \in Keys /\ d \notin ControlKeys
        /\ \A k \in ToolKeys : AfterKey[k] \in ControlKeys
    BY CallQuiet, QuietFence DEF JournalInv, JournalConstants, LedgerConstants, Keys
  <1>2. CASE ~(b = a /\ d = c)
    <2>1. pc'[b][d] = pc[b][d]
      BY <1>1, <1>2, CallMovesOnly
    <2>2. entries'[d] = entries[d]
      BY <1>1, <1>2, CallWrites, FencedIsOne
    <2> QED
      BY <1>1, <2>1, <2>2 DEF IntentStands
  <1>3. CASE b = a /\ d = c
    <2>1. CASE StartIntent(a, c)
      BY <1>1, <1>3, <2>1 DEF StartIntent, Start, MovedTo, TypeOK, LedgerTypeOK
    <2>2. CASE Perform(a, c) \/ HandlerRaises(a, c)
      <3>1. pc[a][c] \in {"running", "applied"} /\ entries' = entries
        BY <2>2 DEF Perform, HandlerRaises, At, ledgerVars
      <3> QED
        BY <1>1, <1>3, <3>1 DEF IntentStands
    <2>3. CASE ~(StartIntent(a, c) \/ Perform(a, c) \/ HandlerRaises(a, c))
      <3>1. phase'[a] # "open" \/ pc'[a][c] \in {"start", "forget", "project", "end", "hook", "mark"}
        BY <1>1, <2>3, CallLandsOn
      <3> QED
        BY <1>3, <3>1
    <2> QED
      BY <2>1, <2>2, <2>3
  <1> QED
    BY <1>2, <1>3

(* A host decides under a lease of its own, so an attempt whose intent it *)
(* overtakes no longer passes the fence: its step keeps IntentStands.     *)
LEMMA HostKeepsIntentStands ==
    ASSUME LedgerConstants, JournalConstants, JournalInv, IntentStands,
           NEW h \in Hosts, Decide(h) \/ HostStep(h)
    PROVE  IntentStands'
  <1> SUFFICES ASSUME NEW a \in Attempts, NEW c \in EffectKeys, phase'[a] = "open", Fence(tok[a])',
                      pc'[a][c] \in {"running", "applied", "drop"}
               PROVE  entries'[c].status = "running"
    BY DEF IntentStands
  <1>1. /\ TypeOK /\ Scopes
        /\ a \in Owners /\ h \in Owners /\ a # h /\ c \in Keys
        /\ phase[a] = "open" /\ Fence(tok[a]) /\ pc'[a][c] = pc[a][c]
    BY HostQuiet, QuietFence DEF JournalInv, JournalConstants, callVars, Keys
  <1>2. entries'[c] = entries[c]
    BY <1>1, HostWrites, FencedIsOne
  <1> QED
    BY <1>1, <1>2 DEF IntentStands

(* The attempt that passes the fence never finds the intent it works under    *)
(* taken away, whatever stale attempts and late decisions do meanwhile.       *)
THEOREM JournalIntentStands == Spec => []IntentStands
  <1>1. Init => IntentStands
    BY DEF Init, IntentStands
  <1>2. JournalInv /\ IntentStands /\ [Next]_vars => IntentStands'
    <2> SUFFICES ASSUME JournalInv, IntentStands, [Next]_vars
                 PROVE  IntentStands'
      OBVIOUS
    <2>1. CASE UNCHANGED vars
      BY <2>1 DEF vars, ledgerVars, journalVars, scopeVars, callVars, IntentStands, Fence
    <2>2. CASE Next
      BY <2>2, LedgerConstants, JournalConstants, ScopeKeepsIntentStands, CallKeepsIntentStands,
         HostKeepsIntentStands DEF Next, ScopeMove
    <2> QED
      BY <2>1, <2>2
  <1> QED
    BY <1>1, <1>2, JournalInvariant, PTL DEF Spec

-----------------------------------------------------------------------------
(* Projection markers *)

(* No effect record leaves "done", and one that has moved is past every       *)
(* version that a decision names.                                             *)
LEMMA RecordsMove ==
    ASSUME LedgerConstants, JournalConstants, JournalInv, [LedgerNext]_ledgerVars,
           NEW c \in EffectKeys
    PROVE  /\ entries[c].status = "done" => entries'[c] = entries[c]
           /\ \A h \in Hosts :
                verdict[h] # NoDecision /\ verdict[h].payload.key = c /\ entries'[c] # entries[c]
                  => entries'[c].version > verdict[h].payload.expected
  <1>1. TypeOK /\ LedgerTypeOK /\ Hands
    BY DEF JournalInv, TypeOK
  <1>2. entries'[c] # entries[c] =>
          /\ entries'[c].status \in Successors(entries[c].status)
          /\ entries'[c].version = entries[c].version + 1
    BY <1>1, RecordStep DEF RecordsAdvance
  <1>3. entries[c].version \in Nat
    BY <1>1, VersionsGrow
  <1>4. ASSUME NEW h \in Hosts, verdict[h] # NoDecision, verdict[h].payload.key = c
        PROVE  verdict[h].payload.expected \in Nat /\ verdict[h].payload.expected <= entries[c].version
    BY <1>1, <1>4, VerdictKnown DEF Resolutions, Hands
  <1> QED
    BY <1>2, <1>3, <1>4 DEF Successors

(* A step that moves no scope, no call and no marker keeps Marks. *)
LEMMA MarkersKept ==
    ASSUME JournalConstants, Marks, Quiet, UNCHANGED <<callVars, controlled>>,
           \A c \in ToolKeys : /\ entries'[AfterKey[c]] = entries[AfterKey[c]]
                               /\ entries[c].status = "done" => entries'[c] = entries[c]
    PROVE  Marks'
  BY DEF Marks, Settled, Quiet, Fence, callVars, JournalConstants

(* A move of a lease scope keeps Marks. *)
LEMMA ScopeKeepsMarks ==
    ASSUME LedgerConstants, JournalConstants, JournalInv, Marks, NEW o, ScopeMove(o)
    PROVE  Marks'
  <1>1. ASSUME NEW a \in Attempts, NEW c \in ToolKeys, phase'[a] = "open", Fence(tok[a])',
               pc'[a][c] \in {"hook", "mark"}
        PROVE  entries[AfterKey[c]].status # "done"
    <2>1. c \in EffectKeys /\ a \in Owners
      BY DEF JournalConstants
    <2>2. pc'[a][c] = pc[a][c]
      BY <1>1, <2>1, ScopeStopsCalls DEF JournalInv
    <2>3. phase[a] # "new"
      BY <1>1, <2>1, <2>2 DEF JournalInv, Hands
    <2>4. phase[a] = "open" /\ Fence(tok[a])
      BY <1>1, <2>1, <2>3, FenceOnlyCloses
    <2> QED
      BY <1>1, <2>2, <2>4 DEF Marks
  <1>2. ASSUME NEW a \in Attempts, NEW c \in ToolKeys, pc'[a][c] = "project"
        PROVE  pc[a][c] = "project"
    <2>1. c \in EffectKeys
      BY DEF JournalConstants
    <2> QED
      BY <1>2, <2>1, ScopeStopsCalls DEF JournalInv
  <1> QED
    BY <1>1, <1>2, ScopeKeepsEntries DEF Marks, Settled

(* A marker is written once: its writer passes the fence, and whoever passes  *)
(* the fence on the way to the marker has looked and found none.              *)
LEMMA CallKeepsMarks ==
    ASSUME LedgerConstants, JournalConstants, JournalInv, Marks,
           NEW a \in Attempts, NEW c \in EffectKeys, CallStep(a, c) \/ ProviderAnswersLate(a, c)
    PROVE  Marks'
  <1>1. /\ TypeOK /\ Scopes /\ Hands /\ Quiet
        /\ a \in Owners
        /\ \A b \in Attempts : b \in Owners
        /\ \A d \in ToolKeys : /\ d \in EffectKeys /\ AfterKey[d] \in Keys
                              /\ AfterKey[d] \in ControlKeys /\ AfterKey[d] # c
        /\ \A d \in ToolKeys \ {c} : c \in ToolKeys => AfterKey[d] # AfterKey[c]
        /\ NoValue \notin Values
    BY CallQuiet DEF JournalInv, JournalConstants, LedgerConstants, Keys
  <1>c. controlled' = controlled
    BY <1>1, CallQuiet
  <1>2. ASSUME NEW d \in ToolKeys, entries'[AfterKey[d]] # entries[AfterKey[d]]
        PROVE  d = c /\ MarkProjected(a, c) /\ phase[a] = "open" /\ Fence(tok[a])
    BY <1>1, <1>2, CallWrites
  <1>3. ASSUME NEW b \in Attempts, NEW d \in ToolKeys, ~(b = a /\ d = c)
        PROVE  pc'[b][d] = pc[b][d] /\ shown'[b][d] = shown[b][d] /\ result'[b][d] = result[b][d]
    BY <1>1, <1>3, CallMovesOnly
  <1>4. ASSUME NEW d \in ToolKeys, entries[d].status = "done"
        PROVE  entries'[d] = entries[d]
    BY <1>1, <1>4, CallUsesLedger, RecordsMove
  <1>5. ASSUME NEW b \in Attempts, NEW d \in ToolKeys, pc'[b][d] = "project"
        PROVE  Settled(d, result[b][d])'
    <2>1. CASE pc[b][d] = "project" /\ result'[b][d] = result[b][d]
      BY <1>4, <2>1 DEF Marks, Settled
    <2>2. CASE ~(pc[b][d] = "project" /\ result'[b][d] = result[b][d])
      <3>1. b = a /\ d = c
        BY <1>3, <1>5, <2>2
      <3> QED
        BY <1>1, <1>5, <2>2, <3>1, CallObtains
    <2> QED
      BY <2>1, <2>2
  <1>6. CASE c \in ToolKeys /\ MarkProjected(a, c)
    <2>1. /\ phase[a] = "open" /\ Fence(tok[a]) /\ pc[a][c] = "mark"
          /\ result[a][c] \in Values
      BY <1>1, <1>6 DEF MarkProjected, At, WriteControl, Hands
    <2>2. /\ entries'[AfterKey[c]].status = "done"
          /\ entries'[AfterKey[c]].value = result[a][c]
          /\ shown'[a][c] = result[a][c]
          /\ pc'[a][c] = "end"
      BY <1>1, <1>6 DEF MarkProjected, WriteControl, MovedTo, Goto, TypeOK, LedgerTypeOK
    <2>3. entries[AfterKey[c]].status # "done"
      BY <1>6, <2>1 DEF Marks
    <2>4. ASSUME NEW b \in Attempts, NEW d \in ToolKeys, phase'[b] = "open", Fence(tok[b])',
                 pc'[b][d] \in {"hook", "mark"}
          PROVE  entries'[AfterKey[d]].status # "done"
      <3>1. phase[b] = "open" /\ Fence(tok[b])
        BY <1>1, <2>4, QuietFence
      <3>2. b = a
        BY <1>1, <2>1, <3>1, FencedIsOne
      <3>3. d # c
        BY <2>2, <2>4, <3>2
      <3> QED
        BY <1>2, <1>3, <2>4, <3>1, <3>3 DEF Marks
    <2>5. ASSUME NEW b \in Attempts, NEW d \in ToolKeys, shown'[b][d] # NoValue
          PROVE  \/ Settled(AfterKey[d], shown[b][d])'
                 \/ b \notin controlled /\ Settled(d, shown[b][d])'
      <3>1. CASE b = a /\ d = c
        BY <2>2, <3>1 DEF Settled
      <3>2. CASE ~(b = a /\ d = c)
        <4>1. \/ Settled(AfterKey[d], shown[b][d])
              \/ b \notin controlled /\ Settled(d, shown[b][d])
          BY <1>3, <2>5, <3>2 DEF Marks
        <4>2. Settled(AfterKey[d], shown[b][d]) => entries'[AfterKey[d]] = entries[AfterKey[d]]
          BY <1>2, <2>3 DEF Settled
        <4> QED
          BY <1>3, <1>4, <3>2, <4>1, <4>2 DEF Settled
      <3> QED
        BY <3>1, <3>2
    <2> QED
      BY <1>c, <1>5, <2>4, <2>5 DEF Marks
  <1>7. CASE ~(c \in ToolKeys /\ MarkProjected(a, c))
    <2>1. \A d \in ToolKeys : entries'[AfterKey[d]] = entries[AfterKey[d]]
      BY <1>2, <1>7
    <2>2. ASSUME c \in ToolKeys, pc'[a][c] \in {"hook", "mark"}, phase'[a] = "open"
          PROVE  pc[a][c] \in {"hook", "mark"} \/ entries[AfterKey[c]].status # "done"
      BY <1>1, <1>7, <2>2, CallReachesMark
    <2>3. ASSUME NEW b \in Attempts, NEW d \in ToolKeys, phase'[b] = "open", Fence(tok[b])',
                 pc'[b][d] \in {"hook", "mark"}
          PROVE  entries'[AfterKey[d]].status # "done"
      <3>1. phase[b] = "open" /\ Fence(tok[b])
        BY <1>1, <2>3, QuietFence
      <3> QED
        BY <1>3, <2>1, <2>2, <2>3, <3>1 DEF Marks
    <2>4. ASSUME NEW b \in Attempts, NEW d \in ToolKeys, shown'[b][d] # NoValue
          PROVE  \/ Settled(AfterKey[d], shown[b][d])'
                 \/ b \notin controlled /\ Settled(d, shown[b][d])'
      <3>1. CASE shown'[b][d] = shown[b][d]
        BY <1>4, <2>1, <2>4, <3>1 DEF Marks, Settled
      <3>2. CASE shown'[b][d] # shown[b][d]
        <4>1. b = a /\ d = c
          BY <1>3, <3>2
        <4>2. /\ UNCHANGED entries
              /\ \/ Settled(AfterKey[c], shown'[a][c])
                 \/ /\ a \notin controlled /\ pc[a][c] = "project"
                    /\ shown'[a][c] = result[a][c]
          BY <1>1, <1>7, <3>2, <4>1, CallShows
        <4> QED
          BY <4>1, <4>2 DEF Marks, Settled
      <3> QED
        BY <3>1, <3>2
    <2> QED
      BY <1>c, <1>5, <2>3, <2>4 DEF Marks
  <1> QED
    BY <1>6, <1>7

(* Marks holds in every reachable state. *)
LEMMA MarksInvariant == Spec => []Marks
  <1>1. Init => Marks
    <2> SUFFICES ASSUME Init
                 PROVE  Marks
      OBVIOUS
    <2>1. \A a \in Attempts, c \in ToolKeys : a \in Owners /\ c \in EffectKeys
      BY JournalConstants DEF JournalConstants
    <2>2. \A a \in Attempts : phase[a] = "new"
      BY <2>1, JournalConstants DEF Init, JournalConstants
    <2>3. \A a \in Attempts, c \in ToolKeys : shown[a][c] = NoValue /\ pc[a][c] \in {"read", "end"}
      BY <2>1 DEF Init
    <2> QED
      BY <2>2, <2>3 DEF Marks
  <1>2. JournalInv /\ Marks /\ [Next]_vars => Marks'
    <2> SUFFICES ASSUME JournalInv, Marks, [Next]_vars
                 PROVE  Marks'
      OBVIOUS
    <2>1. CASE UNCHANGED vars
      BY <2>1 DEF vars, ledgerVars, journalVars, scopeVars, callVars, Marks, Settled, Fence
    <2>2. ASSUME NEW h \in Hosts, Decide(h) \/ HostStep(h)
          PROVE  Marks'
      <3>1. \A c \in ToolKeys : /\ AfterKey[c] \in Keys /\ AfterKey[c] \notin ToolKeys
                                /\ c \in EffectKeys
        BY LedgerConstants, JournalConstants DEF LedgerConstants, JournalConstants, Keys
      <3>2. \A c \in ToolKeys : entries'[AfterKey[c]] = entries[AfterKey[c]]
        BY <2>2, <3>1, JournalConstants, HostWrites
      <3>3. \A c \in ToolKeys : entries[c].status = "done" => entries'[c] = entries[c]
        BY <2>2, <3>1, LedgerConstants, JournalConstants, HostUsesLedger, RecordsMove
      <3> QED
        BY <2>2, <3>2, <3>3, JournalConstants, HostQuiet, MarkersKept DEF JournalInv
    <2>3. CASE Next
      BY <2>2, <2>3, LedgerConstants, JournalConstants, ScopeKeepsMarks, CallKeepsMarks
         DEF Next, ScopeMove
    <2> QED
      BY <2>1, <2>3
  <1> QED
    BY <1>1, <1>2, JournalInvariant, PTL DEF Spec

(* What the attempts with controls return of a tool call is one projection,   *)
(* though the hook may have run for several of them, and an attempt without   *)
(* controls returns that projection or the settled result.                    *)
THEOREM JournalShownResultsAgree == Spec => []ShownResultsAgree
  <1>1. Marks => ShownResultsAgree
    BY DEF Marks, Settled, ShownResultsAgree
  <1> QED
    BY <1>1, MarksInvariant, PTL

(* Once a projection is recorded it is what every attempt returns, whether it *)
(* was given controls or not.                                                 *)
THEOREM JournalProjectionReplayed == Spec => ProjectionReplayed
  <1> DEFINE Replays == \A a \in Attempts, c \in ToolKeys :
               entries[AfterKey[c]].status = "done" /\ shown'[a][c] # shown[a][c]
                 => shown'[a][c] = entries[AfterKey[c]].value
  <1>1. JournalInv /\ Marks /\ [Next]_vars => [Replays]_vars
    <2> SUFFICES ASSUME JournalInv, Marks, Next,
                        NEW b \in Attempts, NEW d \in ToolKeys,
                        entries[AfterKey[d]].status = "done", shown'[b][d] # shown[b][d]
                 PROVE  shown'[b][d] = entries[AfterKey[d]].value
      OBVIOUS
    <2>1. d \in EffectKeys /\ TypeOK
      BY JournalConstants DEF JournalConstants, JournalInv
    <2>2. PICK a \in Attempts, c \in EffectKeys : CallStep(a, c) \/ ProviderAnswersLate(a, c)
      BY JournalConstants, <2>1, ScopeKeepsEntries, HostQuiet DEF Next, ScopeMove, callVars
    <2>3. b = a /\ d = c
      BY <2>1, <2>2, JournalConstants, CallMovesOnly
    <2>4. ~MarkProjected(a, c)
      BY <2>3 DEF MarkProjected, At, WriteControl, Marks
    <2> QED
      BY <2>1, <2>2, <2>3, <2>4, JournalConstants, CallShows DEF Settled
  <1> QED
    BY <1>1, JournalInvariant, MarksInvariant, PTL DEF Spec, ProjectionReplayed

-----------------------------------------------------------------------------
(* At most once *)

(* An effect happens only when its handler runs, or when the provider of a    *)
(* request that is outstanding carries it out.                                *)
LEMMA CallRuns ==
    ASSUME JournalConstants, TypeOK, NEW a \in Attempts, NEW c \in EffectKeys,
           CallStep(a, c) \/ ProviderAnswersLate(a, c), NEW d \in EffectKeys
    PROVE  \/ ran'[d] = ran[d]
           \/ /\ d = c /\ ran'[c] = ran[c] + 1
              /\ \/ Perform(a, c)
                 \/ ProviderAnswersLate(a, c) /\ pc[a][c] = "outstanding"
  <1>1. CASE Perform(a, c) \/ ProviderAnswersLate(a, c)
    BY <1>1 DEF Perform, ProviderAnswersLate, TypeOK
  <1>2. CASE ~(Perform(a, c) \/ ProviderAnswersLate(a, c))
    BY <1>2 DEF CallStep, Read, ForgetIntent, StartIntent, HandlerRaises, DropIntent, CommitResult,
                ReadProjection, RunHook, MarkProjected, Refused, worldVars
  <1> QED
    BY <1>1, <1>2

(* A call writes no record of another tool effect. *)
LEMMA CallKeepsRecords ==
    ASSUME LedgerConstants, JournalConstants, JournalInv,
           NEW a \in Attempts, NEW c \in EffectKeys, CallStep(a, c) \/ ProviderAnswersLate(a, c),
           NEW d \in EffectKeys, d # c
    PROVE  entries'[d] = entries[d]
  <1>1. d \in Keys /\ d \notin ControlKeys
    BY DEF LedgerConstants, Keys
  <1>2. c \in ToolKeys => AfterKey[c] # d
    BY <1>1 DEF JournalConstants
  <1> QED
    BY <1>1, <1>2, CallWrites

(* Stopping an attempt leaves what it asked for outstanding, and nothing else. *)
LEMMA ScopeKeepsIntent ==
    ASSUME LedgerConstants, JournalConstants, JournalInv, NEW o, ScopeMove(o),
           NEW c \in ToolKeys, Intent(c)
    PROVE  Intent(c)'
  <1>1. /\ UNCHANGED <<entries, result, ran>>
        /\ c \in EffectKeys
    BY ScopeKeepsEntries DEF JournalConstants
  <1>2. ASSUME NEW a \in Attempts
        PROVE  \/ pc'[a][c] = pc[a][c]
               \/ pc'[a][c] = "end"
               \/ pc'[a][c] = "outstanding" /\ pc[a][c] \in {"running", "outstanding"}
    BY <1>1, ScopeStopsCalls DEF JournalInv
  <1> QED
    BY <1>1, <1>2 DEF Intent, InFlight

(* Other calls cannot disturb what a record says about its effect. *)
LEMMA CallKeepsOtherIntent ==
    ASSUME LedgerConstants, JournalConstants, JournalInv,
           NEW a \in Attempts, NEW c \in EffectKeys, CallStep(a, c) \/ ProviderAnswersLate(a, c),
           NEW d \in ToolKeys, d # c, Intent(d)
    PROVE  Intent(d)'
  <1>1. d \in EffectKeys /\ TypeOK
    BY DEF JournalConstants, JournalInv
  <1>2. entries'[d] = entries[d] /\ ran'[d] = ran[d]
    BY <1>1, CallKeepsRecords, CallRuns
  <1>3. \A b \in Attempts : pc'[b][d] = pc[b][d] /\ result'[b][d] = result[b][d]
    BY <1>1, CallMovesOnly
  <1> QED
    BY <1>2, <1>3 DEF Intent

(* A tool call takes its effect up under a fresh intent, performs it once,    *)
(* and gives the intent up only if nothing happened.                          *)
LEMMA CallKeepsIntent ==
    ASSUME LedgerConstants, JournalConstants, JournalInv, ~retry,
           NEW a \in Attempts, NEW c \in ToolKeys, CallStep(a, c) \/ ProviderAnswersLate(a, c),
           Intent(c)
    PROVE  Intent(c)'
  <1>1. /\ TypeOK /\ LedgerTypeOK
        /\ c \in EffectKeys /\ c \in Keys /\ c \notin ModelKeys
        /\ AfterKey[c] # c
        /\ ran[c] \in 0..MaxRuns
    <2>1. c \in EffectKeys /\ c \notin ModelKeys /\ AfterKey[c] \in ControlKeys
      BY DEF JournalConstants
    <2>2. AfterKey[c] # c /\ c \in Keys
      BY <2>1 DEF LedgerConstants, Keys
    <2> QED
      BY <2>1, <2>2 DEF JournalInv, TypeOK
  <1>2. \A b \in Attempts \ {a} : pc'[b][c] = pc[b][c] /\ result'[b][c] = result[b][c]
    BY <1>1, CallMovesOnly
  <1>3. ASSUME NEW p, Goto(a, c, p)
        PROVE  pc'[a][c] = p
    BY <1>1, <1>3 DEF Goto, TypeOK
  <1>4. ASSUME NEW status, NEW v, entries' = [entries EXCEPT ![c] = MovedTo(c, status, v)]
        PROVE  entries'[c].status = status
    BY <1>1, <1>4 DEF MovedTo, LedgerTypeOK
  <1>5. ASSUME entries'[c] = entries[c], ran'[c] = ran[c], pc'[a][c] \notin InFlight \cup {"forget"}
        PROVE  Intent(c)'
    BY <1>2, <1>5 DEF Intent, InFlight
  <1>6. CASE Read(a, c)
    <2>1. entries' = entries /\ ran' = ran
      BY <1>6 DEF Read, ledgerVars, worldVars
    <2>2. pc'[a][c] \in {"project", "start", "read"}
      BY <1>1, <1>3, <1>6 DEF Read, Obtain, At
    <2> QED
      BY <1>5, <2>1, <2>2 DEF InFlight
  <1>7. CASE ForgetIntent(a, c)
    <2>1. pc[a][c] = "forget"
      BY <1>7 DEF ForgetIntent, At
    <2> QED
      BY <2>1 DEF Intent
  <1>8. CASE StartIntent(a, c)
    <2>1. /\ entries[c].status \in {"absent", "ready"} /\ entries'[c].status = "running"
          /\ ran'[c] = ran[c] /\ pc'[a][c] = "running"
      <3>1. /\ StartGranted(c)
            /\ entries' = [entries EXCEPT ![c] = MovedTo(c, "running", NoValue)]
            /\ ran' = ran /\ Goto(a, c, "running")
        BY <1>8 DEF StartIntent, Start, worldVars
      <3>2. entries'[c].status = "running"
        BY <1>4, <3>1
      <3>3. pc'[a][c] = "running"
        BY <1>3, <3>1
      <3> QED
        BY <3>1, <3>2, <3>3 DEF StartGranted
    <2>2. ran[c] = 0 /\ \A b \in Attempts : pc[b][c] \notin InFlight
      BY <2>1 DEF Intent
    <2> QED
      BY <1>2, <2>1, <2>2 DEF Intent, InFlight
  <1>9. CASE Perform(a, c)
    <2>1. pc[a][c] = "running" /\ entries' = entries /\ pc'[a][c] = "applied"
      BY <1>3, <1>9 DEF Perform, At, ledgerVars
    <2>2. ran[c] = 0 /\ entries[c].status = "running"
      BY <2>1 DEF Intent, InFlight
    <2>3. ran'[c] = 1 /\ result'[a][c] = 1
      BY <1>1, <1>9, <2>2 DEF Perform, TypeOK
    <2>4. \A b \in Attempts \ {a} : pc[b][c] \notin InFlight
      BY <2>1 DEF Intent, InFlight
    <2> QED
      BY <1>2, <2>1, <2>2, <2>3, <2>4 DEF Intent, InFlight
  <1>10. CASE HandlerRaises(a, c)
    <2>1. /\ pc[a][c] = "running" /\ entries' = entries /\ ran' = ran /\ pc'[a][c] = "drop"
      BY <1>1, <1>3, <1>10 DEF HandlerRaises, At, ledgerVars, worldVars
    <2> QED
      BY <1>2, <2>1 DEF Intent, InFlight
  <1>11. CASE DropIntent(a, c)
    <2>1. pc[a][c] = "drop" /\ ran' = ran /\ pc'[a][c] = "end"
      BY <1>3, <1>11 DEF DropIntent, At, worldVars
    <2>2. entries[c].status = "running" /\ ran[c] = 0
      BY <2>1 DEF Intent, InFlight
    <2>3. entries'[c].status = "absent"
      BY <1>4, <1>11, <2>2 DEF DropIntent, Forget
    <2>4. \A b \in Attempts \ {a} : pc[b][c] \notin InFlight
      BY <2>1 DEF Intent, InFlight
    <2> QED
      BY <1>2, <2>1, <2>2, <2>3, <2>4 DEF Intent, InFlight
  <1>12. CASE CommitResult(a, c)
    <2>1. pc[a][c] = "applied" /\ ran' = ran /\ pc'[a][c] = "project"
      BY <1>3, <1>12 DEF CommitResult, At, Obtain, worldVars
    <2>2. entries[c].status = "running" /\ ran[c] = 1
      BY <2>1 DEF Intent, InFlight
    <2>3. entries'[c].status = "done"
      BY <1>4, <1>12, <2>2 DEF CommitResult, FinishEffect
    <2>4. \A b \in Attempts \ {a} : pc[b][c] \notin InFlight
      BY <2>1 DEF Intent, InFlight
    <2> QED
      BY <1>2, <2>1, <2>2, <2>3, <2>4 DEF Intent, InFlight
  <1>13. CASE ReadProjection(a, c) \/ RunHook(a, c) \/ MarkProjected(a, c)
    <2>1. pc'[a][c] \in {"hook", "mark", "end"} /\ ran' = ran
      BY <1>3, <1>13 DEF ReadProjection, RunHook, MarkProjected, worldVars
    <2>2. entries'[c] = entries[c]
      BY <1>1, <1>13 DEF ReadProjection, RunHook, MarkProjected, WriteControl, ledgerVars, LedgerTypeOK
    <2> QED
      BY <1>5, <2>1, <2>2 DEF InFlight
  <1>14. CASE Refused(a, c)
    BY <1>14 DEF Refused, ledgerVars, callVars, worldVars, Intent
  <1>15. CASE ProviderAnswersLate(a, c)
    <2>1. /\ pc[a][c] = "outstanding" /\ entries' = entries /\ pc'[a][c] = "end"
      BY <1>3, <1>15 DEF ProviderAnswersLate, ledgerVars
    <2>2. entries[c].status = "running" /\ ran[c] = 0
      BY <2>1 DEF Intent, InFlight
    <2>3. ran'[c] \in {0, 1}
      BY <1>1, <1>15, <2>2 DEF ProviderAnswersLate, TypeOK
    <2>4. \A b \in Attempts \ {a} : pc[b][c] \notin InFlight
      BY <2>1 DEF Intent, InFlight
    <2> QED
      BY <1>2, <2>1, <2>2, <2>3, <2>4 DEF Intent, InFlight
  <1> QED
    BY <1>6, <1>7, <1>8, <1>9, <1>10, <1>11, <1>12, <1>13, <1>14, <1>15 DEF CallStep

(* Time and leases change no record, and stop workers but start none. *)
LEMMA ScopeKeepsTruth ==
    ASSUME LedgerConstants, JournalConstants, JournalInv, NEW o, ScopeMove(o),
           NEW c \in ToolKeys, Truth(c)
    PROVE  Truth(c)'
  <1>1. /\ UNCHANGED <<entries, ran, verdict>>
        /\ c \in EffectKeys
    BY ScopeKeepsEntries DEF JournalConstants
  <1>2. ASSUME NEW a \in Attempts
        PROVE  \/ pc'[a][c] = pc[a][c]
               \/ pc'[a][c] = "end"
               \/ pc'[a][c] = "outstanding" /\ pc[a][c] \in {"running", "outstanding"}
    BY <1>1, ScopeStopsCalls DEF JournalInv
  <1>3. ASSUME NEW a \in Attempts
        PROVE  /\ pc'[a][c] \in {"project", "hook", "mark"} => pc'[a][c] = pc[a][c]
               /\ pc'[a][c] \in InFlight => pc[a][c] \in InFlight
    BY <1>2 DEF InFlight
  <1>4. WorkersStopped(c) => WorkersStopped(c)'
    BY <1>3 DEF WorkersStopped
  <1> QED
    BY <1>1, <1>3, <1>4 DEF Truth, IntentUnresolved

(* Another call cannot make a record, or a decision about it, untrue. *)
LEMMA CallKeepsOtherTruth ==
    ASSUME LedgerConstants, JournalConstants, JournalInv,
           NEW a \in Attempts, NEW c \in EffectKeys, CallStep(a, c) \/ ProviderAnswersLate(a, c),
           NEW d \in ToolKeys, d # c, Truth(d)
    PROVE  Truth(d)'
  <1>1. d \in EffectKeys /\ TypeOK
    BY DEF JournalConstants, JournalInv
  <1>2. entries'[d] = entries[d] /\ ran'[d] = ran[d] /\ verdict' = verdict
    BY <1>1, CallKeepsRecords, CallRuns, CallQuiet
  <1>3. \A b \in Attempts : pc'[b][d] = pc[b][d]
    BY <1>1, CallMovesOnly
  <1> QED
    BY <1>2, <1>3 DEF Truth, IntentUnresolved, WorkersStopped

(* A call settles its record with the result of the one execution, goes on    *)
(* to the projection only from a settled record, and makes every decision     *)
(* about the record stale when it takes the effect up again.                  *)
LEMMA CallKeepsTruth ==
    ASSUME LedgerConstants, JournalConstants, JournalInv, ~retry,
           NEW a \in Attempts, NEW c \in ToolKeys, CallStep(a, c) \/ ProviderAnswersLate(a, c),
           Intent(c), Truth(c)
    PROVE  Truth(c)'
  <1>1. /\ TypeOK /\ LedgerTypeOK /\ Hands
        /\ c \in EffectKeys /\ c \in Keys /\ c \notin ModelKeys
        /\ verdict' = verdict
        /\ [LedgerNext]_ledgerVars
    BY CallQuiet, CallUsesLedger DEF JournalConstants, JournalInv, TypeOK, Keys
  <1>2. \A b \in Attempts \ {a} : pc'[b][c] = pc[b][c]
    BY <1>1, CallMovesOnly
  <1>3. ASSUME NEW p, Goto(a, c, p)
        PROVE  pc'[a][c] = p
    BY <1>1, <1>3 DEF Goto, TypeOK
  <1>4. ran'[c] = ran[c] \/ (pc[a][c] \in {"running", "outstanding"} /\ entries' = entries)
    BY <1>1, CallRuns DEF Perform, At, ProviderAnswersLate, ledgerVars
  <1>5. pc[a][c] \in InFlight => entries[c].status = "running"
    BY DEF Intent
  <1>6. entries'[c].status = "done" => ran'[c] = 1 /\ entries'[c].value = 1
    <2>1. CASE CommitResult(a, c)
      <3>1. pc[a][c] = "applied" /\ ran'[c] = ran[c]
        BY <2>1 DEF CommitResult, At, worldVars
      <3>2. ran[c] = 1 /\ result[a][c] = 1 /\ entries[c].status = "running"
        BY <3>1 DEF Intent, InFlight
      <3>3. entries'[c].value = 1
        BY <1>1, <2>1, <3>2 DEF CommitResult, FinishEffect, MovedTo, LedgerTypeOK
      <3> QED
        BY <3>1, <3>2, <3>3
    <2>2. CASE ~CommitResult(a, c)
      <3>1. entries'[c] = entries[c] \/ entries'[c].status \in {"running", "absent"}
        <4>1. CASE StartIntent(a, c) \/ ForgetIntent(a, c) \/ DropIntent(a, c)
          BY <1>1, <4>1 DEF StartIntent, ForgetIntent, DropIntent, Start, Forget, MovedTo, LedgerTypeOK
        <4>2. CASE MarkProjected(a, c)
          <5>1. AfterKey[c] # c
            BY <1>1 DEF JournalConstants, LedgerConstants
          <5> QED
            BY <1>1, <4>2, <5>1 DEF MarkProjected, WriteControl, LedgerTypeOK
        <4>3. CASE ~(\/ StartIntent(a, c) \/ ForgetIntent(a, c) \/ DropIntent(a, c)
                     \/ MarkProjected(a, c))
          BY <2>2, <4>3 DEF CallStep, Read, Perform, HandlerRaises, ReadProjection, RunHook, Refused,
                            ProviderAnswersLate, ledgerVars
        <4> QED
          BY <4>1, <4>2, <4>3
      <3>2. pc[a][c] \in {"running", "outstanding"} => entries[c].status = "running"
        BY <1>5 DEF InFlight
      <3> QED
        BY <1>4, <3>1, <3>2 DEF Truth
    <2> QED
      BY <2>1, <2>2
  <1>7. ASSUME NEW b \in Attempts, pc'[b][c] \in {"project", "hook", "mark"}
        PROVE  entries'[c].status = "done"
    <2>1. CASE b # a \/ pc[b][c] \in {"project", "hook", "mark"}
      <3>1. entries[c].status = "done"
        BY <1>2, <1>7, <2>1 DEF Truth
      <3> QED
        BY <1>1, <3>1, RecordsMove
    <2>2. CASE b = a /\ pc[a][c] \notin {"project", "hook", "mark"}
      <3>1. \/ Read(a, c) /\ entries[c].status = "done"
            \/ CommitResult(a, c)
        BY <1>3, <1>7, <2>2 DEF CallStep, Read, ForgetIntent, StartIntent, Perform, HandlerRaises,
           DropIntent, ReadProjection, RunHook, MarkProjected, Refused, ProviderAnswersLate, At, callVars
      <3>2. CASE Read(a, c) /\ entries[c].status = "done"
        BY <3>2 DEF Read, ledgerVars
      <3>3. CASE CommitResult(a, c)
        BY <1>1, <3>3 DEF CommitResult, FinishEffect, MovedTo, LedgerTypeOK
      <3> QED
        BY <3>1, <3>2, <3>3
    <2> QED
      BY <2>1, <2>2
  <1>8. ASSUME NEW h \in Hosts, verdict[h] # NoDecision, verdict[h].payload.key = c,
               IntentUnresolved(verdict[h].payload)'
        PROVE  /\ WorkersStopped(c)'
               /\ IF verdict[h].payload.action = "complete"
                    THEN ran'[c] = 1 /\ verdict[h].payload.value = 1
                    ELSE ran'[c] = 0
    <2>1. entries'[c].version = verdict[h].payload.expected
      BY <1>1, <1>8 DEF IntentUnresolved
    <2>2. verdict[h].payload.expected \in Nat
      BY <1>1, <1>8, VerdictKnown DEF Resolutions
    <2>3. entries'[c] = entries[c]
      BY <1>1, <1>8, <2>1, <2>2, RecordsMove
    <2>4. IntentUnresolved(verdict[h].payload)
      BY <1>1, <1>8, <2>3 DEF IntentUnresolved
    <2>5. WorkersStopped(c)
      BY <1>8, <2>4 DEF Truth
    <2>6. pc[a][c] \notin InFlight
      BY <2>5 DEF WorkersStopped
    <2>7. ran'[c] = ran[c]
      BY <1>4, <2>6 DEF InFlight
    <2>8. ~StartIntent(a, c)
      <3>1. StartIntent(a, c) => entries[c].status \in {"absent", "ready"}
        BY DEF StartIntent, Start, StartGranted
      <3> QED
        BY <1>8, <2>4, <3>1 DEF IntentUnresolved
    <2>9. ~Perform(a, c) /\ ~HandlerRaises(a, c)
      BY <1>1, <2>6 DEF Perform, HandlerRaises, At, InFlight
    <2>10. pc'[a][c] \notin InFlight
      BY <1>1, <2>6, <2>8, <2>9, CallLandsOn DEF InFlight
    <2>11. WorkersStopped(c)'
      BY <1>2, <2>5, <2>10 DEF WorkersStopped
    <2> QED
      BY <1>8, <2>4, <2>7, <2>11 DEF Truth
  <1> QED
    BY <1>1, <1>6, <1>7, <1>8 DEF Truth

(* A host judges when everyone has stopped, and says what happened. *)
LEMMA DecideKeepsTruth ==
    ASSUME JournalConstants, JournalInv, NEW h \in Hosts, Decide(h), NEW c \in ToolKeys,
           Intent(c), \A d \in ToolKeys : Truth(d)
    PROVE  Intent(c)' /\ Truth(c)'
  <1>1. UNCHANGED <<entries, pc, result, ran>>
    BY DEF Decide, ledgerVars, callVars, worldVars
  <1>2. ASSUME NEW g \in Hosts, verdict'[g] # NoDecision, verdict'[g].payload.key = c,
               IntentUnresolved(verdict'[g].payload)
        PROVE  /\ WorkersStopped(c)
               /\ IF verdict'[g].payload.action = "complete"
                    THEN ran[c] = 1 /\ verdict'[g].payload.value = 1
                    ELSE ran[c] = 0
    <2>1. \/ \E f \in Hosts : verdict[f] # NoDecision /\ verdict'[g] = verdict[f]
          \/ \E k \in ToolKeys, d \in DecisionIds :
               /\ WorkersStopped(k)
               /\ verdict'[g] = [id |-> d, payload |-> Judgement(k)]
      <3>1. \A v : verdict' = [verdict EXCEPT ![h] = v] => verdict'[g] = IF g = h THEN v ELSE verdict[g]
        BY DEF JournalInv, TypeOK
      <3>2. CASE g # h
        BY <1>2, <3>1, <3>2 DEF Decide
      <3>3. CASE g = h
        BY <3>1, <3>3 DEF Decide
      <3> QED
        BY <3>2, <3>3
    <2>2. CASE \E f \in Hosts : verdict[f] # NoDecision /\ verdict'[g] = verdict[f]
      BY <1>2, <2>2 DEF Truth
    <2>3. ASSUME NEW k \in ToolKeys, NEW d \in DecisionIds, WorkersStopped(k),
                 verdict'[g] = [id |-> d, payload |-> Judgement(k)]
          PROVE  /\ WorkersStopped(c)
                 /\ IF verdict'[g].payload.action = "complete"
                      THEN ran[c] = 1 /\ verdict'[g].payload.value = 1
                      ELSE ran[c] = 0
      <3>1. verdict'[g].payload = Judgement(k) /\ Judgement(k).key = k
        BY <2>3 DEF Judgement
      <3>2. k = c
        BY <1>2, <3>1
      <3>3. ran[c] \in Nat /\ ran[c] <= 1
        BY DEF Intent, JournalInv, TypeOK, JournalConstants
      <3> QED
        BY <2>3, <3>1, <3>2, <3>3 DEF Judgement
    <2> QED
      BY <2>1, <2>2, <2>3
  <1>3. Intent(c)'
    BY <1>1 DEF Intent
  <1>4. WorkersStopped(c)' <=> WorkersStopped(c)
    BY <1>1 DEF WorkersStopped
  <1>5. \A p : IntentUnresolved(p)' <=> IntentUnresolved(p)
    BY <1>1 DEF IntentUnresolved
  <1>6. \A g \in Hosts : IntentUnresolved(verdict[g].payload)' => IntentUnresolved(verdict'[g].payload)
    BY <1>1 DEF IntentUnresolved
  <1> QED
    BY <1>1, <1>2, <1>3, <1>4, <1>6 DEF Truth

(* A delivery that takes effect settles a record as the world has it, or      *)
(* grants the retry of what did not happen; nobody is at the effect then.     *)
LEMMA DeliveryKeepsTruth ==
    ASSUME LedgerConstants, JournalConstants, JournalInv, NEW h \in Hosts, HostStep(h),
           NEW c \in ToolKeys, Intent(c), Truth(c)
    PROVE  Intent(c)' /\ Truth(c)'
  <1>1. /\ TypeOK /\ LedgerTypeOK /\ Hands
        /\ c \in EffectKeys /\ c \in Keys
        /\ UNCHANGED <<pc, result, ran, verdict>>
        /\ [LedgerNext]_ledgerVars
    <2>1. UNCHANGED <<pc, result, ran, verdict>>
      BY DEF HostStep, Deliver, DeliveryRefused, callVars, worldVars
    <2> QED
      BY <2>1, HostUsesLedger DEF JournalConstants, JournalInv, TypeOK, Keys
  <1>2. CASE entries'[c] = entries[c]
    BY <1>1, <1>2 DEF Intent, Truth, IntentUnresolved, WorkersStopped
  <1>3. CASE entries'[c] # entries[c]
    <2>1. /\ verdict[h] # NoDecision /\ verdict[h].payload.key = c
          /\ IntentUnresolved(verdict[h].payload)
          /\ entries'[c] = IF verdict[h].payload.action = "complete"
                             THEN MovedTo(c, "done", verdict[h].payload.value)
                             ELSE MovedTo(c, "ready", NoValue)
      BY <1>1, <1>3, HostWrites
    <2>2. /\ WorkersStopped(c)
          /\ IF verdict[h].payload.action = "complete"
               THEN ran[c] = 1 /\ verdict[h].payload.value = 1
               ELSE ran[c] = 0
      BY <2>1 DEF Truth
    <2>3. /\ \A a \in Attempts : pc[a][c] \notin InFlight
          /\ entries[c].status = "running"
      BY <2>1, <2>2 DEF WorkersStopped, IntentUnresolved
    <2>4. \A a \in Attempts : pc[a][c] \notin {"project", "hook", "mark"}
      BY <2>3 DEF Truth
    <2>5. \/ entries'[c].status = "done" /\ entries'[c].value = 1 /\ ran[c] = 1
          \/ entries'[c].status = "ready" /\ ran[c] = 0
      BY <2>1, <2>2 DEF MovedTo
    <2>6. Intent(c)'
      BY <1>1, <2>3, <2>5 DEF Intent, InFlight
    <2>7. ASSUME NEW g \in Hosts, verdict[g] # NoDecision, verdict[g].payload.key = c
          PROVE  ~IntentUnresolved(verdict[g].payload)'
      <3>1. entries'[c].version > verdict[g].payload.expected
        BY <1>1, <1>3, <2>7, RecordsMove
      <3>2. verdict[g].payload.expected \in Nat
        BY <1>1, <2>7, VerdictKnown DEF Resolutions
      <3> QED
        BY <1>1, <2>7, <3>1, <3>2 DEF IntentUnresolved
    <2> QED
      BY <1>1, <2>4, <2>5, <2>6, <2>7 DEF Truth
  <1> QED
    BY <1>2, <1>3

(* At the start nothing has run and no record says otherwise. *)
LEMMA OnceInit ==
    ASSUME LedgerConstants, JournalConstants, Init
    PROVE  OnceInv
  <1> SUFFICES ASSUME NEW c \in ToolKeys
               PROVE  Intent(c) /\ Truth(c)
    BY DEF OnceInv
  <1>1. c \in EffectKeys /\ c \in Keys
    BY DEF JournalConstants, Keys
  <1>2. ran[c] = 0 /\ entries[c].status = "absent"
    BY <1>1 DEF Init, LedgerInit
  <1>3. \A a \in Attempts : pc[a][c] \in {"read", "end"}
    BY <1>1 DEF Init
  <1>4. \A h \in Hosts : verdict[h] = NoDecision
    BY DEF Init
  <1> QED
    BY <1>2, <1>3, <1>4 DEF Intent, Truth, InFlight

(* Whether unfinished work may be retried is decided once. *)
LEMMA RetryConstant ==
    ASSUME [Next]_vars
    PROVE  retry' = retry
  BY DEF Next, vars, journalVars, CallStep, HostStep, Begin, Renew, Unwind, Interrupt, Crash, Lapse,
         Read, ForgetIntent, StartIntent, Perform, HandlerRaises, DropIntent, CommitResult,
         ReadProjection, RunHook, MarkProjected, Refused, ProviderAnswersLate, Decide, Deliver,
         DeliveryRefused

(* Every step keeps what an effect record says of the world true. *)
LEMMA OnceStep ==
    ASSUME LedgerConstants, JournalConstants, JournalInv, OnceInv, [Next]_vars
    PROVE  OnceInv'
  <1>1. retry' = retry
    BY RetryConstant
  <1> SUFFICES ASSUME ~retry, NEW d \in ToolKeys
               PROVE  Intent(d)' /\ Truth(d)'
    BY <1>1 DEF OnceInv
  <1>2. \A k \in ToolKeys : Intent(k) /\ Truth(k)
    BY DEF OnceInv
  <1>3. CASE UNCHANGED vars
    BY <1>2, <1>3 DEF vars, ledgerVars, journalVars, scopeVars, callVars, worldVars,
                      Intent, Truth, IntentUnresolved, WorkersStopped
  <1>4. ASSUME NEW o, ScopeMove(o)
        PROVE  Intent(d)' /\ Truth(d)'
    BY <1>2, <1>4, ScopeKeepsIntent, ScopeKeepsTruth
  <1>5. ASSUME NEW a \in Attempts, NEW c \in EffectKeys, CallStep(a, c) \/ ProviderAnswersLate(a, c)
        PROVE  Intent(d)' /\ Truth(d)'
    <2>1. CASE d # c
      BY <1>2, <1>5, <2>1, CallKeepsOtherIntent, CallKeepsOtherTruth
    <2>2. CASE d = c
      BY <1>2, <1>5, <2>2, CallKeepsIntent, CallKeepsTruth
    <2> QED
      BY <2>1, <2>2
  <1>6. ASSUME NEW h \in Hosts, Decide(h) \/ HostStep(h)
        PROVE  Intent(d)' /\ Truth(d)'
    BY <1>2, <1>6, DecideKeepsTruth, DeliveryKeepsTruth
  <1> QED
    BY <1>3, <1>4, <1>5, <1>6 DEF Next, ScopeMove

(* Without a retry, what an effect record says of the world is true in every *)
(* reachable state.                                                          *)
LEMMA OnceInvariant == Spec => []OnceInv
  <1>1. Init => OnceInv
    BY LedgerConstants, JournalConstants, OnceInit
  <1>2. JournalInv /\ OnceInv /\ [Next]_vars => OnceInv'
    BY LedgerConstants, JournalConstants, OnceStep
  <1> QED
    BY <1>1, <1>2, JournalInvariant, PTL DEF Spec

(* A tool effect happens at most once, over any number of attempts, crashes,  *)
(* lost leases, takeovers, late answers and deliveries.                       *)
THEOREM JournalAtMostOnce == Spec => []AtMostOnce
  <1>1. OnceInv => AtMostOnce
    BY DEF OnceInv, Intent, AtMostOnce
  <1> QED
    BY <1>1, OnceInvariant, PTL

(* What happened is never forgotten: the record of a tool effect that took    *)
(* place is settled, or its intent stands.                                    *)
THEOREM JournalEffectRemembered == Spec => []EffectRemembered
  <1>1. JournalInv /\ OnceInv => EffectRemembered
    <2> SUFFICES ASSUME JournalInv, OnceInv, ~retry, NEW c \in ToolKeys, ran[c] > 0
                 PROVE  entries[c].status \in {"running", "done"}
      BY DEF EffectRemembered
    <2>1. c \in EffectKeys
      BY JournalConstants DEF JournalConstants
    <2>2. entries[c].status \in {"absent", "ready", "running", "done"}
      BY <2>1 DEF JournalInv, TypeOK, LedgerTypeOK, Steps, Keys
    <2> QED
      BY <2>2 DEF OnceInv, Intent
  <1> QED
    BY <1>1, JournalInvariant, OnceInvariant, PTL

-----------------------------------------------------------------------------
(* The journal keeps the abstract promise *)

(* What is seen of a call stays the same when its execution count, its record *)
(* and its marker do.                                                         *)
LEMMA NothingSeen ==
    ASSUME retry' = retry,
           retry \/ \A c \in ToolKeys : /\ ran'[c] = ran[c]
                                        /\ Standing(c)' = Standing(c)
                                        /\ Standing(AfterKey[c])' = Standing(AfterKey[c])
    PROVE  [Once!OnceNext]_(Once!onceVars)
  <1>1. CASE retry
    BY <1>1 DEF Once!onceVars, Standing
  <1>2. CASE ~retry
    BY <1>2 DEF Once!onceVars
  <1> QED
    BY <1>1, <1>2

(* A step that settles at most one record settles it with the one execution,  *)
(* or is not seen at all.                                                     *)
LEMMA SettlingIsSeenOnce ==
    ASSUME JournalConstants, LedgerConstants, JournalInv, TypeOK', ~retry, retry' = retry,
           [LedgerNext]_ledgerVars, NEW c \in ToolKeys, Truth(c)',
           \A d \in ToolKeys : /\ ran'[d] = ran[d]
                               /\ entries'[AfterKey[d]] = entries[AfterKey[d]]
                               /\ d # c => entries'[d] = entries[d]
    PROVE  [Once!OnceNext]_(Once!onceVars)
  <1>1. \A d \in ToolKeys : Standing(AfterKey[d])' = Standing(AfterKey[d])
    BY DEF Standing
  <1>2. \A d \in ToolKeys : d # c => Standing(d)' = Standing(d)
    BY DEF Standing
  <1>3. CASE entries[c].status # "done" /\ entries'[c].status = "done"
    <2>1. ran[c] = 1 /\ Standing(c) = NoValue /\ Standing(c)' = 1
      BY <1>3 DEF Truth, Standing
    <2>2. Once!Settle(c)
      <3>1. [d \in ToolKeys |-> Standing(d)'] = [[d \in ToolKeys |-> Standing(d)] EXCEPT ![c] = 1]
        BY <1>2, <2>1
      <3>2. [d \in ToolKeys |-> Standing(AfterKey[d])'] = [d \in ToolKeys |-> Standing(AfterKey[d])]
        BY <1>1
      <3>3. [d \in ToolKeys |-> IF retry' THEN 0 ELSE ran'[d]] = [d \in ToolKeys |-> IF retry THEN 0 ELSE ran[d]]
        OBVIOUS
      <3> QED
        BY <2>1, <3>1, <3>2, <3>3 DEF Once!Settle
    <2> QED
      BY <2>2 DEF Once!OnceNext
  <1>4. CASE entries[c].status = "done" \/ entries'[c].status # "done"
    <2>1. c \in EffectKeys
      BY DEF JournalConstants
    <2>2. Standing(c)' = Standing(c)
      BY <1>4, <2>1, RecordsMove DEF Standing
    <2> QED
      BY <1>1, <1>2, <2>2, NothingSeen
  <1> QED
    BY <1>3, <1>4

(* A call performs the effect, settles its record or writes its marker, and   *)
(* the rest of what it does is not seen.                                      *)
LEMMA CallIsSeenOnce ==
    ASSUME LedgerConstants, JournalConstants, JournalInv, Marks, OnceInv, ~retry,
           NEW a \in Attempts, NEW c \in EffectKeys, CallStep(a, c) \/ ProviderAnswersLate(a, c)
    PROVE  [Once!OnceNext]_(Once!onceVars)
  <1>1. /\ TypeOK /\ LedgerTypeOK /\ Hands /\ TypeOK'
        /\ retry' = retry
        /\ [LedgerNext]_ledgerVars
    <2>1. TypeOK /\ LedgerTypeOK /\ Hands
      BY DEF JournalInv, TypeOK
    <2>2. TypeOK'
      BY CallTyped
    <2>3. retry' = retry
      BY <2>1, CallQuiet
    <2>4. [LedgerNext]_ledgerVars
      BY CallUsesLedger
    <2> QED
      BY <2>1, <2>2, <2>3, <2>4
  <1>2. \A d \in ToolKeys : /\ d \in EffectKeys /\ d \in Keys
                            /\ AfterKey[d] \in ControlKeys /\ AfterKey[d] \in Keys
    BY DEF JournalConstants, Keys
  <1>3. \A d, e \in ToolKeys : AfterKey[d] # e /\ (AfterKey[d] = AfterKey[e] => d = e)
    BY <1>2 DEF JournalConstants, LedgerConstants
  <1>4. c \notin ControlKeys
    BY DEF LedgerConstants
  <1>5. \A d \in ToolKeys : d # c => ran'[d] = ran[d] /\ entries'[d] = entries[d]
    BY <1>1, <1>2, CallRuns, CallKeepsRecords
  <1>6. \A d \in ToolKeys :
          entries'[AfterKey[d]] # entries[AfterKey[d]] => d = c /\ MarkProjected(a, c)
    BY <1>2, <1>3, <1>4, CallWrites
  <1>7. CASE c \notin ToolKeys
    BY <1>1, <1>5, <1>6, <1>7, NothingSeen DEF Standing
  <1>8. CASE c \in ToolKeys /\ MarkProjected(a, c)
    <2>1. /\ phase[a] = "open" /\ Fence(tok[a]) /\ pc[a][c] = "mark"
          /\ result[a][c] \in Values
          /\ ran' = ran
      BY <1>1, <1>8 DEF MarkProjected, At, WriteControl, Hands, worldVars
    <2>2. /\ entries'[AfterKey[c]].status = "done"
          /\ entries'[AfterKey[c]].value = result[a][c]
          /\ entries'[c] = entries[c]
      BY <1>1, <1>2, <1>3, <1>8 DEF MarkProjected, WriteControl, MovedTo, LedgerTypeOK
    <2>3. entries[AfterKey[c]].status # "done"
      BY <1>8, <2>1 DEF Marks
    <2>4. entries[c].status = "done" /\ entries[c].value \in Values
      BY <1>1, <1>2, <1>8, <2>1, DoneHasValue DEF OnceInv, Truth
    <2>5. /\ Standing(c) # NoValue
          /\ Standing(AfterKey[c]) = NoValue
          /\ Standing(AfterKey[c])' = result[a][c]
          /\ \A d \in ToolKeys : Standing(d)' = Standing(d)
          /\ \A d \in ToolKeys : d # c => Standing(AfterKey[d])' = Standing(AfterKey[d])
      BY <1>1, <1>5, <1>6, <2>2, <2>3, <2>4 DEF Standing, LedgerConstants
    <2>6. Once!Project(c)
      <3>1. [d \in ToolKeys |-> Standing(AfterKey[d])']
              = [[d \in ToolKeys |-> Standing(AfterKey[d])] EXCEPT ![c] = result[a][c]]
        BY <2>5
      <3>2. [d \in ToolKeys |-> Standing(d)'] = [d \in ToolKeys |-> Standing(d)]
        BY <2>5
      <3>3. [d \in ToolKeys |-> IF retry' THEN 0 ELSE ran'[d]] = [d \in ToolKeys |-> IF retry THEN 0 ELSE ran[d]]
        BY <1>1, <2>1
      <3> QED
        BY <1>8, <2>1, <2>5, <3>1, <3>2, <3>3 DEF Once!Project
    <2> QED
      BY <1>8, <2>6 DEF Once!OnceNext
  <1>9. CASE c \in ToolKeys /\ ~MarkProjected(a, c) /\ ran'[c] # ran[c]
    <2>1. pc[a][c] \in {"running", "outstanding"} /\ entries' = entries /\ ran'[c] = ran[c] + 1
      BY <1>1, <1>9, CallRuns DEF Perform, At, ProviderAnswersLate, ledgerVars
    <2>2. ran[c] = 0 /\ ran'[c] = 1
      BY <1>9, <2>1 DEF OnceInv, Intent, InFlight
    <2>3. \A k : Standing(k)' = Standing(k)
      BY <1>1, <2>1 DEF Standing
    <2>4. Once!Happen(c)
      BY <1>1, <1>5, <1>9, <2>2, <2>3 DEF Once!Happen
    <2> QED
      BY <1>9, <2>4 DEF Once!OnceNext
  <1>10. CASE c \in ToolKeys /\ ~MarkProjected(a, c) /\ ran'[c] = ran[c]
    <2>1. Truth(c)'
      BY <1>10, CallKeepsTruth DEF OnceInv
    <2> QED
      BY <1>1, <1>5, <1>6, <1>10, <2>1, SettlingIsSeenOnce
  <1> QED
    BY <1>7, <1>8, <1>9, <1>10

(* A delivery settles a record or is not seen. *)
LEMMA HostIsSeenOnce ==
    ASSUME LedgerConstants, JournalConstants, JournalInv, OnceInv, ~retry,
           NEW h \in Hosts, Decide(h) \/ HostStep(h)
    PROVE  [Once!OnceNext]_(Once!onceVars)
  <1>1. /\ TypeOK'
        /\ retry' = retry /\ ran' = ran
        /\ [LedgerNext]_ledgerVars
    BY HostTyped, HostQuiet, HostUsesLedger DEF JournalInv, worldVars
  <1>2. \A d \in ToolKeys : /\ d \in EffectKeys /\ d \in Keys
                            /\ AfterKey[d] \in ControlKeys /\ AfterKey[d] \in Keys
    BY DEF JournalConstants, Keys
  <1>3. \A d, e \in ToolKeys : AfterKey[d] # e
    BY <1>2 DEF JournalConstants, LedgerConstants
  <1>4. \A d \in ToolKeys : entries'[AfterKey[d]] = entries[AfterKey[d]]
    BY <1>2, <1>3, HostWrites
  <1>5. CASE \A d \in ToolKeys : entries'[d] = entries[d]
    BY <1>1, <1>4, <1>5, NothingSeen DEF Standing
  <1>6. ASSUME NEW c \in ToolKeys, entries'[c] # entries[c]
        PROVE  [Once!OnceNext]_(Once!onceVars)
    <2>1. c = verdict[h].payload.key /\ Deliver(h)
      BY <1>2, <1>6, HostWrites
    <2>2. \A d \in ToolKeys : d # c => entries'[d] = entries[d]
      BY <1>2, <2>1, HostWrites
    <2>3. Truth(c)'
      BY <2>1, DeliveryKeepsTruth DEF OnceInv, HostStep
    <2> QED
      BY <1>1, <1>4, <2>2, <2>3, SettlingIsSeenOnce
  <1> QED
    BY <1>5, <1>6

(* Durable tool calls over the ledger implement EffectOnce: each effect       *)
(* happens once, is settled once with the result of that execution, and the   *)
(* projection recorded of it is decided once and only then.                   *)
THEOREM JournalImplementsOnce == Spec => ToolCallsOnce
  <1>1. Init => Once!OnceInit
    <2> SUFFICES ASSUME Init
                 PROVE  Once!OnceInit
      OBVIOUS
    <2>1. \A c \in ToolKeys : /\ c \in EffectKeys /\ c \in Keys /\ AfterKey[c] \in Keys
      BY JournalConstants DEF JournalConstants, Keys
    <2>2. \A c \in ToolKeys : ran[c] = 0
      BY <2>1 DEF Init
    <2>3. \A k \in Keys : Standing(k) = NoValue
      BY DEF Init, LedgerInit, Standing
    <2> QED
      BY <2>1, <2>2, <2>3 DEF Once!OnceInit
  <1>2. JournalInv /\ Marks /\ OnceInv /\ [Next]_vars => [Once!OnceNext]_(Once!onceVars)
    <2> SUFFICES ASSUME JournalInv, Marks, OnceInv, [Next]_vars
                 PROVE  [Once!OnceNext]_(Once!onceVars)
      OBVIOUS
    <2>1. retry' = retry
      BY RetryConstant
    <2>2. CASE retry \/ UNCHANGED vars
      BY <2>1, <2>2, NothingSeen DEF vars, ledgerVars, journalVars, worldVars, Standing
    <2>3. ASSUME NEW o, ScopeMove(o)
          PROVE  [Once!OnceNext]_(Once!onceVars)
      BY <2>1, <2>3, ScopeKeepsEntries, NothingSeen DEF Standing
    <2>4. CASE Next /\ ~retry
      BY <2>3, <2>4, LedgerConstants, JournalConstants, CallIsSeenOnce, HostIsSeenOnce
         DEF Next, ScopeMove
    <2> QED
      BY <2>2, <2>4
  <1> QED
    BY <1>1, <1>2, JournalInvariant, MarksInvariant, OnceInvariant, PTL
       DEF Spec, ToolCallsOnce, Once!OnceSpec

=============================================================================
