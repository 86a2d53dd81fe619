------------------------------ MODULE StepLedger ------------------------------
(***************************************************************************)
(* The execution store of one branch (semora_store.ledger).  It keeps the  *)
(* effect and control records, the run lease with its fencing token, the   *)
(* durable input queue and the recorded reconciliation decisions.          *)
(*                                                                         *)
(* MemorySteps runs on one event loop and none of its methods awaits, so   *)
(* each method is one action.  A call that raises (Fenced, EffectConflict, *)
(* ValueError) changes nothing: its condition is the action's guard.       *)
(***************************************************************************)
EXTENDS Integers, Sequences, FiniteSets

CONSTANTS
    EffectKeys,    \* keys written through start / finish_effect
    ControlKeys,   \* keys written through write_control
    Values,        \* journaled values, up to equality
    Owners,        \* lease owners: one uuid per run scope
    Inputs,        \* input ids
    DecisionIds,   \* ids under which a host reports a reconciliation
    NoValue,       \* Python's None, the value of an unfinished record
    NoOwner,       \* the empty owner of a released lease
    NoDecision     \* a decision id that was never used

ASSUME LedgerConstants ==
    /\ EffectKeys \cap ControlKeys = {}
    /\ NoValue \notin Values
    /\ NoOwner \notin Owners
    /\ IsFiniteSet(Inputs)

VARIABLES
    entries,     \* key -> Step
    lease,       \* the branch's lease row
    tokens,      \* the highest fencing token issued
    decisions,   \* decision id -> the payload it was used with
    inputs,      \* input id -> InputRecord
    sequence     \* the next submission number

recordVars == <<entries, decisions>>
leaseVars  == <<lease, tokens>>
queueVars  == <<inputs, sequence>>
ledgerVars == <<entries, decisions, lease, tokens, inputs, sequence>>

Keys == EffectKeys \cup ControlKeys

(* A Step: only a done record has a value. *)
Steps ==
    [status : {"absent", "ready", "running"}, value : {NoValue}, version : Nat]
    \cup
    [status : {"done"}, value : Values, version : Nat \ {0}]

(* An accepted payload: a retry carries no value and versions start at 1. *)
Resolutions ==
    [key : EffectKeys, action : {"complete"}, expected : Nat \ {0}, value : Values]
    \cup
    [key : EffectKeys, action : {"retry"}, expected : Nat \ {0}, value : {NoValue}]

ASSUME DecisionConstant == NoDecision \notin Resolutions

Leases == [owner : Owners \cup {NoOwner}, token : Nat, live : BOOLEAN]

(* "none" stands for an id with no row. *)
InputRecords == [status   : {"none", "pending", "claimed", "admitted", "discarded"},
                 sequence : Nat]

LedgerTypeOK ==
    /\ entries \in [Keys -> Steps]
    /\ lease \in Leases
    /\ tokens \in Nat
    /\ decisions \in [DecisionIds -> Resolutions \cup {NoDecision}]
    /\ inputs \in [Inputs -> InputRecords]
    /\ sequence \in Nat

LedgerInit ==
    /\ entries = [k \in Keys |-> [status |-> "absent", value |-> NoValue, version |-> 0]]
    /\ lease = [owner |-> NoOwner, token |-> 0, live |-> FALSE]
    /\ tokens = 0
    /\ decisions = [d \in DecisionIds |-> NoDecision]
    /\ inputs = [i \in Inputs |-> [status |-> "none", sequence |-> 0]]
    /\ sequence = 0

-----------------------------------------------------------------------------
(* Records *)

(* Fault: stale tokens pass. *)
FenceAcceptsAnyToken(t) == TRUE

(* A call under token t passes the fence.  Token 0 is an unleased caller. *)
Fence(t) == t = 0 \/ t >= tokens

MovedTo(k, status, value) ==
    [status |-> status, value |-> value, version |-> entries[k].version + 1]

StartGranted(k) == entries[k].status \in {"absent", "ready"}

Start(k, t) ==
    /\ Fence(t)
    /\ StartGranted(k)
    /\ entries' = [entries EXCEPT ![k] = MovedTo(k, "running", NoValue)]
    /\ UNCHANGED <<decisions, leaseVars, queueVars>>

(* Fault: finishing replaces a settled result. *)
FinishOverwrites(k, v, t) ==
    /\ Fence(t)
    /\ entries[k].status \in {"running", "done"}
    /\ entries' = [entries EXCEPT ![k] = MovedTo(k, "done", v)]
    /\ UNCHANGED <<decisions, leaseVars, queueVars>>

(* Fault: the result is not stored. *)
FinishWithoutResult(k, v, t) ==
    /\ Fence(t)
    /\ entries[k].status = "running"
    /\ entries' = [entries EXCEPT ![k] = MovedTo(k, "done", NoValue)]
    /\ UNCHANGED <<decisions, leaseVars, queueVars>>

(* Finishing again with the recorded value is accepted and changes nothing. *)
FinishEffect(k, v, t) ==
    /\ Fence(t)
    /\ \/ /\ entries[k].status = "running"
          /\ entries' = [entries EXCEPT ![k] = MovedTo(k, "done", v)]
       \/ /\ entries[k].status = "done"
          /\ entries[k].value = v
          /\ UNCHANGED entries
    /\ UNCHANGED <<decisions, leaseVars, queueVars>>

(* Fault: forgetting grants a retry nobody decided. *)
ForgetMakesReady(k, t) ==
    /\ Fence(t)
    /\ entries' = IF entries[k].status = "running"
                    THEN [entries EXCEPT ![k] = MovedTo(k, "ready", NoValue)]
                    ELSE entries
    /\ UNCHANGED <<decisions, leaseVars, queueVars>>

Forget(k, t) ==
    /\ Fence(t)
    /\ entries' = IF entries[k].status = "running"
                    THEN [entries EXCEPT ![k] = MovedTo(k, "absent", NoValue)]
                    ELSE entries
    /\ UNCHANGED <<decisions, leaseVars, queueVars>>

WriteControl(k, v, t) ==
    /\ Fence(t)
    /\ entries' = [entries EXCEPT ![k] = MovedTo(k, "done", v)]
    /\ UNCHANGED <<decisions, leaseVars, queueVars>>

(* Fault: the decision is not bound to a version. *)
IntentRunning(p) == entries[p.key].status = "running"

(* The intent a decision was made about is still the one in the ledger. *)
IntentUnresolved(p) ==
    /\ entries[p.key].status = "running"
    /\ entries[p.key].version = p.expected

(* A new decision moves the record; the same one delivered again is absorbed. *)
ResolveEffect(d, p, t) ==
    /\ Fence(t)
    /\ \/ /\ decisions[d] = p
          /\ UNCHANGED recordVars
       \/ /\ decisions[d] = NoDecision
          /\ IntentUnresolved(p)
          /\ entries' = [entries EXCEPT ![p.key] =
                           IF p.action = "complete" THEN MovedTo(p.key, "done", p.value)
                                                    ELSE MovedTo(p.key, "ready", NoValue)]
          /\ decisions' = [decisions EXCEPT ![d] = p]
    /\ UNCHANGED <<leaseVars, queueVars>>

-----------------------------------------------------------------------------
(* The run lease *)

(* Fault: a takeover keeps the old token. *)
AcquireReusesToken(o) ==
    /\ lease.owner = o \/ ~lease.live
    /\ lease' = [lease EXCEPT !.owner = o, !.live = TRUE]
    /\ UNCHANGED <<tokens, recordVars, queueVars>>

(* The holder renews and keeps its token; anyone else waits for the lease to *)
(* be released or to expire, and then takes it under a new token.            *)
Acquire(o) ==
    /\ \/ /\ lease.owner = o
          /\ lease' = [lease EXCEPT !.live = TRUE]
          /\ UNCHANGED tokens
       \/ /\ lease.owner # o
          /\ ~lease.live
          /\ tokens' = tokens + 1
          /\ lease' = [owner |-> o, token |-> tokens + 1, live |-> TRUE]
    /\ UNCHANGED <<recordVars, queueVars>>

(* Fault: release does not ask who owns the lease. *)
ReleaseForAnyone(o) ==
    /\ lease' = [lease EXCEPT !.owner = NoOwner, !.live = FALSE]
    /\ UNCHANGED <<tokens, recordVars, queueVars>>

Release(o) ==
    /\ lease' = IF lease.owner = o THEN [lease EXCEPT !.owner = NoOwner, !.live = FALSE]
                                   ELSE lease
    /\ UNCHANGED <<tokens, recordVars, queueVars>>

(* The environment: the TTL passes with no renewal. *)
Expire ==
    /\ lease.live
    /\ lease' = [lease EXCEPT !.live = FALSE]
    /\ UNCHANGED <<tokens, recordVars, queueVars>>

-----------------------------------------------------------------------------
(* The input queue *)

Present(i) == inputs[i].status # "none"

EnqueueInput(i) ==
    /\ ~Present(i)
    /\ inputs' = [inputs EXCEPT ![i] = [status |-> "pending", sequence |-> sequence]]
    /\ sequence' = sequence + 1
    /\ UNCHANGED <<recordVars, leaseVars>>

(* Fault: a terminal input is claimed again. *)
ClaimIgnoresStatus(i, t) ==
    /\ Fence(t)
    /\ inputs' = IF Present(i) THEN [inputs EXCEPT ![i].status = "claimed"] ELSE inputs
    /\ UNCHANGED <<sequence, recordVars, leaseVars>>

ClaimInput(i, t) ==
    /\ Fence(t)
    /\ inputs' = IF inputs[i].status \in {"pending", "claimed"}
                   THEN [inputs EXCEPT ![i].status = "claimed"]
                   ELSE inputs
    /\ UNCHANGED <<sequence, recordVars, leaseVars>>

AdmitInputs(ids, t) ==
    /\ Fence(t)
    /\ inputs' = [i \in Inputs |->
                    IF i \in ids /\ inputs[i].status \notin {"none", "discarded"}
                      THEN [inputs[i] EXCEPT !.status = "admitted"]
                      ELSE inputs[i]]
    /\ UNCHANGED <<sequence, recordVars, leaseVars>>

DiscardInputs(ids, t) ==
    /\ Fence(t)
    /\ inputs' = [i \in Inputs |->
                    IF i \in ids /\ Present(i)
                      THEN [inputs[i] EXCEPT !.status = "discarded"]
                      ELSE inputs[i]]
    /\ UNCHANGED <<sequence, recordVars, leaseVars>>

-----------------------------------------------------------------------------
(* commit_transition: effect results, control writes and new inputs at once. *)
(* fx maps effect keys to completions, ctl control keys to values, and batch *)
(* lists distinct input ids in submission order.                             *)

Completions == [value : Values, expected : {"absent", "running"}]

CompletionAllowed(k, c) ==
    \/ entries[k].status = "done" /\ entries[k].value = c.value
    \/ entries[k].status = c.expected

(* Fault: ids already queued are counted. *)
BatchUpTo(batch, n) == 1..n

(* The ids of the batch up to position n that are not in the queue yet. *)
FreshUpTo(batch, n) == {m \in 1..n : ~Present(batch[m])}

CommitTransition(fx, ctl, batch, t) ==
    /\ Fence(t)
    /\ \A k \in DOMAIN fx : CompletionAllowed(k, fx[k])
    /\ entries' = [k \in Keys |->
                     IF k \in DOMAIN fx /\ entries[k].status # "done"
                       THEN MovedTo(k, "done", fx[k].value)
                     ELSE IF k \in DOMAIN ctl THEN MovedTo(k, "done", ctl[k])
                     ELSE entries[k]]
    /\ inputs' = [i \in Inputs |->
                    IF ~Present(i) /\ \E n \in DOMAIN batch : batch[n] = i
                      THEN LET n == CHOOSE n \in DOMAIN batch : batch[n] = i
                           IN  [status   |-> "pending",
                                sequence |-> sequence + Cardinality(FreshUpTo(batch, n - 1))]
                      ELSE inputs[i]]
    /\ sequence' = sequence + Cardinality(FreshUpTo(batch, Len(batch)))
    /\ UNCHANGED <<decisions, leaseVars>>

-----------------------------------------------------------------------------
(* Every call a client can make.  A caller's token is one the store has      *)
(* issued, or 0 outside a lease.  A decision names a version its record has  *)
(* had, since hosts read it from the ledger.  Reads change nothing.          *)

Tokens == 0..tokens

RecordCalls ==
    \E t \in Tokens :
        \/ \E k \in EffectKeys : Start(k, t)
        \/ \E k \in EffectKeys, v \in Values : FinishEffect(k, v, t)
        \/ \E k \in EffectKeys : Forget(k, t)
        \/ \E k \in ControlKeys, v \in Values : WriteControl(k, v, t)

DecisionsAbout(k) ==
    [key : {k}, action : {"complete"}, expected : 1..entries[k].version, value : Values]
    \cup
    [key : {k}, action : {"retry"}, expected : 1..entries[k].version, value : {NoValue}]

DecisionCalls ==
    \E t \in Tokens, d \in DecisionIds, k \in EffectKeys :
        \E p \in DecisionsAbout(k) : ResolveEffect(d, p, t)

LeaseCalls == \E o \in Owners : Acquire(o) \/ Release(o)

QueueCalls ==
    \/ \E i \in Inputs : EnqueueInput(i)
    \/ \E t \in Tokens, i \in Inputs : ClaimInput(i, t)
    \/ \E t \in Tokens, ids \in SUBSET Inputs : AdmitInputs(ids, t) \/ DiscardInputs(ids, t)

Batches == {q \in UNION {[1..n -> Inputs] : n \in 0..Cardinality(Inputs)} :
              \A m, n \in DOMAIN q : q[m] = q[n] => m = n}

TransitionCalls ==
    \E t \in Tokens, batch \in Batches :
        \E fx  \in UNION {[S -> Completions] : S \in SUBSET EffectKeys},
           ctl \in UNION {[S -> Values] : S \in SUBSET ControlKeys} :
            CommitTransition(fx, ctl, batch, t)

LedgerNext ==
    \/ RecordCalls
    \/ DecisionCalls
    \/ LeaseCalls
    \/ QueueCalls
    \/ TransitionCalls
    \/ Expire

LedgerSpec == LedgerInit /\ [][LedgerNext]_ledgerVars

-----------------------------------------------------------------------------
(* Properties *)

(* One unfinished intent is settled by one decision: a recorded decision is   *)
(* behind the version it was made about, so it can never be applied again,    *)
(* and no two decisions were accepted about the same execution of a key.      *)
OneDecisionPerIntent ==
    \A d \in DecisionIds : decisions[d] # NoDecision =>
        /\ entries[decisions[d].key].version > decisions[d].expected
        /\ \A e \in DecisionIds \ {d} :
             decisions[e] # NoDecision /\ decisions[e].key = decisions[d].key
               => decisions[e].expected # decisions[d].expected

(* A second start of an intent that may have run needs a host's word: a ready *)
(* record always has the retry decision that put it there.                    *)
RetryHasDecision ==
    \A k \in EffectKeys : entries[k].status = "ready" =>
        \E d \in DecisionIds :
            /\ decisions[d] # NoDecision
            /\ decisions[d].key = k
            /\ decisions[d].action = "retry"
            /\ decisions[d].expected + 1 = entries[k].version

(* A settled record is the result for ever, and every other change of an      *)
(* effect record is a step of its life cycle that moves its version by one,   *)
(* so a version never names two different states of a key.                    *)
Successors(status) ==
    CASE status = "absent"  -> {"running", "done"}
      [] status = "ready"   -> {"running"}
      [] status = "running" -> {"absent", "ready", "done"}
      [] status = "done"    -> {}

RecordLifecycle ==
    [][\A k \in EffectKeys : entries'[k] # entries[k] =>
          /\ entries'[k].status \in Successors(entries[k].status)
          /\ entries'[k].version = entries[k].version + 1]_ledgerVars

(* A lease that is held and has not lapsed changes hands only by its owner's  *)
(* release, and a new owner always gets a token above every earlier one.      *)
LeaseHandOver ==
    [][lease'.owner \notin {lease.owner, NoOwner} =>
          /\ ~lease.live
          /\ lease'.token = tokens'
          /\ tokens' > tokens]_ledgerVars

(* The present inputs are numbered 0 .. sequence-1 in submission order,       *)
(* without gaps or ties, whichever calls submitted them.                      *)
SubmissionOrder ==
    /\ \A i, j \in Inputs :
         Present(i) /\ Present(j) /\ inputs[i].sequence = inputs[j].sequence => i = j
    /\ {inputs[i].sequence : i \in {j \in Inputs : Present(j)}} = 0..(sequence - 1)

(* Discarding is final, and an admitted input never returns to the queue, so  *)
(* neither is delivered again; a submission keeps its place for ever.         *)
InputsSettle ==
    [][\A i \in Inputs :
          /\ inputs[i].status = "discarded" => inputs'[i].status = "discarded"
          /\ inputs[i].status = "admitted" => inputs'[i].status \in {"admitted", "discarded"}
          /\ Present(i) => inputs'[i].sequence = inputs[i].sequence]_ledgerVars

=============================================================================
