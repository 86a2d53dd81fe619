-------------------------- MODULE StepLedgerProofs --------------------------
(***************************************************************************)
(* What every client of the store may rely on, for any keys, values,       *)
(* owners, inputs and decision ids, and with no bound on the versions or   *)
(* the fencing tokens.                                                     *)
(***************************************************************************)
EXTENDS StepLedger, FiniteSetTheorems, TLAPS

-----------------------------------------------------------------------------
(* Type correctness, one lemma per part of the store. *)

(* A record moved to a settled or to an unfinished state is again a Step. *)
LEMMA MovedToIsStep ==
    ASSUME LedgerTypeOK, NEW k \in Keys
    PROVE  /\ \A s \in {"absent", "ready", "running"} : MovedTo(k, s, NoValue) \in Steps
           /\ \A v \in Values : MovedTo(k, "done", v) \in Steps
           /\ MovedTo(k, "done", NoValue).version = entries[k].version + 1
  BY DEF LedgerTypeOK, MovedTo, Steps

(* Record and decision calls keep the records and the decisions well typed. *)
LEMMA RecordsTyped ==
    ASSUME LedgerConstants, LedgerTypeOK, RecordCalls \/ DecisionCalls
    PROVE  LedgerTypeOK'
  <1>1. ASSUME NEW t \in Tokens, NEW k \in EffectKeys, Start(k, t)
        PROVE  LedgerTypeOK'
    BY <1>1, MovedToIsStep DEF Start, LedgerTypeOK, Keys, leaseVars, queueVars
  <1>2. ASSUME NEW t \in Tokens, NEW k \in EffectKeys, NEW v \in Values, FinishEffect(k, v, t)
        PROVE  LedgerTypeOK'
    BY <1>2, MovedToIsStep DEF FinishEffect, LedgerTypeOK, Keys, leaseVars, queueVars
  <1>3. ASSUME NEW t \in Tokens, NEW k \in EffectKeys, Forget(k, t)
        PROVE  LedgerTypeOK'
    BY <1>3, MovedToIsStep DEF Forget, LedgerTypeOK, Keys, leaseVars, queueVars
  <1>4. ASSUME NEW t \in Tokens, NEW k \in ControlKeys, NEW v \in Values, WriteControl(k, v, t)
        PROVE  LedgerTypeOK'
    BY <1>4, MovedToIsStep DEF WriteControl, LedgerTypeOK, Keys, leaseVars, queueVars
  <1>5. ASSUME NEW t \in Tokens, NEW d \in DecisionIds, NEW k \in EffectKeys,
               NEW p \in DecisionsAbout(k), ResolveEffect(d, p, t)
        PROVE  LedgerTypeOK'
    <2>1. /\ p \in Resolutions
          /\ p.key \in Keys
          /\ p.action = "complete" => p.value \in Values
      BY DEF DecisionsAbout, Resolutions, LedgerTypeOK, Steps, Keys
    <2>2. CASE decisions[d] = p /\ UNCHANGED recordVars
      BY <1>5, <2>2 DEF ResolveEffect, LedgerTypeOK, recordVars, leaseVars, queueVars
    <2>3. CASE ~(decisions[d] = p /\ UNCHANGED recordVars)
      BY <1>5, <2>1, <2>3, MovedToIsStep
         DEF ResolveEffect, LedgerTypeOK, leaseVars, queueVars
    <2> QED
      BY <2>2, <2>3
  <1> QED
    BY <1>1, <1>2, <1>3, <1>4, <1>5 DEF RecordCalls, DecisionCalls

(* The lease row stays well typed whoever acquires, releases or lets it lapse. *)
LEMMA LeaseTyped ==
    ASSUME LedgerConstants, LedgerTypeOK, LeaseCalls \/ Expire
    PROVE  LedgerTypeOK'
  <1>1. ASSUME NEW o \in Owners, Acquire(o)
        PROVE  LedgerTypeOK'
    <2>1. lease' \in Leases
      <3>1. CASE lease.owner = o
        BY <1>1, <3>1 DEF Acquire, LedgerTypeOK, Leases
      <3>2. CASE lease.owner # o
        <4>1. lease' = [owner |-> o, token |-> tokens + 1, live |-> TRUE]
          BY <1>1, <3>2 DEF Acquire
        <4>2. tokens + 1 \in Nat
          BY DEF LedgerTypeOK
        <4> QED
          BY <4>1, <4>2 DEF Leases
      <3> QED
        BY <3>1, <3>2
    <2>2. tokens' \in Nat
      BY <1>1 DEF Acquire, LedgerTypeOK
    <2> QED
      BY <1>1, <2>1, <2>2 DEF Acquire, LedgerTypeOK, recordVars, queueVars
  <1>2. ASSUME NEW o \in Owners, Release(o)
        PROVE  LedgerTypeOK'
    BY <1>2 DEF Release, LedgerTypeOK, Leases, recordVars, queueVars
  <1>3. CASE Expire
    BY <1>3 DEF Expire, LedgerTypeOK, Leases, recordVars, queueVars
  <1> QED
    BY <1>1, <1>2, <1>3 DEF LeaseCalls

(* Queue calls keep every input row well typed. *)
LEMMA QueueTyped ==
    ASSUME LedgerConstants, LedgerTypeOK, QueueCalls
    PROVE  LedgerTypeOK'
  <1>1. ASSUME NEW i \in Inputs, EnqueueInput(i)
        PROVE  LedgerTypeOK'
    BY <1>1 DEF EnqueueInput, LedgerTypeOK, InputRecords, recordVars, leaseVars
  <1>2. ASSUME NEW t \in Tokens, NEW i \in Inputs, ClaimInput(i, t)
        PROVE  LedgerTypeOK'
    BY <1>2 DEF ClaimInput, LedgerTypeOK, InputRecords, recordVars, leaseVars
  <1>3. ASSUME NEW t \in Tokens, NEW ids \in SUBSET Inputs, AdmitInputs(ids, t)
        PROVE  LedgerTypeOK'
    BY <1>3 DEF AdmitInputs, LedgerTypeOK, InputRecords, recordVars, leaseVars
  <1>4. ASSUME NEW t \in Tokens, NEW ids \in SUBSET Inputs, DiscardInputs(ids, t)
        PROVE  LedgerTypeOK'
    BY <1>4 DEF DiscardInputs, LedgerTypeOK, InputRecords, recordVars, leaseVars
  <1> QED
    BY <1>1, <1>2, <1>3, <1>4 DEF QueueCalls

(* The number of fresh ids of a batch is a natural number. *)
LEMMA FreshCount ==
    ASSUME NEW batch, NEW n \in Int
    PROVE  Cardinality(FreshUpTo(batch, n)) \in Nat
  <1>1. IsFiniteSet(1..n)
    BY FS_Interval
  <1>2. IsFiniteSet(FreshUpTo(batch, n))
    BY <1>1, FS_Subset DEF FreshUpTo
  <1> QED
    BY <1>2, FS_CardinalityType

(* A transition keeps the records and the queue well typed. *)
LEMMA TransitionTyped ==
    ASSUME LedgerConstants, LedgerTypeOK, TransitionCalls
    PROVE  LedgerTypeOK'
  <1> PICK t \in Tokens, batch \in Batches,
           fx \in UNION {[S -> Completions] : S \in SUBSET EffectKeys},
           ctl \in UNION {[S -> Values] : S \in SUBSET ControlKeys} :
             CommitTransition(fx, ctl, batch, t)
    BY DEF TransitionCalls
  <1>1. /\ \A k \in DOMAIN fx : fx[k].value \in Values
        /\ \A k \in DOMAIN ctl : ctl[k] \in Values
    BY DEF Completions
  <1>2. entries' \in [Keys -> Steps]
    BY <1>1, MovedToIsStep DEF CommitTransition, LedgerTypeOK
  <1>3. /\ DOMAIN batch \subseteq Int
        /\ Len(batch) \in Nat
    BY DEF Batches
  <1>4. inputs' \in [Inputs -> InputRecords] /\ sequence' \in Nat
    <2>1. ASSUME NEW n \in Int
          PROVE  sequence + Cardinality(FreshUpTo(batch, n)) \in Nat
      BY FreshCount DEF LedgerTypeOK
    <2>2. sequence' \in Nat
      BY <1>3, <2>1 DEF CommitTransition
    <2>3. ASSUME NEW i \in Inputs
          PROVE  inputs'[i] \in InputRecords
      <3>1. CASE ~Present(i) /\ \E n \in DOMAIN batch : batch[n] = i
        <4> DEFINE n == CHOOSE n \in DOMAIN batch : batch[n] = i
        <4>1. n - 1 \in Int
          BY <1>3, <3>1
        <4>2. inputs'[i] = [status   |-> "pending",
                            sequence |-> sequence + Cardinality(FreshUpTo(batch, n - 1))]
          BY <3>1 DEF CommitTransition
        <4> HIDE DEF n
        <4> QED
          BY <2>1, <4>1, <4>2 DEF InputRecords
      <3>2. CASE ~(~Present(i) /\ \E n \in DOMAIN batch : batch[n] = i)
        BY <3>2 DEF CommitTransition, LedgerTypeOK
      <3> QED
        BY <3>1, <3>2
    <2>4. inputs' = [i \in Inputs |-> inputs'[i]]
      BY DEF CommitTransition
    <2> QED
      BY <2>2, <2>3, <2>4
  <1> QED
    BY <1>2, <1>4 DEF CommitTransition, LedgerTypeOK, leaseVars

(* Every call of a client keeps the store well typed. *)
LEMMA LedgerStepTyped ==
    ASSUME LedgerConstants, LedgerTypeOK, [LedgerNext]_ledgerVars
    PROVE  LedgerTypeOK'
  <1>1. CASE UNCHANGED ledgerVars
    BY <1>1 DEF ledgerVars, LedgerTypeOK
  <1>2. CASE LedgerNext
    BY <1>2, RecordsTyped, LeaseTyped, QueueTyped, TransitionTyped DEF LedgerNext
  <1> QED
    BY <1>1, <1>2

(* The store is well typed in every reachable state: only settled records    *)
(* have a value, and every accepted decision is a valid payload.             *)
THEOREM LedgerTypeCorrect == LedgerSpec => []LedgerTypeOK
  <1>1. LedgerInit => LedgerTypeOK
    BY LedgerConstants DEF LedgerInit, LedgerTypeOK, Steps, Leases, InputRecords
  <1>2. LedgerTypeOK /\ [LedgerNext]_ledgerVars => LedgerTypeOK'
    BY LedgerConstants, LedgerStepTyped
  <1> QED
    BY <1>1, <1>2, PTL DEF LedgerSpec

-----------------------------------------------------------------------------
(* How one call may change the records.  Every safety result below needs no  *)
(* more than these two facts.                                                *)

RecordsAdvance ==
    \A k \in EffectKeys : entries'[k] # entries[k] =>
        /\ entries'[k].status \in Successors(entries[k].status)
        /\ entries'[k].version = entries[k].version + 1

(* Either no decision is recorded and no record becomes ready, or one new    *)
(* decision is recorded about the record it moves.                           *)
DecisionsFollowIntents ==
    \/ /\ decisions' = decisions
       /\ \A k \in EffectKeys : entries'[k].status = "ready" => entries'[k] = entries[k]
    \/ \E d \in DecisionIds, k \in EffectKeys, p \in Resolutions :
         /\ decisions[d] = NoDecision
         /\ decisions' = [decisions EXCEPT ![d] = p]
         /\ p.key = k
         /\ entries[k].version = p.expected
         /\ entries'[k].version = p.expected + 1
         /\ entries'[k].status = "ready" => p.action = "retry"
         /\ \A j \in EffectKeys \ {k} : entries'[j] = entries[j]

(* A transition settles effects that are absent or running, and leaves the   *)
(* settled ones alone.                                                       *)
LEMMA TransitionStep ==
    ASSUME LedgerConstants, LedgerTypeOK, TransitionCalls
    PROVE  RecordsAdvance /\ DecisionsFollowIntents
  <1> PICK t \in Tokens, batch \in Batches,
           fx \in UNION {[S -> Completions] : S \in SUBSET EffectKeys},
           ctl \in UNION {[S -> Values] : S \in SUBSET ControlKeys} :
             CommitTransition(fx, ctl, batch, t)
    BY DEF TransitionCalls
  <1>1. DOMAIN ctl \subseteq ControlKeys
    OBVIOUS
  <1>2. ASSUME NEW k \in EffectKeys
        PROVE  \/ entries'[k] = entries[k]
               \/ /\ entries[k].status \in {"absent", "running"}
                  /\ entries'[k].status = "done"
                  /\ entries'[k].version = entries[k].version + 1
    <2>1. k \in Keys /\ k \notin DOMAIN ctl
      BY <1>1 DEF Keys, LedgerConstants
    <2>2. CASE k \in DOMAIN fx /\ entries[k].status # "done"
      <3>1. fx[k].expected \in {"absent", "running"}
        BY <2>2 DEF Completions
      <3>2. entries[k].status = fx[k].expected
        BY <2>2 DEF CommitTransition, CompletionAllowed
      <3>3. entries'[k] = MovedTo(k, "done", fx[k].value)
        BY <2>1, <2>2 DEF CommitTransition
      <3> QED
        BY <3>1, <3>2, <3>3 DEF MovedTo
    <2>3. CASE ~(k \in DOMAIN fx /\ entries[k].status # "done")
      BY <2>1, <2>3 DEF CommitTransition
    <2> QED
      BY <2>2, <2>3
  <1>3. RecordsAdvance
    BY <1>2 DEF RecordsAdvance, Successors
  <1>4. DecisionsFollowIntents
    BY <1>2 DEF DecisionsFollowIntents, CommitTransition
  <1> QED
    BY <1>3, <1>4

(* Every call of the store moves each record along its lifecycle, and a  *)
(* decision it accepts is about the version of the record it moves.      *)
LEMMA RecordStep ==
    ASSUME LedgerConstants, LedgerTypeOK, [LedgerNext]_ledgerVars
    PROVE  RecordsAdvance /\ DecisionsFollowIntents
  <1>1. CASE UNCHANGED recordVars
    BY <1>1 DEF recordVars, RecordsAdvance, DecisionsFollowIntents
  <1>2. ASSUME NEW t, NEW k \in EffectKeys, Start(k, t)
        PROVE  RecordsAdvance /\ DecisionsFollowIntents
    BY <1>2 DEF Start, StartGranted, MovedTo, RecordsAdvance, DecisionsFollowIntents,
                Successors, LedgerTypeOK, Keys
  <1>3. ASSUME NEW t, NEW k \in EffectKeys, NEW v \in Values, FinishEffect(k, v, t)
        PROVE  RecordsAdvance /\ DecisionsFollowIntents
    BY <1>3 DEF FinishEffect, MovedTo, RecordsAdvance, DecisionsFollowIntents,
                Successors, LedgerTypeOK, Keys
  <1>4. ASSUME NEW t, NEW k \in EffectKeys, Forget(k, t)
        PROVE  RecordsAdvance /\ DecisionsFollowIntents
    BY <1>4 DEF Forget, MovedTo, RecordsAdvance, DecisionsFollowIntents,
                Successors, LedgerTypeOK, Keys
  <1>5. ASSUME NEW t, NEW k \in ControlKeys, NEW v \in Values, WriteControl(k, v, t)
        PROVE  RecordsAdvance /\ DecisionsFollowIntents
    BY <1>5, LedgerConstants
       DEF WriteControl, RecordsAdvance, DecisionsFollowIntents, LedgerTypeOK, Keys,
           LedgerConstants
  <1>6. ASSUME NEW t, NEW d \in DecisionIds, NEW k \in EffectKeys,
               NEW p \in DecisionsAbout(k), ResolveEffect(d, p, t)
        PROVE  RecordsAdvance /\ DecisionsFollowIntents
    <2>1. /\ p \in Resolutions
          /\ p.key = k
      BY DEF DecisionsAbout, Resolutions, LedgerTypeOK, Steps, Keys
    <2>2. CASE ~UNCHANGED recordVars
      <3>1. /\ decisions[d] = NoDecision
            /\ decisions' = [decisions EXCEPT ![d] = p]
            /\ entries[k].status = "running"
            /\ entries[k].version = p.expected
            /\ entries' = [entries EXCEPT ![k] =
                 IF p.action = "complete" THEN MovedTo(k, "done", p.value)
                                          ELSE MovedTo(k, "ready", NoValue)]
        BY <1>6, <2>1, <2>2 DEF ResolveEffect, IntentUnresolved, recordVars
      <3>2. /\ entries'[k].version = p.expected + 1
            /\ entries'[k].status \in {"done", "ready"}
            /\ entries'[k].status = "ready" => p.action = "retry"
            /\ \A j \in EffectKeys \ {k} : entries'[j] = entries[j]
        BY <2>1, <3>1 DEF MovedTo, LedgerTypeOK, Keys, Resolutions
      <3>3. Successors("running") = {"absent", "ready", "done"}
        BY DEF Successors
      <3>4. RecordsAdvance
        <4> SUFFICES ASSUME NEW j \in EffectKeys, entries'[j] # entries[j]
                     PROVE  /\ entries'[j].status \in Successors(entries[j].status)
                            /\ entries'[j].version = entries[j].version + 1
          BY DEF RecordsAdvance
        <4>1. j = k
          BY <3>2
        <4> QED
          BY <3>1, <3>2, <3>3, <4>1
      <3>5. DecisionsFollowIntents
        <4>1. decisions[d] = NoDecision /\ decisions' = [decisions EXCEPT ![d] = p]
          BY <3>1
        <4>2. entries[k].version = p.expected
          BY <3>1
        <4> QED
          BY <2>1, <3>2, <4>1, <4>2 DEF DecisionsFollowIntents
      <3> QED
        BY <3>4, <3>5
    <2> QED
      BY <1>1, <2>2
  <1>7. CASE RecordCalls
    BY <1>2, <1>3, <1>4, <1>5, <1>7 DEF RecordCalls
  <1>8. CASE DecisionCalls
    BY <1>6, <1>8 DEF DecisionCalls
  <1>9. CASE LeaseCalls \/ QueueCalls \/ Expire \/ UNCHANGED ledgerVars
    BY <1>1, <1>9 DEF LeaseCalls, QueueCalls, Expire, Acquire, Release, EnqueueInput,
                      ClaimInput, AdmitInputs, DiscardInputs, ledgerVars, recordVars
  <1> QED
    BY <1>7, <1>8, <1>9, TransitionStep DEF LedgerNext

(* The life cycle of an effect record, for every sequence of calls: a        *)
(* settled record is the result for ever and versions never repeat.          *)
THEOREM LedgerRecordLifecycle == LedgerSpec => RecordLifecycle
  <1>1. LedgerTypeOK /\ [LedgerNext]_ledgerVars => [RecordsAdvance]_ledgerVars
    BY LedgerConstants, RecordStep
  <1>2. [RecordsAdvance]_ledgerVars =>
          [\A k \in EffectKeys : entries'[k] # entries[k] =>
             /\ entries'[k].status \in Successors(entries[k].status)
             /\ entries'[k].version = entries[k].version + 1]_ledgerVars
    BY DEF RecordsAdvance
  <1> QED
    BY <1>1, <1>2, LedgerTypeCorrect, PTL DEF LedgerSpec, RecordLifecycle

-----------------------------------------------------------------------------
(* Reconciliation *)

(* However often and in whatever order decisions are delivered, no execution *)
(* of an effect is settled by two of them.                                   *)
THEOREM LedgerOneDecision == LedgerSpec => []OneDecisionPerIntent
  <1>1. LedgerInit => OneDecisionPerIntent
    BY DEF LedgerInit, OneDecisionPerIntent
  <1>2. LedgerTypeOK /\ OneDecisionPerIntent /\ [LedgerNext]_ledgerVars => OneDecisionPerIntent'
    <2> SUFFICES ASSUME LedgerTypeOK, OneDecisionPerIntent, [LedgerNext]_ledgerVars
                 PROVE  OneDecisionPerIntent'
      OBVIOUS
    <2>1. RecordsAdvance /\ DecisionsFollowIntents
      BY LedgerConstants, RecordStep
    <2>2. \A k \in EffectKeys : /\ entries[k].version \in Nat
                                /\ entries'[k].version \in Nat
                                /\ entries'[k].version >= entries[k].version
      BY <2>1 DEF RecordsAdvance, LedgerTypeOK, Steps, Keys
    <2>3. \A d \in DecisionIds : decisions[d] # NoDecision =>
            decisions[d].key \in EffectKeys /\ decisions[d].expected \in Nat
      BY DEF LedgerTypeOK, Resolutions
    <2>4. CASE decisions' = decisions
      BY <2>2, <2>3, <2>4 DEF OneDecisionPerIntent
    <2>5. ASSUME NEW d \in DecisionIds, NEW k \in EffectKeys, NEW p \in Resolutions,
                 decisions' = [decisions EXCEPT ![d] = p],
                 p.key = k,
                 entries[k].version = p.expected,
                 entries'[k].version = p.expected + 1
          PROVE  OneDecisionPerIntent'
      <3>1. decisions'[d] = p /\ \A e \in DecisionIds \ {d} : decisions'[e] = decisions[e]
        BY <2>5 DEF LedgerTypeOK
      <3>2. \A e \in DecisionIds \ {d} :
              decisions[e] # NoDecision /\ decisions[e].key = k => decisions[e].expected < p.expected
        BY <2>2, <2>3, <2>5 DEF OneDecisionPerIntent
      <3>3. p.expected \in Nat
        BY DEF Resolutions
      <3> QED
        BY <2>2, <2>3, <2>5, <3>1, <3>2, <3>3 DEF OneDecisionPerIntent
    <2> QED
      BY <2>1, <2>4, <2>5 DEF DecisionsFollowIntents
  <1> QED
    BY <1>1, <1>2, LedgerTypeCorrect, PTL DEF LedgerSpec

(* An intent that may have run becomes startable again only by a host's      *)
(* recorded retry decision about that very execution.                        *)
THEOREM LedgerRetryHasDecision == LedgerSpec => []RetryHasDecision
  <1>1. LedgerInit => RetryHasDecision
    BY DEF LedgerInit, RetryHasDecision, Keys
  <1>2. LedgerTypeOK /\ RetryHasDecision /\ [LedgerNext]_ledgerVars => RetryHasDecision'
    <2> SUFFICES ASSUME LedgerTypeOK, RetryHasDecision, [LedgerNext]_ledgerVars,
                        NEW k \in EffectKeys, entries'[k].status = "ready"
                 PROVE  \E d \in DecisionIds :
                          /\ decisions'[d] # NoDecision
                          /\ decisions'[d].key = k
                          /\ decisions'[d].action = "retry"
                          /\ decisions'[d].expected + 1 = entries'[k].version
      BY DEF RetryHasDecision
    <2>1. DecisionsFollowIntents
      BY LedgerConstants, RecordStep
    <2>2. CASE decisions' = decisions /\ entries'[k] = entries[k]
      BY <2>2 DEF RetryHasDecision
    <2>3. ASSUME NEW d \in DecisionIds, NEW j \in EffectKeys, NEW p \in Resolutions,
                 decisions[d] = NoDecision,
                 decisions' = [decisions EXCEPT ![d] = p],
                 p.key = j,
                 entries'[j].version = p.expected + 1,
                 entries'[j].status = "ready" => p.action = "retry",
                 \A i \in EffectKeys \ {j} : entries'[i] = entries[i]
          PROVE  \E e \in DecisionIds :
                   /\ decisions'[e] # NoDecision
                   /\ decisions'[e].key = k
                   /\ decisions'[e].action = "retry"
                   /\ decisions'[e].expected + 1 = entries'[k].version
      <3>1. decisions'[d] = p /\ \A e \in DecisionIds \ {d} : decisions'[e] = decisions[e]
        BY <2>3 DEF LedgerTypeOK
      <3>2. CASE k = j
        <4>1. p # NoDecision
          BY DecisionConstant DEF DecisionConstant
        <4> QED
          BY <2>3, <3>1, <3>2, <4>1
      <3>3. CASE k # j
        <4>1. PICK e \in DecisionIds :
                /\ decisions[e] # NoDecision
                /\ decisions[e].key = k
                /\ decisions[e].action = "retry"
                /\ decisions[e].expected + 1 = entries[k].version
          BY <2>3, <3>3 DEF RetryHasDecision
        <4>2. e # d
          BY <2>3, <4>1
        <4> QED
          BY <2>3, <3>1, <3>3, <4>1, <4>2
      <3> QED
        BY <3>2, <3>3
    <2> QED
      BY <2>1, <2>2, <2>3 DEF DecisionsFollowIntents
  <1> QED
    BY <1>1, <1>2, LedgerTypeCorrect, PTL DEF LedgerSpec

-----------------------------------------------------------------------------
(* The lease and the queue *)

(* A live lease is never taken from its owner, and a new owner's token       *)
(* fences every earlier one.                                                 *)
THEOREM LedgerLeaseHandOver == LedgerSpec => LeaseHandOver
  <1> DEFINE HandOver == lease'.owner \notin {lease.owner, NoOwner} =>
                           /\ ~lease.live
                           /\ lease'.token = tokens'
                           /\ tokens' > tokens
  <1>1. LedgerTypeOK /\ [LedgerNext]_ledgerVars => [HandOver]_ledgerVars
    <2> SUFFICES ASSUME LedgerTypeOK, LedgerNext
                 PROVE  HandOver
      OBVIOUS
    <2>1. ASSUME NEW o \in Owners, Acquire(o), lease.owner # o
          PROVE  HandOver
      <3>1. ~lease.live
        BY <2>1 DEF Acquire
      <3>2. lease'.token = tokens' /\ tokens' = tokens + 1
        BY <2>1 DEF Acquire
      <3> QED
        BY <3>1, <3>2 DEF LedgerTypeOK
    <2>2. ASSUME NEW o \in Owners, Acquire(o), lease.owner = o
          PROVE  HandOver
      BY <2>2 DEF Acquire, LedgerTypeOK, Leases
    <2>3. ASSUME NEW o \in Owners, Release(o)
          PROVE  HandOver
      BY <2>3 DEF Release, LedgerTypeOK, Leases
    <2>4. CASE Expire
      BY <2>4 DEF Expire, LedgerTypeOK, Leases
    <2>5. CASE RecordCalls \/ DecisionCalls \/ QueueCalls \/ TransitionCalls
      BY <2>5 DEF RecordCalls, DecisionCalls, QueueCalls, TransitionCalls, Start, FinishEffect,
                  Forget, WriteControl, ResolveEffect, EnqueueInput, ClaimInput, AdmitInputs,
                  DiscardInputs, CommitTransition, leaseVars
    <2> QED
      BY <2>1, <2>2, <2>3, <2>4, <2>5 DEF LedgerNext, LeaseCalls
  <1> QED
    BY <1>1, LedgerTypeCorrect, PTL DEF LedgerSpec, LeaseHandOver

(* No call of any client brings a discarded or an admitted input back, or    *)
(* moves a submission to another place in the order.                         *)
THEOREM LedgerInputsSettle == LedgerSpec => InputsSettle
  <1> DEFINE Settled(i) ==
        /\ inputs[i].status = "discarded" => inputs'[i].status = "discarded"
        /\ inputs[i].status = "admitted" => inputs'[i].status \in {"admitted", "discarded"}
        /\ Present(i) => inputs'[i].sequence = inputs[i].sequence
  <1>1. LedgerTypeOK /\ [LedgerNext]_ledgerVars => [\A i \in Inputs : Settled(i)]_ledgerVars
    <2> SUFFICES ASSUME LedgerTypeOK, LedgerNext, NEW i \in Inputs
                 PROVE  Settled(i)
      OBVIOUS
    <2>1. CASE UNCHANGED inputs
      BY <2>1 DEF Present
    <2>2. ASSUME NEW j \in Inputs, EnqueueInput(j)
          PROVE  Settled(i)
      BY <2>2 DEF EnqueueInput, Present, LedgerTypeOK, InputRecords
    <2>3. ASSUME NEW t, NEW j \in Inputs, ClaimInput(j, t)
          PROVE  Settled(i)
      BY <2>3 DEF ClaimInput, Present, LedgerTypeOK, InputRecords
    <2>4. ASSUME NEW t, NEW ids, AdmitInputs(ids, t)
          PROVE  Settled(i)
      BY <2>4 DEF AdmitInputs, Present, LedgerTypeOK, InputRecords
    <2>5. ASSUME NEW t, NEW ids, DiscardInputs(ids, t)
          PROVE  Settled(i)
      BY <2>5 DEF DiscardInputs, Present, LedgerTypeOK, InputRecords
    <2>6. ASSUME NEW t, NEW fx, NEW ctl, NEW batch, CommitTransition(fx, ctl, batch, t)
          PROVE  Settled(i)
      <3>1. CASE Present(i)
        BY <2>6, <3>1 DEF CommitTransition
      <3>2. CASE ~Present(i)
        BY <3>2 DEF Present
      <3> QED
        BY <3>1, <3>2
    <2>7. CASE RecordCalls \/ DecisionCalls \/ LeaseCalls \/ Expire
      BY <2>1, <2>7 DEF RecordCalls, DecisionCalls, LeaseCalls, Expire, Start, FinishEffect,
                        Forget, WriteControl, ResolveEffect, Acquire, Release, queueVars
    <2> HIDE DEF Settled
    <2> QED
      BY <2>2, <2>3, <2>4, <2>5, <2>6, <2>7 DEF LedgerNext, QueueCalls, TransitionCalls
  <1> QED
    BY <1>1, LedgerTypeCorrect, PTL DEF LedgerSpec, InputsSettle

-----------------------------------------------------------------------------
(* Submission order *)

(* The fresh positions of a batch are numbered without gaps or ties by the    *)
(* number of fresh positions before them.                                     *)
LEMMA FreshPlaces ==
    ASSUME NEW batch, NEW len \in Nat
    PROVE  LET fresh    == FreshUpTo(batch, len)
               place(n) == Cardinality(FreshUpTo(batch, n - 1))
               places   == 0..(Cardinality(fresh) - 1)
           IN  /\ \A n \in fresh : place(n) \in places
               /\ \A m, n \in fresh : place(m) = place(n) => m = n
               /\ \A j \in places : \E n \in fresh : place(n) = j
  <1> DEFINE F(n)  == FreshUpTo(batch, n)
             place == [n \in F(len) |-> Cardinality(FreshUpTo(batch, n - 1))]
             k     == Cardinality(F(len))
  <1>1. ASSUME NEW n \in Int
        PROVE  IsFiniteSet(F(n)) /\ Cardinality(F(n)) \in Nat
    <2>1. IsFiniteSet(1..n) /\ F(n) \in SUBSET (1..n)
      BY FS_Interval DEF FreshUpTo
    <2>2. IsFiniteSet(F(n))
      BY <2>1, FS_Subset
    <2> QED
      BY <2>2, FreshCount
  <1>2. k \in Nat /\ IsFiniteSet(F(len)) /\ F(len) \subseteq 1..len
    BY <1>1 DEF FreshUpTo
  <1>3. ASSUME NEW m \in F(len), NEW n \in Nat, m <= n, n <= len
        PROVE  Cardinality(F(m - 1)) < Cardinality(F(n))
    <2>1. m \in 1..len /\ m - 1 \in Int
      BY <1>2
    <2>2. F(m - 1) \subseteq F(n) /\ m \in F(n) /\ m \notin F(m - 1)
      BY <1>3, <2>1 DEF FreshUpTo
    <2>3. IsFiniteSet(F(m - 1)) /\ IsFiniteSet(F(n))
      BY <1>1, <2>1
    <2>4. /\ Cardinality(F(m - 1)) \in Nat /\ Cardinality(F(n)) \in Nat
          /\ Cardinality(F(m - 1)) <= Cardinality(F(n))
          /\ Cardinality(F(m - 1)) # Cardinality(F(n))
      BY <1>1, <2>1, <2>2, <2>3, FS_Subset
    <2> QED
      BY <2>4
  <1>4. ASSUME NEW n \in F(len)
        PROVE  place[n] \in 0..(k - 1)
    <2>1. n \in 1..len /\ n - 1 \in Int /\ n <= len
      BY <1>2
    <2>2. Cardinality(F(n - 1)) < k
      BY <1>3, <2>1
    <2>3. Cardinality(F(n - 1)) \in Nat
      BY <1>1, <2>1
    <2>4. place[n] = Cardinality(F(n - 1))
      OBVIOUS
    <2> HIDE DEF F
    <2> QED
      BY <1>2, <2>2, <2>3, <2>4
  <1>5. ASSUME NEW m \in F(len), NEW n \in F(len), m < n
        PROVE  place[m] # place[n]
    <2>1. m \in 1..len /\ n \in 1..len /\ n - 1 \in Nat /\ m <= n - 1 /\ n - 1 <= len
      BY <1>2, <1>5
    <2>2. Cardinality(F(m - 1)) < Cardinality(F(n - 1))
      BY <1>3, <2>1
    <2>3. Cardinality(F(m - 1)) \in Nat /\ Cardinality(F(n - 1)) \in Nat
      BY <1>1, <2>1
    <2>4. place[m] = Cardinality(F(m - 1)) /\ place[n] = Cardinality(F(n - 1))
      OBVIOUS
    <2> HIDE DEF F
    <2> QED
      BY <2>2, <2>3, <2>4
  <1>6. \A m, n \in F(len) : place[m] = place[n] => m = n
    BY <1>2, <1>5
  <1>7. place \in Injection(F(len), 0..(k - 1))
    <2>1. place \in [F(len) -> 0..(k - 1)] /\ DOMAIN place = F(len)
      BY <1>4
    <2> HIDE DEF F
    <2> QED
      BY <1>6, <2>1 DEF Injection, IsInjective
  <1>8. IsFiniteSet(0..(k - 1)) /\ Cardinality(0..(k - 1)) = k
    <2> HIDE DEF k
    <2>1. k \in Nat /\ k - 1 \in Int
      BY <1>2
    <2>2. /\ IsFiniteSet(0..(k - 1))
          /\ Cardinality(0..(k - 1)) = IF 0 > k - 1 THEN 0 ELSE (k - 1) - 0 + 1
      BY <2>1, FS_Interval
    <2> QED
      BY <2>1, <2>2
  <1>9. place \in Surjection(F(len), 0..(k - 1))
    <2>1. k = Cardinality(F(len))
      OBVIOUS
    <2> HIDE DEF F, place, k
    <2> QED
      BY <1>7, <1>8, <2>1, FS_Injection
  <1>10. \A j \in 0..(k - 1) : \E n \in F(len) : place[n] = j
    <2> HIDE DEF F, place, k
    <2> QED
      BY <1>9 DEF Surjection
  <1> QED
    BY <1>4, <1>6, <1>10

(* The present inputs are the places below the next one. *)
Numbered ==
    /\ \A i \in Inputs : Present(i) => inputs[i].sequence \in 0..(sequence - 1)
    /\ \A i, j \in Inputs :
         Present(i) /\ Present(j) /\ inputs[i].sequence = inputs[j].sequence => i = j
    /\ \A n \in 0..(sequence - 1) : \E i \in Inputs : Present(i) /\ inputs[i].sequence = n

(* An input with a place of its own, and no place skipped: that is the order *)
(* of submission.                                                            *)
LEMMA NumberedIsOrder ==
    ASSUME Numbered
    PROVE  SubmissionOrder
  BY DEF Numbered, SubmissionOrder

(* Calls that submit nothing leave every input present and in its place. *)
LEMMA QueueMovesKeepOrder ==
    ASSUME Numbered, sequence' = sequence,
           \A i \in Inputs : /\ Present(i)' <=> Present(i)
                             /\ Present(i) => inputs'[i].sequence = inputs[i].sequence
    PROVE  Numbered'
  BY DEF Numbered

(* A submission takes the next place. *)
LEMMA EnqueueKeepsOrder ==
    ASSUME LedgerTypeOK, Numbered, NEW i \in Inputs, EnqueueInput(i)
    PROVE  Numbered'
  <1>1. /\ sequence \in Nat /\ sequence' = sequence + 1
        /\ ~Present(i) /\ Present(i)' /\ inputs'[i].sequence = sequence
        /\ \A j \in Inputs : j # i => inputs'[j] = inputs[j]
    BY DEF LedgerTypeOK, EnqueueInput, Present
  <1>2. \A j \in Inputs : j # i => (Present(j)' <=> Present(j))
    BY <1>1 DEF Present
  <1>3. \A j \in Inputs : Present(j) => j # i /\ inputs[j].sequence \in 0..(sequence - 1)
    BY <1>1 DEF Numbered
  <1>4. \A j \in Inputs : Present(j)' => inputs'[j].sequence \in 0..(sequence' - 1)
    BY <1>1, <1>2, <1>3
  <1>5. ASSUME NEW j \in Inputs, NEW k \in Inputs, Present(j)', Present(k)',
               inputs'[j].sequence = inputs'[k].sequence
        PROVE  j = k
    BY <1>1, <1>2, <1>3, <1>5 DEF Numbered
  <1>6. ASSUME NEW n \in 0..(sequence' - 1)
        PROVE  \E j \in Inputs : Present(j)' /\ inputs'[j].sequence = n
    <2>1. CASE n = sequence
      BY <1>1, <2>1
    <2>2. CASE n \in 0..(sequence - 1)
      BY <1>1, <1>2, <1>3, <2>2 DEF Numbered
    <2> QED
      BY <1>1, <1>6, <2>1, <2>2
  <1> QED
    BY <1>4, <1>5, <1>6 DEF Numbered

(* A transition's new inputs take the next places in the order of its batch,  *)
(* skipping the ids that were submitted before.                               *)
LEMMA TransitionKeepsOrder ==
    ASSUME LedgerConstants, LedgerTypeOK, Numbered, NEW t, NEW fx, NEW ctl,
           NEW batch \in Batches, CommitTransition(fx, ctl, batch, t)
    PROVE  Numbered'
  <1> DEFINE len   == Len(batch)
             fresh == FreshUpTo(batch, len)
             k     == Cardinality(fresh)
             place == [n \in fresh |-> Cardinality(FreshUpTo(batch, n - 1))]
  <1>1. /\ len \in Nat /\ DOMAIN batch = 1..len
        /\ \A m, n \in 1..len : batch[m] = batch[n] => m = n
        /\ \A n \in 1..len : batch[n] \in Inputs
    BY DEF Batches
  <1>2. sequence \in Nat /\ k \in Nat /\ sequence' = sequence + k
    BY <1>1, FreshCount DEF LedgerTypeOK, CommitTransition
  <1>3. fresh = {n \in 1..len : ~Present(batch[n])}
    BY DEF FreshUpTo
  <1>4. /\ \A n \in fresh : place[n] \in 0..(k - 1)
        /\ \A m, n \in fresh : place[m] = place[n] => m = n
        /\ \A j \in 0..(k - 1) : \E n \in fresh : place[n] = j
    <2>1. len \in Nat
      BY <1>1
    <2> HIDE DEF len
    <2> QED
      BY <2>1, FreshPlaces
  <1>5. ASSUME NEW n \in fresh
        PROVE  /\ batch[n] \in Inputs /\ ~Present(batch[n])
               /\ Present(batch[n])' /\ inputs'[batch[n]].sequence = sequence + place[n]
    <2>1. n \in 1..len /\ ~Present(batch[n]) /\ batch[n] \in Inputs
      BY <1>1, <1>3
    <2>2. (CHOOSE m \in DOMAIN batch : batch[m] = batch[n]) = n
      BY <1>1, <2>1
    <2>3. inputs'[batch[n]] = [status   |-> "pending",
                               sequence |-> sequence + Cardinality(FreshUpTo(batch, n - 1))]
      BY <1>1, <2>1, <2>2 DEF CommitTransition
    <2>4. place[n] = Cardinality(FreshUpTo(batch, n - 1))
      OBVIOUS
    <2> QED
      BY <2>1, <2>3, <2>4 DEF Present
  <1>6. ASSUME NEW i \in Inputs, ~Present(i), Present(i)'
        PROVE  \E n \in fresh : batch[n] = i
    <2>1. inputs'[i] # inputs[i]
      BY <1>6 DEF Present
    <2>2. \E n \in DOMAIN batch : batch[n] = i
      BY <2>1 DEF CommitTransition
    <2> QED
      BY <1>1, <1>3, <1>6, <2>2
  <1>7. \A i \in Inputs : Present(i) => inputs'[i] = inputs[i] /\ Present(i)'
    BY DEF CommitTransition, Present
  <1> HIDE DEF len, fresh, k, place
  <1>8. ASSUME NEW i \in Inputs, Present(i)'
        PROVE  \/ Present(i) /\ inputs'[i].sequence = inputs[i].sequence
                  /\ inputs[i].sequence \in 0..(sequence - 1)
               \/ \E n \in fresh : /\ batch[n] = i /\ place[n] \in 0..(k - 1)
                                   /\ inputs'[i].sequence = sequence + place[n]
    BY <1>4, <1>5, <1>6, <1>7, <1>8 DEF Numbered
  <1>9. ASSUME NEW i \in Inputs, Present(i)'
        PROVE  inputs'[i].sequence \in 0..(sequence' - 1)
    BY <1>2, <1>8, <1>9
  <1>10. ASSUME NEW i \in Inputs, NEW j \in Inputs, Present(i)', Present(j)',
                inputs'[i].sequence = inputs'[j].sequence
         PROVE  i = j
    <2>1. CASE Present(i) /\ Present(j)
      BY <1>7, <1>10, <2>1 DEF Numbered
    <2>2. CASE ~Present(i) /\ ~Present(j)
      <3>1. PICK m \in fresh : batch[m] = i
        BY <1>6, <1>10, <2>2
      <3>2. PICK n \in fresh : batch[n] = j
        BY <1>6, <1>10, <2>2
      <3>3. sequence + place[m] = sequence + place[n]
        BY <1>5, <1>10, <3>1, <3>2
      <3>4. place[m] \in 0..(k - 1) /\ place[n] \in 0..(k - 1)
        BY <1>4, <3>1, <3>2
      <3>5. place[m] = place[n]
        BY <1>2, <3>3, <3>4
      <3> QED
        BY <1>4, <3>1, <3>2, <3>5
    <2>3. ASSUME NEW x \in Inputs, NEW y \in Inputs, Present(x), ~Present(y), Present(y)'
          PROVE  inputs'[x].sequence # inputs'[y].sequence
      <3>1. inputs'[x].sequence \in 0..(sequence - 1)
        BY <1>7, <2>3 DEF Numbered
      <3>2. PICK n \in fresh : batch[n] = y
        BY <1>6, <2>3
      <3>3. inputs'[y].sequence = sequence + place[n] /\ place[n] \in 0..(k - 1)
        BY <1>4, <1>5, <3>2
      <3> QED
        BY <1>2, <3>1, <3>3
    <2> QED
      BY <1>10, <2>1, <2>2, <2>3
  <1>11. ASSUME NEW n \in 0..(sequence' - 1)
         PROVE  \E i \in Inputs : Present(i)' /\ inputs'[i].sequence = n
    <2>1. CASE n < sequence
      <3>1. n \in 0..(sequence - 1)
        BY <1>2, <2>1
      <3>2. PICK i \in Inputs : Present(i) /\ inputs[i].sequence = n
        BY <3>1 DEF Numbered
      <3> QED
        BY <1>7, <3>2
    <2>2. CASE n >= sequence
      <3>1. n - sequence \in 0..(k - 1)
        BY <1>2, <2>2
      <3>2. PICK m \in fresh : place[m] = n - sequence
        BY <1>4, <3>1
      <3>3. sequence + place[m] = n
        BY <1>2, <3>2
      <3> QED
        BY <1>5, <3>3
    <2> QED
      BY <1>2, <2>1, <2>2
  <1> QED
    BY <1>9, <1>10, <1>11 DEF Numbered

(* Submissions are numbered 0, 1, ... in the order of the calls that made     *)
(* them and of the batches within a call, and no call of any client leaves a  *)
(* gap or gives a place away twice.                                           *)
THEOREM LedgerSubmissionOrder == LedgerSpec => []SubmissionOrder
  <1>1. LedgerInit => Numbered
    BY DEF LedgerInit, Numbered, Present
  <1>2. LedgerTypeOK /\ Numbered /\ [LedgerNext]_ledgerVars => Numbered'
    <2> SUFFICES ASSUME LedgerTypeOK, Numbered, [LedgerNext]_ledgerVars
                 PROVE  Numbered'
      OBVIOUS
    <2>1. CASE UNCHANGED queueVars
      BY <2>1, QueueMovesKeepOrder DEF queueVars, Present
    <2>2. ASSUME NEW i \in Inputs, EnqueueInput(i)
          PROVE  Numbered'
      BY <2>2, EnqueueKeepsOrder
    <2>3. ASSUME NEW t, NEW i \in Inputs, ClaimInput(i, t)
          PROVE  Numbered'
      BY <2>3, QueueMovesKeepOrder DEF ClaimInput, Present, LedgerTypeOK, InputRecords
    <2>4. ASSUME NEW t, NEW ids, AdmitInputs(ids, t) \/ DiscardInputs(ids, t)
          PROVE  Numbered'
      BY <2>4, QueueMovesKeepOrder DEF AdmitInputs, DiscardInputs, Present, LedgerTypeOK, InputRecords
    <2>5. CASE TransitionCalls
      BY <2>5, LedgerConstants, TransitionKeepsOrder DEF TransitionCalls
    <2>6. CASE RecordCalls \/ DecisionCalls \/ LeaseCalls \/ Expire \/ UNCHANGED ledgerVars
      BY <2>1, <2>6 DEF RecordCalls, DecisionCalls, LeaseCalls, Expire, Start, FinishEffect,
                        Forget, WriteControl, ResolveEffect, Acquire, Release, queueVars, ledgerVars
    <2> QED
      BY <2>2, <2>3, <2>4, <2>5, <2>6 DEF LedgerNext, QueueCalls
  <1>3. Numbered => SubmissionOrder
    BY NumberedIsOrder
  <1> QED
    BY <1>1, <1>2, <1>3, LedgerTypeCorrect, PTL DEF LedgerSpec

=============================================================================
