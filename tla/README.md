# Semora in TLA+

Semora wraps a Pydantic AI agent so that a run survives crashes, lost leases and
human approvals: every model request and tool call is journaled in a ledger, one
worker at a time holds the branch's lease, a gate may park a round until a person
answers, and the conversation is kept in an append-only transcript. This directory
specifies that machinery, model-checks it with TLC and proves its safety properties with TLAPS.

Source paths below are relative to `src/packages/`.

## 1. The system

| Component | State it keeps | Operations | Correct when |
|---|---|---|---|
| **Execution store** (`semora-store/.../ledger.py`) | per branch: step records (`absent`/`ready`/`running`/`done`, value, version), recorded reconciliation decisions, the lease row and its fencing token, the input queue | `start`, `finish_effect`, `forget`, `write_control`, `resolve_effect`, `acquire`, `release`, `enqueue_input`, `claim_input`, `admit_inputs`, `discard_inputs`, `commit_transition` | a settled result never changes; one decision settles one intent; tokens grow with every change of owner; inputs keep their order and are not delivered twice |
| **Effect journal** (`semora/.../journal.py`) | none of its own (branch, token, `retry_running`) | `model`, `tool`, `project_once`: read, (forget), start, handler, finish, project, mark | an effect with an unknown outcome is not repeated on a guess; attempts show the agent one projection of a result, and an attempt without controls shows no other result |
| **Runtime** (`semora/.../runtime.py`) | the lease scope of each entry, its renewal task | `run`, `resume`, `recover`, `fork`, `submit`, `state`, `pending`, `resolve_effect`, `unresolved_effects` | two scopes never both pass the fence; every entry returns |
| **Suspension** (`runtime.py`, `policy.py`, `effects.py`) | the `ACTIVE_SUSPENSION` control record, `PENDING_ROUND` | gate, park, answer, finalize, recover | a request a person holds can be answered; nothing of a batch runs before all of it is decided; no answer is lost |
| **Execution boundary and policy** (`effects.py`, `policy.py`) | the per-attempt order of hooks, prefetched inputs, the batch-local suspension marker | Pydantic AI's hooks | the round is recorded before its calls run; inputs reach the model in order |
| **Transcript** (`semora/.../transcript.py`, `semora-store/.../transcript.py`) | rows in arrival order (entries, leaf markers, tombstones), run records | `append`, `rewind`, `replace`, `opened`, `closed`, `active_branch` | readers stand where the writer stands; every entry reads back with its whole history |
| **PostgreSQL store and transcript** (`semora-store-pg`) | the same, in tables | the same, as SQL statements | the same, under concurrent transactions |
| **Dispatch** (`dispatch.py`) | none | routes `Prompt`, `Answer`, `Recover`, by the durable state of the branch | each command reaches the entry its state calls for |
| **Input session and submission** (`runtime.py`, `effects.py`) | what an attempt has claimed, prefetched and drafted | `run(prompt, prompt_id)`, `submit`, claim, admit, discard, the finish check | nothing submitted is forgotten; inputs enter the history once and in order; a run finishes on a drained queue |
| **Fork** (`runtime.py`) | the calls it has copied | copy records, place the history, gate and run the round | what the source did, or may have done, is not done again |
| **Controls** (`controls.py`) | host policies | pure composition of host functions | denial over suspension over allowance; any source may halt, any gate may keep going |
| **Contracts, ids, contexts** | data types | - | - |

How they interact: an entry (`run`, `resume`, `recover`) takes the lease, opens the
transcript branch, and runs the agent inside the boundary; the boundary asks the
policy about each call and runs it through the journal; journal, parks and the input
queue all write the store under the scope's fencing token; the transcript is written
beside it **without** a token, and branches of one conversation share its rows.

What is hard: every `await` is a point where another coroutine, another worker or a
crash may come in. A worker can stall past its lease and go on; a cancelled request may
still take effect at the provider; a host decides about an effect from a view that is
old when the decision arrives; answers to one batch arrive in separate calls; a replay
records messages that are there already; an input is known to the queue, the request and the
history at different moments.

## 2. The modules

| Module | Models | Composes |
|---|---|---|
| `StepLedger` | the execution store of one branch, one action per method of `MemorySteps` | - |
| `EffectOnce` | abstract: what durable tool calls promise | - |
| `EffectJournal` | attempts, their lease scopes, the journal, hosts that reconcile | extends `StepLedger`; implements `EffectOnce` |
| `PostgresLedger` | lease and record writes of `PostgresSteps`, statement by statement | - |
| `Suspension` | parking, answering, finishing and recovering a round | - |
| `Conversation` | the transcript and the attempts that write it | - |
| `Controls` | the composition rules of the control points, as operators | - |
| `Delivery` | prompts and steers from submission to the model, over queue, lease and history | extends `StepLedger`, uses `Controls` |
| `Fork` | the copy of a source's records into a target and the target's round | extends `EffectJournal`, uses `Controls` |
| `MC_*` | bounds and symmetry for TLC | the module named |
| `StepLedgerProofs`, `PostgresLedgerProofs`, `SuspensionProofs`, `ConversationProofs` | theorems | extends the module named |
| `EffectJournalProofs`, `DeliveryProofs` | theorems | extends the module named and `StepLedgerProofs` |
| `ForkProofs` | theorems | extends `Fork` and `EffectJournalProofs` |
| `DeliveryHistoryProofs` | theorems about the histories of `Delivery` | extends `DeliveryProofs` |

Operators with a comment that starts `Fault:` are not part of any specification; they
are plausible bugs of the definition that follows, kept to show that the properties can tell.

### StepLedger

Variables are the fields of `MemorySteps`: `entries`, `decisions`, `lease`, `tokens`,
`inputs`, `sequence`. No method of `MemorySteps` awaits, so each is one action, and a
method that raises changes nothing, so its conditions are guards. The clock is the
environment action `Expire`. Callers are arbitrary: any token up to the highest issued,
and 0 for callers without a lease, may come with any call (`RecordCalls`, `QueueCalls`, ...).
Keys written as effects and keys written as control state are disjoint, as they are in
the runtime; through `write_control` a caller could otherwise overwrite an effect.

### EffectJournal

`phase[o]` is the lease scope of `AgentRuntime._lease` (new, open, leaving, over), `tok[o]` its
token, and `pc[a][c]` the control point of attempt `a` in call `c`; the calls of a round run
concurrently, as Pydantic AI runs them. One action lies between two awaits: `Read`,
`ForgetIntent`, `StartIntent`, `Perform`, `CommitResult`, `ReadProjection`, `RunHook`,
`MarkProjected`. `Renew` is the renewal task, whose answer the code ignores; `Lapse` the
TTL; `Interrupt` a cancellation or foreign exception; `Crash` a process that dies. A request
whose coroutine is gone stays `outstanding` and may still take effect
(`ProviderAnswersLate`). The world is visible through `ran` and `hooks`, counters of what really
happened; the n-th execution returns the value n and the n-th run of the post-tool hook leaves `MaxRuns + n`, so equal values mean the
same execution, and a result is told from what a hook made of it. `controlled` is the set of attempts that were given controls, which may
differ from attempt to attempt; it is chosen in `Init` from `ControlChoices`. `ReadProjection` shows a projection that is recorded, goes on to the hook for a controlled attempt,
and shows the record as it is, without a marker, for any other (`project is None`).
Hosts decide about an unfinished tool effect by what really happened once its workers and
provider are quiet (`Decide`, which is an assumption about hosts that the API documents), and
deliver later, perhaps twice (`Deliver`). `EffectOnce` promises that a call happens once, is settled once and
has its projection recorded once; which attempt shows what is `ShownResultsAgree` and `ProjectionReplayed`. `retry` is `retry_running`, chosen once for all attempts in `Init`, and
`Rounds` lists the rounds of calls of which one is chosen.

### PostgresLedger

A write of the PostgreSQL store is one READ COMMITTED transaction with two statements:
`_fence` reads the token without a lock, then the write's own statement runs. `FencePasses` and
`ForgetStatement`/`StartStatement`/`FinishStatement` are those two steps; `acquire` and `release` are a
single statement each. `Renew` is `acquire` by the renewal task, whose answer nobody looks at: the owner extends its lease, and a scope
that lost an expired one takes it again under a token it never uses. The workers are attempts with `retry_running`.

### Suspension

`susp` is the `ACTIVE_SUSPENSION` record; `effect` each call's record; `round`/`answered` the
`PENDING_ROUND` control and whether the committed history answers it. A worker is one entry
into the runtime: `Run` (with its park check **before** the lease, `CheckParked`), `Answer`,
`Recover`, and `Replay`, the run without a prompt with which dispatch recovers an unparked round, and
which looks for no park at all. `overrun` remembers that a run began over a live park. These entries are the
rows of dispatch's table (`ResumeApproval`, `RecoverInterrupted`, `ReplayJournal`; `StartRun` and `QueueSteer` are in `Delivery`). `Gate` is `decide_tool` with the host's policy as a choice. `announced` is what people were
told to answer; a person may answer what they hold again, differently, or late.
Abstractions: pending ids are call ids; the calls of a round are decided in model order (tools
are made sequential unless marked safe); asking the model after a round gives the same next
round, because the request is journaled; a contended entry returns and comes back as a new
worker; a crash before the lease leaves no trace.

### Conversation

`entry_id` hashes a message with its parent's id, so an entry's id stands for its whole
chain: here it **is** the sequence of messages, with `<<>>` for `None`. `rows` is the
transcript in arrival order, `ActiveBranch` and `Chain` are what readers compute from it.
`msgs[w]` is `Branch.messages` together with the writer's `parent_uuid`. Attempts open, take a history,
record requests and responses, settle and close (`OpenBranch`, `Opened`, `TakeHistory`, `RecordMessage`,
`AskModel`, `Settle`, `Close`). `Record` and `MarkLeaf` are separate because the duplicate and its leaf marker
are two store calls. The only fence is the ledger's, between the two records of a model
request. Histories (a caller's, a fork's, a parked round's) are arbitrary.

### Controls

Each control point is a sequence of host functions; the module says what the sequence decides
(`Permissions`, `Steering`, `FinishPolicy`, `Ingress`). A screen halts or removes; what it removes is named by its place, among the user parts of
the request or among the queued inputs. That a screen may also rewrite a part or reorder the list is left out: the text of a part is not modelled,
and a reordering host decides about the order itself. `Ascending` lists a set of
numbers in order, as a filter or a sort leaves a list; `Ingress` and `Delivery!InOrder` use it. `Delivery` and `Fork` choose the functions' decisions freely
and compose them with these operators.

### Delivery

`at[a]` is where attempt `a` is between two awaits of `AgentRuntime._attempt` and of the node hooks of
`ExecutionBoundary`: `OpenBranch`, `EnqueuePrompt`, `AdmitPrompt`, then for every request `Claim`, `Screen`, `SteerAndRecord`,
`Admit`, `AskModel`, `RecordResponse`, and `DecideFinish`, `Settle`, `Leave`. `draft` is the request the next model
node holds, `pending` the inputs for it, `context` is `ctx.messages`, `written` is `Branch.messages`, and `committed` the active
branch as readers see it. A message is the inputs its user parts hold and the ids its metadata names: the two are different
things in the code, and the hazards live in the difference. `Screen` offers the screens what `on_inputs` is given, the user parts of the
request, be it the run's own prompt or a resumed request, and the queued inputs; only removed queued inputs are discarded. `withdrawn` remembers the
parts that screens took out of a request which an earlier attempt had recorded. The queue is `StepLedger`'s and fenced; `committed` is not.
`Submit` is a host's steer as well as a prompt that dispatch hands over on `Contended`. Tool rounds
are part of `RecordResponse`, parks are left to `Suspension`, transcript rows to `Conversation`, and a request is asked anew
rather than replayed from the journal, which allows more answers than the code. `Renew` is left out: it can only
keep a lease, or take one under a token nobody uses.

`StartAgent` is the one external definition: a run with a prompt starts with a request for it, and is refused on unanswered
calls; a run without one sends the request that ends the history again, or goes on from the assistant turn that ends it, which
`wrap_node_run` then records once more (`RecordResponse`).
`effects.py:238` and the tests of recovery rely on the same.

### Fork

`copy[f][c]` is where a call of `fork` is in copying call `c`: read the source, `start` in the target, `finish_effect`. The
source is a record that its own worker goes on changing until nobody reads it any more (`SourceStep`). `Place` is the
move of the target's branch to the history; from then on ordinary runs of the target may begin (`BeginRun`). The round itself
is `EffectJournal`'s, behind `DecideTool`, which reads the record once before the journal does. The source's results are
equal to no result of the target, so a repeated execution cannot hide. With one call the copies of two calls do not interleave; in the code
they are sequential and on different keys, so a crash between two copies is, for each of them, a crash before or after its own.

## 3. What TLC checks

Every run finishes within its limits; the counts are distinct states.

| Run | Instance | Shows |
|---|---|---|
| `ledger` (34 398) | one effect and one control key, two values, two owners, two inputs, two decision ids; versions to 4, tokens to 2 | `LedgerTypeOK`, `RecordLifecycle`, `OneDecisionPerIntent`, `RetryHasDecision`, `LeaseHandOver`, `SubmissionOrder`, `InputsSettle` |
| `journal` (1 518 955) | two attempts, both with controls or only one of them, two hosts, two decision ids; the round is one tool call or one model request; with and without `retry_running` | `AtMostOnce`, `EffectRemembered`, `IntentStands`, `PunctualHolderKeepsFence`, `ShownResultsAgree`, `ProjectionReplayed`, `OneWorker`; `ToolCallsOnce`: the journal implements `EffectOnce` |
| `fork` (435 684) | two scopes with controls, each a fork or a run of the target, one call, two gates, with and without `regate` and `retry_running` | `InheritedNotRepeated`, `UngatedNeverRuns`; `UsesLedger`: copies and journal use the store only through its operations; under fairness `EveryScopeReturns` |
| `postgres_writes` (10 284) | three workers in succession, with renewals | `SettledStands`, `OneLateWrite` |
| `postgres_fence` | the same | violates `ExecutingIntentKept` (see 5) |
| `suspension_batch` (431 436) | three workers, two rounds (two calls, then one), two prompts | `AnnouncedAnswerable`, `NothingBeforeAllDecided`, `AnswersKept` |
| `suspension_refusal` | three workers, one round | violates `RefusalStops` (see 5) |
| `conversation_writers` (131 846) | two attempts on either of two branches, two messages, histories to length 2, four rows | `ReadersFollowWriter`, `ChainsWhole` |
| `conversation_state` | the same, three rows | violates `OpenRunIsInterrupted` (see 5) |
| `delivery` (3 718 738) | two attempts, a prompt with an id and a steer, one screen, two requests per attempt | `AdmittedWasCarried`, `FinishDrains`, `CarriedOnceUnlessTorn`, `InSubmissionOrder` |
| `delivery_prompt` | the same | violates `KnownPromptCarried` (see 5) |
| `delivery_twice` | three attempts, one prompt | violates `ShownOnce` (see 5) |

Bounds, and why they are enough:

- *Owners, attempts, workers.* The code distinguishes the current owner, a stale one and one
  that has not begun; two or three scopes, each used once, cover current and stale and a
  further takeover. Scopes are never reused by the code (a fresh uuid each).
- *Tokens.* One per scope and one more for a stalled scope whose renewal takes the lease again.
- *Versions (`MaxVersion`).* 4 is start, retry decision, start, settle; the theorems of section 4 need no bound.
- *Executions (`MaxRuns`).* One per attempt, of an effect and of a hook, so that no attempt is stopped by the bound;
  `AtMostOnce` would need the second one to fail.
- *Controls.* In `journal` both attempts have them and may disagree about the projection, or one has none and comes before, between or after the
  other's steps. Two attempts without controls mark nothing and are left to the theorems.
- *Rows and histories.* Two messages and length 2 give two histories that diverge at the first
  or at the second message; four rows are enough for both writers to rewind and
  record between each other's calls.
- *Prompts.* In `suspension_batch` two, so that one can race the other's park. The properties there hold as long as no
  run began over a park (`~overrun`); without that proviso they fail, see section 5.
- *Inputs.* In `delivery` a prompt that two attempts may bring and a steer that may also be that prompt's hand-over: two
  inputs are what an order, a prefetched and a newly claimed one, and a lost one need. Two requests per attempt (`MaxRounds`) give a
  finish check that goes on; an attempt at the bound can still fail.
- *Executions in `fork`.* Three values: one per attempt and one for the source.

`CHECK_DEADLOCK FALSE` is set where every actor is used once: when all scopes are over the
system has rightly stopped. `ledger` runs with the deadlock check on.

Symmetry is used over identities only, never in the run with a liveness property. `fork` instead lets its two scopes
begin in the order of their names (`NamedInOrder`), which leaves out nothing but renamed behaviours.

*Fairness* (`Fork!ForkFairSpec`): weak fairness of each copy's next step, of each call's gate and journal
steps and of leaving a scope. The event loop runs every ready coroutine, the store answers,
and handlers and hooks return or raise, which the code needs too since it sets no timeout of
its own. Nothing is assumed of the source, of beginning, renewing, lapsing, interrupting or crashing, nor of
providers that answer late. `EveryScopeReturns` says that under these a scope never waits for
another: an unfinished intent is an exception, not something to wait for.

## 4. What is proved

Every safety and action property of the passing runs, and every invariant of types, is a theorem,
for all values of the constants that the named assumptions of the modules allow: any attempts,
workers, calls, rounds, hosts, inputs and messages, and any value of the bounds. A
property is seldom inductive as it stands, so each module names the invariant it rests on, and the
comment at its head says why it is needed. TLC checked these invariants
on the instances of section 3 before they were proved. The proofs have one lemma for each group of steps
and each part of the invariant, and the theorems put them together.

**`StepLedgerProofs`**, from `LedgerConstants` and `DecisionConstant` (effect and control keys are disjoint, the
null values are no values, finitely many inputs):

- `LedgerTypeCorrect`: `LedgerTypeOK`, by one lemma per part of the store.
- `LedgerRecordLifecycle`: `RecordLifecycle`, an action property, from the type invariant:
  each call moves an effect record along its life cycle or leaves it.
- `LedgerOneDecision`: `OneDecisionPerIntent`. Inductive with the type invariant because
  a version never decreases and `ResolveEffect` moves it past `expected`.
- `LedgerRetryHasDecision`: `RetryHasDecision`; only a retry decision makes a record ready, and any
  later step leaves that state or starts the intent.
- `LedgerLeaseHandOver`: `LeaseHandOver`, from the invariant that the lease's token is never above `tokens`.
- `LedgerInputsSettle`: `InputsSettle`.
- `LedgerSubmissionOrder`: `SubmissionOrder`. The new inputs of a batch take the places that a cardinality of a
  filtered sequence counts, so the proof shows that this count maps them one to one onto the places from `sequence` on.

**`PostgresLedgerProofs`**, from `PostgresConstants`:

- `PostgresTypeCorrect`, and `PostgresSettledStands`: a settled row is final although the fence is not atomic,
  because every statement carries its own status condition.
- `PostgresOneLateWrite`: `OneLateWrite`. The property is not inductive: a worker that wrote late could seem to be in
  another open transaction. `LateInv` adds that tokens are never ahead of the lease's, that a worker which has not
  begun wrote nothing, and that one which wrote late has no open transaction and a token below the lease's, so that
  the fence, which compares the two, never opens another for it.

**`EffectJournalProofs`**, from the ledger's assumptions and `JournalConstants` (attempts and hosts are different scopes, tool and
model keys are different effects, every tool call has a marker of its own):

- `JournalTypeCorrect`, `JournalOneWorker`, `JournalPunctualHolder`, from `JournalInv`: a scope that has begun has a token of
  its own that the store issued (`Scopes`), and what a coroutine or a host holds fits its control point (`Hands`).
- `JournalUsesLedger`: `UsesLedger`, step by step, and with it `JournalInheritsLedger`: the ledger's life cycle, one decision per intent,
  the decision behind each retry and the lease's hand-over hold in the journal.
- `JournalIntentStands`: what an attempt wrote stands until it is replaced, since a host decides under a lease of its own, after which
  the attempt it overtook no longer passes the fence.
- `JournalShownResultsAgree`, from `Marks`: the marker that an attempt with a current token is about to write is not there, the result it projects is
  the settled one, and what any attempt has shown is what the marker says or, if it has no controls, that result. The property compares
  attempts: with controls they show one projection, without them that one or the settled result.
- `JournalProjectionReplayed`: `ProjectionReplayed`, an action property from the same: over a recorded projection nobody shows anything else.
- `JournalAtMostOnce`, `JournalEffectRemembered`, from `OnceInv`, which holds without `retry_running`, of each tool call: at most one attempt, stale ones
  counted, has the effect in its hands, and under an intent that stands (`Intent`); a settled record is the result of the one execution, and
  a decision that can still be applied tells the truth (`Truth`).
- `JournalImplementsOnce`: `ToolCallsOnce`, the refinement of `EffectOnce`: the initial states map to its initial
  states and each step to one of its steps or to a stutter, again from `OnceInv`.

**`ForkProofs`**, from these and `ForkConstants` (there is at least one execution, for else a copied result would be no value):

- `ForkTypeCorrect`, and `ForkUsesLedger`: `UsesLedger`, the fork writes the target's ledger beside the journal, but only through the store's operations.
- `ForkUngatedNeverRuns`, from `Gates`: a gate is bypassed only over a settled record, which stays settled until the journal reads it.
- `ForkInheritedNotRepeated`, from `InheritedInv`: an inherited call is in nobody's hands and its record, running or done, invites no start. The module takes
  `Intent` over from the journal, but not `Truth`, whose results are those of the target alone.
- `ForkAtMostOnce`: the journal's `AtMostOnce` in the target.

**`SuspensionProofs`**, from `SuspensionConstants` (finitely many calls, numbered in model order, each in a round). A worker writes a continuation that it
read some steps before, so the properties rest on how the copies of all workers relate to the record. `SuspensionInv` says that workers inside a scope have different
tokens (`Tokens`), that the record and all copies answer their own calls alone and resume only when no answer is missing (`Shaped`, `Copy`), and
that the copy of the one worker that can pass the fence still agrees with the record, as far as its control point promises (`Holders`).

- `SuspensionTypeCorrect`, `SuspensionAnnouncedAnswerable`, `SuspensionNothingBeforeAllDecided`, `SuspensionAnswersKept`.

**`ConversationProofs`**, from `ConversationConstants`. That an entry reads back whole depends on where its writer stood, and that on the markers of
earlier writers: `ConversationInv` adds that every prefix of a chain is an entry (`PrefixClosed`), that markers name entries (`MarksKnown`), and that a writer's position and
what it has left to record fit together (`Writer`).

- `ConversationTypeCorrect`, `ConversationChainsWhole`, and `ConversationReadersFollow`, the action property `ReadersFollowWriter`.

**`DeliveryProofs`**, from the ledger's assumptions and `DeliveryConstants`. `DeliveryInv` follows each claimed input through its attempt (`Session`: it is pending, in the
history or settled, and what is about to be admitted was carried), counts what a finish check has seen (`Drains`) and knows the carrier of each
admitted input (`Carriers`). The other attempts cannot disturb this, because the queue only moves forward (`QueueMoves`).

- `DeliveryTypeCorrect`, `DeliveryAdmittedWasCarried`, `DeliveryFinishDrains`.

**`DeliveryHistoryProofs`**, from the same:

- `DeliveryInSubmissionOrder`, from `OrderInv`: no attempt claims an input while an earlier one is left unclaimed, unsettled and unknown to its history (`Line`),
  the same holds of every history it may take up (`History`), and of the one it has when it puts a screened request in the place of the one it
  resumed (`Fits`). Prompts that runs bring themselves (`Brought`) go first and are exempt, and so is what a screen took out of a recorded
  request (`withdrawn`), as in the property: such an input is not discarded, its id may be replaced in the request's metadata, and then the finish check
  claims it again, behind later ones. It still counts as known to the histories (`Known`), so that it upsets the order of no other input.
- `DeliveryCarriedOnceUnlessTorn`: as long as nothing was torn, whatever any attempt, a stale one too, may still write holds each input
  once and names those that are not settled, so that no claim returns them, and lacks what is pending or drafted (`Whole`, `Once`); and a request at the end of the branch has somebody there to
  answer it, so that nobody resumes it (`Answered`).

Induction over numbers appears in these proofs as the least counterexample (`NatLessThanWellFounded` and `WFMin`), for instance to show that `Ascending`, a `CHOOSE`, has
something to choose: the library's induction theorems take an operator as a parameter, which the installed provers cannot instantiate.

Only model-checked: `EveryScopeReturns`, which is liveness under fairness and out of the prover's reach, and the violations of section 5, whose
counterexamples are TLC's. `LeaseHandOver` says that a lease which has not lapsed is given away only by a release, and not by whom: an action
property sees the step and not its caller. That a scope releases only its own lease is what `PunctualHolderKeepsFence` and `JournalPunctualHolder` rest
on. The theorems keep the modelled bounds (`MaxRuns`, `MaxRounds`, `MaxRows`, ...) as arbitrary numbers; what bounds a guard bounds
what the theorem speaks of.

## 5. Where the code and its documents disagree

- **A fence that is not atomic** (`postgres_fence`). `PostgresSteps._fence` reads the token in one
  statement and the write follows in another, with no lock in between. A stale worker's `forget` whose fence
  passed before a takeover then sets the new worker's running intent to absent.
  `tests/test_store_conformance.py:490` describes this very write as what the fence prevents.
  `OneLateWrite` and `SettledStands` bound the damage: one write per replaced worker, never to a settled row.
- **An approval over a refusal** (`suspension_refusal`). `resume` accepts an answer while the continuation
  is `resuming` and writes it over the recorded one; an approval may so replace the refusal that is being carried
  out, and the model is asked on a round a person refused.
- **A run reported completed while it is open** (`conversation_state`). `opened` merges `started_at` into the run
  record and leaves an earlier `ended_at` in place, so `state` answers `completed` for the next run of the same
  branch, even after that run crashed.
- **A prompt that was never delivered** (`delivery_prompt`). The run's own prompt is admitted in the queue before the agent
  starts. A worker that dies before it records the request, or a control that halts the turn, leaves a known and admitted id in
  no history; a retry under the same `prompt_id` drops the prompt as `delivered once`.
- **A prompt shown twice** (`delivery_twice`). A promptless attempt on a history that ends in a request sends that request again, and
  `_admit` records it again, after itself. The first such attempt still shows it once; when it dies too, the next one finds two
  copies. Each copy changes the model request's key, so the model is paid again.

Three observations have no run of their own:

- *Over a park.* `run` looks for a park before it has the lease, and only if it brings a prompt. Dispatch routes `Recover` by a
  state it observed earlier, and `interrupted` may be a worker about to park. Without `~overrun` TLC finds, within
  `suspension_batch`, traces of 11 to 17 states in which the replay gates the parked calls again: one that a person holds
  is executed, an announced request is in no continuation any more, and recorded answers are gone. `recover` says why it
  announces a park again instead: "re-gating would orphan every answer in flight" (`runtime.py`). With a prompt the
  same happens only without a transcript or with a caller's own history, since Pydantic AI otherwise refuses it.
- *An original shown after its hook ran.* The marker with the projection is written after the post-tool hook (`journal.py:174-180`). An attempt with
  controls that dies in between leaves a settled result and no marker, and a later attempt without controls returns that result as it was
  and marks nothing (`journal.py:172-173`); so does one without controls that comes first. `docs/API.md:157` says that "recovery reuses that projection without leaking the
  unredacted original", and that the hook may run again after such a death, which takes controls that the next attempt need not have. A property that
  forbids to show a result whose hook has run (`hooks[c] > 0`) is violated in the instance of `journal`; what holds instead
  is that over a marker nobody shows the original (`ProjectionReplayed`), and that nobody shows a third thing (`ShownResultsAgree`).
- *Regate and crashes.* Only the calls the same `fork` call copied are gated again. After a crash, a park or a repeated fork
  they are ordinary records of the target and replay ungated.

## 6. What is not modelled, and the plan

Not modelled: `ConversationScopedSteps` (a prefix on branch ids; the run record of the transcript is keyed without it,
which is listed as a hazard), contracts, ids and exports (no behaviour), registration and adapters of `Controls`, message encoding
(a message is what it carries), steers that controls add to a request, token usage, tombstones and bounded transcript reads (no
caller in the runtime), the PostgreSQL transcript (the protocol of the memory transcript over SQL), prompts without an
id (they leave no trace in the queue unless queued, and a retry is a new prompt), a fork with a prompt on unanswered calls (refused by
Pydantic AI). The behaviour of Pydantic AI that `Delivery!StartAgent` and `Suspension` assume is external.

Plan, most important first:

1. Proofs: that `Delivery` uses the queue only through the store's operations, and so inherits `InputsSettle` and `LeaseHandOver`. A claim is
   several calls of the store in one of its actions, so this is no refinement step by step; and what the operators of `Controls` decide
   (a denial wins over any suspension, an allowance needs every gate).
2. Decisions, controls, inputs and transitions of the PostgreSQL store, statement by statement, and its transcript.
3. Conversations that share a branch name.

How to run: `tlc -config X.cfg M` for a run of section 3 (the module is the `MC_*` of its name) and `tlapm X.tla` for
the theorems of a proof module: `StepLedgerProofs`, `PostgresLedgerProofs`, `EffectJournalProofs`, `ForkProofs`, `SuspensionProofs`,
`ConversationProofs`, `DeliveryProofs`, `DeliveryHistoryProofs`.
