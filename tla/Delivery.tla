------------------------------- MODULE Delivery -------------------------------
(***************************************************************************)
(* How prompts and steers reach the model: AgentRuntime.run and submit,    *)
(* the input session, and the turn-level control points of the execution   *)
(* boundary, over the queue and the lease of StepLedger and the committed  *)
(* history of the conversation.                                            *)
(*                                                                         *)
(* An attempt claims queued inputs, has them screened, records the request *)
(* that carries them in the transcript, which has no fence, and only then  *)
(* admits them in the queue, which has one.  Every await is a boundary     *)
(* between two actions.  Tool rounds are part of RecordResponse; parks are *)
(* the matter of Suspension.                                               *)
(***************************************************************************)
EXTENDS StepLedger, SequencesExt, Controls

CONSTANTS
    Prompts,      \* the inputs that hosts bring as run(prompt, prompt_id=...)
    NoInput,      \* no prompt
    Screens,      \* how many input screens the host chains
    MaxRounds     \* bound on the requests of one attempt

ASSUME DeliveryConstants ==
    /\ Prompts \subseteq Inputs
    /\ NoInput \notin Inputs
    /\ Screens \in Nat
    /\ MaxRounds \in Nat

VARIABLES
    committed,  \* the active branch of the conversation
    at,         \* at[a], the attempt's control point
    tok,        \* tok[a], its fencing token
    own,        \* own[a], the prompt it was given and holds outside the queue
    context,    \* context[a], the model-visible messages (ctx.messages)
    written,    \* written[a], the messages of its transcript branch (Branch.messages)
    draft,      \* draft[a], the request its next model request node holds
    resumed,    \* resumed[a], the draft is the history's last message
    pending,    \* pending[a], inputs claimed or prefetched for the draft
    seen,       \* seen[a], the ids its input session has claimed
    rounds,     \* rounds[a], the requests it has recorded
    drained,    \* drained[a], the submission number its last look at the queue reached
    carried,    \* the inputs any recorded request has carried
    withdrawn,  \* the inputs that screens took out of a request already recorded
    torn        \* an attempt was cut off, or overtaken, between a recorded request
                \* and its settlement

turnVars     == <<context, draft, resumed, pending, seen, rounds, drained>>
attemptVars  == <<at, tok, own, written, turnVars>>
historyVars  == <<committed, carried, withdrawn, torn>>
deliveryVars == <<attemptVars, historyVars>>
vars         == <<ledgerVars, deliveryVars>>

(* A message: the inputs its user parts hold, and the ids its metadata names. *)
(* An assistant turn is a final answer or asks for tool calls.                *)
Messages == [type : {"request", "calls", "answer"}, holds : Seq(Inputs), ids : SUBSET Inputs]

Request(holds, ids) == [type |-> "request", holds |-> holds, ids |-> ids]

Empty == Request(<<>>, {})

Response(type) == [type |-> type, holds |-> <<>>, ids |-> {}]

Controlling == {"open", "enqueue", "admitprompt", "refused", "claim", "screen", "record",
                "admit", "ask", "answered", "finish", "finished", "halted", "leave"}

TypeOK ==
    /\ LedgerTypeOK
    /\ committed \in Seq(Messages)
    /\ at \in [Owners -> Controlling \cup {"new", "over"}]
    /\ tok \in [Owners -> Nat]
    /\ own \in [Owners -> Prompts \cup {NoInput}]
    /\ context \in [Owners -> Seq(Messages)]
    /\ written \in [Owners -> Seq(Messages)]
    /\ draft \in [Owners -> Messages]
    /\ pending \in [Owners -> Seq(Inputs)]
    /\ resumed \in [Owners -> BOOLEAN]
    /\ seen \in [Owners -> SUBSET Inputs]
    /\ rounds \in [Owners -> 0..MaxRounds]
    /\ drained \in [Owners -> 0..sequence]
    /\ carried \in SUBSET Inputs
    /\ withdrawn \in SUBSET Inputs
    /\ torn \in BOOLEAN

Init ==
    /\ LedgerInit
    /\ committed = <<>>
    /\ at = [a \in Owners |-> "new"]
    /\ tok = [a \in Owners |-> 0]
    /\ own = [a \in Owners |-> NoInput]
    /\ context = [a \in Owners |-> <<>>]
    /\ written = [a \in Owners |-> <<>>]
    /\ draft = [a \in Owners |-> Empty]
    /\ resumed = [a \in Owners |-> FALSE]
    /\ pending = [a \in Owners |-> <<>>]
    /\ seen = [a \in Owners |-> {}]
    /\ rounds = [a \in Owners |-> 0]
    /\ drained = [a \in Owners |-> 0]
    /\ carried = {}
    /\ withdrawn = {}
    /\ torn = FALSE

-----------------------------------------------------------------------------
Goto(a, p) == at' = [at EXCEPT ![a] = p]

(* What an attempt holds in memory is gone with it.  Its prompt stays named. *)
Gone(a) ==
    /\ Goto(a, "over")
    /\ context' = [context EXCEPT ![a] = <<>>]
    /\ written' = [written EXCEPT ![a] = <<>>]
    /\ draft' = [draft EXCEPT ![a] = Empty]
    /\ resumed' = [resumed EXCEPT ![a] = FALSE]
    /\ pending' = [pending EXCEPT ![a] = <<>>]
    /\ seen' = [seen EXCEPT ![a] = {}]
    /\ rounds' = [rounds EXCEPT ![a] = 0]
    /\ drained' = [drained EXCEPT ![a] = 0]

-----------------------------------------------------------------------------
(* The outside *)

(* AgentRuntime.submit, unleased: a host's steer, or a prompt that dispatch   *)
(* hands over because run raised Contended.  A known id changes nothing.      *)
Submit(i) == EnqueueInput(i) /\ UNCHANGED deliveryVars

(* The TTL passes with no renewal: the attempt goes on without knowing. *)
Lapse == Expire /\ UNCHANGED deliveryVars

Unsettled(a) == rounds[a] > 0 /\ at[a] # "leave"

(* The process dies, or an exception ends the attempt: the store's Fenced, a  *)
(* provider's failure, or Pydantic AI's refusal of a prompt upon unanswered   *)
(* calls.  An exception releases the lease.                                   *)
Fail(a) ==
    /\ at[a] \in Controlling
    /\ \/ Release(a)
       \/ UNCHANGED ledgerVars
    /\ Gone(a)
    /\ torn' = (torn \/ Unsettled(a))
    /\ UNCHANGED <<tok, own, committed, carried, withdrawn>>

-----------------------------------------------------------------------------
(* AgentRuntime.run: with a prompt and its id, or, to recover or to continue, *)
(* without one.                                                               *)
Begin(a) ==
    /\ at[a] = "new"
    /\ Acquire(a)
    /\ tok' = [tok EXCEPT ![a] = lease'.token]
    /\ \E p \in Prompts \cup {NoInput} : own' = [own EXCEPT ![a] = p]
    /\ Goto(a, "open")
    /\ UNCHANGED <<turnVars, written, historyVars>>

(* Fault: a run without a prompt starts with a request for it as well. *)
StartAlwaysPrompts(a, prompt, messages) ==
    /\ draft' = [draft EXCEPT ![a] = Request(<<prompt>>, {})]
    /\ resumed' = [resumed EXCEPT ![a] = FALSE]
    /\ Goto(a, "claim")

(* Where Pydantic AI's graph starts: with a request for the prompt; else with *)
(* the request that ends the history; else, with a history that ends in an    *)
(* assistant turn, at that turn, whose calls are answered from the journal or *)
(* run, and which is recorded once more.  It refuses a prompt upon unanswered *)
(* calls.                                                                     *)
StartAgent(a, prompt, messages) ==
    LET ending  == IF messages = <<>> THEN "nothing" ELSE Last(messages).type
        resumes == prompt = NoInput /\ ending = "request"
    IN  /\ draft' = [draft EXCEPT ![a] = IF prompt # NoInput THEN Request(<<prompt>>, {})
                                         ELSE IF resumes THEN Last(messages) ELSE Empty]
        /\ resumed' = [resumed EXCEPT ![a] = resumes]
        /\ Goto(a, CASE prompt # NoInput /\ ending = "calls"             -> "refused"
                     [] prompt = NoInput /\ ending \in {"calls", "answer"} -> "answered"
                     [] OTHER                                            -> "claim")

OpenBranch(a) ==
    /\ at[a] = "open"
    /\ context' = [context EXCEPT ![a] = committed]
    /\ written' = [written EXCEPT ![a] = committed]
    /\ torn' = (torn \/ \E b \in Owners : Unsettled(b))
    /\ IF own[a] = NoInput
         THEN StartAgent(a, NoInput, committed)
         ELSE Goto(a, "enqueue") /\ UNCHANGED <<draft, resumed>>
    /\ UNCHANGED <<ledgerVars, tok, own, pending, seen, rounds, drained, committed, carried, withdrawn>>

(* Fault: a known prompt id is not looked at. *)
EnqueueAnyPrompt(a) ==
    /\ at[a] = "enqueue"
    /\ \/ EnqueueInput(own[a])
       \/ Present(own[a]) /\ UNCHANGED ledgerVars
    /\ Goto(a, "admitprompt")
    /\ UNCHANGED <<tok, own, written, turnVars, historyVars>>

(* A prompt whose id the queue knows is dropped from this run. *)
EnqueuePrompt(a) ==
    /\ at[a] = "enqueue"
    /\ \/ /\ EnqueueInput(own[a])
          /\ Goto(a, "admitprompt")
          /\ UNCHANGED <<own, draft, resumed>>
       \/ /\ Present(own[a])
          /\ own' = [own EXCEPT ![a] = NoInput]
          /\ StartAgent(a, NoInput, context[a])
          /\ UNCHANGED ledgerVars
    /\ UNCHANGED <<tok, context, written, pending, seen, rounds, drained, historyVars>>

(* The run's own prompt is admitted before anything has recorded it. *)
AdmitPrompt(a) ==
    /\ at[a] = "admitprompt"
    /\ AdmitInputs({own[a]}, tok[a])
    /\ StartAgent(a, own[a], context[a])
    /\ UNCHANGED <<tok, own, context, written, pending, seen, rounds, drained, historyVars>>

-----------------------------------------------------------------------------
(* ExecutionBoundary._admit *)

Represented(messages) == UNION {messages[n].ids : n \in DOMAIN messages}

(* What _InputSession.claim does not skip. *)
Claimable(a) ==
    {i \in Inputs : /\ inputs[i].status \in {"pending", "claimed"}
                    /\ i \notin Represented(context[a])
                    /\ i \notin seen[a]}

(* list_inputs answers in the order of submission. *)
InOrder(S) ==
    LET places == Ascending({inputs[i].sequence : i \in S})
    IN  [n \in DOMAIN places |-> CHOOSE i \in S : inputs[i].sequence = places[n]]

(* Fault: claiming an input settles it. *)
ClaimSettles(a) ==
    /\ Claimable(a) # {} => Fence(tok[a])
    /\ inputs' = [i \in Inputs |-> IF i \in Claimable(a) THEN [inputs[i] EXCEPT !.status = "admitted"]
                                                         ELSE inputs[i]]
    /\ seen' = [seen EXCEPT ![a] = @ \cup Claimable(a)]
    /\ UNCHANGED <<sequence, recordVars, leaseVars>>

(* Claiming is one list_inputs and a claim_input for each id it answered.     *)
(* They are one action: nothing tells a claimed input from a pending one, and *)
(* once the token is stale every further claim is refused.  With nothing to   *)
(* claim the fence is not asked.                                              *)
ClaimAll(a) ==
    /\ Claimable(a) # {} => Fence(tok[a])
    /\ inputs' = [i \in Inputs |-> IF i \in Claimable(a) THEN [inputs[i] EXCEPT !.status = "claimed"]
                                                         ELSE inputs[i]]
    /\ seen' = [seen EXCEPT ![a] = @ \cup Claimable(a)]
    /\ UNCHANGED <<sequence, recordVars, leaseVars>>

(* Fault: what is newly claimed goes before what was prefetched. *)
ClaimAhead(a) ==
    /\ at[a] = "claim"
    /\ ClaimAll(a)
    /\ pending' = [pending EXCEPT ![a] = InOrder(Claimable(a)) \o @]
    /\ Goto(a, "screen")
    /\ UNCHANGED <<tok, own, context, written, draft, resumed, rounds, drained, historyVars>>

(* Fault: the prefetched inputs are forgotten. *)
ClaimForgetsPrefetched(a) ==
    /\ at[a] = "claim"
    /\ ClaimAll(a)
    /\ pending' = [pending EXCEPT ![a] = InOrder(Claimable(a))]
    /\ Goto(a, "screen")
    /\ UNCHANGED <<tok, own, context, written, draft, resumed, rounds, drained, historyVars>>

Claim(a) ==
    /\ at[a] = "claim"
    /\ ClaimAll(a)
    /\ pending' = [pending EXCEPT ![a] = @ \o InOrder(Claimable(a))]
    /\ Goto(a, "screen")
    /\ UNCHANGED <<tok, own, context, written, draft, resumed, rounds, drained, historyVars>>

(* The turn ends: nothing of the draft joins the history.  What was claimed   *)
(* for it stays claimed.                                                      *)
Halt(a) ==
    /\ Goto(a, "halted")
    /\ pending' = [pending EXCEPT ![a] = <<>>]
    /\ draft' = [draft EXCEPT ![a] = Empty]
    /\ resumed' = [resumed EXCEPT ![a] = FALSE]

(* What the screens decide on what they are given. *)
ScreensOf(parts, queued) ==
    [1..Screens -> {Halting} \cup {Removing(P, Q) : P \in SUBSET DOMAIN parts, Q \in SUBSET DOMAIN queued}]

(* on_inputs is asked when there are inputs: the user parts of the request,   *)
(* be they the run's own prompt or a resumed request's, and the queued ones.  *)
(* A queued input that the screens removed is discarded, which is fenced; a   *)
(* part of the request is just gone from it, and its ids stay as they are.    *)
Screen(a) ==
    /\ at[a] = "screen"
    /\ \/ /\ draft[a].holds = <<>> /\ pending[a] = <<>>
          /\ Goto(a, "record")
          /\ UNCHANGED <<ledgerVars, draft, resumed, pending, withdrawn>>
       \/ /\ draft[a].holds # <<>> \/ pending[a] # <<>>
          /\ \E screens \in ScreensOf(draft[a].holds, pending[a]) :
               IF Halts(screens)
                 THEN Halt(a) /\ UNCHANGED <<ledgerVars, withdrawn>>
                 ELSE LET kept    == Ingress(screens, draft[a].holds, pending[a])
                          removed == Range(pending[a]) \ Range(kept.queued)
                          parts   == PartsRemoved(screens)
                      IN  /\ draft' = [draft EXCEPT ![a].holds = kept.parts]
                          /\ pending' = [pending EXCEPT ![a] = kept.queued]
                          /\ withdrawn' = IF resumed[a]
                                            THEN withdrawn \cup {draft[a].holds[n] : n \in parts}
                                            ELSE withdrawn
                          /\ IF removed = {} THEN UNCHANGED ledgerVars
                                             ELSE DiscardInputs(removed, tok[a])
                          /\ Goto(a, "record")
                          /\ UNCHANGED resumed
    /\ UNCHANGED <<tok, own, context, written, seen, rounds, drained, committed, carried, torn>>

(* The request is rewritten in place: newly admitted ids replace the ids its  *)
(* metadata named before.  Then it is appended to the transcript branch, even *)
(* if it is the request that ended the history.                               *)
Carrying(a) ==
    Request(draft[a].holds \o pending[a],
            IF pending[a] = <<>> THEN draft[a].ids ELSE Range(pending[a]))

RecordRequest(a) ==
    /\ rounds' = [rounds EXCEPT ![a] = @ + 1]
    /\ context' = [context EXCEPT ![a] = Append(IF resumed[a] THEN Front(@) ELSE @, Carrying(a))]
    /\ written' = [written EXCEPT ![a] = Append(@, Carrying(a))]
    /\ committed' = written'[a]
    /\ carried' = carried \cup Range(Carrying(a).holds)
    /\ draft' = [draft EXCEPT ![a] = Empty]
    /\ resumed' = [resumed EXCEPT ![a] = FALSE]
    /\ Goto(a, IF pending[a] = <<>> THEN "ask" ELSE "admit")
    /\ UNCHANGED <<pending, withdrawn, torn>>

(* before_model may halt the turn; else the request is recorded. *)
SteerAndRecord(a) ==
    /\ at[a] = "record"
    /\ rounds[a] < MaxRounds
    /\ \E sources \in [1..1 -> TurnDecisions] :
         IF Steering(sources) = "halt"
           THEN Halt(a) /\ UNCHANGED <<rounds, context, written, historyVars>>
           ELSE RecordRequest(a)
    /\ UNCHANGED <<ledgerVars, tok, own, seen, drained>>

Admit(a) ==
    /\ at[a] = "admit"
    /\ AdmitInputs(Range(pending[a]), tok[a])
    /\ pending' = [pending EXCEPT ![a] = <<>>]
    /\ Goto(a, "ask")
    /\ UNCHANGED <<tok, own, context, written, draft, resumed, seen, rounds, drained, historyVars>>

-----------------------------------------------------------------------------
(* The model request goes through the journal, which is fenced.  A model that *)
(* calls no tool has answered.                                                *)
AskModel(a) ==
    /\ at[a] = "ask"
    /\ Fence(tok[a])
    /\ \E type \in {"calls", "answer"} : context' = [context EXCEPT ![a] = Append(@, Response(type))]
    /\ Goto(a, "answered")
    /\ UNCHANGED <<ledgerVars, tok, own, written, draft, resumed, pending, seen, rounds, drained, historyVars>>

(* wrap_node_run records the assistant turn after its tool round, also the    *)
(* turn that a run took up from the history.                                  *)
RecordResponse(a) ==
    /\ at[a] = "answered"
    /\ written' = [written EXCEPT ![a] = Append(@, Last(context[a]))]
    /\ committed' = written'[a]
    /\ Goto(a, IF Last(context[a]).type = "calls" THEN "claim" ELSE "finish")
    /\ UNCHANGED <<ledgerVars, tok, own, context, draft, resumed, pending, seen, rounds, drained, carried, withdrawn, torn>>

(* _decide_finish: an input that arrived meanwhile cancels the stop; then a   *)
(* verifier may.                                                              *)
DecideFinish(a) ==
    /\ at[a] = "finish"
    /\ ClaimAll(a)
    /\ pending' = [pending EXCEPT ![a] = InOrder(Claimable(a))]
    /\ \/ Claimable(a) # {} /\ Goto(a, "claim")
       \/ /\ Claimable(a) = {}
          /\ \E gates \in [1..1 -> TurnDecisions] :
               Goto(a, IF FinishPolicy(gates) = "proceed" THEN "claim" ELSE "finished")
    /\ drained' = [drained EXCEPT ![a] = sequence]
    /\ UNCHANGED <<tok, own, context, written, draft, resumed, rounds, historyVars>>

(* Branch.replace with the messages the agent ends with.  It writes nothing   *)
(* when the branch holds exactly these already.                               *)
Settle(a) ==
    /\ at[a] \in {"finished", "halted"}
    /\ committed' = IF written[a] = context[a] THEN committed ELSE context[a]
    /\ written' = [written EXCEPT ![a] = context[a]]
    /\ Goto(a, "leave")
    /\ UNCHANGED <<ledgerVars, tok, own, turnVars, carried, withdrawn, torn>>

Leave(a) ==
    /\ at[a] = "leave"
    /\ Release(a)
    /\ Gone(a)
    /\ UNCHANGED <<tok, own, historyVars>>

-----------------------------------------------------------------------------

AttemptStep(a) ==
    \/ OpenBranch(a) \/ EnqueuePrompt(a) \/ AdmitPrompt(a)
    \/ Claim(a) \/ Screen(a) \/ SteerAndRecord(a) \/ Admit(a)
    \/ AskModel(a) \/ RecordResponse(a) \/ DecideFinish(a) \/ Settle(a) \/ Leave(a)

Next ==
    \/ \E a \in Owners : Begin(a) \/ AttemptStep(a) \/ Fail(a)
    \/ \E i \in Inputs : Submit(i)
    \/ Lapse

Spec == Init /\ [][Next]_vars

-----------------------------------------------------------------------------
(* Properties *)

(* The queue never forgets an input nobody has seen: one that is admitted was *)
(* recorded in a request, or is the prompt a run brought itself.              *)
AdmittedWasCarried ==
    \A i \in Inputs : inputs[i].status = "admitted" =>
        i \in carried \/ \E a \in Owners : own[a] = i

(* A run completes only when everything submitted before its last look at the *)
(* queue is in its history or discarded, whatever its predecessors had        *)
(* claimed and left.                                                          *)
FinishDrains ==
    \A a \in Owners : at[a] = "finished" =>
        \A i \in Inputs : Present(i) /\ inputs[i].sequence < drained[a] =>
            \/ inputs[i].status \in {"admitted", "discarded"}
            \/ i \in Represented(context[a])

(* No input has two places in the messages. *)
HoldsOnce(messages) ==
    \A m, n \in DOMAIN messages : \A k \in DOMAIN messages[m].holds, l \in DOMAIN messages[n].holds :
        messages[m].holds[k] = messages[n].holds[l] => m = n /\ k = l

(* As long as no attempt was cut off or overtaken between a recorded request  *)
(* and its settlement, no history holds an input twice: not with a retried    *)
(* prompt id, nor with stale workers, nor with late inputs.                   *)
CarriedOnceUnlessTorn == ~torn => HoldsOnce(committed)

(* The inputs that the messages hold. *)
Held(messages) == UNION {Range(messages[n].holds) : n \in DOMAIN messages}

(* The first place of an input comes before every place of a later submission. *)
HoldsInOrder(messages, exempt) ==
    \A n \in DOMAIN messages : \A l \in DOMAIN messages[n].holds : \A i \in Held(messages) \ exempt :
        LET j == messages[n].holds[l] IN
        j \notin exempt /\ inputs[i].sequence < inputs[j].sequence =>
            \E m \in 1..n : \E k \in DOMAIN messages[m].holds :
                messages[m].holds[k] = i /\ (m < n \/ k < l)

(* Queued inputs enter a history in the order in which they were submitted,   *)
(* over attempts that claim, prefetch, halt, crash and leave claims behind.   *)
(* An input that screens took out of a request which an earlier attempt had   *)
(* recorded has lost its place: it is not discarded, and as long as it is not *)
(* admitted either it may be claimed again, behind later ones.                *)
InSubmissionOrder == HoldsInOrder(committed, {own[a] : a \in Owners} \cup withdrawn)

(* runtime.py: a prompt whose id is known was "delivered once: the earlier    *)
(* attempt already carried it".                                               *)
KnownPromptCarried ==
    \A p \in Prompts : inputs[p].status = "admitted" =>
        p \in carried \/ \E a \in Owners : own[a] = p /\ at[a] \notin {"over", "halted", "leave"}

(* The model is not shown a prompt or a steer twice, whatever crashes.        *)
ShownOnce ==
    \A a \in Owners : at[a] = "ask" => HoldsOnce(context[a])

=============================================================================
