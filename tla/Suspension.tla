------------------------------ MODULE Suspension ------------------------------
(***************************************************************************)
(* Approvals: how one branch parks a round, collects answers and finishes  *)
(* the parked calls (Runtime.run, .resume, .recover, ._park, ._finalize    *)
(* and PolicyRunner.decide_tool).                                          *)
(*                                                                         *)
(* A worker is one entry into the runtime and is used once.  Call ids are  *)
(* also the pending ids, as they are for approval tools.  A model request  *)
(* is journaled, so asking again after a round gives the same next round.  *)
(* The transcript, the input queue and the journal's own steps are left    *)
(* out: an effect is absent, running or done, as in EffectJournal.         *)
(***************************************************************************)
EXTENDS Integers, FiniteSets

CONSTANTS
    Workers,
    NoWorker,
    Calls,         \* call ids, numbered in model order
    RoundOf,       \* the round in which the model makes each call
    MaxPrompts     \* bound on the prompts users send

ASSUME SuspensionConstants ==
    /\ NoWorker \notin Workers
    /\ Calls \subseteq Nat /\ IsFiniteSet(Calls) /\ Calls # {}
    /\ RoundOf \in [Calls -> Nat \ {0}]
    /\ MaxPrompts \in Nat

VARIABLES
    susp,       \* the ACTIVE_SUSPENSION record
    effect,     \* each call's effect record
    round,      \* the latest round the model made, as PENDING_ROUND has it
    answered,   \* the committed history holds a result for each of its calls
    lease,      \* the worker that owns the live lease, if one does
    tokens,
    at,         \* at[w], the worker's control point
    job,        \* job[w], the entry point and its arguments
    tok,        \* tok[w], its fencing token
    seen,       \* seen[w], the continuation it read or is finishing
    turn,       \* turn[w], the round it is working on
    todo,       \* todo[w], calls of that round not decided yet
    held,       \* held[w], calls of that round that were suspended
    prompts,    \* how many prompts were sent
    announced,  \* pending ids people were told to answer and may still hold
    refused,    \* rounds that a recorded refusal ended
    pressed,    \* rounds whose refused continuation went on to ask the model
    overrun     \* a run began to work on a branch while a round was parked

storeVars  == <<susp, effect, round, answered>>
leaseVars  == <<lease, tokens>>
workerVars == <<at, job, tok, seen, turn, todo, held>>
peopleVars == <<prompts, announced, refused, pressed, overrun>>
vars       == <<storeVars, leaseVars, workerVars, peopleVars>>

Answers == {"approve", "refuse"}
Verdict == Answers \cup {"none"}
CallsOf(r) == {c \in Calls : RoundOf[c] = r}
Rounds == {0} \cup {RoundOf[c] : c \in Calls}
Kinds == {"run", "resume", "recover", "replay"}

Suspensions == [state   : {"none", "waiting", "resuming", "completed"},
                calls   : SUBSET Calls,
                answers : [Calls -> Verdict],
                turn    : Rounds]

NoAnswers == [c \in Calls |-> "none"]
NeverParked == [state |-> "none", calls |-> {}, answers |-> NoAnswers, turn |-> 0]

(* Types, and the shape of a continuation: answers are for its own calls, and *)
(* it is resuming only once no answer is missing (Runtime._finalize is        *)
(* reached only with every parked call decided).                              *)
TypeOK ==
    /\ susp \in Suspensions
    /\ \A c \in Calls : susp.answers[c] # "none" => c \in susp.calls
    /\ susp.state = "resuming" => \A c \in susp.calls : susp.answers[c] # "none"
    /\ effect \in [Calls -> {"absent", "running", "done"}]
    /\ round \in Rounds
    /\ answered \in BOOLEAN
    /\ lease \in Workers \cup {NoWorker}
    /\ tokens \in Nat
    /\ at \in [Workers -> {"new", "check", "acquire", "read", "write", "mark",
                           "gate", "start", "finish", "next", "complete", "over"}]
    /\ job \in [Workers -> [kind : Kinds, call : Calls, answer : Answers]]
    /\ tok \in [Workers -> Nat]
    /\ seen \in [Workers -> Suspensions]
    /\ turn \in [Workers -> Rounds]
    /\ todo \in [Workers -> SUBSET Calls]
    /\ held \in [Workers -> SUBSET Calls]
    /\ prompts \in 0..MaxPrompts
    /\ announced \subseteq Calls
    /\ refused \subseteq Rounds
    /\ pressed \subseteq Rounds
    /\ overrun \in BOOLEAN

NoJob == [kind |-> "run", call |-> CHOOSE c \in Calls : TRUE, answer |-> "approve"]

Init ==
    /\ susp = NeverParked
    /\ effect = [c \in Calls |-> "absent"]
    /\ round = 0
    /\ answered = TRUE
    /\ lease = NoWorker
    /\ tokens = 0
    /\ at = [w \in Workers |-> "new"]
    /\ job = [w \in Workers |-> NoJob]
    /\ tok = [w \in Workers |-> 0]
    /\ seen = [w \in Workers |-> NeverParked]
    /\ turn = [w \in Workers |-> 0]
    /\ todo = [w \in Workers |-> {}]
    /\ held = [w \in Workers |-> {}]
    /\ prompts = 0
    /\ announced = {}
    /\ refused = {}
    /\ pressed = {}
    /\ overrun = FALSE

-----------------------------------------------------------------------------

Goto(w, p) == at' = [at EXCEPT ![w] = p]

(* A worker that is over keeps nothing. *)
Retire(w) ==
    /\ Goto(w, "over")
    /\ job' = [job EXCEPT ![w] = NoJob]
    /\ tok' = [tok EXCEPT ![w] = 0]
    /\ seen' = [seen EXCEPT ![w] = NeverParked]
    /\ turn' = [turn EXCEPT ![w] = 0]
    /\ todo' = [todo EXCEPT ![w] = {}]
    /\ held' = [held EXCEPT ![w] = {}]

(* Leaving the lease scope releases the lease if it is still owned. *)
Exit(w) ==
    /\ Retire(w)
    /\ lease' = IF lease = w THEN NoWorker ELSE lease
    /\ UNCHANGED tokens

(* The worker goes on inside its lease scope. *)
Proceed(w, p) ==
    /\ Goto(w, p)
    /\ UNCHANGED <<leaseVars, job, tok>>

Fence(w) == tok[w] >= tokens

Active(s) == s.state \in {"waiting", "resuming"}

(* Fault: one answer is taken for the whole batch. *)
UndecidedFirstOnly(s) == IF \E c \in s.calls : s.answers[c] # "none" THEN {} ELSE s.calls

Undecided(s) == {c \in s.calls : s.answers[c] = "none"}

NextCall(w) == CHOOSE c \in todo[w] : \A d \in todo[w] : c <= d

(* The calls a worker that finishes a continuation has answers for. *)
Resumed(w) == IF Active(seen[w]) THEN seen[w].calls ELSE {}

(* A worker's continuation carries a refusal: the model is not asked again. *)
Cancelled(w) == \E c \in Resumed(w) : seen[w].answers[c] = "refuse"

-----------------------------------------------------------------------------
(* Entering the runtime *)

(* A user sends a prompt to the branch. *)
Run(w) ==
    /\ at[w] = "new"
    /\ prompts < MaxPrompts
    /\ prompts' = prompts + 1
    /\ job' = [job EXCEPT ![w].kind = "run"]
    /\ Goto(w, "check")
    /\ UNCHANGED <<storeVars, leaseVars, tok, seen, turn, todo, held, announced, refused, pressed, overrun>>

(* A person answers one of the requests they hold, perhaps not for the first time. *)
Answer(w) ==
    /\ at[w] = "new"
    /\ \E c \in announced, a \in Answers :
         job' = [job EXCEPT ![w] = [kind |-> "resume", call |-> c, answer |-> a]]
    /\ Goto(w, "acquire")
    /\ UNCHANGED <<storeVars, leaseVars, tok, seen, turn, todo, held, prompts, announced, refused, pressed, overrun>>

(* An operator recovers a branch that has begun, from the history committed at *)
(* that moment: the lease is taken later.                                      *)
Recover(w) ==
    /\ at[w] = "new"
    /\ round # 0
    /\ job' = [job EXCEPT ![w].kind = "recover"]
    /\ turn' = [turn EXCEPT ![w] = round]
    /\ todo' = [todo EXCEPT ![w] = IF answered THEN {} ELSE CallsOf(round)]
    /\ Goto(w, "acquire")
    /\ UNCHANGED <<storeVars, leaseVars, tok, seen, held, peopleVars>>

(* dispatch(Recover) saw no park and a run that is open, or that another       *)
(* worker is driving: it runs the branch again without a prompt, and run looks *)
(* for a park only if it has one.                                              *)
Replay(w) ==
    /\ at[w] = "new"
    /\ round # 0
    /\ ~Active(susp)
    /\ job' = [job EXCEPT ![w].kind = "replay"]
    /\ Goto(w, "acquire")
    /\ UNCHANGED <<storeVars, leaseVars, tok, seen, turn, todo, held, peopleVars>>

(* run looks for a live continuation before it takes the lease: the prompt is *)
(* queued, and AgentSuspended or Contended tells the caller.                  *)
CheckParked(w) ==
    /\ at[w] = "check"
    /\ IF Active(susp)
         THEN Retire(w)
         ELSE Goto(w, "acquire") /\ UNCHANGED <<job, tok, seen, turn, todo, held>>
    /\ UNCHANGED <<storeVars, leaseVars, peopleVars>>

Runs(w) == job[w].kind \in {"run", "replay"}

(* A held lease makes the caller see Contended: it comes back as a new worker. *)
(* A run finds the history that is committed once it has the lease; without a  *)
(* prompt it goes on with the calls that history, or the journaled response,   *)
(* leaves unanswered.                                                          *)
Acquire(w) ==
    /\ at[w] = "acquire"
    /\ IF lease = NoWorker
         THEN /\ tokens' = tokens + 1
              /\ tok' = [tok EXCEPT ![w] = tokens + 1]
              /\ lease' = w
              /\ Goto(w, CASE job[w].kind = "run"    -> "next"
                           [] job[w].kind = "replay" -> "gate"
                           [] OTHER                  -> "read")
              /\ turn' = IF Runs(w) THEN [turn EXCEPT ![w] = round] ELSE turn
              /\ todo' = IF job[w].kind = "replay" /\ ~answered
                           THEN [todo EXCEPT ![w] = CallsOf(round)] ELSE todo
              /\ overrun' = (overrun \/ (Runs(w) /\ Active(susp)))
              /\ UNCHANGED <<job, seen, held>>
         ELSE Retire(w) /\ UNCHANGED <<leaseVars, overrun>>
    /\ UNCHANGED <<storeVars, prompts, announced, refused, pressed>>

Expire ==
    /\ lease # NoWorker
    /\ lease' = NoWorker
    /\ UNCHANGED <<storeVars, tokens, workerVars, peopleVars>>

(* Before it has a lease a crash leaves no trace. *)
Crash(w) ==
    /\ at[w] \notin {"new", "check", "acquire", "over"}
    /\ Retire(w)
    /\ UNCHANGED <<storeVars, leaseVars, peopleVars>>

(* A write that the store refuses as Fenced, or an effect whose intent is    *)
(* unfinished (Indeterminate), ends the attempt.                             *)
Refuse(w) ==
    /\ \/ at[w] \in {"write", "mark", "start", "finish", "next", "complete"} /\ ~Fence(w)
       \/ at[w] = "start" /\ effect[NextCall(w)] = "running"
    /\ Exit(w)
    /\ UNCHANGED <<storeVars, peopleVars>>

-----------------------------------------------------------------------------
(* resume and recover *)

(* resume reads the continuation and adds the answer to its copy. *)
ReadForAnswer(w) ==
    /\ at[w] = "read" /\ job[w].kind = "resume"
    /\ IF Active(susp) /\ job[w].call \in susp.calls
         THEN /\ seen' = [seen EXCEPT ![w] =
                            [susp EXCEPT !.answers[job[w].call] = job[w].answer]]
              /\ Proceed(w, "write")
              /\ UNCHANGED <<turn, todo, held>>
         ELSE Exit(w)                                               \* LookupError
    /\ UNCHANGED <<storeVars, peopleVars>>

(* The copy is written back; resume stops there unless every call is answered. *)
PutAnswer(w) ==
    /\ at[w] = "write"
    /\ susp' = seen[w]
    /\ IF Undecided(seen[w]) = {}
         THEN Proceed(w, "mark") /\ UNCHANGED <<seen, turn, todo, held>>
         ELSE Exit(w)                                               \* AgentSuspended
    /\ UNCHANGED <<effect, round, answered, peopleVars>>

(* Fault: the answer is written without the token. *)
AnswerUnfenced(w) == PutAnswer(w)

WriteAnswer(w) == Fence(w) /\ PutAnswer(w)

(* recover announces an unanswered park again, finishes an answered one, and  *)
(* otherwise goes on from its history, whose unanswered calls must be of the  *)
(* round the ledger names.                                                    *)
ReadForRecovery(w) ==
    /\ at[w] = "read" /\ job[w].kind = "recover"
    /\ \/ /\ Active(susp) /\ Undecided(susp) # {}
          /\ Exit(w)                                                \* AgentSuspended
       \/ /\ Active(susp) /\ Undecided(susp) = {}
          /\ seen' = [seen EXCEPT ![w] = susp]
          /\ Proceed(w, "mark")
          /\ UNCHANGED <<turn, todo, held>>
       \/ /\ ~Active(susp) /\ (todo[w] = {} \/ turn[w] = round)
          /\ Proceed(w, "gate")
          /\ UNCHANGED <<seen, turn, todo, held>>
       \/ /\ ~Active(susp) /\ todo[w] # {} /\ turn[w] # round
          /\ Exit(w)                                                \* ValueError
    /\ UNCHANGED <<storeVars, peopleVars>>

(* _finalize marks the continuation as resuming and goes back to its round.  *)
MarkResuming(w) ==
    /\ at[w] = "mark"
    /\ Fence(w)
    /\ susp' = [seen[w] EXCEPT !.state = "resuming"]
    /\ refused' = refused \cup
         {r \in {seen[w].turn} : \E c \in seen[w].calls : seen[w].answers[c] = "refuse"}
    /\ turn' = [turn EXCEPT ![w] = seen[w].turn]
    /\ todo' = [todo EXCEPT ![w] = seen[w].calls]
    /\ Proceed(w, "gate")
    /\ UNCHANGED <<effect, round, answered, seen, held, prompts, announced, pressed, overrun>>

-----------------------------------------------------------------------------
(* One round, call by call in model order *)

Decided(w) == todo' = [todo EXCEPT ![w] = @ \ {NextCall(w)}]

(* decide_tool: a refusal and a recorded effect are not asked about again.   *)
(* Anything else is up to the policy of the moment, which may also deny a    *)
(* call, or suspend it; behind a suspended call of its round a fresh call is *)
(* not executed.                                                             *)
Gate(w) ==
    /\ at[w] = "gate"
    /\ todo[w] # {}
    /\ LET c == NextCall(w)
           resumed == c \in Resumed(w)
           settled == effect[c] = "done" \/ (resumed /\ seen[w].answers[c] = "refuse")
       IN \/ Decided(w) /\ UNCHANGED <<at, held>>         \* replayed, refused or denied
          \/ /\ ~settled                                                \* Suspend
             /\ Decided(w)
             /\ held' = [held EXCEPT ![w] = @ \cup {c}]
             /\ UNCHANGED at
          \/ /\ ~settled /\ (held[w] = {} \/ resumed)                       \* Continue
             /\ Goto(w, "start")
             /\ UNCHANGED <<todo, held>>
    /\ UNCHANGED <<storeVars, leaseVars, job, tok, seen, turn, peopleVars>>

StartEffect(w) ==
    /\ at[w] = "start"
    /\ Fence(w)
    /\ effect[NextCall(w)] = "absent"
    /\ effect' = [effect EXCEPT ![NextCall(w)] = "running"]
    /\ Proceed(w, "finish")
    /\ UNCHANGED <<susp, round, answered, seen, turn, todo, held, peopleVars>>

FinishEffect(w) ==
    /\ at[w] = "finish"
    /\ Fence(w)
    /\ effect' = [effect EXCEPT ![NextCall(w)] = "done"]
    /\ Decided(w)
    /\ Proceed(w, "gate")
    /\ UNCHANGED <<susp, round, answered, seen, turn, held, peopleVars>>

(* The attempt has its outcome: a continuation is then marked complete. *)
Conclude(w) ==
    IF Resumed(w) # {}
      THEN Proceed(w, "complete") /\ UNCHANGED <<seen, turn, todo, held>>
      ELSE Exit(w)

(* Every call of the round is decided and none is held: go on, unless a refusal *)
(* aborts the attempt before its model request.                                 *)
EndRound(w) ==
    /\ at[w] = "gate"
    /\ todo[w] = {}
    /\ held[w] = {}
    /\ IF Cancelled(w)
         THEN Conclude(w)
         ELSE Proceed(w, "next") /\ UNCHANGED <<seen, turn, todo, held>>
    /\ answered' = (answered \/ turn[w] = round)
    /\ UNCHANGED <<susp, effect, round, peopleVars>>

(* Every suspended call of the round is parked in one transition and announced; *)
(* a park of calls just resumed replaces their continuation.                    *)
PutPark(w) ==
    /\ susp' = [state |-> "waiting", calls |-> held[w], answers |-> NoAnswers, turn |-> turn[w]]
    /\ announced' = (announced \ Resumed(w)) \cup held[w]

(* Fault: the park is written without the token. *)
ParkUnfenced(w) ==
    /\ at[w] = "gate" /\ todo[w] = {} /\ held[w] # {}
    /\ PutPark(w)
    /\ Exit(w)
    /\ UNCHANGED <<effect, round, answered, prompts, refused, pressed, overrun>>

Park(w) ==
    /\ at[w] = "gate" /\ todo[w] = {} /\ held[w] # {}
    /\ IF Fence(w) THEN PutPark(w) ELSE UNCHANGED <<susp, announced>>   \* Fenced
    /\ Exit(w)
    /\ UNCHANGED <<effect, round, answered, prompts, refused, pressed, overrun>>

(* The model is asked, and makes the calls of the next round or ends the run. *)
AskModel(w) ==
    /\ at[w] = "next"
    /\ Fence(w)
    /\ pressed' = pressed \cup {r \in refused : Resumed(w) # {} /\ r = seen[w].turn /\ r = turn[w]}
    /\ IF CallsOf(turn[w] + 1) # {}
         THEN /\ turn' = [turn EXCEPT ![w] = @ + 1]
              /\ round' = turn[w] + 1
              /\ answered' = FALSE
              /\ todo' = [todo EXCEPT ![w] = CallsOf(turn[w] + 1)]
              /\ Proceed(w, "gate")
              /\ UNCHANGED <<seen, held>>
         ELSE Conclude(w) /\ UNCHANGED <<round, answered>>
    /\ UNCHANGED <<susp, effect, prompts, announced, refused, overrun>>

Complete(w) ==
    /\ at[w] = "complete"
    /\ Fence(w)
    /\ susp' = [seen[w] EXCEPT !.state = "completed"]
    /\ announced' = announced \ Resumed(w)
    /\ Exit(w)
    /\ UNCHANGED <<effect, round, answered, prompts, refused, pressed, overrun>>

Next ==
    \/ \E w \in Workers :
         \/ Run(w) \/ Answer(w) \/ Recover(w) \/ Replay(w)
         \/ CheckParked(w) \/ Acquire(w) \/ Crash(w) \/ Refuse(w)
         \/ ReadForAnswer(w) \/ WriteAnswer(w) \/ ReadForRecovery(w) \/ MarkResuming(w)
         \/ Gate(w) \/ StartEffect(w) \/ FinishEffect(w) \/ EndRound(w) \/ Park(w)
         \/ AskModel(w) \/ Complete(w)
    \/ Expire

Spec == Init /\ [][Next]_vars

-----------------------------------------------------------------------------
(* Properties *)

(* Every request people still hold can be answered: its call is in the live  *)
(* continuation, so resume finds it (Runtime.run: "Answer it with resume"),  *)
(* through parks, partial answers, crashes, takeovers and recoveries, as     *)
(* long as no run that had found nothing parked began over a park.           *)
AnnouncedAnswerable ==
    ~overrun => \A c \in announced : Active(susp) /\ c \in susp.calls

(* No parked call begins to execute while an answer for its batch is missing *)
(* (Runtime.resume: "A batch park executes nothing until every parked call   *)
(* is decided"), with the same proviso.                                      *)
NothingBeforeAllDecided ==
    [][\A c \in susp.calls :
          /\ Active(susp) /\ ~overrun
          /\ effect[c] = "absent" /\ effect'[c] = "running"
          => \A d \in susp.calls : susp.answers[d] # "none"]_vars

(* A recorded answer stays recorded until its call is parked afresh or the   *)
(* continuation completes, whichever worker writes the continuation          *)
(* (Runtime.resume records each answer durably).                             *)
AnswersKept ==
    [][\A c \in susp.calls :
          /\ Active(susp) /\ susp.answers[c] # "none" /\ ~overrun
          /\ Active(susp') /\ ~(susp.state = "resuming" /\ susp'.state = "waiting")
          => c \in susp'.calls /\ susp'.answers[c] # "none"]_vars

(* Once a round's continuation carries a refusal, finishing that round, on     *)
(* resume or on recovery, never asks the model to go on (Runtime._finalize:    *)
(* "the model is never asked again on a round a person refused").              *)
RefusalStops == pressed = {}

=============================================================================
