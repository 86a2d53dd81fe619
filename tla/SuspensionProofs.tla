--------------------------- MODULE SuspensionProofs ---------------------------
(***************************************************************************)
(* Theorems about Suspension, for every set of workers and every assignment *)
(* of calls to rounds.                                                     *)
(*                                                                         *)
(* The properties are not inductive: what a worker writes into the          *)
(* continuation is the copy it read some steps before, so they need to know *)
(* how the copies of all workers relate to the record.  The argument has    *)
(* three parts.  Tokens: workers inside a lease scope carry different       *)
(* tokens, so at most one of them can pass the fence.  Shape: the record    *)
(* and every copy hold answers for their own calls alone, and none is       *)
(* resuming while an answer is missing.  Holders: the one worker that can   *)
(* pass the fence has a copy that still agrees with the record, as far as   *)
(* its control point promises, whatever the others do in between.           *)
(***************************************************************************)
EXTENDS Suspension, WellFoundedInduction, TLAPS

Writing   == {"write", "mark"}
Finishing == {"gate", "start", "finish", "next", "complete"}
Inside    == {"read"} \cup Writing \cup Finishing

(* An answer is for a call of the continuation, and it is resuming only when *)
(* no answer is missing.                                                     *)
Shaped(s) ==
    /\ s \in Suspensions
    /\ \A c \in Calls : s.answers[c] # "none" => c \in s.calls
    /\ s.state = "resuming" => Undecided(s) = {}

(* Workers inside a lease scope carry different tokens. *)
Tokens ==
    /\ \A w \in Workers : at[w] \in Inside => tok[w] \in 1..tokens
    /\ \A v, w \in Workers :
         at[v] \in Inside /\ at[w] \in Inside /\ tok[v] = tok[w] => v = w

(* What a worker's control point says of its own copy. *)
Copy(w) ==
    /\ Shaped(seen[w])
    /\ at[w] \notin Writing \cup Finishing => ~Active(seen[w])
    /\ at[w] = "mark" => Undecided(seen[w]) = {}
    /\ at[w] \in Writing \cup {"complete"} => Active(seen[w])

(* What the control point of the worker that can pass the fence says of the *)
(* record.                                                                  *)
Holds(w) ==
    /\ at[w] = "write" => /\ Active(susp) /\ job[w].call \in susp.calls
                          /\ seen[w] = [susp EXCEPT !.answers[job[w].call] = job[w].answer]
    /\ at[w] = "mark" => susp = seen[w]
    /\ at[w] \in Finishing /\ Active(seen[w]) => susp = [seen[w] EXCEPT !.state = "resuming"]
    /\ at[w] \in Finishing /\ ~Active(seen[w]) /\ ~overrun => ~Active(susp)

Holders == \A w \in Workers : at[w] \in Inside /\ tok[w] = tokens => Holds(w)

SuspensionInv ==
    /\ TypeOK
    /\ Tokens
    /\ Shaped(susp) /\ \A w \in Workers : Copy(w)
    /\ Holders

(* One worker's part of Next. *)
WorkerStep(w) ==
    \/ Run(w) \/ Answer(w) \/ Recover(w) \/ Replay(w)
    \/ CheckParked(w) \/ Acquire(w) \/ Crash(w) \/ Refuse(w)
    \/ ReadForAnswer(w) \/ WriteAnswer(w) \/ ReadForRecovery(w) \/ MarkResuming(w)
    \/ Gate(w) \/ StartEffect(w) \/ FinishEffect(w) \/ EndRound(w) \/ Park(w)
    \/ AskModel(w) \/ Complete(w)

Points == {"new", "check", "acquire", "read", "write", "mark",
           "gate", "start", "finish", "next", "complete", "over"}

Jobs == [kind : Kinds, call : Calls, answer : Answers]

(* The parts of TypeOK. *)
StoreTyped ==
    /\ effect \in [Calls -> {"absent", "running", "done"}]
    /\ round \in Rounds
    /\ answered \in BOOLEAN

LeaseTyped == lease \in Workers \cup {NoWorker} /\ tokens \in Nat

WorkersTyped ==
    /\ at \in [Workers -> Points]
    /\ job \in [Workers -> Jobs]
    /\ tok \in [Workers -> Nat]
    /\ seen \in [Workers -> Suspensions]
    /\ turn \in [Workers -> Rounds]
    /\ todo \in [Workers -> SUBSET Calls]
    /\ held \in [Workers -> SUBSET Calls]

PeopleTyped ==
    /\ prompts \in 0..MaxPrompts
    /\ announced \subseteq Calls
    /\ refused \subseteq Rounds
    /\ pressed \subseteq Rounds
    /\ overrun \in BOOLEAN

-----------------------------------------------------------------------------
(* Facts about the operators *)

(* A nonempty set of numbers has a least element, so NextCall (the next call *)
(* of the round in model order) is one of the calls left.                    *)
LEMMA LeastNumber ==
    ASSUME NEW S, S \subseteq Nat, S # {}
    PROVE  \E n \in S : \A m \in S : n <= m
<1> DEFINE R == OpToRel(<, Nat)
<1>1. IsWellFoundedOn(R, Nat)
  BY NatLessThanWellFounded
<1>2. \A m, n \in Nat : m < n => <<m, n>> \in R
  BY DEF OpToRel
<1> HIDE DEF R
<1>3. PICK n \in S : \A m \in S : <<m, n>> \notin R
  BY <1>1, WFMin
<1>4. \A m \in S : ~(m < n)
  BY <1>2, <1>3
<1>5. \A m \in S : n <= m
  BY <1>4
<1> QED
  BY <1>5

(* The next call of a round is one of the calls left in it. *)
LEMMA NextCallIsLeft ==
    ASSUME WorkersTyped, NEW w \in Workers, todo[w] # {}
    PROVE  NextCall(w) \in todo[w] /\ NextCall(w) \in Calls
<1>1. todo[w] \subseteq Calls
  BY DEF WorkersTyped
<1>2. todo[w] \subseteq Nat
  BY <1>1, SuspensionConstants
<1>3. \E c \in todo[w] : \A d \in todo[w] : c <= d
  BY <1>2, LeastNumber
<1>4. NextCall(w) \in todo[w]
  BY <1>3 DEF NextCall
<1> QED
  BY <1>1, <1>4

(* TypeOK is its parts and the shape of the record. *)
LEMMA TypeParts ==
    TypeOK <=> /\ StoreTyped /\ LeaseTyped /\ WorkersTyped /\ PeopleTyped
               /\ Shaped(susp)
<1>1. ASSUME TypeOK PROVE Shaped(susp)
  BY <1>1 DEF TypeOK, Shaped, Undecided
<1>2. ASSUME Shaped(susp)
      PROVE  /\ susp \in Suspensions
             /\ \A c \in Calls : susp.answers[c] # "none" => c \in susp.calls
             /\ susp.state = "resuming" => \A c \in susp.calls : susp.answers[c] # "none"
  BY <1>2 DEF Shaped, Undecided
<1>3. TypeOK => StoreTyped /\ LeaseTyped
  BY DEF TypeOK, StoreTyped, LeaseTyped
<1>4. TypeOK => WorkersTyped
  BY DEF TypeOK, WorkersTyped, Points, Jobs
<1>5. TypeOK => PeopleTyped
  BY DEF TypeOK, PeopleTyped
<1>6. ASSUME StoreTyped, LeaseTyped, WorkersTyped, PeopleTyped, Shaped(susp)
      PROVE  TypeOK
  BY <1>2, <1>6 DEF TypeOK, StoreTyped, LeaseTyped, WorkersTyped, PeopleTyped, Points, Jobs
<1> QED
  BY <1>1, <1>3, <1>4, <1>5, <1>6

(* The same for the state after a step. *)
LEMMA TypePartsNext ==
    ASSUME StoreTyped', LeaseTyped', WorkersTyped', PeopleTyped', Shaped(susp)'
    PROVE  TypeOK'
<1>1. /\ susp' \in Suspensions
      /\ \A c \in Calls : susp'.answers[c] # "none" => c \in susp'.calls
      /\ susp'.state = "resuming" => \A c \in susp'.calls : susp'.answers[c] # "none"
  BY DEF Shaped, Undecided
<1> QED
  BY <1>1 DEF TypeOK, StoreTyped, LeaseTyped, WorkersTyped, PeopleTyped, Points, Jobs

(* The record of a branch that never parked is well formed and not live. *)
LEMMA NeverParkedShaped == Shaped(NeverParked) /\ ~Active(NeverParked)
<1>1. NoAnswers \in [Calls -> Verdict]
  BY DEF NoAnswers, Verdict
<1>2. 0 \in Rounds
  BY DEF Rounds
<1>3. NeverParked \in Suspensions
  BY <1>1, <1>2 DEF NeverParked, Suspensions
<1>4. \A c \in Calls : NeverParked.answers[c] = "none"
  BY DEF NeverParked, NoAnswers
<1>5. NeverParked.state = "none"
  BY DEF NeverParked
<1> QED
  BY <1>3, <1>4, <1>5 DEF Shaped, Active

(* The job of an idle worker is a job. *)
LEMMA NoJobTyped == NoJob \in Jobs
<1>1. (CHOOSE c \in Calls : TRUE) \in Calls
  BY SuspensionConstants
<1> QED
  BY <1>1 DEF NoJob, Jobs, Kinds, Answers

(* A worker that retires keeps its types, is over and has no copy. *)
LEMMA RetireTyped ==
    ASSUME WorkersTyped, NEW w \in Workers, Retire(w)
    PROVE  WorkersTyped' /\ at'[w] = "over" /\ seen'[w] = NeverParked
<1>1. at' \in [Workers -> Points] /\ at'[w] = "over"
  BY DEF WorkersTyped, Retire, Goto, Points
<1>2. job' \in [Workers -> Jobs]
  BY NoJobTyped DEF WorkersTyped, Retire
<1>3. tok' \in [Workers -> Nat]
  BY DEF WorkersTyped, Retire
<1>4. seen' \in [Workers -> Suspensions] /\ seen'[w] = NeverParked
  BY NeverParkedShaped DEF WorkersTyped, Retire, Shaped
<1>5. turn' \in [Workers -> Rounds]
  BY DEF WorkersTyped, Retire, Rounds
<1>6. todo' \in [Workers -> SUBSET Calls] /\ held' \in [Workers -> SUBSET Calls]
  BY DEF WorkersTyped, Retire
<1> QED
  BY <1>1, <1>2, <1>3, <1>4, <1>5, <1>6 DEF WorkersTyped

(* A worker's step leaves the others' cells alone. *)
Apart(w) ==
    \A v \in Workers \ {w} :
        /\ at'[v] = at[v] /\ job'[v] = job[v] /\ tok'[v] = tok[v] /\ seen'[v] = seen[v]

(* A worker that retires leaves the others alone. *)
LEMMA RetireApart ==
    ASSUME WorkersTyped, NEW w \in Workers, Retire(w)
    PROVE  Apart(w)
BY DEF WorkersTyped, Retire, Goto, Apart

(* Every worker's step leaves the others alone. *)
LEMMA WorkerApart ==
    ASSUME WorkersTyped, NEW w \in Workers, WorkerStep(w)
    PROVE  Apart(w)
<1>0. /\ at \in [Workers -> Points] /\ job \in [Workers -> Jobs] /\ tok \in [Workers -> Nat]
      /\ seen \in [Workers -> Suspensions]
  BY DEF WorkersTyped
<1>1. CASE Run(w) \/ Answer(w) \/ Recover(w) \/ Replay(w)
  <2>1. \A v \in Workers \ {w} : job'[v] = job[v]
    BY <1>0, <1>1 DEF Run, Answer, Recover, Replay, Jobs
  <2> QED
    BY <1>0, <1>1, <2>1 DEF Run, Answer, Recover, Replay, Goto, Apart
<1>2. CASE CheckParked(w)
  BY <1>0, <1>2, RetireApart DEF CheckParked, Goto, Apart
<1>3. CASE Acquire(w)
  <2>1. CASE lease = NoWorker
    BY <1>0, <1>3, <2>1 DEF Acquire, Goto, Apart
  <2>2. CASE lease # NoWorker
    BY <1>3, <2>2, RetireApart DEF Acquire
  <2> QED
    BY <2>1, <2>2
<1>4. CASE Crash(w) \/ Refuse(w)
  BY <1>4, RetireApart DEF Crash, Refuse, Exit
<1>5. CASE ReadForAnswer(w)
  BY <1>0, <1>5, RetireApart DEF ReadForAnswer, Proceed, Exit, Goto, Apart
<1>6. CASE WriteAnswer(w)
  BY <1>0, <1>6, RetireApart DEF WriteAnswer, PutAnswer, Proceed, Exit, Goto, Apart
<1>7. CASE ReadForRecovery(w)
  BY <1>0, <1>7, RetireApart DEF ReadForRecovery, Proceed, Exit, Goto, Apart
<1>8. CASE MarkResuming(w)
  BY <1>0, <1>8 DEF MarkResuming, Proceed, Goto, Apart
<1>9. CASE Gate(w)
  <2>1. at' = at \/ at' = [at EXCEPT ![w] = "start"]
    BY <1>9 DEF Gate, Goto
  <2>2. UNCHANGED <<job, tok, seen>>
    BY <1>9 DEF Gate
  <2> QED
    BY <1>0, <2>1, <2>2 DEF Apart
<1>10. CASE StartEffect(w) \/ FinishEffect(w)
  <2>1. at' = [at EXCEPT ![w] = "finish"] \/ at' = [at EXCEPT ![w] = "gate"]
    BY <1>10 DEF StartEffect, FinishEffect, Proceed, Goto
  <2>2. UNCHANGED <<job, tok, seen>>
    BY <1>10 DEF StartEffect, FinishEffect, Proceed
  <2> QED
    BY <1>0, <2>1, <2>2 DEF Apart
<1>11. CASE EndRound(w)
  BY <1>0, <1>11, RetireApart DEF EndRound, Conclude, Proceed, Exit, Goto, Apart
<1>12. CASE Park(w)
  BY <1>12, RetireApart DEF Park, Exit
<1>13. CASE AskModel(w)
  BY <1>0, <1>13, RetireApart DEF AskModel, Conclude, Proceed, Exit, Goto, Apart
<1>14. CASE Complete(w)
  BY <1>14, RetireApart DEF Complete, Exit
<1> QED
  BY <1>1, <1>2, <1>3, <1>4, <1>5, <1>6, <1>7, <1>8, <1>9, <1>10, <1>11, <1>12, <1>13, <1>14
     DEF WorkerStep

-----------------------------------------------------------------------------
(* Types *)

(* The calls of a round are calls. *)
LEMMA CallsOfTyped == \A r : CallsOf(r) \in SUBSET Calls
BY DEF CallsOf

(* The round after the latest is one in which the model makes calls. *)
LEMMA NextRound ==
    ASSUME NEW r \in Rounds, CallsOf(r + 1) # {}
    PROVE  r + 1 \in Rounds
BY DEF CallsOf, Rounds

(* The leases stay typed. *)
LEMMA LeaseStep ==
    ASSUME LeaseTyped, NEW w \in Workers, WorkerStep(w)
    PROVE  LeaseTyped'
<1>1. CASE Acquire(w)
  <2>1. CASE lease = NoWorker
    <3>1. lease' = w /\ tokens' = tokens + 1
      BY <1>1, <2>1 DEF Acquire
    <3> QED
      BY <3>1 DEF LeaseTyped
  <2>2. CASE lease # NoWorker
    <3>1. UNCHANGED <<lease, tokens>>
      BY <1>1, <2>2 DEF Acquire, leaseVars
    <3> QED
      BY <3>1 DEF LeaseTyped
  <2> QED
    BY <2>1, <2>2
<1>2. CASE ~Acquire(w)
  <2>1. CASE Run(w) \/ Answer(w) \/ Recover(w) \/ Replay(w) \/ CheckParked(w) \/ Crash(w)
    <3>1. UNCHANGED <<lease, tokens>>
      BY <2>1 DEF Run, Answer, Recover, Replay, CheckParked, Crash, leaseVars
    <3> QED
      BY <3>1 DEF LeaseTyped
  <2>2. CASE Gate(w) \/ StartEffect(w) \/ FinishEffect(w) \/ MarkResuming(w)
    <3>1. UNCHANGED <<lease, tokens>>
      BY <2>2 DEF Gate, StartEffect, FinishEffect, MarkResuming, Proceed, leaseVars
    <3> QED
      BY <3>1 DEF LeaseTyped
  <2>3. ASSUME Exit(w) PROVE LeaseTyped'
    BY <2>3 DEF Exit, LeaseTyped
  <2>4. ASSUME NEW p, Proceed(w, p) PROVE LeaseTyped'
    BY <2>4 DEF Proceed, leaseVars, LeaseTyped
  <2>5. CASE Refuse(w) \/ Park(w) \/ Complete(w)
    BY <2>3, <2>5 DEF Refuse, Park, Complete
  <2>6. CASE ReadForAnswer(w)
    BY <2>3, <2>4, <2>6 DEF ReadForAnswer
  <2>7. CASE WriteAnswer(w)
    BY <2>3, <2>4, <2>7 DEF WriteAnswer, PutAnswer
  <2>8. CASE ReadForRecovery(w)
    BY <2>3, <2>4, <2>8 DEF ReadForRecovery
  <2>9. ASSUME Conclude(w) PROVE LeaseTyped'
    BY <2>3, <2>4, <2>9 DEF Conclude
  <2>10. CASE EndRound(w)
    BY <2>4, <2>9, <2>10 DEF EndRound
  <2>11. CASE AskModel(w)
    BY <2>4, <2>9, <2>11 DEF AskModel
  <2> QED
    BY <1>2, <2>1, <2>2, <2>5, <2>6, <2>7, <2>8, <2>10, <2>11 DEF WorkerStep
<1> QED
  BY <1>1, <1>2

(* A worker's cells stay typed. *)
LEMMA WorkersStep ==
    ASSUME TypeOK, Shaped(susp), NEW w \in Workers, WorkerStep(w), \A v \in Workers : Copy(v)
    PROVE  WorkersTyped'
<1>0. /\ WorkersTyped /\ round \in Rounds /\ announced \subseteq Calls /\ susp \in Suspensions
      /\ tokens \in Nat
  BY TypeParts DEF StoreTyped, PeopleTyped, Shaped, LeaseTyped
<1>a. /\ at \in [Workers -> Points] /\ job \in [Workers -> Jobs] /\ tok \in [Workers -> Nat]
      /\ seen \in [Workers -> Suspensions] /\ turn \in [Workers -> Rounds]
      /\ todo \in [Workers -> SUBSET Calls] /\ held \in [Workers -> SUBSET Calls]
  BY <1>0 DEF WorkersTyped
<1>b. \A p \in Points : [at EXCEPT ![w] = p] \in [Workers -> Points]
  BY <1>a
<1>c. \A r \in Rounds : [turn EXCEPT ![w] = r] \in [Workers -> Rounds]
  BY <1>a
<1>d. \A S \in SUBSET Calls : [todo EXCEPT ![w] = S] \in [Workers -> SUBSET Calls]
  BY <1>a
<1>e. \A k \in Kinds : [job EXCEPT ![w].kind = k] \in [Workers -> Jobs]
  <2> SUFFICES ASSUME NEW k \in Kinds PROVE [job EXCEPT ![w].kind = k] \in [Workers -> Jobs]
    OBVIOUS
  <2>1. job[w] \in Jobs
    BY <1>a
  <2>2. [job[w] EXCEPT !.kind = k] \in Jobs
    BY <2>1 DEF Jobs
  <2> QED
    BY <1>a, <2>2
<1>1. CASE Run(w) \/ Replay(w)
  <2>1. at' \in [Workers -> Points]
    BY <1>1, <1>b DEF Run, Replay, Goto, Points
  <2>2. job' \in [Workers -> Jobs]
    BY <1>1, <1>e DEF Run, Replay, Kinds
  <2>3. UNCHANGED <<tok, seen, turn, todo, held>>
    BY <1>1 DEF Run, Replay
  <2> QED
    BY <1>a, <2>1, <2>2, <2>3 DEF WorkersTyped
<1>2. CASE Answer(w)
  <2>1. at' \in [Workers -> Points]
    BY <1>2, <1>b DEF Answer, Goto, Points
  <2>2. PICK c \in announced, a \in Answers :
           job' = [job EXCEPT ![w] = [kind |-> "resume", call |-> c, answer |-> a]]
    BY <1>2 DEF Answer
  <2>3. [kind |-> "resume", call |-> c, answer |-> a] \in Jobs
    BY <1>0 DEF Jobs, Kinds
  <2>4. job' \in [Workers -> Jobs]
    BY <1>a, <2>2, <2>3
  <2>5. UNCHANGED <<tok, seen, turn, todo, held>>
    BY <1>2 DEF Answer
  <2> QED
    BY <1>a, <2>1, <2>4, <2>5 DEF WorkersTyped
<1>3. CASE Recover(w)
  <2>1. at' \in [Workers -> Points]
    BY <1>3, <1>b DEF Recover, Goto, Points
  <2>2. job' \in [Workers -> Jobs]
    BY <1>3, <1>e DEF Recover, Kinds
  <2>3. turn' \in [Workers -> Rounds]
    BY <1>0, <1>3, <1>c DEF Recover
  <2>4. todo' \in [Workers -> SUBSET Calls]
    BY <1>3, <1>d, CallsOfTyped DEF Recover
  <2>5. UNCHANGED <<tok, seen, held>>
    BY <1>3 DEF Recover
  <2> QED
    BY <1>a, <2>1, <2>2, <2>3, <2>4, <2>5 DEF WorkersTyped
<1>4. CASE CheckParked(w)
  <2>1. CASE Retire(w)
    BY <1>0, <2>1, RetireTyped
  <2>2. CASE Goto(w, "acquire") /\ UNCHANGED <<job, tok, seen, turn, todo, held>>
    <3>1. at' \in [Workers -> Points]
      BY <2>2, <1>b DEF Goto, Points
    <3> QED
      BY <1>a, <2>2, <3>1 DEF WorkersTyped
  <2> QED
    BY <1>4, <2>1, <2>2 DEF CheckParked
<1>5. CASE Acquire(w)
  <2>1. CASE lease = NoWorker
    <3>1. at' \in [Workers -> Points]
      <4>1. at' = [at EXCEPT ![w] = "next"] \/ at' = [at EXCEPT ![w] = "gate"]
            \/ at' = [at EXCEPT ![w] = "read"]
        BY <1>5, <2>1 DEF Acquire, Goto
      <4> QED
        BY <4>1, <1>b DEF Points
    <3>2. tok' \in [Workers -> Nat]
      BY <1>0, <1>a, <1>5, <2>1 DEF Acquire
    <3>3. turn' \in [Workers -> Rounds]
      BY <1>0, <1>a, <1>c, <1>5, <2>1 DEF Acquire
    <3>4. todo' \in [Workers -> SUBSET Calls]
      BY <1>a, <1>d, <1>5, <2>1, CallsOfTyped DEF Acquire
    <3>5. UNCHANGED <<job, seen, held>>
      BY <1>5, <2>1 DEF Acquire
    <3> QED
      BY <1>a, <3>1, <3>2, <3>3, <3>4, <3>5 DEF WorkersTyped
  <2>2. CASE lease # NoWorker
    BY <1>0, <1>5, <2>2, RetireTyped DEF Acquire
  <2> QED
    BY <2>1, <2>2
<1>6. CASE Crash(w) \/ Refuse(w) \/ Park(w) \/ Complete(w)
  BY <1>0, <1>6, RetireTyped DEF Crash, Refuse, Park, Complete, Exit
<1>7. ASSUME NEW p \in Points, Proceed(w, p), UNCHANGED <<seen, turn, todo, held>>
      PROVE  WorkersTyped'
  BY <1>a, <1>b, <1>7 DEF Proceed, Goto, WorkersTyped
<1>8. CASE ReadForAnswer(w)
  <2>1. CASE Exit(w)
    BY <1>0, <2>1, RetireTyped DEF Exit
  <2>2. CASE /\ seen' = [seen EXCEPT ![w] = [susp EXCEPT !.answers[job[w].call] = job[w].answer]]
             /\ Proceed(w, "write") /\ UNCHANGED <<turn, todo, held>>
    <3>1. job[w].call \in Calls /\ job[w].answer \in Verdict
      BY <1>a DEF Jobs, Verdict
    <3>2. [susp EXCEPT !.answers[job[w].call] = job[w].answer] \in Suspensions
      BY <1>0, <3>1 DEF Suspensions
    <3>3. seen' \in [Workers -> Suspensions]
      BY <1>a, <2>2, <3>2
    <3>4. at' \in [Workers -> Points]
      BY <1>b, <2>2 DEF Proceed, Goto, Points
    <3> QED
      BY <1>a, <2>2, <3>3, <3>4 DEF WorkersTyped, Proceed
  <2> QED
    BY <1>8, <2>1, <2>2 DEF ReadForAnswer
<1>9. CASE WriteAnswer(w)
  <2>1. CASE Exit(w)
    BY <1>0, <2>1, RetireTyped DEF Exit
  <2>2. CASE Proceed(w, "mark") /\ UNCHANGED <<seen, turn, todo, held>>
    BY <2>2, <1>7 DEF Points
  <2> QED
    BY <1>9, <2>1, <2>2 DEF WriteAnswer, PutAnswer
<1>10. CASE ReadForRecovery(w)
  <2>1. CASE Exit(w)
    BY <1>0, <2>1, RetireTyped DEF Exit
  <2>2. CASE Proceed(w, "gate") /\ UNCHANGED <<seen, turn, todo, held>>
    BY <2>2, <1>7 DEF Points
  <2>3. CASE seen' = [seen EXCEPT ![w] = susp] /\ Proceed(w, "mark") /\ UNCHANGED <<turn, todo, held>>
    <3>1. seen' \in [Workers -> Suspensions]
      BY <1>0, <1>a, <2>3
    <3>2. at' \in [Workers -> Points]
      BY <1>b, <2>3 DEF Proceed, Goto, Points
    <3> QED
      BY <1>a, <2>3, <3>1, <3>2 DEF WorkersTyped, Proceed
  <2> QED
    BY <1>10, <2>1, <2>2, <2>3 DEF ReadForRecovery
<1>11. CASE MarkResuming(w)
  <2>0. seen[w].turn \in Rounds /\ seen[w].calls \in SUBSET Calls
    BY <1>a DEF Suspensions
  <2>1. at' \in [Workers -> Points]
    BY <1>b, <1>11 DEF MarkResuming, Proceed, Goto, Points
  <2>2. turn' \in [Workers -> Rounds]
    BY <1>c, <1>11, <2>0 DEF MarkResuming
  <2>3. todo' \in [Workers -> SUBSET Calls]
    BY <1>d, <1>11, <2>0 DEF MarkResuming
  <2>4. UNCHANGED <<job, tok, seen, held>>
    BY <1>11 DEF MarkResuming, Proceed
  <2> QED
    BY <1>a, <2>1, <2>2, <2>3, <2>4 DEF WorkersTyped
<1>12. CASE Gate(w)
  <2>1. at' \in [Workers -> Points]
    <3>1. at' = at \/ at' = [at EXCEPT ![w] = "start"]
      BY <1>12 DEF Gate, Goto
    <3> QED
      BY <1>a, <1>b, <3>1 DEF Points
  <2>2. todo' \in [Workers -> SUBSET Calls]
    <3>1. todo' = todo \/ todo' = [todo EXCEPT ![w] = todo[w] \ {NextCall(w)}]
      BY <1>12 DEF Gate, Decided
    <3>2. todo[w] \ {NextCall(w)} \in SUBSET Calls
      BY <1>a
    <3> QED
      BY <1>a, <1>d, <3>1, <3>2
  <2>3. held' \in [Workers -> SUBSET Calls]
    <3>1. held' = held \/ held' = [held EXCEPT ![w] = held[w] \cup {NextCall(w)}]
      BY <1>12 DEF Gate
    <3>2. NextCall(w) \in Calls
      BY <1>0, <1>12, NextCallIsLeft DEF Gate
    <3> QED
      BY <1>a, <3>1, <3>2
  <2>4. UNCHANGED <<job, tok, seen, turn>>
    BY <1>12 DEF Gate
  <2> QED
    BY <1>a, <2>1, <2>2, <2>3, <2>4 DEF WorkersTyped
<1>13. CASE StartEffect(w)
  BY <1>7, <1>13 DEF StartEffect, Points
<1>14. CASE FinishEffect(w)
  <2>1. at' \in [Workers -> Points]
    BY <1>b, <1>14 DEF FinishEffect, Proceed, Goto, Points
  <2>2. todo' \in [Workers -> SUBSET Calls]
    <3>1. todo[w] \ {NextCall(w)} \in SUBSET Calls
      BY <1>a
    <3> QED
      BY <1>a, <1>14, <3>1 DEF FinishEffect, Decided
  <2>3. UNCHANGED <<job, tok, seen, turn, held>>
    BY <1>14 DEF FinishEffect, Proceed
  <2> QED
    BY <1>a, <2>1, <2>2, <2>3 DEF WorkersTyped
<1>15. ASSUME Conclude(w)
       PROVE  WorkersTyped'
  <2>1. CASE Exit(w)
    BY <1>0, <2>1, RetireTyped DEF Exit
  <2>2. CASE Proceed(w, "complete") /\ UNCHANGED <<seen, turn, todo, held>>
    BY <2>2, <1>7 DEF Points
  <2> QED
    BY <1>15, <2>1, <2>2 DEF Conclude
<1>16. CASE EndRound(w)
  <2>1. CASE Proceed(w, "next") /\ UNCHANGED <<seen, turn, todo, held>>
    BY <2>1, <1>7 DEF Points
  <2> QED
    BY <1>15, <1>16, <2>1 DEF EndRound
<1>17. CASE AskModel(w)
  <2>1. CASE CallsOf(turn[w] + 1) # {}
    <3>1. turn[w] + 1 \in Rounds
      BY <1>a, <2>1, NextRound
    <3>2. turn' \in [Workers -> Rounds]
      BY <1>a, <1>17, <2>1, <3>1 DEF AskModel
    <3>3. todo' \in [Workers -> SUBSET Calls]
      BY <1>d, <1>17, <2>1, CallsOfTyped DEF AskModel
    <3>4. at' \in [Workers -> Points]
      BY <1>b, <1>17, <2>1 DEF AskModel, Proceed, Goto, Points
    <3>5. UNCHANGED <<job, tok, seen, held>>
      BY <1>17, <2>1 DEF AskModel, Proceed
    <3> QED
      BY <1>a, <3>2, <3>3, <3>4, <3>5 DEF WorkersTyped
  <2>2. CASE CallsOf(turn[w] + 1) = {}
    BY <1>15, <1>17, <2>2 DEF AskModel
  <2> QED
    BY <2>1, <2>2
<1> QED
  BY <1>1, <1>2, <1>3, <1>4, <1>5, <1>6, <1>8, <1>9, <1>10, <1>11, <1>12, <1>13, <1>14, <1>16, <1>17
     DEF WorkerStep

(* The effects and the rounds stay typed. *)
LEMMA StoreStep ==
    ASSUME TypeOK, NEW w \in Workers, WorkerStep(w)
    PROVE  StoreTyped'
<1>0. StoreTyped /\ WorkersTyped
  BY TypeParts
<1>1. CASE Run(w) \/ Answer(w) \/ Recover(w) \/ Replay(w) \/ CheckParked(w) \/ Acquire(w)
  <2>1. UNCHANGED <<effect, round, answered>>
    BY <1>1 DEF Run, Answer, Recover, Replay, CheckParked, Acquire, storeVars
  <2> QED
    BY <1>0, <2>1 DEF StoreTyped
<1>2. CASE Crash(w) \/ Refuse(w) \/ ReadForAnswer(w) \/ WriteAnswer(w) \/ ReadForRecovery(w)
  <2>1. UNCHANGED <<effect, round, answered>>
    BY <1>2 DEF Crash, Refuse, ReadForAnswer, WriteAnswer, PutAnswer, ReadForRecovery, storeVars
  <2> QED
    BY <1>0, <2>1 DEF StoreTyped
<1>3. CASE MarkResuming(w) \/ Gate(w) \/ Park(w) \/ Complete(w)
  <2>1. UNCHANGED <<effect, round, answered>>
    BY <1>3 DEF MarkResuming, Gate, Park, Complete, storeVars
  <2> QED
    BY <1>0, <2>1 DEF StoreTyped
<1>4. CASE StartEffect(w) \/ FinishEffect(w)
  <2>1. UNCHANGED <<round, answered>>
    BY <1>4 DEF StartEffect, FinishEffect
  <2>2. effect' = [effect EXCEPT ![NextCall(w)] = "running"]
        \/ effect' = [effect EXCEPT ![NextCall(w)] = "done"]
    BY <1>4 DEF StartEffect, FinishEffect
  <2> QED
    BY <1>0, <2>1, <2>2 DEF StoreTyped
<1>5. CASE EndRound(w)
  <2>1. UNCHANGED <<effect, round>> /\ answered' \in BOOLEAN
    BY <1>0, <1>5 DEF EndRound, StoreTyped
  <2> QED
    BY <1>0, <2>1 DEF StoreTyped
<1>6. CASE AskModel(w)
  <2>1. turn[w] \in Rounds
    BY <1>0 DEF WorkersTyped
  <2>2. UNCHANGED effect
    BY <1>6 DEF AskModel
  <2>3. CASE CallsOf(turn[w] + 1) # {}
    <3>1. round' = turn[w] + 1 /\ answered' = FALSE
      BY <1>6, <2>3 DEF AskModel
    <3> QED
      BY <1>0, <2>1, <2>2, <2>3, <3>1, NextRound DEF StoreTyped
  <2>4. CASE CallsOf(turn[w] + 1) = {}
    <3>1. UNCHANGED <<round, answered>>
      BY <1>6, <2>4 DEF AskModel
    <3> QED
      BY <1>0, <2>2, <3>1 DEF StoreTyped
  <2> QED
    BY <2>3, <2>4
<1> QED
  BY <1>1, <1>2, <1>3, <1>4, <1>5, <1>6 DEF WorkerStep

(* What people have sent, hold and decided stays typed. *)
LEMMA PeopleStep ==
    ASSUME TypeOK, NEW w \in Workers, WorkerStep(w)
    PROVE  PeopleTyped'
<1>0. PeopleTyped /\ WorkersTyped
  BY TypeParts
<1>1. held[w] \subseteq Calls /\ seen[w] \in Suspensions
  BY <1>0 DEF WorkersTyped
<1>2. CASE Run(w)
  <2>1. prompts' = prompts + 1 /\ prompts < MaxPrompts
    BY <1>2 DEF Run
  <2>2. UNCHANGED <<announced, refused, pressed, overrun>>
    BY <1>2 DEF Run
  <2>3. prompts' \in 0..MaxPrompts
    BY <1>0, <2>1, SuspensionConstants DEF PeopleTyped
  <2> QED
    BY <1>0, <2>2, <2>3 DEF PeopleTyped
<1>3. CASE Acquire(w)
  <2>1. overrun' \in BOOLEAN /\ UNCHANGED <<prompts, announced, refused, pressed>>
    BY <1>0, <1>3 DEF Acquire, PeopleTyped
  <2> QED
    BY <1>0, <2>1 DEF PeopleTyped
<1>4. CASE Answer(w) \/ Recover(w) \/ Replay(w) \/ CheckParked(w) \/ Crash(w) \/ Refuse(w)
  <2>1. UNCHANGED <<prompts, announced, refused, pressed, overrun>>
    BY <1>4 DEF Answer, Recover, Replay, CheckParked, Crash, Refuse, peopleVars
  <2> QED
    BY <1>0, <2>1 DEF PeopleTyped
<1>5. CASE \/ ReadForAnswer(w) \/ WriteAnswer(w) \/ ReadForRecovery(w) \/ Gate(w)
           \/ StartEffect(w) \/ FinishEffect(w) \/ EndRound(w)
  <2>1. UNCHANGED <<prompts, announced, refused, pressed, overrun>>
    BY <1>5 DEF ReadForAnswer, WriteAnswer, PutAnswer, ReadForRecovery, Gate, StartEffect,
       FinishEffect, EndRound, peopleVars
  <2> QED
    BY <1>0, <2>1 DEF PeopleTyped
<1>6. CASE MarkResuming(w)
  <2>1. refused' \subseteq refused \cup {seen[w].turn}
    BY <1>6 DEF MarkResuming
  <2>2. seen[w].turn \in Rounds
    BY <1>1 DEF Suspensions
  <2>3. UNCHANGED <<prompts, announced, pressed, overrun>>
    BY <1>6 DEF MarkResuming
  <2> QED
    BY <1>0, <2>1, <2>2, <2>3 DEF PeopleTyped
<1>7. CASE Park(w)
  <2>1. announced' \subseteq announced \cup held[w]
    BY <1>7 DEF Park, PutPark
  <2>2. UNCHANGED <<prompts, refused, pressed, overrun>>
    BY <1>7 DEF Park
  <2> QED
    BY <1>0, <1>1, <2>1, <2>2 DEF PeopleTyped
<1>8. CASE AskModel(w)
  <2>1. pressed' \subseteq pressed \cup refused
    BY <1>8 DEF AskModel
  <2>2. UNCHANGED <<prompts, announced, refused, overrun>>
    BY <1>8 DEF AskModel
  <2> QED
    BY <1>0, <2>1, <2>2 DEF PeopleTyped
<1>9. CASE Complete(w)
  <2>1. announced' \subseteq announced
    BY <1>9 DEF Complete
  <2>2. UNCHANGED <<prompts, refused, pressed, overrun>>
    BY <1>9 DEF Complete
  <2> QED
    BY <1>0, <2>1, <2>2 DEF PeopleTyped
<1> QED
  BY <1>2, <1>3, <1>4, <1>5, <1>6, <1>7, <1>8, <1>9 DEF WorkerStep

-----------------------------------------------------------------------------
(* Tokens *)

(* What a step may do to a worker's token. *)
TokenMove(w) ==
    \/ at'[w] \notin Inside /\ tokens' = tokens
    \/ at[w] \in Inside /\ at'[w] \in Inside /\ tok'[w] = tok[w] /\ tokens' = tokens
    \/ at'[w] \in Inside /\ tok'[w] = tokens + 1 /\ tokens' = tokens + 1

(* A worker enters a lease scope with a new token and keeps it until it leaves. *)
LEMMA TokenMoves ==
    ASSUME WorkersTyped, LeaseTyped, NEW w \in Workers, WorkerStep(w)
    PROVE  TokenMove(w)
<1>0. at \in [Workers -> Points] /\ tok \in [Workers -> Nat]
  BY DEF WorkersTyped
<1>a. "over" \notin Inside /\ "acquire" \notin Inside /\ "check" \notin Inside
  BY DEF Inside, Writing, Finishing
<1>b. ASSUME Retire(w), UNCHANGED tokens PROVE TokenMove(w)
  BY <1>b, <1>a, RetireTyped DEF TokenMove
<1>c. ASSUME Exit(w) PROVE TokenMove(w)
  BY <1>b, <1>c DEF Exit
<1>d. ASSUME NEW p \in Inside, at[w] \in Inside, Proceed(w, p) PROVE TokenMove(w)
  BY <1>0, <1>d DEF Proceed, Goto, leaseVars, TokenMove
<1>e. \A p \in {"read", "write", "mark", "gate", "start", "finish", "next", "complete"} : p \in Inside
  BY DEF Inside, Writing, Finishing
<1>1. CASE Run(w) \/ Answer(w) \/ Recover(w) \/ Replay(w)
  <2>1. at'[w] = "check" \/ at'[w] = "acquire"
    BY <1>0, <1>1 DEF Run, Answer, Recover, Replay, Goto
  <2>2. UNCHANGED tokens
    BY <1>1 DEF Run, Answer, Recover, Replay, leaseVars
  <2> QED
    BY <2>1, <2>2, <1>a DEF TokenMove
<1>2. CASE CheckParked(w)
  <2>1. at'[w] = "acquire" \/ Retire(w)
    BY <1>0, <1>2 DEF CheckParked, Goto
  <2>2. UNCHANGED tokens
    BY <1>2 DEF CheckParked, leaseVars
  <2> QED
    BY <2>1, <2>2, <1>a, <1>b DEF TokenMove
<1>3. CASE Acquire(w)
  <2>1. CASE lease = NoWorker
    <3>1. at'[w] \in {"next", "gate", "read"}
      BY <1>0, <1>3, <2>1 DEF Acquire, Goto
    <3>2. tok'[w] = tokens + 1 /\ tokens' = tokens + 1
      BY <1>0, <1>3, <2>1 DEF Acquire
    <3> QED
      BY <3>1, <3>2, <1>e DEF TokenMove
  <2>2. CASE lease # NoWorker
    BY <1>3, <2>2, <1>b DEF Acquire, leaseVars
  <2> QED
    BY <2>1, <2>2
<1>4. CASE Crash(w)
  BY <1>4, <1>b DEF Crash, leaseVars
<1>5. CASE Refuse(w) \/ Park(w) \/ Complete(w)
  BY <1>5, <1>c DEF Refuse, Park, Complete
<1>6. CASE ReadForAnswer(w)
  BY <1>6, <1>c, <1>d, <1>e DEF ReadForAnswer
<1>7. CASE WriteAnswer(w)
  BY <1>7, <1>c, <1>d, <1>e DEF WriteAnswer, PutAnswer
<1>8. CASE ReadForRecovery(w)
  BY <1>8, <1>c, <1>d, <1>e DEF ReadForRecovery
<1>9. CASE MarkResuming(w) \/ StartEffect(w) \/ FinishEffect(w)
  BY <1>9, <1>d, <1>e DEF MarkResuming, StartEffect, FinishEffect
<1>10. CASE Gate(w)
  <2>1. at'[w] = "gate" \/ at'[w] = "start"
    BY <1>0, <1>10 DEF Gate, Goto
  <2>2. at[w] = "gate" /\ UNCHANGED <<tok, tokens>>
    BY <1>10 DEF Gate, leaseVars
  <2> QED
    BY <2>1, <2>2, <1>e DEF TokenMove
<1>11. ASSUME Conclude(w), at[w] \in Inside PROVE TokenMove(w)
  BY <1>11, <1>c, <1>d, <1>e DEF Conclude
<1>12. CASE EndRound(w)
  BY <1>12, <1>11, <1>d, <1>e DEF EndRound
<1>13. CASE AskModel(w)
  BY <1>13, <1>11, <1>d, <1>e DEF AskModel
<1> QED
  BY <1>1, <1>2, <1>3, <1>4, <1>5, <1>6, <1>7, <1>8, <1>9, <1>10, <1>12, <1>13 DEF WorkerStep

(* Workers inside their scopes keep different tokens. *)
LEMMA TokensStep ==
    ASSUME WorkersTyped, LeaseTyped, Tokens, NEW w \in Workers, WorkerStep(w)
    PROVE  Tokens'
<1>0. Apart(w) /\ tokens \in Nat /\ tok \in [Workers -> Nat]
  BY WorkerApart DEF LeaseTyped, WorkersTyped
<1>1. \A v \in Workers \ {w} : at'[v] = at[v] /\ tok'[v] = tok[v]
  BY <1>0 DEF Apart
<1>2. \A v \in Workers : at[v] \in Inside => tok[v] \in Nat /\ tok[v] >= 1 /\ tok[v] <= tokens
  BY <1>0 DEF Tokens
<1>3. CASE at'[w] \notin Inside /\ tokens' = tokens
  BY <1>1, <1>3 DEF Tokens
<1>4. CASE /\ at[w] \in Inside /\ at'[w] \in Inside
           /\ tok'[w] = tok[w] /\ tokens' = tokens
  BY <1>1, <1>4 DEF Tokens
<1>5. CASE at'[w] \in Inside /\ tok'[w] = tokens + 1 /\ tokens' = tokens + 1
  <2>1. \A v \in Workers : at'[v] \in Inside => tok'[v] \in 1..tokens'
    BY <1>0, <1>1, <1>2, <1>5
  <2>2. \A v \in Workers \ {w} : at'[v] \in Inside => tok'[v] # tok'[w]
    BY <1>0, <1>1, <1>2, <1>5
  <2>3. \A u, v \in Workers :
           at'[u] \in Inside /\ at'[v] \in Inside /\ tok'[u] = tok'[v] => u = v
    BY <1>1, <2>2 DEF Tokens
  <2> QED
    BY <2>1, <2>3 DEF Tokens
<1> QED
  BY <1>3, <1>4, <1>5, TokenMoves DEF TokenMove

-----------------------------------------------------------------------------
(* The record and the copies *)

(* What a step may do to the record. *)
RecordMove(w) ==
    \/ UNCHANGED <<susp, overrun>>
    \/ UNCHANGED <<tokens, overrun>> /\ at[w] \in Inside /\ tok[w] = tokens
    \/ UNCHANGED susp /\ tokens' = tokens + 1

(* A worker that passes the fence has the last token. *)
LEMMA FenceIsLast ==
    ASSUME Tokens, LeaseTyped, NEW w \in Workers, at[w] \in Inside, Fence(w)
    PROVE  tok[w] = tokens
<1>1. tok[w] \in 1..tokens /\ tokens \in Nat
  BY DEF Tokens, LeaseTyped
<1> QED
  BY <1>1 DEF Fence

(* Only the worker that can pass the fence writes the record, and only a new *)
(* lease can find that a run begins over a park.                             *)
LEMMA RecordMoves ==
    ASSUME Tokens, LeaseTyped, NEW w \in Workers, WorkerStep(w)
    PROVE  RecordMove(w)
<1>0. \A p \in {"read", "write", "mark", "gate", "start", "finish", "next", "complete"} : p \in Inside
  BY DEF Inside, Writing, Finishing
<1>1. CASE Run(w) \/ Answer(w) \/ Recover(w) \/ Replay(w) \/ CheckParked(w)
  BY <1>1 DEF Run, Answer, Recover, Replay, CheckParked, storeVars, peopleVars, RecordMove
<1>2. CASE Acquire(w)
  <2>1. UNCHANGED susp
    BY <1>2 DEF Acquire, storeVars
  <2>2. CASE lease = NoWorker
    <3>1. tokens' = tokens + 1
      BY <1>2, <2>2 DEF Acquire
    <3> QED
      BY <2>1, <3>1 DEF RecordMove
  <2>3. CASE lease # NoWorker
    BY <1>2, <2>1, <2>3 DEF Acquire, RecordMove
  <2> QED
    BY <2>2, <2>3
<1>3. CASE Crash(w) \/ Refuse(w) \/ ReadForAnswer(w) \/ ReadForRecovery(w)
  BY <1>3 DEF Crash, Refuse, ReadForAnswer, ReadForRecovery, storeVars, peopleVars, RecordMove
<1>4. CASE Gate(w) \/ StartEffect(w) \/ FinishEffect(w) \/ EndRound(w) \/ AskModel(w)
  <2>1. UNCHANGED <<susp, overrun>>
    BY <1>4 DEF Gate, StartEffect, FinishEffect, EndRound, AskModel, storeVars, peopleVars
  <2> QED
    BY <2>1 DEF RecordMove
<1>5. CASE WriteAnswer(w)
  <2>1. UNCHANGED <<tokens, overrun>>
    BY <1>5 DEF WriteAnswer, PutAnswer, Proceed, Exit, leaseVars, peopleVars
  <2>2. at[w] \in Inside /\ Fence(w)
    BY <1>0, <1>5 DEF WriteAnswer, PutAnswer
  <2> QED
    BY <2>1, <2>2, FenceIsLast DEF RecordMove
<1>6. CASE MarkResuming(w)
  <2>1. UNCHANGED <<tokens, overrun>>
    BY <1>6 DEF MarkResuming, Proceed, leaseVars
  <2>2. at[w] \in Inside /\ Fence(w)
    BY <1>0, <1>6 DEF MarkResuming
  <2> QED
    BY <2>1, <2>2, FenceIsLast DEF RecordMove
<1>7. CASE Park(w)
  <2>1. UNCHANGED <<tokens, overrun>> /\ at[w] \in Inside
    BY <1>0, <1>7 DEF Park, Exit
  <2>2. CASE Fence(w)
    BY <2>1, <2>2, FenceIsLast DEF RecordMove
  <2>3. CASE ~Fence(w)
    BY <1>7, <2>1, <2>3 DEF Park, RecordMove
  <2> QED
    BY <2>2, <2>3
<1>8. CASE Complete(w)
  <2>1. UNCHANGED <<tokens, overrun>> /\ at[w] \in Inside /\ Fence(w)
    BY <1>0, <1>8 DEF Complete, Exit
  <2> QED
    BY <2>1, FenceIsLast DEF RecordMove
<1> QED
  BY <1>1, <1>2, <1>3, <1>4, <1>5, <1>6, <1>7, <1>8 DEF WorkerStep

(* A step of one worker keeps the agreement of the others with the record:   *)
(* if it wrote the record, none of them can pass the fence.                  *)
LEMMA OthersHold ==
    ASSUME SuspensionInv, NEW w \in Workers, WorkerStep(w), NEW v \in Workers, v # w,
           (at[v] \in Inside)', (tok[v] = tokens)'
    PROVE  Holds(v)'
<1>0. WorkersTyped /\ LeaseTyped /\ Tokens /\ Holders
  BY TypeParts DEF SuspensionInv
<1>1. at'[v] = at[v] /\ job'[v] = job[v] /\ tok'[v] = tok[v] /\ seen'[v] = seen[v]
  BY <1>0, WorkerApart DEF Apart
<1>2. tok[v] \in 1..tokens /\ tokens \in Nat
  BY <1>0, <1>1 DEF Tokens, LeaseTyped
<1>3. tokens' = tokens \/ tokens' = tokens + 1
  BY <1>0, TokenMoves DEF TokenMove
<1>4. tokens' = tokens
  BY <1>1, <1>2, <1>3
<1>5. Holds(v)
  BY <1>0, <1>1, <1>4 DEF Holders
<1>6. ~(at[w] \in Inside /\ tok[w] = tokens)
  BY <1>0, <1>1, <1>4 DEF Tokens
<1>7. tokens' # tokens + 1
  BY <1>2, <1>4
<1>8. UNCHANGED <<susp, overrun>>
  BY <1>0, <1>6, <1>7, RecordMoves DEF RecordMove
<1> QED
  BY <1>1, <1>5, <1>8 DEF Holds, Active

(* The record stays well formed. *)
LEMMA RecordShaped ==
    ASSUME SuspensionInv, NEW w \in Workers, WorkerStep(w)
    PROVE  Shaped(susp)'
<1>0. WorkersTyped /\ Shaped(susp) /\ Copy(w) /\ Shaped(seen[w])
  BY TypeParts DEF SuspensionInv, Copy
<1>1. CASE UNCHANGED susp
  BY <1>0, <1>1 DEF Shaped, Undecided
<1>2. CASE WriteAnswer(w)
  BY <1>0, <1>2 DEF WriteAnswer, PutAnswer, Shaped, Undecided
<1>3. CASE MarkResuming(w)
  <2>1. Undecided(seen[w]) = {}
    BY <1>0, <1>3 DEF MarkResuming, Copy
  <2>2. susp' = [seen[w] EXCEPT !.state = "resuming"]
    BY <1>3 DEF MarkResuming
  <2> QED
    BY <1>0, <2>1, <2>2 DEF Shaped, Undecided, Suspensions
<1>4. CASE Complete(w)
  <2>1. susp' = [seen[w] EXCEPT !.state = "completed"]
    BY <1>4 DEF Complete
  <2> QED
    BY <1>0, <2>1 DEF Shaped, Undecided, Suspensions
<1>5. CASE Park(w) /\ ~UNCHANGED susp
  <2>1. susp' = [state |-> "waiting", calls |-> held[w], answers |-> NoAnswers, turn |-> turn[w]]
    BY <1>5 DEF Park, PutPark
  <2>2. held[w] \in SUBSET Calls /\ turn[w] \in Rounds
    BY <1>0 DEF WorkersTyped
  <2>3. NoAnswers \in [Calls -> Verdict] /\ \A c \in Calls : NoAnswers[c] = "none"
    BY DEF NoAnswers, Verdict
  <2>4. susp' \in Suspensions
    BY <2>1, <2>2, <2>3 DEF Suspensions
  <2>5. \A c \in Calls : susp'.answers[c] = "none"
    BY <2>1, <2>3
  <2>6. susp'.state = "waiting"
    BY <2>1
  <2> QED
    BY <2>4, <2>5, <2>6 DEF Shaped
<1>6. \/ UNCHANGED susp \/ WriteAnswer(w) \/ MarkResuming(w) \/ Complete(w) \/ Park(w)
  <2>1. CASE Run(w) \/ Answer(w) \/ Recover(w) \/ Replay(w) \/ CheckParked(w) \/ Acquire(w)
    BY <2>1 DEF Run, Answer, Recover, Replay, CheckParked, Acquire, storeVars
  <2>2. CASE Crash(w) \/ Refuse(w) \/ ReadForAnswer(w) \/ ReadForRecovery(w)
    BY <2>2 DEF Crash, Refuse, ReadForAnswer, ReadForRecovery, storeVars
  <2>3. CASE Gate(w) \/ StartEffect(w) \/ FinishEffect(w) \/ EndRound(w) \/ AskModel(w)
    BY <2>3 DEF Gate, StartEffect, FinishEffect, EndRound, AskModel, storeVars
  <2> QED
    BY <2>1, <2>2, <2>3 DEF WorkerStep
<1> QED
  BY <1>1, <1>2, <1>3, <1>4, <1>5, <1>6

(* A worker that left its scope has no copy and promises nothing. *)
LEMMA RetiredOwn ==
    ASSUME WorkersTyped, NEW w \in Workers, Retire(w)
    PROVE  Copy(w)' /\ (Holds(w))' /\ (at[w] \notin Inside)'
<1>1. at'[w] = "over" /\ seen'[w] = NeverParked
  BY RetireTyped
<1>2. "over" \notin Inside \cup {"mark", "complete"}
  BY DEF Inside, Writing, Finishing
<1>3. Shaped(seen'[w]) /\ ~Active(seen'[w])
  BY <1>1, NeverParkedShaped
<1>4. Copy(w)'
  BY <1>1, <1>2, <1>3 DEF Copy, Inside, Shaped, Undecided, Active
<1>5. Holds(w)'
  BY <1>1, <1>2 DEF Holds, Inside, Writing
<1> QED
  BY <1>1, <1>2, <1>4, <1>5

(* Moving on within the round, the copy and the record as they were, keeps    *)
(* what is known of both; only a continuation that is live can be completed.  *)
LEMMA FinishingOwn ==
    ASSUME SuspensionInv, NEW w \in Workers, at[w] \in Finishing, NEW p \in Finishing,
           at' = [at EXCEPT ![w] = p], p = "complete" => Active(seen[w]),
           UNCHANGED <<seen, tok, tokens, susp, overrun>>
    PROVE  Copy(w)' /\ (tok[w] = tokens => Holds(w))'
<1>0. WorkersTyped /\ Copy(w) /\ (tok[w] = tokens => Holds(w)) /\ at'[w] = p
  <2>1. WorkersTyped /\ Copy(w)
    BY TypeParts DEF SuspensionInv
  <2>2. at'[w] = p
    BY <2>1 DEF WorkersTyped
  <2>3. at[w] \in Inside
    BY DEF Inside
  <2>4. tok[w] = tokens => Holds(w)
    BY <2>3 DEF SuspensionInv, Holders
  <2> QED
    BY <2>1, <2>2, <2>4
<1>1. p \notin Writing /\ p # "mark" /\ p # "write"
  BY DEF Writing, Finishing
<1>2. Copy(w)'
  BY <1>0, <1>1 DEF Copy, Shaped, Undecided, Active
<1>3. ASSUME tok[w] = tokens PROVE Holds(w)'
  BY <1>0, <1>1, <1>3 DEF Holds, Active
<1> QED
  BY <1>2, <1>3

(* What a worker's step does to its own copy and to its agreement with the record. *)
LEMMA OwnHolds ==
    ASSUME SuspensionInv, NEW w \in Workers, WorkerStep(w)
    PROVE  Copy(w)' /\ (at[w] \in Inside /\ tok[w] = tokens => Holds(w))'
<1> DEFINE Goal == Copy(w)' /\ (at[w] \in Inside /\ tok[w] = tokens => Holds(w))'
<1>0. /\ WorkersTyped /\ LeaseTyped /\ Tokens /\ Holders /\ Shaped(susp) /\ Copy(w)
      /\ Shaped(seen[w])
  BY TypeParts DEF SuspensionInv, Copy
<1>a. at \in [Workers -> Points] /\ seen \in [Workers -> Suspensions] /\ job \in [Workers -> Jobs]
  BY <1>0 DEF WorkersTyped
<1>b. ASSUME Retire(w) PROVE Goal
  BY <1>0, <1>b, RetiredOwn
<1>c. ASSUME Exit(w) PROVE Goal
  BY <1>b, <1>c DEF Exit
(* A point outside the writing and finishing ones promises nothing of the record. *)
<1>d. ASSUME NEW p \in {"check", "acquire", "read"}, at[w] \notin Writing \cup Finishing,
             at' = [at EXCEPT ![w] = p], UNCHANGED seen
      PROVE  Goal
  <2>1. at'[w] = p /\ seen'[w] = seen[w]
    BY <1>a, <1>d
  <2>2. p \notin Writing \cup Finishing
    BY <1>d DEF Writing, Finishing
  <2>3. ~Active(seen[w])
    BY <1>0, <1>d DEF Copy
  <2>4. Copy(w)'
    BY <1>0, <2>1, <2>2, <2>3 DEF Copy, Shaped, Undecided, Active, Finishing, Writing
  <2>5. Holds(w)'
    BY <2>1, <2>2 DEF Holds, Writing
  <2> QED
    BY <2>4, <2>5
<1>e. \A p \in {"new", "check", "acquire", "read"} : p \notin Writing \cup Finishing
  BY DEF Writing, Finishing
<1>f. ASSUME at[w] \in Finishing, NEW p \in Finishing, p = "complete" => Active(seen[w]),
             Proceed(w, p), UNCHANGED <<susp, overrun, seen>>
      PROVE  Goal
  <2>1. at' = [at EXCEPT ![w] = p] /\ UNCHANGED <<tok, tokens>>
    BY <1>f DEF Proceed, Goto, leaseVars
  <2> QED
    BY <2>1, <1>f, FinishingOwn
<1>1. CASE Run(w) \/ Answer(w) \/ Recover(w) \/ Replay(w)
  <2>1. at' = [at EXCEPT ![w] = "check"] \/ at' = [at EXCEPT ![w] = "acquire"]
    BY <1>1 DEF Run, Answer, Recover, Replay, Goto
  <2>2. at[w] = "new" /\ UNCHANGED seen
    BY <1>1 DEF Run, Answer, Recover, Replay
  <2> QED
    BY <1>d, <1>e, <2>1, <2>2
<1>2. CASE CheckParked(w)
  <2>1. at[w] = "check"
    BY <1>2 DEF CheckParked
  <2>2. Retire(w) \/ (at' = [at EXCEPT ![w] = "acquire"] /\ UNCHANGED seen)
    BY <1>2 DEF CheckParked, Goto
  <2> QED
    BY <1>b, <1>d, <1>e, <2>1, <2>2
<1>3. CASE Acquire(w)
  <2>0. at[w] = "acquire" /\ UNCHANGED susp
    BY <1>3 DEF Acquire, storeVars
  <2>1. CASE lease # NoWorker
    BY <1>3, <1>b, <2>1 DEF Acquire
  <2>2. CASE lease = NoWorker /\ at' = [at EXCEPT ![w] = "read"]
    <3>1. UNCHANGED seen
      BY <1>3, <2>2 DEF Acquire
    <3> QED
      BY <1>d, <1>e, <2>0, <2>2, <3>1
  <2>3. CASE lease = NoWorker /\ Runs(w)
    <3>1. at' = [at EXCEPT ![w] = "next"] \/ at' = [at EXCEPT ![w] = "gate"]
      BY <1>3, <2>3 DEF Acquire, Goto, Runs
    <3>2. at'[w] \in {"next", "gate"}
      BY <1>a, <3>1
    <3>3. UNCHANGED seen /\ overrun' = (overrun \/ Active(susp))
      BY <1>3, <2>3 DEF Acquire
    <3>4. ~Active(seen[w])
      BY <1>0, <1>e, <2>0 DEF Copy
    <3>5. Copy(w)'
      BY <1>0, <3>2, <3>3, <3>4 DEF Copy, Shaped, Undecided, Active, Writing
    <3>6. Holds(w)'
      BY <2>0, <3>2, <3>3, <3>4 DEF Holds, Active
    <3> QED
      BY <3>5, <3>6
  <2>4. ASSUME lease = NoWorker, ~Runs(w) PROVE at' = [at EXCEPT ![w] = "read"]
    BY <1>3, <2>4 DEF Acquire, Goto, Runs
  <2> QED
    BY <2>1, <2>2, <2>3, <2>4
<1>4. CASE Crash(w)
  BY <1>4, <1>b DEF Crash
<1>5. CASE Refuse(w) \/ Park(w) \/ Complete(w)
  BY <1>5, <1>c DEF Refuse, Park, Complete
<1>6. CASE ReadForAnswer(w)
  <2>1. CASE /\ Active(susp) /\ job[w].call \in susp.calls
             /\ seen' = [seen EXCEPT ![w] = [susp EXCEPT !.answers[job[w].call] = job[w].answer]]
             /\ Proceed(w, "write") /\ UNCHANGED susp
    <3>1. at'[w] = "write" /\ UNCHANGED job
      BY <1>a, <2>1 DEF Proceed, Goto
    <3>2. seen'[w] = [susp EXCEPT !.answers[job[w].call] = job[w].answer]
      BY <1>a, <2>1
    <3>3. job[w].answer \in Verdict /\ job[w].answer # "none" /\ job[w].call \in Calls
      BY <1>a DEF Jobs, Answers, Verdict
    <3>4. Shaped(seen'[w]) /\ Active(seen'[w])
      BY <1>0, <2>1, <3>2, <3>3 DEF Shaped, Undecided, Active, Suspensions
    <3>5. Copy(w)'
      BY <3>1, <3>4 DEF Copy, Shaped, Undecided, Active, Writing, Finishing
    <3>6. Holds(w)'
      BY <2>1, <3>1, <3>2 DEF Holds, Active, Finishing
    <3> QED
      BY <3>5, <3>6
  <2> QED
    BY <1>6, <1>c, <2>1 DEF ReadForAnswer, storeVars
<1>7. CASE WriteAnswer(w)
  <2>1. CASE /\ Undecided(seen[w]) = {} /\ Proceed(w, "mark")
             /\ UNCHANGED seen /\ susp' = seen[w] /\ at[w] = "write"
    <3>1. at'[w] = "mark" /\ seen'[w] = seen[w]
      BY <1>a, <2>1 DEF Proceed, Goto
    <3>2. Active(seen[w])
      BY <1>0, <2>1 DEF Copy, Writing
    <3>3. Copy(w)'
      BY <1>0, <2>1, <3>1, <3>2 DEF Copy, Shaped, Undecided, Active, Writing, Finishing
    <3>4. Holds(w)'
      BY <2>1, <3>1 DEF Holds, Finishing
    <3> QED
      BY <3>3, <3>4
  <2> QED
    BY <1>7, <1>c, <2>1 DEF WriteAnswer, PutAnswer
<1>8. CASE ReadForRecovery(w)
  <2>0. at[w] = "read" /\ UNCHANGED <<susp, overrun>>
    BY <1>8 DEF ReadForRecovery, storeVars, peopleVars
  <2>1. CASE Exit(w)
    BY <1>c, <2>1
  <2>2. CASE /\ Active(susp) /\ Undecided(susp) = {}
             /\ seen' = [seen EXCEPT ![w] = susp] /\ Proceed(w, "mark")
    <3>1. at'[w] = "mark" /\ seen'[w] = susp
      BY <1>a, <2>2 DEF Proceed, Goto
    <3>2. Copy(w)'
      BY <1>0, <2>2, <3>1 DEF Copy, Shaped, Undecided, Active, Writing, Finishing
    <3>3. Holds(w)'
      BY <2>0, <3>1 DEF Holds, Finishing
    <3> QED
      BY <3>2, <3>3
  <2>3. CASE ~Active(susp) /\ UNCHANGED seen /\ Proceed(w, "gate")
    <3>1. at'[w] = "gate" /\ seen'[w] = seen[w]
      BY <1>a, <2>3 DEF Proceed, Goto
    <3>2. ~Active(seen[w])
      BY <1>0, <1>e, <2>0 DEF Copy
    <3>3. Copy(w)'
      BY <1>0, <3>1, <3>2 DEF Copy, Shaped, Undecided, Active, Writing
    <3>4. Holds(w)'
      BY <2>0, <2>3, <3>1, <3>2 DEF Holds, Active
    <3> QED
      BY <3>3, <3>4
  <2> QED
    BY <1>8, <2>1, <2>2, <2>3 DEF ReadForRecovery
<1>9. CASE MarkResuming(w)
  <2>1. /\ at[w] = "mark" /\ susp' = [seen[w] EXCEPT !.state = "resuming"]
        /\ UNCHANGED seen /\ Proceed(w, "gate")
    BY <1>9 DEF MarkResuming
  <2>2. at'[w] = "gate" /\ seen'[w] = seen[w]
    BY <1>a, <2>1 DEF Proceed, Goto
  <2>3. Active(seen[w])
    BY <1>0, <2>1 DEF Copy, Writing
  <2>4. Copy(w)'
    BY <1>0, <2>2, <2>3 DEF Copy, Shaped, Undecided, Active, Writing, Finishing
  <2>5. Holds(w)'
    BY <2>1, <2>2, <2>3 DEF Holds, Active
  <2> QED
    BY <2>4, <2>5
<1>10. CASE Gate(w)
  <2>0. /\ at[w] = "gate" /\ UNCHANGED <<susp, overrun, seen, tok, tokens>>
    BY <1>10 DEF Gate, storeVars, leaseVars, peopleVars
  <2>1. at' = [at EXCEPT ![w] = "gate"] \/ at' = [at EXCEPT ![w] = "start"]
    <3>1. at' = at \/ at' = [at EXCEPT ![w] = "start"]
      BY <1>10 DEF Gate, Goto
    <3> QED
      BY <1>a, <2>0, <3>1
  <2>2. "gate" \in Finishing /\ "start" \in Finishing
    BY DEF Finishing
  <2> QED
    BY <2>0, <2>1, <2>2, FinishingOwn
<1>11. CASE StartEffect(w) \/ FinishEffect(w)
  <2>1. (at[w] = "start" \/ at[w] = "finish") /\ UNCHANGED <<susp, overrun, seen>>
    BY <1>11 DEF StartEffect, FinishEffect, peopleVars
  <2>2. Proceed(w, "finish") \/ Proceed(w, "gate")
    BY <1>11 DEF StartEffect, FinishEffect
  <2>3. \A p \in {"start", "finish", "gate"} : p \in Finishing
    BY DEF Finishing
  <2> QED
    BY <1>f, <2>1, <2>2, <2>3
<1>12. ASSUME Conclude(w), at[w] \in Finishing, UNCHANGED <<susp, overrun>> PROVE Goal
  <2>1. CASE Resumed(w) # {}
    <3>1. Active(seen[w])
      BY <2>1 DEF Resumed
    <3>2. Proceed(w, "complete") /\ UNCHANGED seen
      BY <1>12, <2>1 DEF Conclude
    <3>3. "complete" \in Finishing
      BY DEF Finishing
    <3> QED
      BY <1>12, <1>f, <3>1, <3>2, <3>3
  <2>2. CASE Resumed(w) = {}
    BY <1>12, <1>c, <2>2 DEF Conclude
  <2> QED
    BY <2>1, <2>2
<1>13. CASE EndRound(w)
  <2>1. at[w] \in Finishing /\ "next" \in Finishing /\ UNCHANGED <<susp, overrun>>
    BY <1>13 DEF EndRound, Finishing, peopleVars
  <2>2. Conclude(w) \/ (Proceed(w, "next") /\ UNCHANGED seen)
    BY <1>13 DEF EndRound
  <2> QED
    BY <1>12, <1>f, <2>1, <2>2
<1>14. CASE AskModel(w)
  <2>1. at[w] \in Finishing /\ "gate" \in Finishing /\ UNCHANGED <<susp, overrun>>
    BY <1>14 DEF AskModel, Finishing
  <2>2. Conclude(w) \/ (Proceed(w, "gate") /\ UNCHANGED seen)
    BY <1>14 DEF AskModel
  <2> QED
    BY <1>12, <1>f, <2>1, <2>2
<1> QED
  BY <1>1, <1>2, <1>3, <1>4, <1>5, <1>6, <1>7, <1>8, <1>9, <1>10, <1>11, <1>13, <1>14 DEF WorkerStep

(* The first state satisfies the inductive invariant. *)
LEMMA SuspensionInit == Init => SuspensionInv
<1> SUFFICES ASSUME Init PROVE SuspensionInv
  OBVIOUS
<1>1. Shaped(susp) /\ ~Active(susp)
  BY NeverParkedShaped DEF Init
<1>2. \A w \in Workers : at[w] = "new" /\ seen[w] = NeverParked
  BY DEF Init
<1>3. "new" \notin Inside /\ "new" # "mark" /\ "new" # "complete"
  BY DEF Inside, Writing, Finishing
<1>4. Tokens /\ Holders
  BY <1>2, <1>3 DEF Tokens, Holders
<1>5. \A w \in Workers : Copy(w)
  BY <1>2, <1>3, NeverParkedShaped DEF Copy, Inside
<1>6. StoreTyped /\ LeaseTyped
  BY DEF Init, StoreTyped, LeaseTyped, Rounds
<1>7. WorkersTyped
  <2>1. /\ at \in [Workers -> Points] /\ tok \in [Workers -> Nat]
        /\ turn \in [Workers -> Rounds] /\ todo \in [Workers -> SUBSET Calls]
        /\ held \in [Workers -> SUBSET Calls]
    BY DEF Init, Points, Rounds
  <2>2. job \in [Workers -> Jobs]
    BY NoJobTyped DEF Init
  <2>3. seen \in [Workers -> Suspensions]
    BY NeverParkedShaped DEF Init, Shaped
  <2> QED
    BY <2>1, <2>2, <2>3 DEF WorkersTyped
<1>8. PeopleTyped
  <2>1. prompts = 0 /\ announced = {} /\ refused = {} /\ pressed = {} /\ overrun = FALSE
    BY DEF Init
  <2>2. prompts \in 0..MaxPrompts
    BY <2>1, SuspensionConstants
  <2> QED
    BY <2>1, <2>2 DEF PeopleTyped
<1> QED
  BY <1>1, <1>4, <1>5, <1>6, <1>7, <1>8, TypeParts DEF SuspensionInv

(* Every step keeps the inductive invariant. *)
LEMMA SuspensionStep == SuspensionInv /\ [Next]_vars => SuspensionInv'
<1> SUFFICES ASSUME SuspensionInv, [Next]_vars PROVE SuspensionInv'
  OBVIOUS
<1>0. StoreTyped /\ LeaseTyped /\ WorkersTyped /\ PeopleTyped
  BY TypeParts DEF SuspensionInv
<1>1. ASSUME NEW w \in Workers, WorkerStep(w) PROVE SuspensionInv'
  <2>1. Shaped(susp)'
    BY <1>1, RecordShaped
  <2>2. StoreTyped' /\ PeopleTyped' /\ LeaseTyped' /\ WorkersTyped'
    BY <1>0, <1>1, StoreStep, PeopleStep, LeaseStep, WorkersStep DEF SuspensionInv
  <2>3. TypeOK'
    BY <2>1, <2>2, TypePartsNext
  <2>4. Tokens'
    BY <1>0, <1>1, TokensStep DEF SuspensionInv
  <2>5. \A v \in Workers : Copy(v)'
    <3> SUFFICES ASSUME NEW v \in Workers PROVE Copy(v)'
      OBVIOUS
    <3>1. CASE v = w
      BY <1>1, <3>1, OwnHolds
    <3>2. CASE v # w
      <4>1. at'[v] = at[v] /\ seen'[v] = seen[v]
        BY <1>0, <1>1, <3>2, WorkerApart DEF Apart
      <4> QED
        BY <4>1 DEF SuspensionInv, Copy, Shaped, Undecided, Active
    <3> QED
      BY <3>1, <3>2
  <2>6. \A v \in Workers : (at[v] \in Inside /\ tok[v] = tokens => Holds(v))'
    <3> SUFFICES ASSUME NEW v \in Workers
                 PROVE  (at[v] \in Inside /\ tok[v] = tokens => Holds(v))'
      OBVIOUS
    <3>1. CASE v = w
      BY <1>1, <3>1, OwnHolds
    <3>2. CASE v # w
      BY <1>1, <3>2, OthersHold
    <3> QED
      BY <3>1, <3>2
  <2> QED
    BY <2>1, <2>3, <2>4, <2>5, <2>6 DEF SuspensionInv, Holders
<1>2. CASE Expire \/ UNCHANGED vars
  <2>1. UNCHANGED <<susp, effect, round, answered, tokens, at, job, tok, seen, turn, todo, held,
                    prompts, announced, refused, pressed, overrun>>
    BY <1>2 DEF Expire, vars, storeVars, leaseVars, workerVars, peopleVars
  <2>2. lease' \in {lease, NoWorker}
    BY <1>2 DEF Expire, vars, leaseVars
  <2>3. Shaped(susp)'
    BY <2>1 DEF SuspensionInv, Shaped, Undecided
  <2>4. StoreTyped' /\ PeopleTyped' /\ LeaseTyped'
    BY <1>0, <2>1, <2>2 DEF StoreTyped, PeopleTyped, LeaseTyped
  <2>5. WorkersTyped'
    BY <1>0, <2>1 DEF WorkersTyped
  <2>6. TypeOK'
    BY <2>3, <2>4, <2>5, TypePartsNext
  <2>7. Tokens'
    BY <2>1 DEF SuspensionInv, Tokens
  <2>8. \A v \in Workers : Copy(v)'
    BY <2>1 DEF SuspensionInv, Copy, Shaped, Undecided, Active
  <2>9. Holders'
    BY <2>1 DEF SuspensionInv, Holders, Holds, Active
  <2> QED
    BY <2>3, <2>6, <2>7, <2>8, <2>9 DEF SuspensionInv
<1>3. (\E w \in Workers : WorkerStep(w)) \/ Expire \/ UNCHANGED vars
  BY DEF Next, WorkerStep
<1> QED
  BY <1>1, <1>2, <1>3

(* The inductive invariant holds in every reachable state. *)
LEMMA SuspensionInvariant == Spec => []SuspensionInv
BY SuspensionInit, SuspensionStep, PTL DEF Spec

(* The branch's types, and the shape of its continuation: answers are for the *)
(* continuation's own calls, and it is resuming only once none is missing     *)
(* (Runtime.resume, ._finalize).                                              *)
THEOREM SuspensionTypeCorrect == Spec => []TypeOK
<1>1. SuspensionInv => TypeOK
  BY DEF SuspensionInv
<1> QED
  BY <1>1, SuspensionInvariant, PTL

-----------------------------------------------------------------------------
(* What people are told *)

(* A worker at the end of its round knows what is parked: if it may write at  *)
(* all, then either it is finishing the live continuation, or no run began     *)
(* over a park and nothing is parked.                                         *)
LEMMA HolderKnowsPark ==
    ASSUME SuspensionInv, NEW w \in Workers, at[w] \in Finishing, Fence(w), ~overrun
    PROVE  \/ /\ Active(seen[w])
              /\ susp = [seen[w] EXCEPT !.state = "resuming"]
              /\ susp.calls = seen[w].calls /\ susp.answers = seen[w].answers
              /\ susp.state = "resuming"
           \/ ~Active(seen[w]) /\ ~Active(susp)
<1>0. Tokens /\ LeaseTyped /\ WorkersTyped
  BY TypeParts DEF SuspensionInv
<1>1. at[w] \in Inside
  BY DEF Inside
<1>2. Holds(w)
  BY <1>0, <1>1, FenceIsLast DEF SuspensionInv, Holders
<1>3. seen[w] \in Suspensions
  BY <1>0 DEF WorkersTyped
<1>4. CASE Active(seen[w])
  <2>1. susp = [seen[w] EXCEPT !.state = "resuming"]
    BY <1>2, <1>4 DEF Holds
  <2> QED
    BY <1>3, <1>4, <2>1 DEF Suspensions
<1> QED
  BY <1>2, <1>4 DEF Holds

(* Every step keeps each announced request answerable: a park replaces the *)
(* continuation only of a worker that is finishing it, or where nothing is *)
(* parked.                                                                 *)
LEMMA AnnouncedStep ==
    ASSUME SuspensionInv, AnnouncedAnswerable, [Next]_vars
    PROVE  AnnouncedAnswerable'
<1>1. ASSUME UNCHANGED <<susp, announced>>, overrun => overrun'
      PROVE  AnnouncedAnswerable'
  BY <1>1 DEF AnnouncedAnswerable, Active
<1>2. ASSUME NEW w \in Workers, WorkerStep(w)
      PROVE  AnnouncedAnswerable'
  <2>0. WorkersTyped /\ Tokens /\ LeaseTyped /\ PeopleTyped
    BY TypeParts DEF SuspensionInv
  <2>1. CASE Run(w) \/ Answer(w) \/ Recover(w) \/ Replay(w) \/ CheckParked(w)
    BY <1>1, <2>1 DEF Run, Answer, Recover, Replay, CheckParked, storeVars, peopleVars
  <2>2. CASE Acquire(w)
    <3>1. UNCHANGED <<susp, announced>>
      BY <2>2 DEF Acquire, storeVars
    <3>2. overrun => overrun'
      BY <2>2 DEF Acquire
    <3> QED
      BY <1>1, <3>1, <3>2
  <2>3. CASE Crash(w) \/ Refuse(w) \/ ReadForAnswer(w) \/ ReadForRecovery(w)
    BY <1>1, <2>3 DEF Crash, Refuse, ReadForAnswer, ReadForRecovery, storeVars, peopleVars
  <2>4. CASE Gate(w) \/ StartEffect(w) \/ FinishEffect(w) \/ EndRound(w) \/ AskModel(w)
    <3>1. UNCHANGED <<susp, announced, overrun>>
      BY <2>4 DEF Gate, StartEffect, FinishEffect, EndRound, AskModel, storeVars, peopleVars
    <3> QED
      BY <1>1, <3>1
  <2>5. CASE WriteAnswer(w)
    <3>1. at[w] = "write" /\ Fence(w) /\ susp' = seen[w] /\ UNCHANGED <<announced, overrun>>
      BY <2>5 DEF WriteAnswer, PutAnswer, peopleVars
    <3>2. at[w] \in Inside
      BY <3>1 DEF Inside, Writing
    <3>3. Holds(w)
      BY <2>0, <3>1, <3>2, FenceIsLast DEF SuspensionInv, Holders
    <3>4. seen[w] = [susp EXCEPT !.answers[job[w].call] = job[w].answer]
      BY <3>1, <3>3 DEF Holds
    <3>5. susp \in Suspensions
      BY DEF SuspensionInv, Shaped
    <3>6. susp'.state = susp.state /\ susp'.calls = susp.calls
      BY <3>1, <3>4, <3>5 DEF Suspensions
    <3> QED
      BY <3>1, <3>6 DEF AnnouncedAnswerable, Active
  <2>6. CASE MarkResuming(w)
    <3>1. /\ at[w] = "mark" /\ Fence(w) /\ UNCHANGED <<announced, overrun>>
          /\ susp' = [seen[w] EXCEPT !.state = "resuming"]
      BY <2>6 DEF MarkResuming
    <3>2. at[w] \in Inside
      BY <3>1 DEF Inside, Writing
    <3>3. susp = seen[w]
      BY <2>0, <3>1, <3>2, FenceIsLast DEF SuspensionInv, Holders, Holds
    <3>4. susp'.state = "resuming" /\ susp'.calls = susp.calls
      <4>1. susp \in Suspensions
        BY DEF SuspensionInv, Shaped
      <4> QED
        BY <3>1, <3>3, <4>1 DEF Suspensions
    <3> QED
      BY <3>1, <3>4 DEF AnnouncedAnswerable, Active
  <2>7. CASE Park(w)
    <3>0. at[w] \in Finishing /\ UNCHANGED overrun
      BY <2>7 DEF Park, Finishing
    <3>1. CASE ~Fence(w)
      BY <1>1, <2>7, <3>0, <3>1 DEF Park
    <3>2. CASE overrun
      BY <3>0, <3>2 DEF AnnouncedAnswerable
    <3>3. CASE Fence(w) /\ ~overrun
      <4>1. /\ susp' = [state |-> "waiting", calls |-> held[w], answers |-> NoAnswers,
                        turn |-> turn[w]]
            /\ announced' = (announced \ Resumed(w)) \cup held[w]
        BY <2>7, <3>3 DEF Park, PutPark
      <4>2. announced \subseteq Resumed(w)
        <5>1. CASE Active(seen[w]) /\ susp.calls = seen[w].calls
          BY <3>3, <5>1 DEF AnnouncedAnswerable, Resumed
        <5>2. CASE ~Active(susp)
          BY <3>3, <5>2 DEF AnnouncedAnswerable
        <5> QED
          BY <3>0, <3>3, <5>1, <5>2, HolderKnowsPark
      <4>3. announced' = held[w]
        BY <4>1, <4>2
      <4>4. susp'.state = "waiting" /\ susp'.calls = held[w]
        BY <4>1
      <4> QED
        BY <4>3, <4>4 DEF AnnouncedAnswerable, Active
    <3> QED
      BY <3>1, <3>2, <3>3
  <2>8. CASE Complete(w)
    <3>0. at[w] \in Finishing /\ UNCHANGED overrun /\ Fence(w)
      BY <2>8 DEF Complete, Finishing
    <3>1. announced' = announced \ Resumed(w)
      BY <2>8 DEF Complete
    <3>2. Active(seen[w])
      BY <2>8 DEF Complete, SuspensionInv, Copy
    <3>3. CASE overrun
      BY <3>0, <3>3 DEF AnnouncedAnswerable
    <3>4. CASE ~overrun
      <4>1. susp.calls = seen[w].calls
        BY <3>0, <3>2, <3>4, HolderKnowsPark
      <4>2. announced' = {}
        BY <3>1, <3>2, <3>4, <4>1 DEF AnnouncedAnswerable, Resumed
      <4> QED
        BY <4>2 DEF AnnouncedAnswerable
    <3> QED
      BY <3>3, <3>4
  <2> QED
    BY <1>2, <2>1, <2>2, <2>3, <2>4, <2>5, <2>6, <2>7, <2>8 DEF WorkerStep
<1>3. CASE Expire \/ UNCHANGED vars
  BY <1>1, <1>3 DEF Expire, vars, storeVars, peopleVars
<1>4. (\E w \in Workers : WorkerStep(w)) \/ Expire \/ UNCHANGED vars
  BY DEF Next, WorkerStep
<1> QED
  BY <1>2, <1>3, <1>4

(* A request people still hold can be answered: its call is in the live       *)
(* continuation, so resume finds it, whatever was parked, answered in part,   *)
(* crashed, taken over or recovered meanwhile (Runtime.run, ._park, .resume). *)
THEOREM SuspensionAnnouncedAnswerable == Spec => []AnnouncedAnswerable
<1>1. Init => AnnouncedAnswerable
  BY DEF Init, AnnouncedAnswerable
<1>2. SuspensionInv /\ AnnouncedAnswerable /\ [Next]_vars => AnnouncedAnswerable'
  BY AnnouncedStep
<1> QED
  BY <1>1, <1>2, SuspensionInvariant, PTL DEF Spec

-----------------------------------------------------------------------------
(* What a step may never do *)

(* No parked call begins to execute while an answer for its batch is missing  *)
(* (Runtime.resume): only the worker whose continuation is the live one can    *)
(* start an effect, and it marked that continuation when every call had its    *)
(* answer.                                                                    *)
THEOREM SuspensionNothingBeforeAllDecided == Spec => NothingBeforeAllDecided
<1> DEFINE Step == \A c \in susp.calls :
                      /\ Active(susp) /\ ~overrun
                      /\ effect[c] = "absent" /\ effect'[c] = "running"
                      => \A d \in susp.calls : susp.answers[d] # "none"
<1>1. ASSUME SuspensionInv, Next PROVE Step
  <2> SUFFICES ASSUME NEW c \in susp.calls, Active(susp), ~overrun,
                      effect[c] = "absent", effect'[c] = "running",
                      NEW d \in susp.calls
               PROVE  susp.answers[d] # "none"
    OBVIOUS
  <2>0. Shaped(susp)
    BY <1>1 DEF SuspensionInv
  <2>1. c \in Calls /\ d \in Calls
    BY <2>0 DEF Shaped, Suspensions
  <2>2. effect' # effect
    OBVIOUS
  <2>3. PICK w \in Workers : WorkerStep(w)
    BY <1>1, <2>2 DEF Next, WorkerStep, Expire, storeVars
  <2>4. StartEffect(w) \/ FinishEffect(w)
    <3>1. CASE Run(w) \/ Answer(w) \/ Recover(w) \/ Replay(w) \/ CheckParked(w) \/ Acquire(w)
      BY <2>2, <3>1 DEF Run, Answer, Recover, Replay, CheckParked, Acquire, storeVars
    <3>2. CASE Crash(w) \/ Refuse(w) \/ ReadForAnswer(w) \/ WriteAnswer(w) \/ ReadForRecovery(w)
      BY <2>2, <3>2 DEF Crash, Refuse, ReadForAnswer, WriteAnswer, PutAnswer, ReadForRecovery,
         storeVars
    <3>3. CASE MarkResuming(w) \/ Gate(w) \/ Park(w) \/ Complete(w) \/ EndRound(w) \/ AskModel(w)
      BY <2>2, <3>3 DEF MarkResuming, Gate, Park, Complete, EndRound, AskModel, storeVars
    <3> QED
      BY <2>3, <3>1, <3>2, <3>3 DEF WorkerStep
  <2>5. at[w] \in Finishing /\ Fence(w)
    BY <2>4 DEF StartEffect, FinishEffect, Finishing
  <2>6. susp.state = "resuming"
    BY <1>1, <2>5, HolderKnowsPark
  <2> QED
    BY <2>0, <2>6 DEF Shaped, Undecided
<1>2. SuspensionInv /\ [Next]_vars => [Step]_vars
  BY <1>1
<1> QED
  BY <1>2, SuspensionInvariant, PTL DEF Spec, NothingBeforeAllDecided

(* A recorded answer stays recorded until its call is parked afresh or the    *)
(* continuation completes (Runtime.resume records each answer durably): what  *)
(* the worker past the fence writes is a copy that has every answer the       *)
(* record has.                                                                *)
THEOREM SuspensionAnswersKept == Spec => AnswersKept
<1> DEFINE Step == \A c \in susp.calls :
                      /\ Active(susp) /\ susp.answers[c] # "none" /\ ~overrun
                      /\ Active(susp') /\ ~(susp.state = "resuming" /\ susp'.state = "waiting")
                      => c \in susp'.calls /\ susp'.answers[c] # "none"
<1>1. ASSUME SuspensionInv, Next PROVE Step
  <2> SUFFICES ASSUME NEW c \in susp.calls, Active(susp), susp.answers[c] # "none", ~overrun,
                      Active(susp'), ~(susp.state = "resuming" /\ susp'.state = "waiting")
               PROVE  c \in susp'.calls /\ susp'.answers[c] # "none"
    OBVIOUS
  <2>0. Shaped(susp) /\ Tokens /\ LeaseTyped /\ WorkersTyped
    BY <1>1, TypeParts DEF SuspensionInv
  <2>1. susp \in Suspensions /\ c \in Calls
    BY <2>0 DEF Shaped, Suspensions
  <2>2. CASE UNCHANGED susp
    BY <2>2
  <2>3. ASSUME NEW w \in Workers, WriteAnswer(w) PROVE c \in susp'.calls /\ susp'.answers[c] # "none"
    <3>1. at[w] = "write" /\ Fence(w) /\ susp' = seen[w]
      BY <2>3 DEF WriteAnswer, PutAnswer
    <3>2. at[w] \in Inside
      BY <3>1 DEF Inside, Writing
    <3>3. susp' = [susp EXCEPT !.answers[job[w].call] = job[w].answer]
      BY <1>1, <2>0, <3>1, <3>2, FenceIsLast DEF SuspensionInv, Holders, Holds
    <3>4. job[w].answer # "none"
      BY <2>0 DEF WorkersTyped, Jobs, Answers
    <3> QED
      BY <2>1, <3>3, <3>4 DEF Suspensions
  <2>4. ASSUME NEW w \in Workers, MarkResuming(w)
        PROVE  c \in susp'.calls /\ susp'.answers[c] # "none"
    <3>1. at[w] = "mark" /\ Fence(w) /\ susp' = [seen[w] EXCEPT !.state = "resuming"]
      BY <2>4 DEF MarkResuming
    <3>2. at[w] \in Inside
      BY <3>1 DEF Inside, Writing
    <3>3. susp = seen[w]
      BY <1>1, <2>0, <3>1, <3>2, FenceIsLast DEF SuspensionInv, Holders, Holds
    <3> QED
      BY <2>1, <3>1, <3>3 DEF Suspensions
  <2>5. ASSUME NEW w \in Workers, Park(w), ~UNCHANGED susp PROVE FALSE
    <3>1. at[w] \in Finishing /\ Fence(w)
      BY <2>5 DEF Park, Finishing
    <3>2. susp' = [state |-> "waiting", calls |-> held[w], answers |-> NoAnswers, turn |-> turn[w]]
      BY <2>5, <3>1 DEF Park, PutPark
    <3>3. susp.state = "resuming"
      BY <1>1, <3>1, HolderKnowsPark
    <3> QED
      BY <3>2, <3>3
  <2>6. ASSUME NEW w \in Workers, Complete(w) PROVE FALSE
    <3>1. susp' = [seen[w] EXCEPT !.state = "completed"]
      BY <2>6 DEF Complete
    <3>2. seen[w] \in Suspensions
      BY <2>0 DEF WorkersTyped
    <3>3. susp'.state = "completed"
      BY <3>1, <3>2 DEF Suspensions
    <3> QED
      BY <3>3 DEF Active
  <2>7. \/ UNCHANGED susp
        \/ \E w \in Workers : WriteAnswer(w) \/ MarkResuming(w) \/ Complete(w) \/ Park(w)
    <3>1. CASE Expire
      BY <3>1 DEF Expire, storeVars
    <3>2. ASSUME NEW w \in Workers, WorkerStep(w)
          PROVE  UNCHANGED susp \/ WriteAnswer(w) \/ MarkResuming(w) \/ Complete(w) \/ Park(w)
      <4>1. CASE Run(w) \/ Answer(w) \/ Recover(w) \/ Replay(w) \/ CheckParked(w) \/ Acquire(w)
        BY <4>1 DEF Run, Answer, Recover, Replay, CheckParked, Acquire, storeVars
      <4>2. CASE Crash(w) \/ Refuse(w) \/ ReadForAnswer(w) \/ ReadForRecovery(w)
        BY <4>2 DEF Crash, Refuse, ReadForAnswer, ReadForRecovery, storeVars
      <4>3. CASE Gate(w) \/ StartEffect(w) \/ FinishEffect(w) \/ EndRound(w) \/ AskModel(w)
        BY <4>3 DEF Gate, StartEffect, FinishEffect, EndRound, AskModel, storeVars
      <4> QED
        BY <3>2, <4>1, <4>2, <4>3 DEF WorkerStep
    <3> QED
      BY <1>1, <3>1, <3>2 DEF Next, WorkerStep
  <2> QED
    BY <2>2, <2>3, <2>4, <2>5, <2>6, <2>7
<1>2. SuspensionInv /\ [Next]_vars => [Step]_vars
  BY <1>1
<1> QED
  BY <1>2, SuspensionInvariant, PTL DEF Spec, AnswersKept

=============================================================================
