----------------------------- MODULE Conversation -----------------------------
(***************************************************************************)
(* One conversation's append-only transcript and the attempts that write   *)
(* to it (semora.transcript, MemoryTranscript, and the transcript side of  *)
(* AgentRuntime._attempt).  Branches have leases of their own but share    *)
(* the conversation's rows, and no transcript write is fenced.             *)
(*                                                                         *)
(* entry_id hashes a message together with its parent's id, so an entry's  *)
(* uuid stands for its whole chain: it is the sequence of the messages     *)
(* from the first one to its own, and <<>> is Python's None.  Each await   *)
(* on the transcript is a boundary between two actions.                    *)
(***************************************************************************)
EXTENDS Integers, Sequences

CONSTANTS
    Attempts,    \* lease scopes, each used once
    Branches,
    NoAttempt,
    NoBranch,
    Messages,    \* message bodies without their volatile fields
    MaxLength,   \* bound on the messages of a history
    MaxRows      \* bound on the rows of the transcript

ASSUME ConversationConstants ==
    /\ NoAttempt \notin Attempts
    /\ NoBranch \notin Branches
    /\ MaxLength \in Nat
    /\ MaxRows \in Nat

VARIABLES
    rows,      \* the entries and leaf markers, in arrival order
    branch,    \* branch[w], the branch the attempt works on
    record,    \* record[b], the branch's run record
    owner,     \* owner[b], the attempt with the highest token of the branch
    held,      \* held[b], the owner's lease is live
    at,        \* at[w], the attempt's control point
    msgs,      \* msgs[w], Branch.messages, and with it the writer's position
    todo,      \* todo[w], messages of the current append not recorded yet
    next,      \* next[w], where the attempt goes when they are
    unfinished \* unfinished[b], the attempt that opened the branch last, until it closes

leaseVars == <<owner, held>>
vars      == <<rows, branch, record, leaseVars, at, msgs, todo, next, unfinished>>

Histories == UNION {[1..n -> Messages] : n \in 0..MaxLength}

Positions(type) == {n \in DOMAIN rows : rows[n].type = type}

(* The ids of the entries that are in the transcript. *)
Chained == {rows[n].uuid : n \in Positions("message")}

Rows == [type : {"message"}, uuid : Histories] \cup [type : {"leaf"}, leaf : Histories]

(* Types, and the writer's position is one that readers can find. *)
TypeOK ==
    /\ rows \in Seq(Rows) /\ Len(rows) <= MaxRows
    /\ branch \in [Attempts -> Branches \cup {NoBranch}]
    /\ record \in [Branches -> [started : BOOLEAN, ended : BOOLEAN]]
    /\ owner \in [Branches -> Attempts \cup {NoAttempt}]
    /\ held \in [Branches -> BOOLEAN]
    /\ at \in [Attempts -> {"new", "read", "opened", "history", "append", "mark",
                            "drive", "ask", "settle", "close", "over"}]
    /\ msgs \in [Attempts -> Histories]
    /\ todo \in [Attempts -> Histories]
    /\ next \in [Attempts -> {"drive", "ask", "settle", "close"}]
    /\ unfinished \in [Branches -> Attempts \cup {NoAttempt}]
    /\ \A w \in Attempts : msgs[w] \in Chained \cup {<<>>}

Init ==
    /\ rows = <<>>
    /\ branch = [w \in Attempts |-> NoBranch]
    /\ record = [b \in Branches |-> [started |-> FALSE, ended |-> FALSE]]
    /\ owner = [b \in Branches |-> NoAttempt]
    /\ held = [b \in Branches |-> FALSE]
    /\ at = [w \in Attempts |-> "new"]
    /\ msgs = [w \in Attempts |-> <<>>]
    /\ todo = [w \in Attempts |-> <<>>]
    /\ next = [w \in Attempts |-> "drive"]
    /\ unfinished = [b \in Branches |-> NoAttempt]

-----------------------------------------------------------------------------
(* Reading the transcript *)

Latest(S) == CHOOSE n \in S : \A m \in S : m <= n

(* The walk from a tip to its ancestors, as far as they are there. *)
Chain(tip) ==
    LET missing == {n \in 1..Len(tip) : SubSeq(tip, 1, n) \notin Chained}
    IN  IF missing = {} THEN tip ELSE SubSeq(tip, Latest(missing) + 1, Len(tip))

(* The latest leaf marker selects the tip unless newer entries exist. *)
ActiveBranch ==
    LET marks == Positions("leaf")
        grown == {n \in Positions("message") : \A m \in marks : m < n}
    IN  IF grown # {} THEN Chain(rows[Latest(grown)].uuid)
        ELSE IF marks # {} THEN Chain(rows[Latest(marks)].leaf)
        ELSE <<>>

(* AgentRuntime.state, of a branch with no live continuation. *)
State(b) ==
    IF ~record[b].started THEN "fresh"
    ELSE IF record[b].ended THEN "completed"
    ELSE "interrupted"

-----------------------------------------------------------------------------

Goto(w, p) == at' = [at EXCEPT ![w] = p]

Appended(row) == Len(rows) < MaxRows /\ rows' = Append(rows, row)

Gone(w) ==
    /\ Goto(w, "over")
    /\ branch' = [branch EXCEPT ![w] = NoBranch]
    /\ msgs' = [msgs EXCEPT ![w] = <<>>]
    /\ todo' = [todo EXCEPT ![w] = <<>>]
    /\ next' = [next EXCEPT ![w] = "drive"]

(* The attempt leaves its lease scope and releases what it still owns. *)
Leave(w) ==
    /\ Gone(w)
    /\ held' = [b \in Branches |-> held[b] /\ owner[b] # w]
    /\ UNCHANGED owner

Begin(w) ==
    /\ at[w] = "new"
    /\ \E b \in Branches :
         /\ ~held[b]
         /\ owner' = [owner EXCEPT ![b] = w]
         /\ held' = [held EXCEPT ![b] = TRUE]
         /\ branch' = [branch EXCEPT ![w] = b]
    /\ Goto(w, "read")
    /\ UNCHANGED <<rows, record, msgs, todo, next, unfinished>>

(* The TTL passes with no renewal: the attempt goes on without knowing. *)
Lapse(b) ==
    /\ held[b]
    /\ held' = [held EXCEPT ![b] = FALSE]
    /\ UNCHANGED <<rows, branch, record, owner, at, msgs, todo, next, unfinished>>

(* The process dies, or an exception of the agent ends the attempt. *)
Crash(w) ==
    /\ at[w] \notin {"new", "over"}
    /\ \/ Leave(w)
       \/ Gone(w) /\ UNCHANGED leaseVars
    /\ UNCHANGED <<rows, record, unfinished>>

(* Branch.open reads the conversation and continues from its active branch. *)
OpenBranch(w) ==
    /\ at[w] = "read"
    /\ msgs' = [msgs EXCEPT ![w] = ActiveBranch]
    /\ Goto(w, "opened")
    /\ UNCHANGED <<rows, branch, record, leaseVars, todo, next, unfinished>>

(* TranscriptWriter.opened merges started_at into the run record. *)
Opened(w) ==
    /\ at[w] = "opened"
    /\ record' = [record EXCEPT ![branch[w]].started = TRUE]
    /\ unfinished' = [unfinished EXCEPT ![branch[w]] = w]
    /\ \E p \in {"history", "drive"} : Goto(w, p)      \* is there a message_history?
    /\ UNCHANGED <<rows, branch, leaseVars, msgs, todo, next>>

-----------------------------------------------------------------------------
(* Writing to the transcript *)

Common(h, desired) ==
    Latest({n \in 0..Len(h) : n <= Len(desired) /\ SubSeq(h, 1, n) = SubSeq(desired, 1, n)})

(* What is left to record, and where the attempt goes when nothing is. *)
Recording(w, messages, p) ==
    /\ todo' = [todo EXCEPT ![w] = messages]
    /\ next' = [next EXCEPT ![w] = p]
    /\ Goto(w, IF messages = <<>> THEN p ELSE "append")

(* Branch.replace: rewind to the common prefix, if the branch is longer, and *)
(* append the rest.                                                          *)
Replace(w, desired, p) ==
    LET n == Common(msgs[w], desired) IN
    /\ IF n < Len(msgs[w]) THEN Appended([type |-> "leaf", leaf |-> SubSeq(msgs[w], 1, n)])
                           ELSE UNCHANGED rows
    /\ msgs' = [msgs EXCEPT ![w] = SubSeq(@, 1, n)]
    /\ Recording(w, SubSeq(desired, n + 1, Len(desired)), p)

(* Fault: the attempt goes on from its history without recording it. *)
TakeHistoryUnrecorded(w) ==
    /\ at[w] = "history"
    /\ msgs' \in {[msgs EXCEPT ![w] = h] : h \in Histories}
    /\ Goto(w, "drive")
    /\ UNCHANGED <<rows, branch, record, leaseVars, todo, next, unfinished>>

(* An attempt that was given a history (recover, fork, a resumed park, or the *)
(* caller's own) first moves the branch to it.                                *)
TakeHistory(w) ==
    /\ at[w] = "history"
    /\ \E h \in Histories : Replace(w, h, "drive")
    /\ UNCHANGED <<branch, record, leaseVars, unfinished>>

(* The message is recorded and the writer moves to its entry. *)
Moved(w) ==
    /\ msgs' = [msgs EXCEPT ![w] = Append(@, Head(todo[w]))]
    /\ Recording(w, Tail(todo[w]), next[w])

Entry(w) == Append(msgs[w], Head(todo[w]))

(* Fault: a duplicate moves the writer, and no reader learns of it. *)
RecordWithoutMark(w) ==
    /\ at[w] = "append"
    /\ IF Entry(w) \in Chained THEN UNCHANGED rows
                               ELSE Appended([type |-> "message", uuid |-> Entry(w)])
    /\ Moved(w)
    /\ UNCHANGED <<branch, record, leaseVars, unfinished>>

(* TranscriptWriter.record: an entry the conversation already holds is not    *)
(* appended again, and a leaf marker follows instead, in a call of its own.   *)
Record(w) ==
    /\ at[w] = "append"
    /\ IF Entry(w) \in Chained
         THEN Goto(w, "mark") /\ UNCHANGED <<rows, msgs, todo, next>>
         ELSE Appended([type |-> "message", uuid |-> Entry(w)]) /\ Moved(w)
    /\ UNCHANGED <<branch, record, leaseVars, unfinished>>

MarkLeaf(w) ==
    /\ at[w] = "mark"
    /\ Appended([type |-> "leaf", leaf |-> Entry(w)])
    /\ Moved(w)
    /\ UNCHANGED <<branch, record, leaseVars, unfinished>>

(* The boundary records a request before it is sent and the response after    *)
(* its round.                                                                 *)
RecordMessage(w) ==
    /\ at[w] \in {"drive", "settle"}
    /\ Len(msgs[w]) < MaxLength
    /\ \E m \in Messages : Recording(w, <<m>>, IF at[w] = "drive" THEN "ask" ELSE "drive")
    /\ UNCHANGED <<rows, branch, record, leaseVars, msgs, unfinished>>

(* Between the two the ledger is written, and a stale attempt is Fenced. *)
AskModel(w) ==
    /\ at[w] = "ask"
    /\ IF owner[branch[w]] = w
         THEN Goto(w, "settle") /\ UNCHANGED <<leaseVars, branch, msgs, todo, next>>
         ELSE Leave(w)
    /\ UNCHANGED <<rows, record, unfinished>>

(* The agent ends, at any of its nodes, with the messages it ends with. *)
Settle(w) ==
    /\ at[w] \in {"drive", "settle"}
    /\ \E h \in Histories : Replace(w, h, "close")
    /\ UNCHANGED <<branch, record, leaseVars, unfinished>>

(* TranscriptWriter.closed; an attempt that parks returns before it. *)
Close(w) ==
    /\ at[w] = "close"
    /\ \/ record' = [record EXCEPT ![branch[w]].ended = TRUE]
       \/ UNCHANGED record
    /\ unfinished' = [unfinished EXCEPT ![branch[w]] = IF @ = w THEN NoAttempt ELSE @]
    /\ Leave(w)
    /\ UNCHANGED rows

Next ==
    \/ \E w \in Attempts :
         \/ Begin(w) \/ Crash(w) \/ OpenBranch(w) \/ Opened(w) \/ TakeHistory(w)
         \/ Record(w) \/ MarkLeaf(w)
         \/ RecordMessage(w) \/ AskModel(w) \/ Settle(w) \/ Close(w)
    \/ \E b \in Branches : Lapse(b)

Spec == Init /\ [][Next]_vars

-----------------------------------------------------------------------------
(* Properties *)

(* Whatever other attempts write in between, each move of a writer - opening, *)
(* rewinding, recording, replaying a message the conversation holds already - *)
(* leaves every reader at the writer's position, and readers only move so     *)
(* (CHANGELOG: "the writer and every reader agree on where the conversation   *)
(* is").                                                                      *)
Moves(w) == at'[w] # "over" /\ msgs'[w] # msgs[w]

ReadersFollowWriter ==
    [][/\ \A w \in Attempts : Moves(w) => ActiveBranch' = msgs'[w]
       /\ ActiveBranch' # ActiveBranch =>
            \E w \in Attempts : at'[w] # "over" /\ ActiveBranch' = msgs'[w]]_vars

(* No writer, stale or of another branch, ever leaves an entry without its   *)
(* ancestors: each entry reads back as the whole history it was recorded     *)
(* with, so that fork finds it (messages_at).                                *)
ChainsWhole == \A uuid \in Chained : Chain(uuid) = uuid

(* AgentRuntime.state: "completed (ended), or interrupted (an open round - a *)
(* crash, or a run another worker is still driving ...)".                    *)
OpenRunIsInterrupted ==
    \A b \in Branches : unfinished[b] # NoAttempt => State(b) = "interrupted"

=============================================================================
