---------------------------- MODULE PostgresLedger ----------------------------
(***************************************************************************)
(* The PostgreSQL store, statement by statement, for one branch and one    *)
(* effect key.  A write is a READ COMMITTED transaction of two statements: *)
(* _fence selects the lease token without a lock, then the write's own     *)
(* statement runs and commits.  acquire and release are one statement.     *)
(* The workers are attempts that retry unfinished work (retry_running).    *)
(***************************************************************************)
EXTENDS Integers

CONSTANTS
    Workers,
    NoWorker,
    MaxToken,     \* bound on the tokens issued
    MaxVersion    \* bound on the version of the row

ASSUME PostgresConstants ==
    /\ NoWorker \notin Workers
    /\ MaxToken \in Nat
    /\ MaxVersion \in Nat

VARIABLES
    row,      \* the ledger_step row: its status, version and the author of its result
    lease,    \* the ledger_branch_lease row
    tok,      \* tok[w], the worker's fencing token, 0 before it has one
    at,       \* at[w], where the worker is in its call
    txn,      \* whether w is inside a transaction whose fence has passed
    late      \* how many writes of w landed after its token went stale

vars == <<row, lease, tok, at, txn, late>>

(* The writes of the store that a call makes. *)
Writes == {"forget", "start", "finish", "drop"}

(* Types; a transaction is open only within a write, and only a settled row *)
(* has an author.                                                           *)
TypeOK ==
    /\ row \in [status : {"absent", "running", "done"}, version : Nat, by : Workers \cup {NoWorker}]
    /\ lease \in [owner : Workers \cup {NoWorker}, token : Nat, live : BOOLEAN]
    /\ tok \in [Workers -> Nat]
    /\ at \in [Workers -> Writes \cup {"idle", "read", "executing", "over"}]
    /\ txn \in [Workers -> BOOLEAN]
    /\ late \in [Workers -> Nat]
    /\ \A w \in Workers : txn[w] => at[w] \in Writes
    /\ row.by # NoWorker <=> row.status = "done"

Init ==
    /\ row = [status |-> "absent", version |-> 0, by |-> NoWorker]
    /\ lease = [owner |-> NoWorker, token |-> 0, live |-> FALSE]
    /\ tok = [w \in Workers |-> 0]
    /\ at = [w \in Workers |-> "idle"]
    /\ txn = [w \in Workers |-> FALSE]
    /\ late = [w \in Workers |-> 0]

-----------------------------------------------------------------------------
(* insert ... on conflict do update ... returning token, by a fresh owner *)
Acquire(w) ==
    /\ at[w] = "idle"
    /\ ~lease.live
    /\ lease.token < MaxToken
    /\ lease' = [owner |-> w, token |-> lease.token + 1, live |-> TRUE]
    /\ tok' = [tok EXCEPT ![w] = lease.token + 1]
    /\ at' = [at EXCEPT ![w] = "read"]
    /\ UNCHANGED <<row, txn, late>>

(* _renew calls acquire for the same owner and drops its answer: the owner     *)
(* extends the lease under its token, and a scope that lost it takes an        *)
(* expired one again, under a token that it never uses.                        *)
Renew(w) ==
    /\ at[w] \notin {"idle", "over"}
    /\ \/ lease.owner = w /\ lease' = [lease EXCEPT !.live = TRUE]
       \/ /\ lease.owner # w /\ ~lease.live
          /\ lease.token < MaxToken
          /\ lease' = [owner |-> w, token |-> lease.token + 1, live |-> TRUE]
    /\ UNCHANGED <<row, tok, at, txn, late>>

(* expires_at passes *)
Expire ==
    /\ lease.live
    /\ lease' = [lease EXCEPT !.live = FALSE]
    /\ UNCHANGED <<row, tok, at, txn, late>>

(* update ... set owner = '', expires_at = to_timestamp(0) where owner = w *)
Release(w) ==
    /\ at[w] = "over"
    /\ lease.owner = w
    /\ lease' = [lease EXCEPT !.owner = NoWorker, !.live = FALSE]
    /\ UNCHANGED <<row, tok, at, txn, late>>

(* The call reads the row and goes on to its first write. *)
Read(w) ==
    /\ at[w] = "read"
    /\ at' = [at EXCEPT ![w] = CASE row.status = "done"    -> "over"
                                 [] row.status = "running" -> "forget"
                                 [] row.status = "absent"  -> "start"]
    /\ UNCHANGED <<row, lease, tok, txn, late>>

(* The handler returns, or signals that nothing has happened. *)
Execute(w) ==
    /\ at[w] = "executing"
    /\ \E next \in {"finish", "drop"} : at' = [at EXCEPT ![w] = next]
    /\ UNCHANGED <<row, lease, tok, txn, late>>

(* Fault: the write skips the fence. *)
FenceSkipped(w) ==
    /\ at[w] \in Writes
    /\ ~txn[w]
    /\ txn' = [txn EXCEPT ![w] = TRUE]
    /\ UNCHANGED <<row, lease, tok, at, late>>

(* select token from ledger_branch_lease: the first statement of a write *)
FencePasses(w) ==
    /\ at[w] \in Writes
    /\ ~txn[w]
    /\ tok[w] >= lease.token
    /\ txn' = [txn EXCEPT ![w] = TRUE]
    /\ UNCHANGED <<row, lease, tok, at, late>>

(* Fenced is raised and ends the attempt. *)
Fenced(w) ==
    /\ at[w] \in Writes
    /\ ~txn[w]
    /\ tok[w] < lease.token
    /\ at' = [at EXCEPT ![w] = "over"]
    /\ UNCHANGED <<row, lease, tok, txn, late>>

(* Fault: the transaction stays open, and its fence counts for the next call. *)
CommitKeepsTransaction(w, next) ==
    /\ at' = [at EXCEPT ![w] = next]
    /\ late' = [late EXCEPT ![w] = IF tok[w] < lease.token /\ row' # row THEN @ + 1 ELSE @]
    /\ UNCHANGED <<txn, lease, tok>>

(* The write's own statement commits.  It changes the row or matches none. *)
Commit(w, next) ==
    /\ txn' = [txn EXCEPT ![w] = FALSE]
    /\ at' = [at EXCEPT ![w] = next]
    /\ late' = [late EXCEPT ![w] = IF tok[w] < lease.token /\ row' # row THEN @ + 1 ELSE @]
    /\ UNCHANGED <<lease, tok>>

Moved(status, by) == [status |-> status, version |-> row.version + 1, by |-> by]

(* update ... set status = 'absent' where status = 'running' *)
ForgetStatement(w) ==
    /\ at[w] \in {"forget", "drop"} /\ txn[w]
    /\ row.version < MaxVersion
    /\ row' = IF row.status = "running" THEN Moved("absent", NoWorker) ELSE row
    /\ Commit(w, IF at[w] = "forget" THEN "start" ELSE "over")

(* insert ... on conflict do update ... where status in ('absent', 'ready') *)
StartStatement(w) ==
    /\ at[w] = "start" /\ txn[w]
    /\ row.version < MaxVersion
    /\ IF row.status = "absent"
         THEN row' = Moved("running", NoWorker) /\ Commit(w, "executing")
         ELSE row' = row /\ Commit(w, "over")                 \* Indeterminate

(* Fault: the update does not ask for status = 'running'. *)
FinishAnyStatus(w) ==
    /\ at[w] = "finish" /\ txn[w]
    /\ row.version < MaxVersion
    /\ row' = Moved("done", w)
    /\ Commit(w, "over")

(* update ... set status = 'done' where status = 'running'; if no row matched *)
(* it is a replay or an EffectConflict, and either way nothing changes.       *)
FinishStatement(w) ==
    /\ at[w] = "finish" /\ txn[w]
    /\ row.version < MaxVersion
    /\ row' = IF row.status = "running" THEN Moved("done", w) ELSE row
    /\ Commit(w, "over")

Next ==
    \/ \E w \in Workers :
         \/ Acquire(w) \/ Renew(w) \/ Release(w) \/ Read(w) \/ Execute(w)
         \/ FencePasses(w) \/ Fenced(w)
         \/ ForgetStatement(w) \/ StartStatement(w) \/ FinishStatement(w)
    \/ Expire

Spec == Init /\ [][Next]_vars

-----------------------------------------------------------------------------
(* Properties *)

(* A settled result is never replaced or removed, even by the write of a     *)
(* stale worker that slipped past the fence.                                 *)
SettledStands == [][row.status = "done" => row' = row]_vars

(* A replaced worker gets at most one more write through: the one whose      *)
(* transaction had passed the fence when the lease was taken over.           *)
OneLateWrite == \A w \in Workers : late[w] <= 1

(* test_store_conformance, on the forget of a stale worker: "Unfenced, that  *)
(* deletes the running intent of the worker now executing that step".        *)
ExecutingIntentKept ==
    \A w \in Workers : at[w] = "executing" /\ tok[w] = lease.token => row.status # "absent"

=============================================================================
