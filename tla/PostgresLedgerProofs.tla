------------------------- MODULE PostgresLedgerProofs -------------------------
(***************************************************************************)
(* What the statements of the PostgreSQL store guarantee although its      *)
(* fence is a statement of its own, for any number of workers, tokens and  *)
(* versions.                                                               *)
(***************************************************************************)
EXTENDS PostgresLedger, TLAPS

-----------------------------------------------------------------------------
(* Type correctness *)

(* The rows of ledger_step; the author is a history of the model's own. *)
Rows == [status : {"absent", "running", "done"}, version : Nat, by : Workers \cup {NoWorker}]

(* A row that a statement moves is a row, and its author is that of a result. *)
LEMMA MovedTyped ==
    ASSUME TypeOK
    PROVE  /\ \A s \in {"absent", "running"} :
                /\ Moved(s, NoWorker) \in Rows
                /\ Moved(s, NoWorker).by = NoWorker
                /\ Moved(s, NoWorker).status # "done"
           /\ \A w \in Workers :
                /\ Moved("done", w) \in Rows
                /\ Moved("done", w).by # NoWorker
                /\ Moved("done", w).status = "done"
           /\ row \in Rows
           /\ row.by # NoWorker <=> row.status = "done"
  BY PostgresConstants DEF Moved, TypeOK, Rows

(* The commit of a well-typed row leaves a well-typed state. *)
LEMMA CommitTyped ==
    ASSUME TypeOK, NEW w \in Workers, NEW next \in {"start", "executing", "over"},
           Commit(w, next), row' \in Rows, row'.by # NoWorker <=> row'.status = "done"
    PROVE  TypeOK'
  <1>1. late' \in [Workers -> Nat]
    BY DEF Commit, TypeOK
  <1>2. at' \in [Workers -> Writes \cup {"idle", "read", "executing", "over"}]
    BY DEF Commit, TypeOK, Writes
  <1>3. txn' \in [Workers -> BOOLEAN] /\ \A v \in Workers : txn'[v] => at'[v] \in Writes
    BY DEF Commit, TypeOK
  <1> QED
    BY <1>1, <1>2, <1>3 DEF Commit, TypeOK, Rows

(* Every reachable row, lease and transaction is well typed: a transaction is *)
(* open only within a write, and only a settled row has an author.            *)
THEOREM PostgresTypeCorrect == Spec => []TypeOK
  <1>1. Init => TypeOK
    BY PostgresConstants DEF Init, TypeOK, Writes
  <1>2. TypeOK /\ [Next]_vars => TypeOK'
    <2> SUFFICES ASSUME TypeOK, [Next]_vars PROVE TypeOK'
      OBVIOUS
    <2>1. ASSUME NEW w \in Workers, Acquire(w)
          PROVE  TypeOK'
      BY <2>1, PostgresConstants DEF Acquire, TypeOK, Writes
    <2>2. ASSUME NEW w \in Workers, Release(w)
          PROVE  TypeOK'
      BY <2>2 DEF Release, TypeOK, Writes
    <2>3. ASSUME NEW w \in Workers, Read(w)
          PROVE  TypeOK'
      BY <2>3 DEF Read, TypeOK, Writes
    <2>4. ASSUME NEW w \in Workers, Execute(w)
          PROVE  TypeOK'
      BY <2>4 DEF Execute, TypeOK, Writes
    <2>5. ASSUME NEW w \in Workers, FencePasses(w)
          PROVE  TypeOK'
      BY <2>5 DEF FencePasses, TypeOK, Writes
    <2>6. ASSUME NEW w \in Workers, Fenced(w)
          PROVE  TypeOK'
      BY <2>6 DEF Fenced, TypeOK, Writes
    <2>7. ASSUME NEW w \in Workers, ForgetStatement(w)
          PROVE  TypeOK'
      BY <2>7, CommitTyped, MovedTyped DEF ForgetStatement
    <2>8. ASSUME NEW w \in Workers, StartStatement(w)
          PROVE  TypeOK'
      BY <2>8, CommitTyped, MovedTyped DEF StartStatement
    <2>9. ASSUME NEW w \in Workers, FinishStatement(w)
          PROVE  TypeOK'
      BY <2>9, CommitTyped, MovedTyped DEF FinishStatement
    <2>10. CASE Expire
      BY <2>10 DEF Expire, TypeOK, Writes
    <2>11. CASE UNCHANGED vars
      BY <2>11 DEF vars, TypeOK
    <2>12. ASSUME NEW w \in Workers, Renew(w)
           PROVE  TypeOK'
      <3>1. UNCHANGED <<row, tok, at, txn, late>>
        BY <2>12 DEF Renew
      <3>2. lease.token \in Nat /\ lease \in [owner : Workers \cup {NoWorker}, token : Nat, live : BOOLEAN]
        BY DEF TypeOK
      <3>3. lease' \in [owner : Workers \cup {NoWorker}, token : Nat, live : BOOLEAN]
        <4>1. CASE lease' = [lease EXCEPT !.live = TRUE]
          BY <3>2, <4>1
        <4>2. CASE lease' = [owner |-> w, token |-> lease.token + 1, live |-> TRUE]
          BY <3>2, <4>2
        <4> QED
          BY <2>12, <4>1, <4>2 DEF Renew
      <3> QED
        BY <3>1, <3>3 DEF TypeOK
    <2> QED
      BY <2>1, <2>2, <2>3, <2>4, <2>5, <2>6, <2>7, <2>8, <2>9, <2>10, <2>11, <2>12 DEF Next
  <1> QED
    BY <1>1, <1>2, PTL DEF Spec

-----------------------------------------------------------------------------
(* Settled rows *)

(* A settled row is final, whoever writes and however late: each statement   *)
(* asks for the status it moves the row from, so no fence is needed for it.  *)
THEOREM PostgresSettledStands == Spec => SettledStands
  <1>1. [Next]_vars => [row.status = "done" => row' = row]_vars
    <2> SUFFICES ASSUME Next, row.status = "done" PROVE row' = row
      OBVIOUS
    <2>1. ASSUME NEW w \in Workers, StartStatement(w)
          PROVE  row' = row
      BY <2>1 DEF StartStatement
    <2>2. ASSUME NEW w \in Workers, ForgetStatement(w) \/ FinishStatement(w)
          PROVE  row' = row
      BY <2>2 DEF ForgetStatement, FinishStatement
    <2> QED
      BY <2>1, <2>2 DEF Next, Acquire, Renew, Release, Read, Execute, FencePasses, Fenced, Expire
  <1> QED
    BY <1>1, PTL DEF Spec, SettledStands

-----------------------------------------------------------------------------
(* Late writes *)

(* A token is never ahead of the lease's, a worker that has not begun wrote   *)
(* nothing, and one that wrote late has left its transaction with a token     *)
(* that will never pass the fence again.                                      *)
LateInv ==
    \A w \in Workers :
        /\ tok[w] <= lease.token
        /\ late[w] <= 1
        /\ at[w] = "idle" => late[w] = 0
        /\ late[w] = 1 => ~txn[w] /\ tok[w] < lease.token

(* The commit of a write counts at most once, because its transaction was open. *)
LEMMA CommitKeepsLateInv ==
    ASSUME TypeOK, LateInv, NEW w \in Workers, NEW next \in {"start", "executing", "over"},
           txn[w], Commit(w, next)
    PROVE  LateInv'
  <1>1. late[w] = 0
    BY DEF TypeOK, LateInv
  <1>2. ASSUME NEW v \in Workers, v # w
        PROVE  /\ tok'[v] = tok[v] /\ late'[v] = late[v]
               /\ at'[v] = at[v] /\ txn'[v] = txn[v]
    BY <1>2 DEF Commit, TypeOK
  <1>3. /\ tok'[w] = tok[w] /\ at'[w] = next /\ txn'[w] = FALSE
        /\ late'[w] = 0 \/ (late'[w] = 1 /\ tok[w] < lease.token)
    BY <1>1 DEF Commit, TypeOK
  <1>4. lease' = lease
    BY DEF Commit
  <1> QED
    BY <1>2, <1>3, <1>4 DEF LateInv

(* A replaced worker gets at most one write through: the one whose           *)
(* transaction had passed the fence when the lease was taken over.           *)
THEOREM PostgresOneLateWrite == Spec => []OneLateWrite
  <1>1. Init => LateInv
    <2> SUFFICES ASSUME Init PROVE LateInv
      OBVIOUS
    <2>1. lease.token = 0
      BY DEF Init
    <2>2. ASSUME NEW w \in Workers
          PROVE  tok[w] = 0 /\ late[w] = 0
      BY DEF Init
    <2>3. ASSUME NEW w \in Workers
          PROVE  tok[w] <= lease.token /\ late[w] <= 1 /\ late[w] # 1
      BY <2>1, <2>2
    <2> QED
      BY <2>2, <2>3 DEF LateInv
  <1>2. TypeOK /\ LateInv /\ [Next]_vars => LateInv'
    <2> SUFFICES ASSUME TypeOK, LateInv, [Next]_vars PROVE LateInv'
      OBVIOUS
    <2>1. ASSUME NEW w \in Workers, Acquire(w)
          PROVE  LateInv'
      BY <2>1 DEF Acquire, LateInv, TypeOK
    <2>2. ASSUME NEW w \in Workers, Release(w)
          PROVE  LateInv'
      BY <2>2 DEF Release, LateInv, TypeOK
    <2>3. ASSUME NEW w \in Workers, Read(w)
          PROVE  LateInv'
      BY <2>3 DEF Read, LateInv, TypeOK
    <2>4. ASSUME NEW w \in Workers, Execute(w)
          PROVE  LateInv'
      BY <2>4 DEF Execute, LateInv, TypeOK
    <2>5. ASSUME NEW w \in Workers, FencePasses(w)
          PROVE  LateInv'
      BY <2>5 DEF FencePasses, LateInv, TypeOK
    <2>6. ASSUME NEW w \in Workers, Fenced(w)
          PROVE  LateInv'
      BY <2>6 DEF Fenced, LateInv, TypeOK
    <2>7. ASSUME NEW w \in Workers, ForgetStatement(w)
          PROVE  LateInv'
      BY <2>7, CommitKeepsLateInv DEF ForgetStatement
    <2>8. ASSUME NEW w \in Workers, StartStatement(w)
          PROVE  LateInv'
      BY <2>8, CommitKeepsLateInv DEF StartStatement
    <2>9. ASSUME NEW w \in Workers, FinishStatement(w)
          PROVE  LateInv'
      BY <2>9, CommitKeepsLateInv DEF FinishStatement
    <2>10. CASE Expire
      BY <2>10 DEF Expire, LateInv, TypeOK
    <2>11. CASE UNCHANGED vars
      BY <2>11 DEF vars, LateInv
    <2>12. ASSUME NEW w \in Workers, Renew(w)
           PROVE  LateInv'
      BY <2>12 DEF Renew, LateInv, TypeOK
    <2> QED
      BY <2>1, <2>2, <2>3, <2>4, <2>5, <2>6, <2>7, <2>8, <2>9, <2>10, <2>11, <2>12 DEF Next
  <1>3. LateInv => OneLateWrite
    BY DEF LateInv, OneLateWrite
  <1> QED
    BY <1>1, <1>2, <1>3, PostgresTypeCorrect, PTL DEF Spec

=============================================================================
