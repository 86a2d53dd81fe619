------------------------------ MODULE ForkProofs ------------------------------
(***************************************************************************)
(* What a fork guarantees for any number of forks and runs of the target,  *)
(* any calls, gates and moves of the source.                               *)
(*                                                                         *)
(* A fork drives the journal of EffectJournal, so its invariant is that of *)
(* the journal, with three parts of its own: what a copy holds, what a     *)
(* call that was decided may still do, and what was inherited.             *)
(***************************************************************************)
EXTENDS Fork, EffectJournalProofs

(* A copy that is to be settled holds a finished record of the source, and    *)
(* was started in the target.                                                 *)
Copies ==
    \A f \in Attempts, c \in ToolKeys : copy[f][c] = "started" =>
        held[f][c].status = "done" /\ c \in inherited

(* A bypassed gate leaves a settled record behind, which stays settled, so    *)
(* the journal's own read, an await later, still finds it.                    *)
Gates ==
    /\ \A a \in Attempts, c \in ToolKeys :
         gated[a][c] = "bypassed" => entries[c].status = "done"
    /\ UngatedNeverRuns

(* An inherited call is in nobody's hands, and its record invites no start.   *)
Inherited(c) ==
    /\ ran[c] = 0
    /\ entries[c].status \in {"running", "done"}
    /\ \A a \in Attempts : pc[a][c] \notin InFlight

InheritedInv ==
    ~retry => \A c \in ToolKeys : Intent(c) /\ (c \in inherited => Inherited(c))

ForkInv == ForkTypeOK /\ JournalInv /\ Copies

-----------------------------------------------------------------------------
(* Steps of a fork as steps of the journal *)

(* What a fork does to the journal's state: a step of a lease scope, of a     *)
(* call or of a late provider, or one of the copy, or one at a gate.          *)
CopyMove(f) ==
    /\ [LedgerNext]_ledgerVars
    /\ UNCHANGED <<leaseVars, tok, lapsed, callVars, worldVars, verdict, retry, controlled>>
    /\ UNCHANGED phase \/ (phase[f] = "open" /\ Raise(f))

GateMove(a, c) ==
    /\ UNCHANGED <<ledgerVars, scopeVars, result, shown, worldVars, verdict, retry, controlled>>
    /\ UNCHANGED pc \/ (pc[a][c] = "read" /\ Goto(a, c, "end"))

(* A fork's copy of a call is one call of the store, or none, and touches *)
(* nothing else of the journal than the forking scope itself.             *)
LEMMA CopyStepMoves ==
    ASSUME LedgerConstants, JournalConstants, ForkConstants, ForkInv,
           NEW f \in Attempts, NEW c \in ToolKeys, CopyStep(f, c)
    PROVE  CopyMove(f)
  <1>1. f \in Owners /\ c \in EffectKeys
    BY DEF JournalConstants
  <1>2. CASE CopyRead(f, c)
    BY <1>2 DEF CopyRead, CopyMove, vars, ledgerVars, leaseVars, journalVars, scopeVars
  <1>3. CASE CopyStart(f, c)
    <2>1. phase[f] = "open" /\ (Start(c, tok[f]) \/ UNCHANGED ledgerVars) /\ UNCHANGED journalVars
      BY <1>3 DEF CopyStart, Copying
    <2>2. tok[f] \in Tokens
      BY <1>1, <2>1, IssuedToken DEF ForkInv, JournalInv
    <2>3. [LedgerNext]_ledgerVars
      BY <1>1, <2>1, <2>2 DEF LedgerNext, RecordCalls
    <2> QED
      BY <2>1, <2>3 DEF CopyMove, Start, ledgerVars, leaseVars, journalVars, scopeVars
  <1>4. CASE CopyFinish(f, c)
    <2>1. /\ phase[f] = "open" /\ copy[f][c] = "started"
          /\ FinishEffect(c, held[f][c].value, tok[f])
          /\ UNCHANGED journalVars
      BY <1>4 DEF CopyFinish, Copying
    <2>2. tok[f] \in Tokens
      BY <1>1, <2>1, IssuedToken DEF ForkInv, JournalInv
    <2>3. held[f][c] \in SourceRecords /\ held[f][c].status = "done"
      BY <2>1 DEF ForkInv, ForkTypeOK, Copies
    <2>4. held[f][c].value \in Values
      BY <2>3 DEF SourceRecords, Absent, SourceResult, JournalConstants, ForkConstants
    <2>5. [LedgerNext]_ledgerVars
      BY <1>1, <2>1, <2>2, <2>4 DEF LedgerNext, RecordCalls
    <2> QED
      BY <2>1, <2>5 DEF CopyMove, FinishEffect, leaseVars, journalVars, scopeVars
  <1>5. CASE CopyRefused(f, c)
    BY <1>5 DEF CopyRefused, Copying, CopyMove, ledgerVars, leaseVars
  <1> QED
    BY <1>2, <1>3, <1>4, <1>5 DEF CopyStep

(* Every step of a fork, seen by the journal. *)
LEMMA ForkMoves ==
    ASSUME LedgerConstants, JournalConstants, ForkConstants, ForkInv, [ForkNext]_allVars
    PROVE  \/ UNCHANGED vars
           \/ \E o : ScopeMove(o)
           \/ \E a \in Attempts, c \in EffectKeys :
                \/ ProviderAnswersLate(a, c)
                \/ CallStep(a, c) /\ PassedGate(a, c) /\ UNCHANGED forkVars
           \/ \E f \in Attempts, c \in ToolKeys : CopyStep(f, c) /\ CopyMove(f)
           \/ \E a \in Attempts, c \in ToolKeys : DecideTool(a, c) /\ GateMove(a, c)
  <1>1. ASSUME NEW a \in Attempts, NEW c \in ToolKeys, DecideTool(a, c)
        PROVE  GateMove(a, c)
    BY <1>1 DEF DecideTool, GateMove
  <1>2. ASSUME NEW a \in Attempts, BeginRun(a)
        PROVE  ScopeMove(a)
    BY <1>2 DEF BeginRun, ScopeMove, JournalConstants
  <1>3. ASSUME NEW o \in Owners, ScopeStep(o)
        PROVE  ScopeMove(o)
    BY <1>3 DEF ScopeStep, ScopeMove
  <1>4. CASE UNCHANGED allVars
    BY <1>4 DEF allVars
  <1>5. ASSUME NEW f \in Attempts, Place(f)
        PROVE  UNCHANGED vars
    BY <1>5 DEF Place
  <1>6. ASSUME NEW c \in ToolKeys, SourceStep(c)
        PROVE  UNCHANGED vars
    BY <1>6 DEF SourceStep
  <1>7. Lapse => \E o : ScopeMove(o)
    BY DEF ScopeMove
  <1>8. CASE ForkNext
    BY <1>1, <1>2, <1>3, <1>5, <1>6, <1>7, <1>8, CopyStepMoves DEF ForkNext, GatedCall
  <1> QED
    BY <1>4, <1>8

(* Copying keeps the invariant of the journal. *)
LEMMA CopyKeepsJournal ==
    ASSUME LedgerConstants, JournalConstants, JournalInv, NEW f \in Attempts, CopyMove(f)
    PROVE  JournalInv'
  <1>1. /\ TypeOK /\ LedgerTypeOK /\ Scopes /\ Hands
        /\ LedgerTypeOK' /\ f \in Owners
        /\ \A h \in Hosts : h \in Owners
        /\ \A a \in Attempts : a \in Owners
    BY LedgerStepTyped DEF JournalInv, TypeOK, CopyMove, JournalConstants
  <1>2. Quiet
    BY <1>1 DEF CopyMove, Quiet, Raise, TypeOK, leaseVars
  <1>3. TypeOK'
    <2>1. phase' \in [Owners -> {"new", "open", "leaving", "over"}]
      <3>1. phase \in [Owners -> {"new", "open", "leaving", "over"}]
        BY <1>1 DEF TypeOK
      <3>2. phase' = phase \/ phase' = [phase EXCEPT ![f] = "leaving"]
        BY DEF CopyMove, Raise
      <3> QED
        BY <3>1, <3>2
    <2>2. UNCHANGED <<tok, lapsed, callVars, worldVars, verdict, retry, controlled>>
      BY DEF CopyMove
    <2> QED
      BY <1>1, <2>1, <2>2 DEF TypeOK, callVars, worldVars
  <1>4. Scopes'
    BY <1>1, <1>2, QuietKeepsScopes
  <1>5. Hands'
    <2>1. UNCHANGED <<pc, result, verdict>>
      BY DEF CopyMove, callVars
    <2>2. \A o \in Owners : phase'[o] = "new" <=> phase[o] = "new"
      BY <1>2 DEF Quiet
    <2>3. [LedgerNext]_ledgerVars
      BY DEF CopyMove
    <2> QED
      BY <1>1, <2>1, <2>2, <2>3, StoreKeepsHands DEF Hands
  <1> QED
    BY <1>3, <1>4, <1>5 DEF JournalInv

(* A move at a gate, which at most ends a call that has not begun, keeps the *)
(* invariant of the journal.                                                 *)
LEMMA GateKeepsJournal ==
    ASSUME JournalConstants, JournalInv, NEW a \in Attempts, NEW c \in ToolKeys, GateMove(a, c)
    PROVE  JournalInv'
  <1>1. /\ TypeOK /\ Scopes /\ Hands /\ c \in EffectKeys
        /\ UNCHANGED <<ledgerVars, scopeVars, result, shown, worldVars, verdict, retry, controlled>>
    BY DEF JournalInv, JournalConstants, GateMove
  <1>2. /\ pc' \in [Attempts -> [EffectKeys -> ControlPoints]]
        /\ \A b \in Attempts, d \in EffectKeys : pc'[b][d] = pc[b][d] \/ pc'[b][d] = "end"
    <2>1. CASE UNCHANGED pc
      BY <1>1, <2>1 DEF TypeOK
    <2>2. CASE Goto(a, c, "end")
      <3>0. c \in EffectKeys
        BY <1>1
      <3>1. "end" \in ControlPoints
        BY DEF ControlPoints
      <3>2. pc \in [Attempts -> [EffectKeys -> ControlPoints]] /\ pc' = [pc EXCEPT ![a][c] = "end"]
        BY <1>1, <2>2 DEF TypeOK, Goto
      <3>3. /\ pc' \in [Attempts -> [EffectKeys -> ControlPoints]]
            /\ \A b \in Attempts, d \in EffectKeys :
                 pc'[b][d] = IF b = a /\ d = c THEN "end" ELSE pc[b][d]
        BY <3>1, <3>2, <3>0
      <3> QED
        BY <3>3
    <2> QED
      BY <2>1, <2>2 DEF GateMove
  <1>3. TypeOK'
    BY <1>1, <1>2 DEF TypeOK, LedgerTypeOK, ledgerVars, scopeVars, worldVars
  <1>4. Scopes'
    BY <1>1 DEF Scopes, OneWorker, ledgerVars, scopeVars
  <1>5. Hands'
    BY <1>1, <1>2 DEF Hands, ledgerVars, scopeVars
  <1> QED
    BY <1>3, <1>4, <1>5 DEF JournalInv

(* Every step of a fork keeps the journal's invariant, and is a call of the   *)
(* store or leaves it alone.                                                  *)
LEMMA ForkKeepsJournal ==
    ASSUME LedgerConstants, JournalConstants, ForkConstants, ForkInv, [ForkNext]_allVars
    PROVE  JournalInv' /\ [LedgerNext]_ledgerVars
  <1>1. JournalInv
    BY DEF ForkInv
  <1>2. CASE UNCHANGED vars
    BY <1>1, <1>2, JournalStep DEF vars
  <1>3. ASSUME NEW o, ScopeMove(o)
        PROVE  JournalInv' /\ [LedgerNext]_ledgerVars
    BY <1>1, <1>3, ScopeTyped, ScopeKeepsScopes, ScopeKeepsHands, ScopeUsesLedger DEF JournalInv
  <1>4. ASSUME NEW a \in Attempts, NEW c \in EffectKeys, CallStep(a, c) \/ ProviderAnswersLate(a, c)
        PROVE  JournalInv' /\ [LedgerNext]_ledgerVars
    BY <1>1, <1>4, CallTyped, CallQuiet, QuietKeepsScopes, CallKeepsHands, CallUsesLedger DEF JournalInv
  <1>5. ASSUME NEW f \in Attempts, CopyMove(f)
        PROVE  JournalInv' /\ [LedgerNext]_ledgerVars
    BY <1>1, <1>5, CopyKeepsJournal DEF CopyMove
  <1>6. ASSUME NEW a \in Attempts, NEW c \in ToolKeys, GateMove(a, c)
        PROVE  JournalInv' /\ [LedgerNext]_ledgerVars
    BY <1>1, <1>6, GateKeepsJournal DEF GateMove
  <1> QED
    BY <1>2, <1>3, <1>4, <1>5, <1>6, ForkMoves

-----------------------------------------------------------------------------
(* The fork's own state *)

(* A fork's own variables keep their types. *)
LEMMA ForkTyped ==
    ASSUME LedgerConstants, JournalConstants, ForkConstants, ForkInv, [ForkNext]_allVars
    PROVE  ForkTypeOK'
  <1> DEFINE CopyStages == {"todo", "read", "started", "over"}
             Typed   == /\ source' \in [ToolKeys -> SourceRecords]
                        /\ copy' \in [Attempts -> [ToolKeys -> CopyStages]]
                        /\ held' \in [Attempts -> [ToolKeys -> SourceRecords]]
                        /\ copied' \in [Attempts -> SUBSET ToolKeys]
                        /\ placed' \in [Attempts -> BOOLEAN]
                        /\ regate' \in BOOLEAN
                        /\ gated' \in [Attempts -> [ToolKeys -> ToolDecisions \cup {"unasked", "bypassed"}]]
                        /\ inherited' \in SUBSET ToolKeys
  <1>1. /\ ForkTypeOK
        /\ source \in [ToolKeys -> SourceRecords]
        /\ Absent \in SourceRecords
    BY DEF ForkInv, ForkTypeOK, SourceRecords
  <1>3. ASSUME NEW f \in Attempts, NEW c \in ToolKeys, NEW p \in CopyStages, CopyGoto(f, c, p)
        PROVE  copy' \in [Attempts -> [ToolKeys -> CopyStages]]
    BY <1>1, <1>3 DEF CopyGoto, ForkTypeOK
  <1>4. ASSUME NEW f \in Attempts, NEW c \in ToolKeys, NEW r \in SourceRecords,
               held' = [held EXCEPT ![f][c] = r]
        PROVE  held' \in [Attempts -> [ToolKeys -> SourceRecords]]
    BY <1>1, <1>4 DEF ForkTypeOK
  <1>5. ASSUME NEW f \in Attempts, NEW c \in ToolKeys, Copied(f, c)
        PROVE  /\ copy' \in [Attempts -> [ToolKeys -> CopyStages]]
               /\ held' \in [Attempts -> [ToolKeys -> SourceRecords]]
    BY <1>1, <1>3, <1>4, <1>5 DEF Copied
  <1>6. ASSUME NEW f \in Attempts, NEW c \in ToolKeys, CopyRead(f, c)
        PROVE  Typed
    <2>1. copy' \in [Attempts -> [ToolKeys -> CopyStages]] /\ held' \in [Attempts -> [ToolKeys -> SourceRecords]]
      BY <1>1, <1>3, <1>4, <1>5, <1>6 DEF CopyRead
    <2>2. UNCHANGED <<source, copied, placed, regate, gated, inherited>>
      BY <1>6 DEF CopyRead
    <2> QED
      BY <1>1, <2>1, <2>2 DEF ForkTypeOK
  <1>7. ASSUME NEW f \in Attempts, NEW c \in ToolKeys, CopyStart(f, c)
        PROVE  Typed
    <2>1. copy' \in [Attempts -> [ToolKeys -> CopyStages]] /\ held' \in [Attempts -> [ToolKeys -> SourceRecords]]
      BY <1>1, <1>3, <1>5, <1>7 DEF CopyStart, ForkTypeOK
    <2>2. UNCHANGED <<source, copied, placed, regate, gated>>
      BY <1>7 DEF CopyStart
    <2>3. inherited' \in SUBSET ToolKeys
      BY <1>1, <1>7 DEF CopyStart, ForkTypeOK, Copied
    <2> QED
      BY <1>1, <2>1, <2>2, <2>3 DEF ForkTypeOK
  <1>8. ASSUME NEW f \in Attempts, NEW c \in ToolKeys, CopyFinish(f, c)
        PROVE  Typed
    <2>1. copy' \in [Attempts -> [ToolKeys -> CopyStages]] /\ held' \in [Attempts -> [ToolKeys -> SourceRecords]]
      BY <1>5, <1>8 DEF CopyFinish
    <2>2. UNCHANGED <<source, placed, regate, gated, inherited>>
      BY <1>8 DEF CopyFinish
    <2>3. copied' \in [Attempts -> SUBSET ToolKeys]
      BY <1>1, <1>8 DEF CopyFinish, ForkTypeOK
    <2> QED
      BY <1>1, <2>1, <2>2, <2>3 DEF ForkTypeOK
  <1>9. ASSUME NEW a \in Attempts, NEW c \in ToolKeys, DecideTool(a, c)
        PROVE  Typed
    <2>1. \A stages : Permissions(stages) \in ToolDecisions
      BY DEF Permissions, ToolDecisions
    <2>2. gated' \in [Attempts -> [ToolKeys -> ToolDecisions \cup {"unasked", "bypassed"}]]
      BY <1>1, <1>9, <2>1 DEF DecideTool, ForkTypeOK
    <2> QED
      BY <1>1, <1>9, <2>2 DEF DecideTool, ForkTypeOK, copyVars
  <1>10. ASSUME NEW a \in Attempts, BeginRun(a)
         PROVE  Typed
    BY <1>1, <1>10 DEF BeginRun, ForkTypeOK
  <1>11. ASSUME NEW f \in Attempts, Place(f)
         PROVE  Typed
    BY <1>1, <1>11 DEF Place, ForkTypeOK
  <1>12. ASSUME NEW c \in ToolKeys, SourceStep(c)
         PROVE  Typed
    <2>1. ASSUME NEW st \in {"absent", "ready", "running", "done"}, SourceMoves(c, st)
          PROVE  source' \in [ToolKeys -> SourceRecords]
      <3>1. [status |-> st, value |-> IF st = "done" THEN SourceResult ELSE NoValue] \in SourceRecords
        BY DEF SourceRecords, Absent
      <3> QED
        BY <1>1, <2>1, <3>1 DEF SourceMoves
    <2>2. source' \in [ToolKeys -> SourceRecords]
      BY <1>12, <2>1 DEF SourceStep
    <2> QED
      BY <1>1, <1>12, <2>2 DEF SourceStep, ForkTypeOK, copyVars
  <1> HIDE DEF Typed
  <1>13. ASSUME UNCHANGED forkVars
         PROVE  Typed
    BY <1>1, <1>13 DEF ForkTypeOK, forkVars, copyVars, Typed
  <1>14. Typed
    BY <1>6, <1>7, <1>8, <1>9, <1>10, <1>11, <1>12, <1>13
       DEF ForkNext, CopyStep, CopyRefused, ScopeStep, GatedCall, allVars
  <1>15. TypeOK'
    BY ForkKeepsJournal DEF JournalInv
  <1> QED
    BY <1>14, <1>15 DEF ForkTypeOK, Typed

(* What a copy holds is settled or dropped, one call at a time. *)
LEMMA ForkKeepsCopies ==
    ASSUME LedgerConstants, JournalConstants, ForkConstants, ForkInv, [ForkNext]_allVars
    PROVE  Copies'
  <1>1. /\ ForkTypeOK /\ Copies
        /\ copy \in [Attempts -> [ToolKeys -> {"todo", "read", "started", "over"}]]
        /\ held \in [Attempts -> [ToolKeys -> SourceRecords]]
    BY DEF ForkInv, ForkTypeOK
  <1>2. CASE UNCHANGED <<copy, held, inherited>>
    BY <1>1, <1>2 DEF Copies
  <1>3. ASSUME NEW f \in Attempts, NEW c \in ToolKeys, Copied(f, c), inherited \subseteq inherited'
        PROVE  Copies'
    <2>1. \A g \in Attempts, d \in ToolKeys :
            IF g = f /\ d = c THEN copy'[g][d] = "over"
                              ELSE copy'[g][d] = copy[g][d] /\ held'[g][d] = held[g][d]
      BY <1>1, <1>3 DEF Copied, CopyGoto
    <2> QED
      BY <1>1, <1>3, <2>1 DEF Copies
  <1>4. ASSUME NEW f \in Attempts, NEW c \in ToolKeys, CopyRead(f, c)
        PROVE  Copies'
    <2>1. CASE source[c].status = "absent"
      BY <1>3, <1>4, <2>1 DEF CopyRead
    <2>2. CASE source[c].status # "absent"
      <3>1. \A g \in Attempts, d \in ToolKeys :
              IF g = f /\ d = c THEN copy'[g][d] = "read"
                                ELSE copy'[g][d] = copy[g][d] /\ held'[g][d] = held[g][d]
        BY <1>1, <1>4, <2>2 DEF CopyRead, CopyGoto
      <3> QED
        BY <1>1, <1>4, <3>1 DEF Copies, CopyRead
    <2> QED
      BY <2>1, <2>2
  <1>5. ASSUME NEW f \in Attempts, NEW c \in ToolKeys, CopyStart(f, c)
        PROVE  Copies'
    <2>1. inherited \subseteq inherited'
      BY <1>5 DEF CopyStart
    <2>2. CASE Copied(f, c)
      BY <1>3, <2>1, <2>2
    <2>3. CASE CopyGoto(f, c, "started") /\ UNCHANGED held /\ held[f][c].status = "done" /\ c \in inherited'
      <3>1. \A g \in Attempts, d \in ToolKeys :
              copy'[g][d] = IF g = f /\ d = c THEN "started" ELSE copy[g][d]
        BY <1>1, <2>3 DEF CopyGoto
      <3> QED
        BY <1>1, <2>1, <2>3, <3>1 DEF Copies
    <2> QED
      BY <1>5, <2>2, <2>3 DEF CopyStart
  <1>6. ASSUME NEW f \in Attempts, NEW c \in ToolKeys, CopyFinish(f, c)
        PROVE  Copies'
    BY <1>3, <1>6 DEF CopyFinish
  <1>7. ASSUME NEW a \in Attempts, BeginRun(a)
        PROVE  Copies'
    <2>1. \A g \in Attempts, d \in ToolKeys : copy'[g][d] = copy[g][d] \/ copy'[g][d] = "over"
      BY <1>1, <1>7 DEF BeginRun
    <2> QED
      BY <1>1, <1>7, <2>1 DEF Copies, BeginRun
  <1> QED
    BY <1>2, <1>4, <1>5, <1>6, <1>7
       DEF ForkNext, CopyStep, CopyRefused, ScopeStep, GatedCall, DecideTool, Place, SourceStep,
           allVars, forkVars, copyVars

(* The inductive invariant of the fork holds in every reachable state. *)
LEMMA ForkInvariant == ForkSpec => []ForkInv
  <1>1. ForkInit => ForkInv
    <2> SUFFICES ASSUME ForkInit
                 PROVE  ForkInv
      OBVIOUS
    <2>1. JournalInv
      BY LedgerConstants, JournalConstants, JournalInit DEF ForkInit
    <2>2. ForkTypeOK
      BY <2>1 DEF ForkInit, ForkTypeOK, JournalInv, SourceRecords
    <2>3. Copies
      BY DEF ForkInit, Copies
    <2> QED
      BY <2>1, <2>2, <2>3 DEF ForkInv
  <1>2. ForkInv /\ [ForkNext]_allVars => ForkInv'
    BY LedgerConstants, JournalConstants, ForkConstants, ForkTyped, ForkKeepsJournal, ForkKeepsCopies
       DEF ForkInv
  <1> QED
    BY <1>1, <1>2, PTL DEF ForkSpec

(* The target's journal, the copies in flight and the decisions of the gates  *)
(* keep their types.                                                          *)
THEOREM ForkTypeCorrect == ForkSpec => []ForkTypeOK
  <1>1. ForkInv => ForkTypeOK
    BY DEF ForkInv
  <1> QED
    BY <1>1, ForkInvariant, PTL

(* A fork and the runs of its target are clients of the store. *)
THEOREM ForkUsesLedger == ForkSpec => UsesLedger
  <1>1. ForkInit => LedgerInit
    BY DEF ForkInit, Init
  <1>2. ForkInv /\ [ForkNext]_allVars => [LedgerNext]_ledgerVars
    BY LedgerConstants, JournalConstants, ForkConstants, ForkKeepsJournal
  <1> QED
    BY <1>1, <1>2, ForkInvariant, PTL DEF ForkSpec, UsesLedger, LedgerSpec

-----------------------------------------------------------------------------
(* Gates *)

(* A call goes to its effect only past its gate, and past a bypassed one it   *)
(* finds the settled record that made it bypass.                              *)
LEMMA CallKeepsGates ==
    ASSUME JournalConstants, TypeOK, Gates, NEW a \in Attempts, NEW c \in EffectKeys,
           \/ ProviderAnswersLate(a, c)
           \/ CallStep(a, c) /\ PassedGate(a, c),
           c \in ToolKeys, pc'[a][c] \in InFlight \cup {"forget", "start"}
    PROVE  gated[a][c] = "continue"
  <1>1. ASSUME NEW p, Goto(a, c, p)
        PROVE  pc'[a][c] = p
    BY <1>1 DEF Goto, TypeOK
  <1>2. CASE pc[a][c] \in InFlight \cup {"forget", "start"}
    BY <1>2 DEF Gates, UngatedNeverRuns
  <1>3. CASE pc[a][c] \notin InFlight \cup {"forget", "start"}
    <2>1. UNCHANGED pc => pc'[a][c] \notin InFlight \cup {"forget", "start"}
      BY <1>3
    <2>2. Read(a, c) /\ PassedGate(a, c)
      BY <1>1, <1>3, <2>1 DEF CallStep, ForgetIntent, StartIntent, Perform, HandlerRaises, DropIntent,
         CommitResult, Obtain, ReadProjection, RunHook, MarkProjected, Refused, ProviderAnswersLate,
         At, callVars, InFlight
    <2>3. entries[c].status # "done"
      BY <1>1, <2>2 DEF Read, Obtain, InFlight
    <2>4. gated[a][c] \in {"continue", "bypassed"}
      BY <2>2 DEF PassedGate
    <2> QED
      BY <2>3, <2>4 DEF Gates
  <1> QED
    BY <1>2, <1>3

(* Every step keeps what the gate promises. *)
LEMMA ForkKeepsGates ==
    ASSUME LedgerConstants, JournalConstants, ForkConstants, ForkInv, Gates, [ForkNext]_allVars
    PROVE  Gates'
  <1>1. /\ TypeOK /\ ForkTypeOK
        /\ gated \in [Attempts -> [ToolKeys -> ToolDecisions \cup {"unasked", "bypassed"}]]
        /\ \A c \in ToolKeys : c \in EffectKeys
    BY DEF ForkInv, ForkTypeOK, JournalConstants
  <1>2. ASSUME NEW c \in ToolKeys, entries[c].status = "done"
        PROVE  entries'[c].status = "done"
    BY <1>1, <1>2, ForkKeepsJournal, RecordsMove DEF ForkInv
  <1>3. CASE \E a \in Attempts, c \in ToolKeys : DecideTool(a, c)
    <2>1. PICK a \in Attempts, c \in ToolKeys : DecideTool(a, c)
      BY <1>3
    <2>2. pc[a][c] = "read" /\ entries' = entries
      BY <2>1 DEF DecideTool, ledgerVars
    <2>3. \A b \in Attempts, d \in ToolKeys :
            ~(b = a /\ d = c) => gated'[b][d] = gated[b][d] /\ pc'[b][d] = pc[b][d]
      BY <1>1, <2>1 DEF DecideTool, Goto, TypeOK
    <2>4. pc'[a][c] \in {"read", "end"}
      BY <1>1, <2>1 DEF DecideTool, Goto, TypeOK
    <2>5. gated'[a][c] = "bypassed" => entries[c].status = "done"
      <3>1. \A stages : Permissions(stages) # "bypassed"
        BY DEF Permissions
      <3> QED
        BY <1>1, <2>1, <3>1 DEF DecideTool, Recorded
    <2> QED
      BY <2>2, <2>3, <2>4, <2>5 DEF Gates, UngatedNeverRuns, InFlight
  <1>4. CASE ~\E a \in Attempts, c \in ToolKeys : DecideTool(a, c)
    <2>1. gated' = gated
      BY <1>4 DEF ForkNext, CopyStep, CopyRead, CopyStart, CopyFinish, CopyRefused, ScopeStep, GatedCall,
                  BeginRun, Place, SourceStep, allVars, forkVars
    <2>2. ASSUME NEW a \in Attempts, NEW c \in ToolKeys,
                 pc'[a][c] \in InFlight \cup {"forget", "start"}
          PROVE  gated[a][c] = "continue"
      <3>1. CASE pc'[a][c] = pc[a][c]
        BY <2>2, <3>1 DEF Gates, UngatedNeverRuns
      <3>2. ASSUME NEW o, ScopeMove(o)
            PROVE  gated[a][c] = "continue"
        <4>1. \/ pc'[a][c] = pc[a][c]
              \/ pc'[a][c] = "end"
              \/ pc[a][c] \in {"running", "outstanding"}
          BY <1>1, <3>2, ScopeStopsCalls
        <4> QED
          BY <2>2, <4>1 DEF Gates, UngatedNeverRuns, InFlight
      <3>3. ASSUME NEW b \in Attempts, NEW d \in EffectKeys,
                   ProviderAnswersLate(b, d) \/ (CallStep(b, d) /\ PassedGate(b, d))
            PROVE  gated[a][c] = "continue"
        <4>1. CASE b = a /\ d = c
          BY <1>1, <2>2, <3>3, <4>1, CallKeepsGates
        <4>2. CASE ~(b = a /\ d = c)
          BY <1>1, <3>1, <3>3, <4>2, CallMovesOnly
        <4> QED
          BY <4>1, <4>2
      <3>4. UNCHANGED vars \/ (\E f \in Attempts : CopyMove(f)) => pc'[a][c] = pc[a][c]
        BY DEF vars, journalVars, callVars, CopyMove
      <3> QED
        BY <1>4, <3>1, <3>2, <3>3, <3>4, LedgerConstants, JournalConstants, ForkConstants, ForkMoves
    <2> QED
      BY <1>2, <2>1, <2>2 DEF Gates, UngatedNeverRuns
  <1> QED
    BY <1>3, <1>4

(* A call whose gate was bypassed is never executed by that attempt: the      *)
(* record it was bypassed for is settled, and settled records stay.           *)
THEOREM ForkUngatedNeverRuns == ForkSpec => []UngatedNeverRuns
  <1>1. ForkInit => Gates
    <2> SUFFICES ASSUME ForkInit
                 PROVE  Gates
      OBVIOUS
    <2>1. \A a \in Attempts, c \in ToolKeys : gated[a][c] = "unasked"
      BY DEF ForkInit
    <2>2. \A a \in Attempts, c \in EffectKeys : pc[a][c] \in {"read", "end"}
      BY DEF ForkInit, Init
    <2> QED
      BY <2>1, <2>2, JournalConstants DEF Gates, UngatedNeverRuns, InFlight, JournalConstants
  <1>2. ForkInv /\ Gates /\ [ForkNext]_allVars => Gates'
    BY LedgerConstants, JournalConstants, ForkConstants, ForkKeepsGates
  <1>3. Gates => UngatedNeverRuns
    BY DEF Gates
  <1> QED
    BY <1>1, <1>2, <1>3, ForkInvariant, PTL DEF ForkSpec

-----------------------------------------------------------------------------
(* Inherited calls *)

(* A copy takes up a record that nobody works under, and is counted as        *)
(* inherited from then on.                                                    *)
LEMMA CopyKeepsInherited ==
    ASSUME LedgerConstants, JournalConstants, ForkInv, ~retry,
           NEW f \in Attempts, NEW c \in ToolKeys, CopyStep(f, c), CopyMove(f), NEW d \in ToolKeys,
           Intent(d), d \in inherited => Inherited(d)
    PROVE  Intent(d)' /\ (d \in inherited' => Inherited(d)')
  <1>1. /\ LedgerTypeOK /\ d \in Keys
        /\ UNCHANGED <<pc, result, ran>>
    BY DEF ForkInv, ForkTypeOK, TypeOK, Keys, JournalConstants, CopyMove, callVars, worldVars
  <1>2. CASE entries'[d] = entries[d] /\ inherited' = inherited
    BY <1>1, <1>2 DEF Intent, Inherited
  <1>3. CASE CopyRead(f, c) \/ CopyRefused(f, c)
    <2>1. entries' = entries /\ inherited' = inherited
      BY <1>3 DEF CopyRead, CopyRefused, vars, ledgerVars, forkVars, copyVars
    <2> QED
      BY <1>2, <2>1
  <1>4. CASE CopyStart(f, c)
    <2>1. CASE StartGranted(c) /\ d = c
      <3>1. entries[c].status \in {"absent", "ready"} /\ entries'[c].status = "running"
        BY <1>1, <1>4, <2>1 DEF CopyStart, Start, StartGranted, MovedTo, LedgerTypeOK
      <3>2. ran[c] = 0 /\ \A a \in Attempts : pc[a][c] \notin InFlight
        BY <2>1, <3>1 DEF Intent
      <3> QED
        BY <1>1, <2>1, <3>1, <3>2 DEF Intent, Inherited, InFlight
    <2>2. CASE StartGranted(c) /\ d # c
      <3>1. entries'[d] = entries[d] /\ inherited' = inherited \cup {c}
        BY <1>1, <1>4, <2>2 DEF CopyStart, Start, LedgerTypeOK
      <3> QED
        BY <1>1, <2>2, <3>1 DEF Intent, Inherited
    <2>3. CASE ~StartGranted(c)
      BY <1>2, <1>4, <2>3 DEF CopyStart, ledgerVars
    <2> QED
      BY <2>1, <2>2, <2>3
  <1>5. CASE CopyFinish(f, c)
    <2>1. /\ inherited' = inherited
          /\ c \in inherited
          /\ FinishEffect(c, held[f][c].value, tok[f])
      BY <1>5 DEF CopyFinish, Copying, ForkInv, Copies
    <2>2. CASE d = c
      <3>1. entries'[c].status = "done"
        BY <1>1, <2>1, <2>2 DEF FinishEffect, MovedTo, LedgerTypeOK
      <3>2. Inherited(c)
        BY <2>1, <2>2
      <3> QED
        BY <1>1, <2>2, <3>1, <3>2 DEF Intent, Inherited, InFlight
    <2>3. CASE d # c
      <3>1. entries'[d] = entries[d]
        BY <1>1, <2>1, <2>3 DEF FinishEffect, LedgerTypeOK
      <3> QED
        BY <1>2, <2>1, <3>1
    <2> QED
      BY <2>2, <2>3
  <1> QED
    BY <1>3, <1>4, <1>5 DEF CopyStep

(* Nothing an attempt can do moves an inherited call. *)
LEMMA CallKeepsInherited ==
    ASSUME LedgerConstants, JournalConstants, JournalInv, ~retry,
           NEW a \in Attempts, NEW c \in EffectKeys, CallStep(a, c) \/ ProviderAnswersLate(a, c),
           NEW d \in ToolKeys, Intent(d), Inherited(d)
    PROVE  Inherited(d)'
  <1>1. TypeOK /\ d \in EffectKeys /\ d \in Keys
    BY DEF JournalInv, JournalConstants, Keys
  <1>2. CASE d # c
    BY <1>1, <1>2, CallKeepsRecords, CallRuns, CallMovesOnly DEF Inherited
  <1>3. CASE d = c
    <2>1. pc[a][c] \notin InFlight \cup {"forget"} /\ entries[c].status \in {"running", "done"}
      BY <1>3 DEF Inherited, Intent
    <2>2. ~(\/ ForgetIntent(a, c) \/ StartIntent(a, c) \/ Perform(a, c) \/ HandlerRaises(a, c)
            \/ DropIntent(a, c) \/ CommitResult(a, c) \/ ProviderAnswersLate(a, c))
      BY <2>1 DEF ForgetIntent, StartIntent, Start, StartGranted, Perform, HandlerRaises, DropIntent,
                  CommitResult, ProviderAnswersLate, At, InFlight
    <2>3. entries'[c] = entries[c]
      <3>1. CASE MarkProjected(a, c)
        <4>1. AfterKey[c] # c
          BY <1>1, <1>3 DEF JournalConstants, LedgerConstants
        <4> QED
          BY <1>1, <1>3, <3>1, <4>1 DEF MarkProjected, WriteControl, TypeOK, LedgerTypeOK
      <3>2. CASE ~MarkProjected(a, c)
        BY <2>2, <3>2 DEF CallStep, Read, ReadProjection, RunHook, Refused, ledgerVars
      <3> QED
        BY <3>1, <3>2
    <2>4. ran'[c] = ran[c]
      BY <1>1, <2>2, CallRuns
    <2>5. pc'[a][c] \notin InFlight
      BY <1>1, <2>1, <2>2, CallLandsOn DEF InFlight
    <2>6. \A b \in Attempts \ {a} : pc'[b][c] = pc[b][c]
      BY <1>1, CallMovesOnly
    <2> QED
      BY <1>3, <2>3, <2>4, <2>5, <2>6 DEF Inherited
  <1> QED
    BY <1>2, <1>3

(* Every step keeps what is said of inherited effects: one that was copied *)
(* as done is not run on the new branch.                                   *)
LEMMA ForkKeepsInherited ==
    ASSUME LedgerConstants, JournalConstants, ForkConstants, ForkInv, InheritedInv, [ForkNext]_allVars
    PROVE  InheritedInv'
  <1>1. retry' = retry
    <2>1. ASSUME NEW a \in Attempts, NEW c \in EffectKeys, CallStep(a, c) \/ ProviderAnswersLate(a, c)
          PROVE  retry' = retry
      BY <2>1, JournalConstants, CallQuiet DEF ForkInv, JournalInv
    <2> QED
      BY <2>1, ForkMoves, ScopeKeepsEntries DEF vars, journalVars, CopyMove, GateMove
  <1> SUFFICES ASSUME ~retry, NEW d \in ToolKeys
               PROVE  Intent(d)' /\ (d \in inherited' => Inherited(d)')
    BY <1>1 DEF InheritedInv
  <1>2. /\ JournalInv /\ d \in EffectKeys
        /\ Intent(d) /\ (d \in inherited => Inherited(d))
    BY DEF InheritedInv, ForkInv, JournalConstants
  <1>3. (\E f \in Attempts, c \in ToolKeys : CopyStep(f, c)) \/ inherited' = inherited
    BY DEF ForkNext, ScopeStep, GatedCall, BeginRun, Place, DecideTool, SourceStep, allVars, forkVars, copyVars
  <1>4. ASSUME NEW f \in Attempts, NEW c \in ToolKeys, CopyStep(f, c)
        PROVE  Intent(d)' /\ (d \in inherited' => Inherited(d)')
    BY <1>2, <1>4, CopyStepMoves, CopyKeepsInherited
  <1>5. ASSUME inherited' = inherited, UNCHANGED <<entries, ran, result>>,
               \A a \in Attempts : \/ pc'[a][d] = pc[a][d]
                                   \/ pc'[a][d] = "end"
                                   \/ pc'[a][d] = "outstanding" /\ pc[a][d] \in {"running", "outstanding"}
        PROVE  Intent(d)' /\ (d \in inherited' => Inherited(d)')
    BY <1>2, <1>5 DEF Intent, Inherited, InFlight
  <1>6. CASE inherited' = inherited /\ UNCHANGED vars
    BY <1>5, <1>6 DEF vars, ledgerVars, journalVars, callVars, worldVars
  <1>7. ASSUME inherited' = inherited, NEW o, ScopeMove(o)
        PROVE  Intent(d)' /\ (d \in inherited' => Inherited(d)')
    BY <1>2, <1>5, <1>7, ScopeKeepsEntries, ScopeStopsCalls DEF JournalInv
  <1>8. ASSUME inherited' = inherited, NEW a \in Attempts, NEW c \in ToolKeys, GateMove(a, c)
        PROVE  Intent(d)' /\ (d \in inherited' => Inherited(d)')
    <2>1. \A b \in Attempts : pc'[b][d] = pc[b][d] \/ pc'[b][d] = "end"
      <3>1. pc \in [Attempts -> [EffectKeys -> ControlPoints]] /\ c \in EffectKeys
        BY <1>2 DEF JournalInv, TypeOK, JournalConstants
      <3>2. UNCHANGED pc \/ pc' = [pc EXCEPT ![a][c] = "end"]
        BY <1>8 DEF GateMove, Goto
      <3> QED
        BY <1>2, <3>1, <3>2
    <2> QED
      BY <1>5, <1>8, <2>1 DEF GateMove, ledgerVars, worldVars
  <1>9. ASSUME inherited' = inherited, NEW a \in Attempts, NEW c \in EffectKeys,
               CallStep(a, c) \/ ProviderAnswersLate(a, c)
        PROVE  Intent(d)' /\ (d \in inherited' => Inherited(d)')
    <2>1. Intent(d)'
      BY <1>2, <1>9, CallKeepsIntent, CallKeepsOtherIntent
    <2>2. Inherited(d) => Inherited(d)'
      BY <1>2, <1>9, CallKeepsInherited
    <2> QED
      BY <1>2, <1>9, <2>1, <2>2
  <1> QED
    BY <1>3, <1>4, <1>6, <1>7, <1>8, <1>9, ForkMoves

(* What is said of inherited effects holds in every reachable state. *)
LEMMA InheritedInvariant == ForkSpec => []InheritedInv
  <1>1. ForkInit => InheritedInv
    BY LedgerConstants, JournalConstants, OnceInit DEF ForkInit, InheritedInv, OnceInv
  <1>2. ForkInv /\ InheritedInv /\ [ForkNext]_allVars => InheritedInv'
    BY LedgerConstants, JournalConstants, ForkConstants, ForkKeepsInherited
  <1> QED
    BY <1>1, <1>2, ForkInvariant, PTL DEF ForkSpec

(* What the source finished or left in doubt when it was read is never        *)
(* executed in the target, over any number of forks, repeated, interrupted or *)
(* crashed between any two calls to the store.                                *)
THEOREM ForkInheritedNotRepeated == ForkSpec => []InheritedNotRepeated
  <1>1. ForkInv /\ InheritedInv => InheritedNotRepeated
    BY DEF ForkInv, ForkTypeOK, InheritedInv, Inherited, InheritedNotRepeated
  <1> QED
    BY <1>1, ForkInvariant, InheritedInvariant, PTL

(* And what the target runs itself it runs once, as on any branch. *)
THEOREM ForkAtMostOnce == ForkSpec => []AtMostOnce
  <1>1. InheritedInv => AtMostOnce
    BY DEF InheritedInv, Intent, AtMostOnce
  <1> QED
    BY <1>1, InheritedInvariant, PTL

=============================================================================
