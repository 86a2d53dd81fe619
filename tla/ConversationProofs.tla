-------------------------- MODULE ConversationProofs --------------------------
(***************************************************************************)
(* Theorems about Conversation, for any attempts, branches, messages and   *)
(* bounds.                                                                 *)
(*                                                                         *)
(* ChainsWhole is not inductive: that an entry reads back whole depends on *)
(* where its writer stood, and where writers stand depends on the markers  *)
(* that earlier ones left.  The inductive invariant adds that every prefix *)
(* of an entry's chain is an entry, that every leaf marker names an entry  *)
(* or the start, and, of each writer, that its position and what it still  *)
(* has to record fit together and that a duplicate it met is there.        *)
(***************************************************************************)
EXTENDS Conversation, SequenceTheorems, WellFoundedInduction, TLAPS

(* The positions a reader can find. *)
Known == Chained \cup {<<>>}

PrefixClosed == \A uuid \in Chained : \A n \in 1..Len(uuid) : SubSeq(uuid, 1, n) \in Chained

MarksKnown == \A n \in Positions("leaf") : rows[n].leaf \in Known

Writer(w) ==
    /\ msgs[w] \in Known
    /\ Len(msgs[w]) + Len(todo[w]) <= MaxLength
    /\ at[w] \in {"append", "mark"} <=> todo[w] # <<>>
    /\ at[w] = "mark" => Entry(w) \in Chained
    /\ at[w] \notin {"new", "over"} => branch[w] \in Branches

ConversationInv ==
    /\ TypeOK
    /\ PrefixClosed
    /\ MarksKnown
    /\ \A w \in Attempts : Writer(w)

-----------------------------------------------------------------------------
(* Histories and numbers *)

(* Histories are the bounded sequences of messages. *)
LEMMA HistoryIsSeq ==
    \A h : h \in Histories <=> h \in Seq(Messages) /\ Len(h) <= MaxLength
<1>1. ASSUME NEW h \in Histories PROVE h \in Seq(Messages) /\ Len(h) <= MaxLength
  <2>1. PICK n \in 0..MaxLength : h \in [1..n -> Messages]
    BY DEF Histories
  <2>2. n \in Nat /\ n <= MaxLength
    BY <2>1, ConversationConstants
  <2>3. h \in Seq(Messages)
    BY <2>1, <2>2, SeqDef
  <2>4. DOMAIN h = 1..n
    BY <2>1
  <2>5. Len(h) \in Nat /\ DOMAIN h = 1..Len(h)
    BY <2>3
  <2>6. Len(h) = n
    BY <2>2, <2>4, <2>5
  <2> QED
    BY <2>2, <2>3, <2>6
<1>2. ASSUME NEW h \in Seq(Messages), Len(h) <= MaxLength PROVE h \in Histories
  <2>1. Len(h) \in Nat /\ h \in [1..Len(h) -> Messages]
    BY LenProperties
  <2>2. Len(h) \in 0..MaxLength
    BY <1>2, <2>1, ConversationConstants
  <2> QED
    BY <2>1, <2>2 DEF Histories
<1> QED
  BY <1>1, <1>2

(* The empty history is one. *)
LEMMA EmptyIsHistory == <<>> \in Histories
<1>1. <<>> \in Seq(Messages) /\ Len(<<>>) = 0
  BY EmptySeq
<1>2. Len(<<>>) <= MaxLength
  BY <1>1, ConversationConstants
<1> QED
  BY <1>1, <1>2, HistoryIsSeq

(* A nonempty set of positions has a last one, and Latest finds it. *)
LEMMA LatestIsLast ==
    ASSUME NEW N \in Nat, NEW S, S \subseteq 0..N, S # {}
    PROVE  Latest(S) \in S /\ \A m \in S : m <= Latest(S)
<1> DEFINE T == {N - n : n \in S}
           R == OpToRel(<, Nat)
<1>1. IsWellFoundedOn(R, Nat)
  BY NatLessThanWellFounded
<1>2. \A m, n \in Nat : m < n => <<m, n>> \in R
  BY DEF OpToRel
<1>0. \A n \in S : n \in Nat /\ n <= N /\ N - n \in Nat
  OBVIOUS
<1>3. T \subseteq Nat /\ T # {}
  BY <1>0
<1> HIDE DEF R
<1>4. PICK t \in T : \A m \in T : <<m, t>> \notin R
  BY <1>1, <1>3, WFMin
<1>5. \A m \in T : ~(m < t)
  BY <1>2, <1>3, <1>4
<1>6. PICK n \in S : t = N - n
  BY <1>4
<1>7. \A m \in S : m <= n
  <2> SUFFICES ASSUME NEW m \in S PROVE m <= n
    OBVIOUS
  <2>1. N - m \in T
    OBVIOUS
  <2>2. m \in Int /\ n \in Int
    BY <1>0
  <2>3. ~(N - m < N - n)
    BY <1>5, <1>6, <2>1
  <2> QED
    BY <2>2, <2>3
<1>8. \E k \in S : \A m \in S : m <= k
  BY <1>6, <1>7
<1> HIDE DEF T
<1> QED
  BY <1>8 DEF Latest

(* A position that no other exceeds is the last one. *)
LEMMA LatestIs ==
    ASSUME NEW N \in Nat, NEW S, S \subseteq 0..N, NEW n \in S, \A m \in S : m <= n
    PROVE  Latest(S) = n
<1>1. Latest(S) \in S /\ \A m \in S : m <= Latest(S)
  BY LatestIsLast
<1>2. Latest(S) <= n /\ n <= Latest(S)
  BY <1>1
<1>0. \A m \in S : m \in Int
  OBVIOUS
<1>3. Latest(S) \in Int /\ n \in Int
  BY <1>0, <1>1
<1> QED
  BY <1>2, <1>3

(* The common prefix of two histories. *)
LEMMA CommonPrefix ==
    ASSUME NEW h \in Seq(Messages), NEW d \in Seq(Messages)
    PROVE  /\ Common(h, d) \in Nat /\ Common(h, d) <= Len(h) /\ Common(h, d) <= Len(d)
           /\ SubSeq(h, 1, Common(h, d)) = SubSeq(d, 1, Common(h, d))
<1> DEFINE S == {n \in 0..Len(h) : n <= Len(d) /\ SubSeq(h, 1, n) = SubSeq(d, 1, n)}
<1>1. Len(h) \in Nat /\ Len(d) \in Nat
  BY LenProperties
<1>2. SubSeq(h, 1, 0) = <<>> /\ SubSeq(d, 1, 0) = <<>>
  BY SubSeqEmpty
<1>3. 0 \in S
  BY <1>1, <1>2
<1>4. Latest(S) \in S
  BY <1>1, <1>3, LatestIsLast
<1>5. Common(h, d) = Latest(S)
  BY DEF Common
<1>6. Common(h, d) \in S
  BY <1>4, <1>5
<1> QED
  BY <1>1, <1>6

(* A prefix of a history, and what is left of it. *)
LEMMA Prefix ==
    ASSUME NEW h \in Seq(Messages), NEW n \in Nat, n <= Len(h)
    PROVE  /\ SubSeq(h, 1, n) \in Seq(Messages) /\ Len(SubSeq(h, 1, n)) = n
           /\ SubSeq(h, n + 1, Len(h)) \in Seq(Messages)
           /\ Len(SubSeq(h, n + 1, Len(h))) = Len(h) - n
<1>1. Len(h) \in Nat /\ \A i \in 1..Len(h) : h[i] \in Messages
  BY ElementOfSeq, LenProperties
<1>2. \A i \in 1..n : h[i] \in Messages
  BY <1>1
<1>3. SubSeq(h, 1, n) \in Seq(Messages) /\ Len(SubSeq(h, 1, n)) = IF 1 <= n THEN n - 1 + 1 ELSE 0
  BY <1>2, SubSeqProperties
<1>4. \A i \in (n + 1)..Len(h) : h[i] \in Messages
  BY <1>1
<1>5. /\ SubSeq(h, n + 1, Len(h)) \in Seq(Messages)
      /\ Len(SubSeq(h, n + 1, Len(h))) = IF n + 1 <= Len(h) THEN Len(h) - (n + 1) + 1 ELSE 0
  BY <1>1, <1>4, SubSeqProperties
<1> QED
  BY <1>1, <1>3, <1>5

(* A prefix of a prefix is a prefix, of an appended history as well. *)
LEMMA PrefixOfAppend ==
    ASSUME NEW h \in Seq(Messages), NEW m \in Messages, NEW n \in Nat, n <= Len(h)
    PROVE  SubSeq(Append(h, m), 1, n) = SubSeq(h, 1, n)
<1>1. Len(h) \in Nat /\ \A i \in 1..Len(h) : h[i] \in Messages
  BY ElementOfSeq, LenProperties
<1>2. \A i \in 1..Len(h) : Append(h, m)[i] = h[i]
  BY AppendProperties
<1>3. \A i \in 1..n : h[i] \in Messages /\ Append(h, m)[i] = h[i]
  BY <1>1, <1>2
<1>4. /\ SubSeq(h, 1, n) \in Seq(Messages)
      /\ Len(SubSeq(h, 1, n)) = IF 1 <= n THEN n - 1 + 1 ELSE 0
      /\ \A i \in 1..n - 1 + 1 : SubSeq(h, 1, n)[i] = h[1 + i - 1]
  BY <1>3, SubSeqProperties
<1>5. /\ SubSeq(Append(h, m), 1, n) \in Seq(Messages)
      /\ Len(SubSeq(Append(h, m), 1, n)) = IF 1 <= n THEN n - 1 + 1 ELSE 0
      /\ \A i \in 1..n - 1 + 1 : SubSeq(Append(h, m), 1, n)[i] = Append(h, m)[1 + i - 1]
  BY <1>3, SubSeqProperties
<1>6. \A i \in 1..n : SubSeq(h, 1, n)[i] = h[i] /\ SubSeq(Append(h, m), 1, n)[i] = h[i]
  BY <1>3, <1>4, <1>5
<1>7. Len(SubSeq(h, 1, n)) = n /\ Len(SubSeq(Append(h, m), 1, n)) = n
  BY <1>4, <1>5
<1> QED
  BY <1>4, <1>5, <1>6, <1>7, SeqEqual

(* A prefix of a prefix is a prefix. *)
LEMMA PrefixOfPrefix ==
    ASSUME NEW h \in Seq(Messages), NEW n \in Nat, n <= Len(h), NEW k \in Nat, k <= n
    PROVE  SubSeq(SubSeq(h, 1, n), 1, k) = SubSeq(h, 1, k)
<1>1. Len(h) \in Nat /\ \A i \in 1..Len(h) : h[i] \in Messages
  BY ElementOfSeq, LenProperties
<1> DEFINE p == SubSeq(h, 1, n)
<1>2. \A i \in 1..n : h[i] \in Messages
  BY <1>1
<1>3. p \in Seq(Messages) /\ Len(p) = n /\ \A i \in 1..n : p[i] = h[i]
  <2>1. /\ p \in Seq(Messages)
        /\ Len(p) = IF 1 <= n THEN n - 1 + 1 ELSE 0
        /\ \A i \in 1..n - 1 + 1 : p[i] = h[1 + i - 1]
    BY <1>2, SubSeqProperties
  <2> QED
    BY <2>1
<1> HIDE DEF p
<1>4. \A i \in 1..k : h[i] \in Messages /\ p[i] = h[i]
  BY <1>2, <1>3
<1>5. /\ SubSeq(h, 1, k) \in Seq(Messages)
      /\ Len(SubSeq(h, 1, k)) = IF 1 <= k THEN k - 1 + 1 ELSE 0
      /\ \A i \in 1..k - 1 + 1 : SubSeq(h, 1, k)[i] = h[1 + i - 1]
  BY <1>4, SubSeqProperties
<1>6. /\ SubSeq(p, 1, k) \in Seq(Messages)
      /\ Len(SubSeq(p, 1, k)) = IF 1 <= k THEN k - 1 + 1 ELSE 0
      /\ \A i \in 1..k - 1 + 1 : SubSeq(p, 1, k)[i] = p[1 + i - 1]
  BY <1>4, SubSeqProperties
<1>7. \A i \in 1..k : SubSeq(h, 1, k)[i] = h[i] /\ SubSeq(p, 1, k)[i] = h[i]
  BY <1>4, <1>5, <1>6
<1>8. Len(SubSeq(h, 1, k)) = k /\ Len(SubSeq(p, 1, k)) = k
  BY <1>5, <1>6
<1>9. SubSeq(p, 1, k) = SubSeq(h, 1, k)
  BY <1>5, <1>6, <1>7, <1>8, SeqEqual
<1> QED
  BY <1>9 DEF p

-----------------------------------------------------------------------------
(* Reading the transcript *)

RowsTyped == rows \in Seq(Rows) /\ Len(rows) <= MaxRows

(* The positions of the rows are the numbers up to their number. *)
LEMMA RowsAt ==
    ASSUME RowsTyped
    PROVE  /\ Len(rows) \in Nat /\ DOMAIN rows = 1..Len(rows)
           /\ \A n \in 1..Len(rows) : rows[n] \in Rows
           /\ \A type : Positions(type) \subseteq 0..Len(rows)
           /\ \A n \in Positions("message") : rows[n].uuid \in Chained /\ rows[n].uuid \in Histories
           /\ \A n \in Positions("leaf") : rows[n].leaf \in Histories
<1>1. Len(rows) \in Nat /\ DOMAIN rows = 1..Len(rows)
  BY LenProperties DEF RowsTyped
<1>2. \A n \in 1..Len(rows) : rows[n] \in Rows
  BY ElementOfSeq DEF RowsTyped
<1>3. \A type : Positions(type) \subseteq 0..Len(rows)
  BY <1>1 DEF Positions
<1>4. \A n \in Positions("message") : rows[n].uuid \in Chained /\ rows[n].uuid \in Histories
  BY <1>1, <1>2 DEF Positions, Chained, Rows
<1>5. \A n \in Positions("leaf") : rows[n].leaf \in Histories
  BY <1>1, <1>2 DEF Positions, Rows
<1> QED
  BY <1>1, <1>2, <1>3, <1>4, <1>5

(* The histories readers can find are histories. *)
LEMMA KnownAreHistories ==
    ASSUME RowsTyped
    PROVE  Known \subseteq Histories
BY RowsAt, EmptyIsHistory DEF Known, Chained

(* Where every prefix of an entry is an entry, the walk to the ancestors finds *)
(* the whole chain.                                                            *)
LEMMA WholeChain ==
    ASSUME RowsTyped, PrefixClosed, NEW tip \in Known
    PROVE  Chain(tip) = tip
<1>1. \A n \in 1..Len(tip) : SubSeq(tip, 1, n) \in Chained
  <2>1. CASE tip \in Chained
    BY <2>1 DEF PrefixClosed
  <2>2. CASE tip = <<>>
    <3>1. 1..Len(tip) = {}
      BY <2>2, EmptySeq
    <3> QED
      BY <3>1
  <2> QED
    BY <2>1, <2>2 DEF Known
<1>2. {n \in 1..Len(tip) : SubSeq(tip, 1, n) \notin Chained} = {}
  BY <1>1
<1> QED
  BY <1>2 DEF Chain

(* Entries that are newer than every leaf marker. *)
Grown == {n \in Positions("message") : \A m \in Positions("leaf") : m < n}

(* Where the last row that moves readers leaves them. *)
Stand ==
    IF Grown # {} THEN rows[Latest(Grown)].uuid
    ELSE IF Positions("leaf") # {} THEN rows[Latest(Positions("leaf"))].leaf
    ELSE <<>>

InOrder == RowsTyped /\ PrefixClosed /\ MarksKnown

(* Readers stand at an entry or at the start, namely where the last row that *)
(* moves them put them: no chain has a gap.                                  *)
LEMMA ReadersStand == InOrder => ActiveBranch \in Known /\ ActiveBranch = Stand
<1> SUFFICES ASSUME InOrder PROVE ActiveBranch \in Known /\ ActiveBranch = Stand
  OBVIOUS
<1>0. RowsTyped /\ PrefixClosed /\ MarksKnown
  BY DEF InOrder
<1>1. Positions("leaf") \subseteq 0..Len(rows) /\ Grown \subseteq 0..Len(rows) /\ Len(rows) \in Nat
  BY <1>0, RowsAt DEF Grown
<1>2. CASE Grown # {}
  <2>1. Latest(Grown) \in Positions("message")
    BY <1>1, <1>2, LatestIsLast DEF Grown
  <2>2. rows[Latest(Grown)].uuid \in Known
    BY <1>0, <2>1, RowsAt DEF Known
  <2>3. ActiveBranch = Chain(rows[Latest(Grown)].uuid)
    BY <1>2 DEF ActiveBranch, Grown
  <2> QED
    BY <1>0, <1>2, <2>2, <2>3, WholeChain DEF Stand
<1>3. CASE Grown = {} /\ Positions("leaf") # {}
  <2>1. Latest(Positions("leaf")) \in Positions("leaf")
    BY <1>1, <1>3, LatestIsLast
  <2>2. rows[Latest(Positions("leaf"))].leaf \in Known
    BY <1>0, <2>1 DEF MarksKnown
  <2>3. ActiveBranch = Chain(rows[Latest(Positions("leaf"))].leaf)
    BY <1>3 DEF ActiveBranch, Grown
  <2> QED
    BY <1>0, <1>3, <2>2, <2>3, WholeChain DEF Stand
<1>4. CASE Grown = {} /\ Positions("leaf") = {}
  BY <1>4 DEF ActiveBranch, Known, Grown, Stand
<1> QED
  BY <1>2, <1>3, <1>4

(* The same after a step. *)
LEMMA ReadersStandNext == InOrder' => (ActiveBranch = Stand)'
BY ReadersStand, PTL

-----------------------------------------------------------------------------
(* Writing the transcript *)

(* A row that may follow: an entry whose parent is there, or a marker of a *)
(* position that is.                                                      *)
Follows(row) ==
    \/ \E h \in Known, m \in Messages : row = [type |-> "message", uuid |-> Append(h, m)]
    \/ \E h \in Known : row = [type |-> "leaf", leaf |-> h]

(* The position at which a row leaves the readers. *)
Tip(row) == IF row.type = "message" THEN row.uuid ELSE row.leaf

(* Appending a row adds one position, of the row's type. *)
LEMMA PositionsGrow ==
    ASSUME RowsTyped, NEW row, rows' = Append(rows, row), row \in Rows, NEW type
    PROVE  /\ Positions(type)' = IF row.type = type THEN Positions(type) \cup {Len(rows) + 1}
                                                    ELSE Positions(type)
           /\ rows'[Len(rows) + 1] = row
           /\ \A n \in 1..Len(rows) : rows'[n] = rows[n]
           /\ rows' \in Seq(Rows) /\ Len(rows') = Len(rows) + 1
<1>1. Len(rows) \in Nat /\ DOMAIN rows = 1..Len(rows)
  BY RowsAt
<1>2. /\ rows' \in Seq(Rows) /\ Len(rows') = Len(rows) + 1
      /\ rows'[Len(rows) + 1] = row /\ \A n \in 1..Len(rows) : rows'[n] = rows[n]
  BY AppendProperties DEF RowsTyped
<1>3. DOMAIN rows' = 1..(Len(rows) + 1)
  BY <1>2, LenProperties
<1>4. DOMAIN rows' = DOMAIN rows \cup {Len(rows) + 1}
  BY <1>1, <1>3
<1>5. Positions(type)' = {n \in DOMAIN rows' : rows'[n].type = type}
  BY DEF Positions
<1>6. \A n \in DOMAIN rows : rows'[n] = rows[n]
  BY <1>1, <1>2
<1>7. Positions(type) = {n \in DOMAIN rows : rows[n].type = type}
  BY DEF Positions
<1>8. Positions(type)' = IF row.type = type THEN Positions(type) \cup {Len(rows) + 1}
                                            ELSE Positions(type)
  <2>1. CASE row.type = type
    BY <1>2, <1>4, <1>5, <1>6, <1>7, <2>1
  <2>2. CASE row.type # type
    BY <1>2, <1>4, <1>5, <1>6, <1>7, <2>2
  <2> QED
    BY <2>1, <2>2
<1> QED
  BY <1>2, <1>8

(* Following rows keep the transcript in order, only add entries, and put every *)
(* reader at their position.                                                   *)
LEMMA AppendedRow ==
    ASSUME RowsTyped, PrefixClosed, MarksKnown, NEW row, Follows(row), row \in Rows, Appended(row)
    PROVE  /\ RowsTyped' /\ PrefixClosed' /\ MarksKnown'
           /\ Chained \subseteq Chained' /\ Tip(row) \in Known'
           /\ ActiveBranch' = Tip(row)
<1>0. rows' = Append(rows, row) /\ Len(rows) \in Nat /\ DOMAIN rows = 1..Len(rows)
  BY RowsAt DEF Appended
<1>1. RowsTyped'
  <2>1. rows' \in Seq(Rows) /\ Len(rows') = Len(rows) + 1
    BY <1>0, PositionsGrow
  <2>2. Len(rows) < MaxRows
    BY DEF Appended
  <2> QED
    BY <1>0, <2>1, <2>2, ConversationConstants DEF RowsTyped
<1>2. /\ rows'[Len(rows) + 1] = row /\ \A n \in 1..Len(rows) : rows'[n] = rows[n]
  BY <1>0, PositionsGrow
<1>3. \A type : Positions(type) \subseteq 1..Len(rows)
  BY <1>0 DEF Positions
<1>4. CASE \E h \in Known, m \in Messages : row = [type |-> "message", uuid |-> Append(h, m)]
  <2>1. PICK h \in Known, m \in Messages : row = [type |-> "message", uuid |-> Append(h, m)]
    BY <1>4
  <2>2. row.type = "message" /\ row.uuid = Append(h, m) /\ Tip(row) = row.uuid
    BY <2>1 DEF Tip
  <2>3. Positions("message")' = Positions("message") \cup {Len(rows) + 1}
    BY <1>0, <2>2, PositionsGrow
  <2>4. Positions("leaf")' = Positions("leaf")
    BY <1>0, <2>2, PositionsGrow
  <2>5. Chained' = Chained \cup {row.uuid}
    <3>1. Chained' = {rows'[n].uuid : n \in Positions("message")'}
      BY DEF Chained
    <3>2. \A n \in Positions("message") : rows'[n].uuid = rows[n].uuid
      BY <1>2, <1>3
    <3> QED
      BY <1>2, <2>3, <3>1, <3>2 DEF Chained
  <2>6. h \in Seq(Messages) /\ Len(h) \in Nat
    BY KnownAreHistories, HistoryIsSeq, LenProperties
  <2>7. PrefixClosed'
    <3> SUFFICES ASSUME NEW uuid \in Chained', NEW n \in 1..Len(uuid)
                 PROVE  SubSeq(uuid, 1, n) \in Chained'
      BY DEF PrefixClosed
    <3>1. CASE uuid \in Chained
      BY <2>5, <3>1 DEF PrefixClosed
    <3>2. CASE uuid = Append(h, m)
      <4>1. uuid \in Seq(Messages) /\ Len(uuid) = Len(h) + 1
        BY <2>6, <3>2, AppendProperties
      <4>2. CASE n = Len(uuid)
        <5>1. SubSeq(uuid, 1, n) = uuid
          BY <4>1, <4>2, SubSeqFull
        <5> QED
          BY <5>1
      <4>3. CASE n # Len(uuid)
        <5>1. n \in Nat /\ n <= Len(h) /\ 1 <= n
          BY <2>6, <4>1, <4>3
        <5>2. SubSeq(uuid, 1, n) = SubSeq(h, 1, n)
          BY <2>6, <3>2, <5>1, PrefixOfAppend
        <5>3. h # <<>>
          BY <5>1, EmptySeq
        <5>4. h \in Chained
          BY <5>3 DEF Known
        <5>5. n \in 1..Len(h)
          BY <2>6, <5>1
        <5> QED
          BY <2>5, <5>2, <5>4, <5>5 DEF PrefixClosed
      <4> QED
        BY <4>2, <4>3
    <3> QED
      BY <2>2, <2>5, <3>1, <3>2
  <2>8. MarksKnown'
    <3> SUFFICES ASSUME NEW n \in Positions("leaf")' PROVE rows'[n].leaf \in Known'
      BY DEF MarksKnown
    <3>1. n \in Positions("leaf") /\ rows'[n] = rows[n]
      BY <1>2, <1>3, <2>4
    <3> QED
      BY <2>5, <3>1 DEF MarksKnown, Known
  <2>9. Tip(row) \in Known'
    BY <2>2, <2>5 DEF Known
  <2>10. ActiveBranch' = Tip(row)
    <3>0. Grown' = {n \in Positions("message")' : \A k \in Positions("leaf")' : k < n}
      BY DEF Grown
    <3>1. Len(rows) + 1 \in Grown'
      BY <1>0, <1>3, <2>3, <2>4, <3>0
    <3>2. /\ Grown' \subseteq 0..(Len(rows) + 1)
          /\ \A n \in Grown' : n <= Len(rows) + 1
      BY <1>0, <1>3, <2>3, <3>0
    <3>a. Len(rows) + 1 \in Nat
      BY <1>0
    <3>3. Latest(Grown') = Len(rows) + 1
      BY <3>a, <3>1, <3>2, LatestIs
    <3>4. Stand' = row.uuid
      BY <1>2, <3>1, <3>3 DEF Stand, Latest
    <3> QED
      BY <1>1, <2>2, <2>7, <2>8, <3>4, ReadersStandNext DEF InOrder
  <2> QED
    BY <1>1, <2>5, <2>7, <2>8, <2>9, <2>10
<1>5. CASE \E h \in Known : row = [type |-> "leaf", leaf |-> h]
  <2>1. PICK h \in Known : row = [type |-> "leaf", leaf |-> h]
    BY <1>5
  <2>2. row.type = "leaf" /\ row.leaf = h /\ Tip(row) = h
    BY <2>1 DEF Tip
  <2>3. Positions("leaf")' = Positions("leaf") \cup {Len(rows) + 1}
    BY <1>0, <2>2, PositionsGrow
  <2>4. Positions("message")' = Positions("message")
    BY <1>0, <2>2, PositionsGrow
  <2>5. Chained' = Chained
    <3>1. Chained' = {rows'[n].uuid : n \in Positions("message")'}
      BY DEF Chained
    <3>2. \A n \in Positions("message") : rows'[n].uuid = rows[n].uuid
      BY <1>2, <1>3
    <3> QED
      BY <2>4, <3>1, <3>2 DEF Chained
  <2>7. PrefixClosed'
    BY <2>5 DEF PrefixClosed
  <2>8. MarksKnown'
    <3> SUFFICES ASSUME NEW n \in Positions("leaf")' PROVE rows'[n].leaf \in Known'
      BY DEF MarksKnown
    <3>1. CASE n = Len(rows) + 1
      BY <1>2, <2>2, <2>5, <3>1 DEF Known
    <3>2. CASE n \in Positions("leaf")
      <4>1. rows'[n] = rows[n]
        BY <1>2, <1>3, <3>2
      <4> QED
        BY <2>5, <3>2, <4>1 DEF MarksKnown, Known
    <3> QED
      BY <2>3, <3>1, <3>2
  <2>9. Tip(row) \in Known'
    BY <2>2, <2>5 DEF Known
  <2>10. ActiveBranch' = Tip(row)
    <3>1. Len(rows) + 1 \in Positions("leaf")'
      BY <2>3
    <3>2. Grown' = {}
      <4>1. \A n \in Positions("message") : ~(Len(rows) + 1 < n)
        BY <1>0, <1>3
      <4> QED
        BY <2>4, <3>1, <4>1 DEF Grown
    <3>3. /\ Positions("leaf")' \subseteq 0..(Len(rows) + 1)
          /\ \A n \in Positions("leaf")' : n <= Len(rows) + 1
      BY <1>0, <1>3, <2>3
    <3>4. Latest(Positions("leaf")') = Len(rows) + 1
      BY <1>0, <3>1, <3>3, LatestIs
    <3>5. Stand' = row.leaf
      BY <1>2, <3>1, <3>2, <3>4 DEF Stand, Latest
    <3> QED
      BY <1>1, <2>2, <2>7, <2>8, <3>5, ReadersStandNext DEF InOrder
  <2> QED
    BY <1>1, <2>5, <2>7, <2>8, <2>9, <2>10
<1> QED
  BY <1>4, <1>5 DEF Follows

-----------------------------------------------------------------------------
(* What an attempt does to its own state and to the transcript *)

Points == {"new", "read", "opened", "history", "append", "mark", "drive", "ask", "settle", "close",
           "over"}

Nexts == {"drive", "ask", "settle", "close"}

CellsTyped ==
    /\ branch \in [Attempts -> Branches \cup {NoBranch}]
    /\ at \in [Attempts -> Points]
    /\ msgs \in [Attempts -> Histories]
    /\ todo \in [Attempts -> Histories]
    /\ next \in [Attempts -> Nexts]

LeasesTyped ==
    /\ record \in [Branches -> [started : BOOLEAN, ended : BOOLEAN]]
    /\ owner \in [Branches -> Attempts \cup {NoAttempt}]
    /\ held \in [Branches -> BOOLEAN]
    /\ unfinished \in [Branches -> Attempts \cup {NoAttempt}]

(* An attempt's step. *)
Step(w) ==
    \/ Begin(w) \/ Crash(w) \/ OpenBranch(w) \/ Opened(w) \/ TakeHistory(w)
    \/ Record(w) \/ MarkLeaf(w)
    \/ RecordMessage(w) \/ AskModel(w) \/ Settle(w) \/ Close(w)

Apart(w) ==
    \A v \in Attempts \ {w} :
        at'[v] = at[v] /\ msgs'[v] = msgs[v] /\ todo'[v] = todo[v] /\ branch'[v] = branch[v]

(* A row that leaves the readers where the attempt goes, or no row. *)
RowMove(w) ==
    \/ UNCHANGED rows
    \/ /\ at'[w] # "over"
       /\ \E row \in Rows : Follows(row) /\ Appended(row) /\ Tip(row) = msgs'[w]

(* What the attempt's own cells become. *)
Own(w) ==
    /\ CellsTyped' /\ Apart(w)
    /\ Len(msgs'[w]) + Len(todo'[w]) <= MaxLength
    /\ at'[w] \in {"append", "mark"} <=> todo'[w] # <<>>
    /\ at'[w] \notin {"new", "over"} => branch'[w] \in Branches
    /\ RowMove(w)

(* The parts of the invariant. *)
LEMMA InvParts ==
    ASSUME ConversationInv
    PROVE  /\ InOrder /\ RowsTyped /\ PrefixClosed /\ MarksKnown /\ CellsTyped /\ LeasesTyped
           /\ \A w \in Attempts : Writer(w)
BY DEF ConversationInv, TypeOK, InOrder, RowsTyped, CellsTyped, LeasesTyped, Points, Nexts

(* What a writer knows of its histories. *)
LEMMA WriterKnows ==
    ASSUME ConversationInv, NEW w \in Attempts
    PROVE  /\ msgs[w] \in Seq(Messages) /\ Len(msgs[w]) \in Nat /\ msgs[w] \in Known
           /\ todo[w] \in Seq(Messages) /\ Len(todo[w]) \in Nat
           /\ Len(msgs[w]) + Len(todo[w]) <= MaxLength
           /\ Writer(w)
<1>1. msgs[w] \in Histories /\ todo[w] \in Histories
  BY InvParts DEF CellsTyped
<1>2. Writer(w)
  BY InvParts
<1> QED
  BY <1>1, <1>2, HistoryIsSeq, LenProperties DEF Writer

(* A position cut off at the front of its own history is one readers can find. *)
LEMMA CutIsKnown ==
    ASSUME ConversationInv, NEW h \in Known, NEW n \in Nat, n <= Len(h)
    PROVE  SubSeq(h, 1, n) \in Known
<1>1. h \in Seq(Messages) /\ Len(h) \in Nat
  BY InvParts, KnownAreHistories, HistoryIsSeq, LenProperties
<1>2. CASE n = 0
  BY <1>2, SubSeqEmpty DEF Known
<1>3. CASE n # 0
  <2>1. h # <<>>
    BY <1>1, <1>3, EmptySeq
  <2>2. h \in Chained
    BY <2>1 DEF Known
  <2>3. n \in 1..Len(h)
    BY <1>1, <1>3
  <2> QED
    BY <2>2, <2>3, InvParts DEF PrefixClosed, Known
<1> QED
  BY <1>2, <1>3

(* A message more on the one side is one less on the other. *)
LEMMA OneMore ==
    ASSUME NEW a \in Nat, NEW b \in Nat, NEW c \in Nat, a + b <= c, b # 0
    PROVE  a + 1 <= c /\ b - 1 <= c /\ (a + 1) + (b - 1) <= c
OBVIOUS

(* The next entry of a writer is a history that follows its position. *)
LEMMA EntryFollows ==
    ASSUME ConversationInv, NEW w \in Attempts, at[w] \in {"append", "mark"}
    PROVE  /\ Entry(w) \in Histories /\ Head(todo[w]) \in Messages
           /\ Entry(w) = Append(msgs[w], Head(todo[w]))
           /\ Len(Entry(w)) = Len(msgs[w]) + 1
           /\ Tail(todo[w]) \in Histories /\ Len(Tail(todo[w])) = Len(todo[w]) - 1
<1>b. MaxLength \in Nat
  BY ConversationConstants
<1>0. /\ msgs[w] \in Seq(Messages) /\ Len(msgs[w]) \in Nat
      /\ todo[w] \in Seq(Messages) /\ Len(todo[w]) \in Nat
      /\ Len(msgs[w]) + Len(todo[w]) <= MaxLength
  BY WriterKnows
<1>1. todo[w] # <<>>
  BY WriterKnows DEF Writer
<1>2. /\ Head(todo[w]) \in Messages /\ Tail(todo[w]) \in Seq(Messages)
      /\ Len(Tail(todo[w])) = Len(todo[w]) - 1
  BY <1>0, <1>1, HeadTailProperties
<1>3. Len(todo[w]) # 0
  BY <1>0, <1>1, EmptySeq
<1>4. Append(msgs[w], Head(todo[w])) \in Seq(Messages)
      /\ Len(Append(msgs[w], Head(todo[w]))) = Len(msgs[w]) + 1
  BY <1>0, <1>2, AppendProperties
<1>5. Len(msgs[w]) + 1 <= MaxLength
  BY <1>0, <1>b, <1>3, OneMore
<1>6. Entry(w) \in Histories /\ Len(Entry(w)) = Len(msgs[w]) + 1
  BY <1>4, <1>5, HistoryIsSeq DEF Entry
<1>7. Len(Tail(todo[w])) <= MaxLength
  <2>1. Len(todo[w]) - 1 <= MaxLength
    BY <1>0, <1>b, <1>3, OneMore
  <2> QED
    BY <1>2, <2>1
<1> QED
  BY <1>2, <1>6, <1>7, HistoryIsSeq DEF Entry

(* What is recorded fits: the attempt goes on, or appends what is left. *)
LEMMA RecordingOwn ==
    ASSUME ConversationInv, NEW w \in Attempts, at[w] \notin {"new", "over"},
           NEW h \in Histories, NEW l \in Histories, Len(h) + Len(l) <= MaxLength,
           NEW p \in Nexts, Recording(w, l, p), msgs' = [msgs EXCEPT ![w] = h], UNCHANGED branch
    PROVE  /\ CellsTyped' /\ Apart(w)
           /\ msgs'[w] = h /\ todo'[w] = l /\ at'[w] \in {p, "append"}
           /\ at'[w] \in {"append", "mark"} <=> todo'[w] # <<>>
           /\ branch'[w] \in Branches
           /\ Len(msgs'[w]) + Len(todo'[w]) <= MaxLength
           /\ at'[w] \notin {"over", "mark"}
<1>0. CellsTyped /\ Writer(w)
  BY InvParts
<1>1. /\ todo' = [todo EXCEPT ![w] = l] /\ next' = [next EXCEPT ![w] = p]
      /\ at' = [at EXCEPT ![w] = IF l = <<>> THEN p ELSE "append"]
  BY DEF Recording, Goto
<1>2. p \notin {"append", "mark", "over"} /\ p \in Points /\ "append" \in Points
  BY DEF Nexts, Points
<1>3. CellsTyped' /\ Apart(w)
  BY <1>0, <1>1, <1>2 DEF CellsTyped, Apart
<1>4. msgs'[w] = h /\ todo'[w] = l /\ at'[w] = IF l = <<>> THEN p ELSE "append"
  BY <1>0, <1>1 DEF CellsTyped
<1>5. branch'[w] \in Branches
  BY <1>0 DEF Writer
<1> QED
  BY <1>2, <1>3, <1>4, <1>5

(* Appending changes the transcript. *)
LEMMA AppendedChanges ==
    ASSUME RowsTyped, NEW row \in Rows, Appended(row)
    PROVE  rows' # rows
<1>1. Len(rows') = Len(rows) + 1 /\ Len(rows) \in Nat
  BY AppendProperties, LenProperties DEF RowsTyped, Appended
<1> QED
  BY <1>1

(* Branch.replace cuts the history where the new one parts from it, marks the *)
(* cut if there is one, and goes on to record the rest.                       *)
LEMMA ReplaceOwn ==
    ASSUME ConversationInv, NEW w \in Attempts, at[w] \notin {"new", "over"},
           NEW h \in Histories, NEW p \in Nexts, Replace(w, h, p), UNCHANGED branch
    PROVE  /\ Own(w) /\ msgs'[w] \in Known /\ at'[w] \notin {"over", "mark"}
           /\ UNCHANGED rows => msgs'[w] = msgs[w]
<1> DEFINE n == Common(msgs[w], h)
           cut == SubSeq(msgs[w], 1, n)
           rest == SubSeq(h, n + 1, Len(h))
<1>0. h \in Seq(Messages) /\ Len(h) <= MaxLength /\ Len(h) \in Nat
  BY HistoryIsSeq, LenProperties
<1>a. msgs[w] \in Seq(Messages) /\ Len(msgs[w]) \in Nat
  BY WriterKnows
<1>1. n \in Nat /\ n <= Len(msgs[w]) /\ n <= Len(h)
  BY <1>0, <1>a, CommonPrefix
<1>2. /\ IF n < Len(msgs[w]) THEN Appended([type |-> "leaf", leaf |-> cut]) ELSE UNCHANGED rows
      /\ msgs' = [msgs EXCEPT ![w] = cut]
      /\ Recording(w, rest, p)
  BY DEF Replace
<1> HIDE DEF n
<1>3. cut \in Seq(Messages) /\ Len(cut) = n
  BY <1>1, WriterKnows, Prefix
<1>4. rest \in Seq(Messages) /\ Len(rest) = Len(h) - n
  BY <1>0, <1>1, Prefix
<1>5. cut \in Known
  BY <1>1, WriterKnows, CutIsKnown
<1>6. cut = msgs[w] \/ n < Len(msgs[w])
  <2>1. CASE n = Len(msgs[w])
    BY <1>a, <2>1, SubSeqFull
  <2>2. CASE n # Len(msgs[w])
    BY <1>a, <1>1, <2>2
  <2> QED
    BY <2>1, <2>2
<1> HIDE DEF cut, rest
<1>7. Len(cut) <= MaxLength /\ Len(rest) <= MaxLength /\ Len(cut) + Len(rest) <= MaxLength
  BY <1>0, <1>1, <1>3, <1>4, ConversationConstants
<1>8. cut \in Histories /\ rest \in Histories
  BY <1>3, <1>4, <1>7, HistoryIsSeq
<1>9. /\ CellsTyped' /\ Apart(w)
      /\ msgs'[w] = cut /\ todo'[w] = rest
      /\ at'[w] \in {"append", "mark"} <=> todo'[w] # <<>>
      /\ branch'[w] \in Branches
      /\ Len(msgs'[w]) + Len(todo'[w]) <= MaxLength
      /\ at'[w] \notin {"over", "mark"}
  BY <1>2, <1>7, <1>8, RecordingOwn
<1>10. CASE n < Len(msgs[w])
  <2> DEFINE row == [type |-> "leaf", leaf |-> cut]
  <2>1. Appended(row)
    BY <1>2, <1>10
  <2>2. row \in Rows /\ row.type = "leaf" /\ row.leaf = cut
    BY <1>8 DEF Rows
  <2>3. Follows(row)
    BY <1>5 DEF Follows
  <2>4. Tip(row) = cut
    BY <2>2 DEF Tip
  <2> HIDE DEF row
  <2>0. RowsTyped
    BY InvParts
  <2>5. rows' # rows
    BY <2>0, <2>1, <2>2, AppendedChanges
  <2>6. RowMove(w)
    BY <1>9, <2>1, <2>2, <2>3, <2>4 DEF RowMove
  <2> QED
    BY <1>5, <1>9, <2>5, <2>6 DEF Own
<1>11. CASE ~(n < Len(msgs[w]))
  <2>1. UNCHANGED rows
    BY <1>2, <1>11
  <2>2. cut = msgs[w]
    BY <1>6, <1>11
  <2> QED
    BY <1>5, <1>9, <2>1, <2>2 DEF Own, RowMove
<1> QED
  BY <1>10, <1>11

(* Recording an entry moves the writer to it. *)
LEMMA MovedOwn ==
    ASSUME ConversationInv, NEW w \in Attempts, at[w] \in {"append", "mark"}, Moved(w),
           UNCHANGED branch
    PROVE  /\ CellsTyped' /\ Apart(w)
           /\ msgs'[w] = Entry(w)
           /\ at'[w] \in {"append", "mark"} <=> todo'[w] # <<>>
           /\ branch'[w] \in Branches
           /\ Len(msgs'[w]) + Len(todo'[w]) <= MaxLength
           /\ at'[w] \notin {"over", "mark"}
<1>1. /\ Entry(w) \in Histories /\ Tail(todo[w]) \in Histories
      /\ Len(Entry(w)) = Len(msgs[w]) + 1 /\ Len(Tail(todo[w])) = Len(todo[w]) - 1
  BY EntryFollows
<1>a. /\ Len(msgs[w]) \in Nat /\ Len(todo[w]) \in Nat
      /\ Len(msgs[w]) + Len(todo[w]) <= MaxLength
  BY WriterKnows
<1>2. Len(Entry(w)) + Len(Tail(todo[w])) <= MaxLength
  <2>1. MaxLength \in Nat
    BY ConversationConstants
  <2>2. Len(todo[w]) # 0
    BY <1>a, WriterKnows, EmptySeq DEF Writer
  <2>3. (Len(msgs[w]) + 1) + (Len(todo[w]) - 1) <= MaxLength
    BY <1>a, <2>1, <2>2, OneMore
  <2> QED
    BY <1>1, <2>3
<1>3. next[w] \in Nexts
  BY InvParts DEF CellsTyped
<1>4. msgs' = [msgs EXCEPT ![w] = Entry(w)] /\ Recording(w, Tail(todo[w]), next[w])
  BY DEF Moved, Entry
<1> QED
  BY <1>1, <1>2, <1>3, <1>4, RecordingOwn

-----------------------------------------------------------------------------
(* The steps *)

(* Where a step that adds no row leaves the attempt, and that a duplicate it *)
(* goes on to mark is there.                                                 *)
Reaches(w) ==
    /\ rows' = rows => msgs'[w] \in Known
    /\ rows' = rows /\ at'[w] # "over" => msgs'[w] \in {msgs[w], ActiveBranch}
    /\ at'[w] = "mark" => rows' = rows /\ Entry(w)' \in Chained

(* A step that leaves the attempt's histories alone. *)
LEMMA StayOwn ==
    ASSUME ConversationInv, NEW w \in Attempts, CellsTyped', Apart(w), UNCHANGED rows,
           msgs'[w] = msgs[w], todo'[w] = todo[w],
           at[w] \notin {"append", "mark"}, at'[w] \notin {"append", "mark"}, at'[w] \notin {"new", "over"} => branch'[w] \in Branches
    PROVE  Own(w) /\ Reaches(w)
<1>1. Len(msgs[w]) + Len(todo[w]) <= MaxLength /\ msgs[w] \in Known /\ todo[w] = <<>>
  BY WriterKnows DEF Writer
<1>2. Own(w)
  BY <1>1 DEF Own, RowMove
<1>3. Reaches(w)
  BY <1>1 DEF Reaches
<1> QED
  BY <1>2, <1>3

(* An attempt that begins has written nothing yet. *)
LEMMA BeginOwn ==
    ASSUME ConversationInv, NEW w \in Attempts, Begin(w)
    PROVE  Own(w) /\ Reaches(w)
<1>0. CellsTyped
  BY InvParts
<1>1. PICK b \in Branches : branch' = [branch EXCEPT ![w] = b]
  BY DEF Begin
<1>2. at' = [at EXCEPT ![w] = "read"] /\ UNCHANGED <<rows, msgs, todo, next>>
  BY DEF Begin, Goto
<1>3. CellsTyped' /\ Apart(w)
  BY <1>0, <1>1, <1>2 DEF CellsTyped, Apart, Points
<1>4. at[w] = "new" /\ at'[w] = "read" /\ branch'[w] \in Branches
  BY <1>0, <1>1, <1>2 DEF CellsTyped, Begin
<1> QED
  BY <1>2, <1>3, <1>4, StayOwn

(* Leaving, in any of the ways an attempt does: nothing is left of it. *)
LEMMA LeavingOwn ==
    ASSUME ConversationInv, NEW w \in Attempts, Gone(w), UNCHANGED rows
    PROVE  Own(w) /\ Reaches(w)
<1>0. CellsTyped
  BY InvParts
<1>1. /\ at' = [at EXCEPT ![w] = "over"] /\ branch' = [branch EXCEPT ![w] = NoBranch]
      /\ msgs' = [msgs EXCEPT ![w] = <<>>] /\ todo' = [todo EXCEPT ![w] = <<>>]
      /\ next' = [next EXCEPT ![w] = "drive"]
  BY DEF Gone, Goto
<1>2. CellsTyped' /\ Apart(w)
  BY <1>0, <1>1, EmptyIsHistory DEF CellsTyped, Apart, Points, Nexts
<1>3. at'[w] = "over" /\ msgs'[w] = <<>> /\ todo'[w] = <<>>
  BY <1>0, <1>1 DEF CellsTyped
<1>4. Len(<<>>) + Len(<<>>) <= MaxLength
  BY EmptySeq, ConversationConstants
<1>5. Own(w)
  BY <1>2, <1>3, <1>4 DEF Own, RowMove
<1>6. Reaches(w)
  BY <1>3 DEF Reaches, Known
<1> QED
  BY <1>5, <1>6

(* A crash leaves the attempt nothing. *)
LEMMA CrashOwn ==
    ASSUME ConversationInv, NEW w \in Attempts, Crash(w)
    PROVE  Own(w) /\ Reaches(w)
BY LeavingOwn DEF Crash, Leave

(* A close leaves the attempt nothing. *)
LEMMA CloseOwn ==
    ASSUME ConversationInv, NEW w \in Attempts, Close(w)
    PROVE  Own(w) /\ Reaches(w)
BY LeavingOwn DEF Close, Leave

(* Asking the model touches no row; a stale attempt ends there. *)
LEMMA AskModelOwn ==
    ASSUME ConversationInv, NEW w \in Attempts, AskModel(w)
    PROVE  Own(w) /\ Reaches(w)
<1>1. CASE owner[branch[w]] = w
  <2>0. CellsTyped /\ Writer(w)
    BY InvParts
  <2>1. at' = [at EXCEPT ![w] = "settle"] /\ UNCHANGED <<rows, branch, msgs, todo, next>>
    BY <1>1 DEF AskModel, Goto
  <2>2. CellsTyped' /\ Apart(w)
    BY <2>0, <2>1 DEF CellsTyped, Apart, Points
  <2>3. at[w] = "ask" /\ at'[w] = "settle"
    BY <2>0, <2>1 DEF CellsTyped, AskModel
  <2>4. branch'[w] \in Branches
    BY <2>0, <2>1, <2>3 DEF Writer
  <2> QED
    BY <2>1, <2>2, <2>3, <2>4, StayOwn
<1>2. CASE owner[branch[w]] # w
  BY <1>2, LeavingOwn DEF AskModel, Leave
<1> QED
  BY <1>1, <1>2

(* Opening the run record touches no row. *)
LEMMA OpenedOwn ==
    ASSUME ConversationInv, NEW w \in Attempts, Opened(w)
    PROVE  Own(w) /\ Reaches(w)
<1>0. CellsTyped /\ Writer(w)
  BY InvParts
<1>1. PICK p \in {"history", "drive"} : at' = [at EXCEPT ![w] = p]
  BY DEF Opened, Goto
<1>2. at[w] = "opened" /\ UNCHANGED <<rows, branch, msgs, todo, next>>
  BY DEF Opened
<1>3. CellsTyped' /\ Apart(w)
  BY <1>0, <1>1, <1>2 DEF CellsTyped, Apart, Points
<1>4. at'[w] \in {"history", "drive"}
  BY <1>0, <1>1 DEF CellsTyped
<1>5. branch'[w] \in Branches
  BY <1>0, <1>2 DEF Writer
<1> QED
  BY <1>2, <1>3, <1>4, <1>5, StayOwn

(* The branch opens where its readers stand. *)
LEMMA OpenBranchOwn ==
    ASSUME ConversationInv, NEW w \in Attempts, OpenBranch(w)
    PROVE  Own(w) /\ Reaches(w)
<1>0. CellsTyped /\ Writer(w) /\ InOrder /\ RowsTyped
  BY InvParts
<1>1. /\ at' = [at EXCEPT ![w] = "opened"] /\ msgs' = [msgs EXCEPT ![w] = ActiveBranch]
      /\ at[w] = "read" /\ UNCHANGED <<rows, branch, todo, next>>
  BY DEF OpenBranch, Goto
<1>2. ActiveBranch \in Known /\ ActiveBranch \in Histories
  BY <1>0, ReadersStand, KnownAreHistories
<1>3. CellsTyped' /\ Apart(w)
  BY <1>0, <1>1, <1>2 DEF CellsTyped, Apart, Points
<1>4. at'[w] = "opened" /\ msgs'[w] = ActiveBranch /\ todo'[w] = <<>>
  BY <1>0, <1>1 DEF CellsTyped, Writer
<1>5. branch'[w] \in Branches
  BY <1>0, <1>1 DEF Writer
<1>6. Len(msgs'[w]) + Len(todo'[w]) <= MaxLength
  <2>1. Len(ActiveBranch) <= MaxLength /\ Len(ActiveBranch) \in Nat /\ Len(<<>>) = 0
    BY <1>2, HistoryIsSeq, LenProperties, EmptySeq
  <2> QED
    BY <1>4, <2>1, ConversationConstants
<1>7. Own(w)
  BY <1>1, <1>3, <1>4, <1>5, <1>6 DEF Own, RowMove
<1>8. Reaches(w)
  BY <1>2, <1>4 DEF Reaches
<1> QED
  BY <1>7, <1>8

(* Taking a history and settling both replace the branch's messages. *)
LEMMA ReplacingOwn ==
    ASSUME ConversationInv, NEW w \in Attempts, TakeHistory(w) \/ Settle(w)
    PROVE  Own(w) /\ Reaches(w)
<1>1. PICK h \in Histories, p \in Nexts : Replace(w, h, p)
  BY DEF TakeHistory, Settle, Nexts
<1>2. at[w] \notin {"new", "over"} /\ UNCHANGED branch
  BY DEF TakeHistory, Settle
<1>3. /\ Own(w) /\ msgs'[w] \in Known /\ at'[w] \notin {"over", "mark"}
      /\ UNCHANGED rows => msgs'[w] = msgs[w]
  BY <1>1, <1>2, ReplaceOwn
<1>4. Reaches(w)
  BY <1>3 DEF Reaches
<1> QED
  BY <1>3, <1>4

(* The leaf marker names an entry that is there. *)
LEMMA MarkLeafOwn ==
    ASSUME ConversationInv, NEW w \in Attempts, MarkLeaf(w)
    PROVE  Own(w) /\ Reaches(w)
<1> DEFINE row == [type |-> "leaf", leaf |-> Entry(w)]
<1>0. RowsTyped /\ Writer(w)
  BY InvParts
<1>1. at[w] = "mark" /\ Appended(row) /\ Moved(w) /\ UNCHANGED branch
  BY DEF MarkLeaf
<1>2. Entry(w) \in Histories
  BY <1>1, EntryFollows
<1>3. Entry(w) \in Known
  BY <1>0, <1>1 DEF Writer, Known
<1>4. row \in Rows /\ Follows(row) /\ Tip(row) = Entry(w)
  BY <1>2, <1>3 DEF Rows, Follows, Tip
<1> HIDE DEF row
<1>5. /\ CellsTyped' /\ Apart(w)
      /\ msgs'[w] = Entry(w)
      /\ at'[w] \in {"append", "mark"} <=> todo'[w] # <<>>
      /\ branch'[w] \in Branches
      /\ Len(msgs'[w]) + Len(todo'[w]) <= MaxLength
      /\ at'[w] \notin {"over", "mark"}
  BY <1>1, MovedOwn
<1>6. RowMove(w)
  BY <1>1, <1>4, <1>5 DEF RowMove
<1>7. Own(w)
  BY <1>5, <1>6 DEF Own
<1>8. rows' # rows
  BY <1>0, <1>1, <1>4, AppendedChanges
<1>9. Reaches(w)
  BY <1>5, <1>8 DEF Reaches
<1> QED
  BY <1>7, <1>9

(* A record is appended below the writer, or is there already. *)
LEMMA RecordOwn ==
    ASSUME ConversationInv, NEW w \in Attempts, Record(w)
    PROVE  Own(w) /\ Reaches(w)
<1>0. RowsTyped /\ Writer(w) /\ CellsTyped
  BY InvParts
<1>1. at[w] = "append" /\ UNCHANGED branch
  BY DEF Record
<1>2. CASE Entry(w) \in Chained
  <2>1. at' = [at EXCEPT ![w] = "mark"] /\ UNCHANGED <<rows, msgs, todo, next>>
    BY <1>2 DEF Record, Goto
  <2>2. CellsTyped' /\ Apart(w)
    BY <1>0, <1>1, <2>1 DEF CellsTyped, Apart, Points
  <2>3. at'[w] = "mark"
    BY <1>0, <2>1 DEF CellsTyped
  <2>4. Own(w)
    BY <1>0, <1>1, <2>1, <2>2, <2>3 DEF Own, Writer, RowMove
  <2>5. Entry(w)' = Entry(w)
    BY <2>1 DEF Entry
  <2>6. Reaches(w)
    BY <1>0, <1>2, <2>1, <2>5 DEF Reaches, Writer
  <2> QED
    BY <2>4, <2>6
<1>3. CASE Entry(w) \notin Chained
  <2> DEFINE row == [type |-> "message", uuid |-> Entry(w)]
  <2>1. Appended(row) /\ Moved(w)
    BY <1>3 DEF Record
  <2>2. /\ Entry(w) \in Histories /\ Head(todo[w]) \in Messages
        /\ Entry(w) = Append(msgs[w], Head(todo[w]))
    BY <1>1, EntryFollows
  <2>3. msgs[w] \in Known
    BY <1>0 DEF Writer
  <2>4. row \in Rows /\ row = [type |-> "message", uuid |-> Append(msgs[w], Head(todo[w]))]
    BY <2>2 DEF Rows
  <2>5. Tip(row) = Entry(w)
    BY DEF Tip
  <2> HIDE DEF row
  <2>6. Follows(row)
    BY <2>2, <2>3, <2>4 DEF Follows
  <2>7. /\ CellsTyped' /\ Apart(w)
        /\ msgs'[w] = Entry(w)
        /\ at'[w] \in {"append", "mark"} <=> todo'[w] # <<>>
        /\ branch'[w] \in Branches
        /\ Len(msgs'[w]) + Len(todo'[w]) <= MaxLength
        /\ at'[w] \notin {"over", "mark"}
    BY <1>1, <2>1, MovedOwn
  <2>8. RowMove(w)
    BY <2>1, <2>4, <2>5, <2>6, <2>7 DEF RowMove
  <2>9. Own(w)
    BY <2>7, <2>8 DEF Own
  <2>10. rows' # rows
    BY <1>0, <2>1, <2>4, AppendedChanges
  <2>11. Reaches(w)
    BY <2>7, <2>10 DEF Reaches
  <2> QED
    BY <2>9, <2>11
<1> QED
  BY <1>2, <1>3

(* Recording a message begins from where the writer stands. *)
LEMMA RecordMessageOwn ==
    ASSUME ConversationInv, NEW w \in Attempts, RecordMessage(w)
    PROVE  Own(w) /\ Reaches(w)
<1>0. CellsTyped /\ msgs[w] \in Histories /\ msgs[w] \in Known /\ Len(msgs[w]) \in Nat
  BY InvParts, WriterKnows DEF CellsTyped
<1>1. PICK m \in Messages, p \in Nexts : Recording(w, <<m>>, p)
  BY DEF RecordMessage, Nexts
<1>2. /\ at[w] \notin {"new", "over"} /\ Len(msgs[w]) < MaxLength
      /\ UNCHANGED <<rows, branch, msgs>>
  BY DEF RecordMessage
<1>3. <<m>> \in Seq(Messages) /\ Len(<<m>>) = 1
  OBVIOUS
<1>4. Len(msgs[w]) + Len(<<m>>) <= MaxLength /\ Len(<<m>>) <= MaxLength
  BY <1>0, <1>2, <1>3, ConversationConstants
<1>5. <<m>> \in Histories
  BY <1>3, <1>4, HistoryIsSeq
<1>6. msgs' = [msgs EXCEPT ![w] = msgs[w]]
  BY <1>0, <1>2 DEF CellsTyped
<1>7. /\ CellsTyped' /\ Apart(w)
      /\ msgs'[w] = msgs[w]
      /\ at'[w] \in {"append", "mark"} <=> todo'[w] # <<>>
      /\ branch'[w] \in Branches
      /\ Len(msgs'[w]) + Len(todo'[w]) <= MaxLength
      /\ at'[w] \notin {"over", "mark"}
  BY <1>0, <1>1, <1>2, <1>4, <1>5, <1>6, RecordingOwn
<1>8. Own(w)
  BY <1>2, <1>7 DEF Own, RowMove
<1>9. Reaches(w)
  BY <1>0, <1>7 DEF Reaches
<1> QED
  BY <1>8, <1>9

(* An attempt's step, whichever it is. *)
LEMMA StepOwn ==
    ASSUME ConversationInv, NEW w \in Attempts, Step(w)
    PROVE  Own(w) /\ Reaches(w)
<1>1. CASE Begin(w)
  BY <1>1, BeginOwn
<1>2. CASE Crash(w)
  BY <1>2, CrashOwn
<1>3. CASE OpenBranch(w)
  BY <1>3, OpenBranchOwn
<1>4. CASE Opened(w)
  BY <1>4, OpenedOwn
<1>5. CASE TakeHistory(w) \/ Settle(w)
  BY <1>5, ReplacingOwn
<1>6. CASE Record(w)
  BY <1>6, RecordOwn
<1>7. CASE MarkLeaf(w)
  BY <1>7, MarkLeafOwn
<1>8. CASE RecordMessage(w)
  BY <1>8, RecordMessageOwn
<1>9. CASE AskModel(w)
  BY <1>9, AskModelOwn
<1>10. CASE Close(w)
  BY <1>10, CloseOwn
<1> QED
  BY <1>1, <1>2, <1>3, <1>4, <1>5, <1>6, <1>7, <1>8, <1>9, <1>10 DEF Step

(* The transcript after an attempt's step: in order, with the entries it had, *)
(* and readers that are where they were or where the attempt goes.            *)
LEMMA StepRows ==
    ASSUME ConversationInv, NEW w \in Attempts, Own(w), Reaches(w)
    PROVE  /\ RowsTyped' /\ PrefixClosed' /\ MarksKnown'
           /\ Chained \subseteq Chained' /\ msgs'[w] \in Known'
           /\ \/ rows' = rows /\ ActiveBranch' = ActiveBranch
              \/ at'[w] # "over" /\ ActiveBranch' = msgs'[w]
<1>0. RowsTyped /\ PrefixClosed /\ MarksKnown
  BY InvParts
<1>1. CASE rows' = rows
  <2>1. Positions("message")' = Positions("message") /\ Positions("leaf")' = Positions("leaf")
    BY <1>1 DEF Positions
  <2>2. Chained' = Chained /\ Known' = Known
    BY <1>1, <2>1 DEF Chained, Known
  <2>3. RowsTyped' /\ PrefixClosed' /\ MarksKnown'
    BY <1>0, <1>1, <2>1, <2>2 DEF RowsTyped, PrefixClosed, MarksKnown
  <2>4. ActiveBranch' = ActiveBranch
    <3>1. Stand' = Stand
      BY <1>1, <2>1 DEF Stand, Grown
    <3> QED
      BY <1>0, <2>3, <3>1, ReadersStand, ReadersStandNext DEF InOrder
  <2>5. msgs'[w] \in Known'
    BY <1>1, <2>2 DEF Reaches
  <2> QED
    BY <1>1, <2>2, <2>3, <2>4, <2>5
<1>2. CASE rows' # rows
  <2>1. PICK row \in Rows : Follows(row) /\ Appended(row) /\ Tip(row) = msgs'[w]
    BY <1>2 DEF Own, RowMove
  <2>2. at'[w] # "over"
    BY <1>2 DEF Own, RowMove
  <2> QED
    BY <1>0, <2>1, <2>2, AppendedRow
<1> QED
  BY <1>1, <1>2

(* Every attempt still knows where it is. *)
LEMMA StepWriters ==
    ASSUME ConversationInv, NEW w \in Attempts, Own(w), Reaches(w), NEW v \in Attempts
    PROVE  Writer(v)'
<1>1. Chained \subseteq Chained' /\ Known \subseteq Known' /\ msgs'[w] \in Known'
  BY StepRows DEF Known
<1>2. CASE v = w
  BY <1>1, <1>2 DEF Own, Reaches, Writer
<1>3. CASE v # w
  <2>1. at'[v] = at[v] /\ msgs'[v] = msgs[v] /\ todo'[v] = todo[v] /\ branch'[v] = branch[v]
    BY <1>3 DEF Own, Apart
  <2>2. Entry(v)' = Entry(v) /\ Writer(v)
    BY <2>1, InvParts DEF Entry
  <2> QED
    BY <1>1, <2>1, <2>2 DEF Writer
<1> QED
  BY <1>2, <1>3

(* The leases and the run records keep their types. *)
LEMMA StepLeases ==
    ASSUME ConversationInv, NEW w \in Attempts, Step(w)
    PROVE  LeasesTyped'
<1>0. LeasesTyped /\ Writer(w)
  BY InvParts
<1>1. CASE Begin(w)
  BY <1>0, <1>1 DEF Begin, LeasesTyped
<1>2. CASE Opened(w)
  <2>1. branch[w] \in Branches
    BY <1>0, <1>2 DEF Opened, Writer
  <2>2. /\ record' = [record EXCEPT ![branch[w]].started = TRUE]
        /\ unfinished' = [unfinished EXCEPT ![branch[w]] = w]
        /\ UNCHANGED <<owner, held>>
    BY <1>2 DEF Opened, leaseVars
  <2> QED
    BY <1>0, <2>1, <2>2 DEF LeasesTyped
<1>3. CASE Close(w)
  <2>1. branch[w] \in Branches
    BY <1>0, <1>3 DEF Close, Writer
  <2> QED
    BY <1>0, <1>3, <2>1 DEF Close, Leave, LeasesTyped
<1>4. CASE Crash(w) \/ AskModel(w)
  BY <1>0, <1>4 DEF Crash, AskModel, Leave, Gone, LeasesTyped, leaseVars
<1>5. CASE OpenBranch(w) \/ TakeHistory(w) \/ Record(w) \/ MarkLeaf(w) \/ RecordMessage(w) \/ Settle(w)
  BY <1>0, <1>5 DEF OpenBranch, TakeHistory, Record, MarkLeaf, RecordMessage, Settle, LeasesTyped,
                    leaseVars
<1> QED
  BY <1>1, <1>2, <1>3, <1>4, <1>5 DEF Step

-----------------------------------------------------------------------------
(* The invariant *)

(* Nothing is written, and no attempt has begun. *)
LEMMA ConversationInitially == Init => ConversationInv
<1> SUFFICES ASSUME Init PROVE ConversationInv
  OBVIOUS
<1>1. rows = <<>> /\ rows \in Seq(Rows) /\ Len(rows) = 0 /\ DOMAIN rows = {}
  <2>1. rows = <<>>
    BY DEF Init
  <2>2. <<>> \in Seq(Rows) /\ Len(<<>>) = 0
    BY EmptySeq
  <2>3. DOMAIN <<>> = 1..0
    BY <2>2, LenProperties
  <2> QED
    BY <2>1, <2>2, <2>3
<1>2. Positions("message") = {} /\ Positions("leaf") = {}
  BY <1>1 DEF Positions
<1>3. Chained = {}
  BY <1>2 DEF Chained
<1>4. RowsTyped
  BY <1>1, ConversationConstants DEF RowsTyped
<1>5. PrefixClosed /\ MarksKnown
  BY <1>2, <1>3 DEF PrefixClosed, MarksKnown
<1>6. CellsTyped
  BY EmptyIsHistory DEF Init, CellsTyped, Points, Nexts
<1>7. LeasesTyped
  BY DEF Init, LeasesTyped
<1>8. \A w \in Attempts : Writer(w)
  <2> SUFFICES ASSUME NEW w \in Attempts PROVE Writer(w)
    OBVIOUS
  <2>1. msgs[w] = <<>> /\ todo[w] = <<>> /\ at[w] = "new"
    BY DEF Init
  <2>2. Len(<<>>) + Len(<<>>) <= MaxLength
    BY EmptySeq, ConversationConstants
  <2> QED
    BY <2>1, <2>2 DEF Writer, Known
<1> QED
  BY <1>4, <1>5, <1>6, <1>7, <1>8
     DEF ConversationInv, TypeOK, RowsTyped, CellsTyped, LeasesTyped, Points, Nexts, Writer, Known

(* The parts make the invariant again. *)
LEMMA InvFromParts ==
    ASSUME InOrder, CellsTyped, LeasesTyped, \A w \in Attempts : Writer(w)
    PROVE  ConversationInv
BY DEF ConversationInv, TypeOK, InOrder, RowsTyped, CellsTyped, LeasesTyped, Points, Nexts, Writer,
       Known

(* The parts of the invariant make it up after the step as well. *)
LEMMA InvFromPartsNext ==
    (InOrder /\ CellsTyped /\ LeasesTyped /\ \A w \in Attempts : Writer(w))' => ConversationInv'
<1>1. InOrder /\ CellsTyped /\ LeasesTyped /\ (\A w \in Attempts : Writer(w)) => ConversationInv
  BY InvFromParts
<1> QED
  BY <1>1, PTL

(* Only the leases and the run records change, or nothing does. *)
LEMMA AsideStep ==
    ASSUME ConversationInv, UNCHANGED <<rows, branch, record, owner, at, msgs, todo, next, unfinished>>,
           held' \in [Branches -> BOOLEAN]
    PROVE  ConversationInv'
<1>1. InOrder /\ CellsTyped /\ LeasesTyped /\ \A w \in Attempts : Writer(w)
  BY InvParts
<1>2. CellsTyped' /\ LeasesTyped'
  BY <1>1 DEF CellsTyped, LeasesTyped
<1>3. Positions("message")' = Positions("message") /\ Positions("leaf")' = Positions("leaf")
  BY DEF Positions
<1>4. Chained' = Chained /\ Known' = Known
  BY <1>3 DEF Chained, Known
<1>5. InOrder'
  BY <1>1, <1>3, <1>4 DEF InOrder, RowsTyped, PrefixClosed, MarksKnown
<1>6. \A w \in Attempts : Writer(w)'
  BY <1>1, <1>4 DEF Writer, Entry
<1> QED
  BY <1>2, <1>5, <1>6, InvFromPartsNext

(* Every step keeps the invariant. *)
LEMMA ConversationPreserved == ConversationInv /\ [Next]_vars => ConversationInv'
<1> SUFFICES ASSUME ConversationInv, [Next]_vars PROVE ConversationInv'
  OBVIOUS
<1>0. held \in [Branches -> BOOLEAN]
  BY InvParts DEF LeasesTyped
<1>1. CASE \E w \in Attempts : Step(w)
  <2>1. PICK w \in Attempts : Step(w)
    BY <1>1
  <2>2. Own(w) /\ Reaches(w)
    BY <2>1, StepOwn
  <2>3. InOrder'
    BY <2>2, StepRows DEF InOrder
  <2>4. \A v \in Attempts : Writer(v)'
    BY <2>2, StepWriters
  <2>5. LeasesTyped'
    BY <2>1, StepLeases
  <2>6. CellsTyped'
    BY <2>2 DEF Own
  <2> QED
    BY <2>3, <2>4, <2>5, <2>6, InvFromPartsNext
<1>2. CASE \E b \in Branches : Lapse(b)
  <2>1. PICK b \in Branches : Lapse(b)
    BY <1>2
  <2>2. held' \in [Branches -> BOOLEAN]
    BY <1>0, <2>1 DEF Lapse
  <2>3. UNCHANGED <<rows, branch, record, owner, at, msgs, todo, next, unfinished>>
    BY <2>1 DEF Lapse
  <2> QED
    BY <2>2, <2>3, AsideStep
<1>3. CASE UNCHANGED vars
  BY <1>0, <1>3, AsideStep DEF vars, leaseVars
<1> QED
  BY <1>1, <1>2, <1>3 DEF Next, Step

(* Every state has the invariant. *)
LEMMA ConversationInvariant == Spec => []ConversationInv
BY ConversationInitially, ConversationPreserved, PTL DEF Spec

-----------------------------------------------------------------------------
(* Theorems *)

(* Types hold whatever the attempts and branches are, and a writer's position *)
(* is one that readers find (Branch.messages, TranscriptWriter.position).     *)
THEOREM ConversationTypeCorrect == Spec => []TypeOK
<1>1. ConversationInv => TypeOK
  BY DEF ConversationInv
<1> QED
  BY <1>1, ConversationInvariant, PTL

(* No writer, stale or of another branch, leaves an entry without its         *)
(* ancestors: the conversation keeps every entry's whole history              *)
(* (MemoryTranscript.messages_at).                                            *)
THEOREM ConversationChainsWhole == Spec => []ChainsWhole
<1>1. ConversationInv => ChainsWhole
  <2> SUFFICES ASSUME ConversationInv, NEW uuid \in Chained PROVE Chain(uuid) = uuid
    BY DEF ChainsWhole
  <2>1. RowsTyped /\ PrefixClosed /\ uuid \in Known
    BY InvParts DEF Known
  <2> QED
    BY <2>1, WholeChain
<1> QED
  BY <1>1, ConversationInvariant, PTL

(* One step of ReadersFollowWriter. *)
ReadersFollow ==
    /\ \A w \in Attempts : Moves(w) => ActiveBranch' = msgs'[w]
    /\ ActiveBranch' # ActiveBranch =>
         \E w \in Attempts : at'[w] # "over" /\ ActiveBranch' = msgs'[w]

(* A step moves the readers only with the writer that takes it. *)
LEMMA ReadersFollowStep == ConversationInv /\ [Next]_vars => [ReadersFollow]_vars
<1> SUFFICES ASSUME ConversationInv, Next PROVE ReadersFollow \/ UNCHANGED vars
  OBVIOUS
<1>1. CASE \E w \in Attempts : Step(w)
  <2>1. PICK w \in Attempts : Step(w)
    BY <1>1
  <2>2. Own(w) /\ Reaches(w)
    BY <2>1, StepOwn
  <2>3. \/ rows' = rows /\ ActiveBranch' = ActiveBranch
        \/ at'[w] # "over" /\ ActiveBranch' = msgs'[w]
    BY <2>2, StepRows
  <2>4. ASSUME NEW v \in Attempts, Moves(v) PROVE ActiveBranch' = msgs'[v]
    <3>1. v = w
      BY <2>2, <2>4 DEF Moves, Own, Apart
    <3> QED
      BY <2>2, <2>3, <2>4, <3>1 DEF Moves, Reaches
  <2>5. ActiveBranch' # ActiveBranch =>
          \E v \in Attempts : at'[v] # "over" /\ ActiveBranch' = msgs'[v]
    BY <2>3
  <2> QED
    BY <2>4, <2>5 DEF ReadersFollow
<1>2. CASE \E b \in Branches : Lapse(b)
  <2>1. UNCHANGED <<rows, branch, record, owner, at, msgs, todo, next, unfinished>>
    BY <1>2 DEF Lapse
  <2>2. ConversationInv'
    BY ConversationPreserved
  <2>3. Stand' = Stand
    BY <2>1 DEF Stand, Grown, Positions
  <2>4. ActiveBranch' = ActiveBranch
    BY <2>2, <2>3, InvParts, ReadersStand, ReadersStandNext DEF ConversationInv, InOrder, TypeOK, RowsTyped
  <2> QED
    BY <2>1, <2>4 DEF ReadersFollow, Moves
<1> QED
  BY <1>1, <1>2 DEF Next, Step

(* Whatever attempts write in between, each move of a writer leaves every     *)
(* reader at the writer's position, and readers move at no other step         *)
(* (TranscriptWriter.record, .rewind; conversation's active branch).          *)
THEOREM ConversationReadersFollow == Spec => ReadersFollowWriter
<1>1. Spec => [][ReadersFollow]_vars
  BY ConversationInvariant, ReadersFollowStep, PTL DEF Spec
<1> QED
  BY <1>1 DEF ReadersFollow, ReadersFollowWriter

=============================================================================
