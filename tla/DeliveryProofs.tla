---------------------------- MODULE DeliveryProofs ----------------------------
(***************************************************************************)
(* Theorems about Delivery, for any prompts, inputs, attempts, screens and *)
(* bounds.                                                                 *)
(*                                                                         *)
(* Neither AdmittedWasCarried nor FinishDrains is inductive: what an       *)
(* attempt admits was carried a step before, and that a look at the queue  *)
(* finds nothing left rests on all that its session claimed since it       *)
(* began.  The inductive invariant follows each claimed input through its  *)
(* attempt (Session): it is pending for the next request, in the history   *)
(* or settled, a resumed request names none of them, and what is about to  *)
(* be admitted was carried.  The queue only moves forward (QueueMoves), so *)
(* no attempt disturbs what the others hold.                               *)
(***************************************************************************)
EXTENDS Delivery, StepLedgerProofs, SequenceTheorems

-----------------------------------------------------------------------------
(* Numbers in order *)

(* A set of numbers that is not empty has a least one. *)
LEMMA LeastOf ==
    ASSUME NEW S \in SUBSET Nat, S # {}
    PROVE  \E n \in S : \A m \in S : n <= m
<1> DEFINE R == OpToRel(<, Nat)
<1>1. IsWellFoundedOn(R, Nat)
  BY NatLessThanWellFounded
<1>2. \A m, n \in Nat : m < n => <<m, n>> \in R
  BY DEF OpToRel
<1> HIDE DEF R
<1>3. PICK n \in S : \A m \in S : <<m, n>> \notin R
  BY <1>1, WFMin
<1>4. \A m \in S : ~(m < n)
  BY <1>2, <1>3
<1>5. \A m \in S : n <= m
  BY <1>4
<1> QED
  BY <1>5

(* Numbers below a bound are finitely many. *)
LEMMA BelowIsFinite ==
    ASSUME NEW k \in Nat, NEW S \in SUBSET (0..(k - 1))
    PROVE  IsFiniteSet(S) /\ Cardinality(S) \in Nat
<1>1. 0 \in Int /\ k - 1 \in Int
  OBVIOUS
<1>2. IsFiniteSet(0..(k - 1))
  BY <1>1, FS_Interval
<1>3. IsFiniteSet(S)
  BY <1>2, FS_Subset
<1> QED
  BY <1>3, FS_CardinalityType

Increasing(s) == \A m, n \in DOMAIN s : m < n => s[m] < s[n]

(* Numbers below a bound can be put in ascending order: the greatest of them *)
(* goes after the others, which are below a smaller bound.                   *)
LEMMA AscendingExists ==
    ASSUME NEW k \in Nat, NEW S \in SUBSET (0..(k - 1))
    PROVE  \E s \in [1..Cardinality(S) -> S] : Increasing(s)
<1> DEFINE Sorted(T) == \E s \in [1..Cardinality(T) -> T] : Increasing(s)
           Bad == {n \in Nat : \E T \in SUBSET (0..(n - 1)) : ~Sorted(T)}
<1>1. ASSUME NEW n \in Nat, NEW T \in SUBSET (0..(n - 1)),
             \A j \in Nat : j < n => \A U \in SUBSET (0..(j - 1)) : Sorted(U)
      PROVE  Sorted(T)
  <2>0. IsFiniteSet(T)
    BY <1>1, BelowIsFinite
  <2>1. CASE n = 0
    <3>0. T = {}
      BY <1>1, <2>1
    <3>1. T = {} /\ Cardinality(T) = 0
      BY <3>0, FS_EmptySet
    <3>2. [x \in 1..Cardinality(T) |-> x] \in [1..Cardinality(T) -> T]
      BY <3>1
    <3>3. Increasing([x \in 1..Cardinality(T) |-> x])
      BY DEF Increasing
    <3> QED
      BY <3>2, <3>3
  <2>2. CASE n # 0 /\ (n - 1) \notin T
    <3>1. n - 1 \in Nat /\ n - 1 < n
      BY <2>2
    <3>2. T \in SUBSET (0..((n - 1) - 1))
      BY <2>2
    <3> QED
      BY <1>1, <3>1, <3>2
  <2>3. CASE n # 0 /\ (n - 1) \in T
    <3> DEFINE U == T \ {n - 1}
               c == Cardinality(U)
    <3>1. n - 1 \in Nat /\ n - 1 < n
      BY <2>3
    <3>2. U \in SUBSET (0..((n - 1) - 1))
      OBVIOUS
    <3>3. Sorted(U)
      BY <1>1, <3>1, <3>2
    <3>4. PICK t \in [1..c -> U] : Increasing(t)
      BY <3>3
    <3>5. Cardinality(T) \in Nat /\ IsFiniteSet(U) /\ c = Cardinality(T) - 1
      BY <2>0, <2>3, FS_RemoveElement, FS_CardinalityType
    <3>6. c \in Nat
      BY <3>5, FS_CardinalityType
    <3> DEFINE s == [m \in 1..Cardinality(T) |-> IF m <= c THEN t[m] ELSE n - 1]
    <3>7. \A m \in 1..Cardinality(T) : m \in 1..c \/ m = c + 1
      BY <3>5, <3>6
    <3>a. \A x \in U : x \in T /\ x \in Nat /\ x < n - 1
      BY <3>1, <3>2
    <3> HIDE DEF c, U
    <3>8. \A m \in 1..c : t[m] \in T /\ t[m] \in Nat /\ t[m] < n - 1
      BY <3>4, <3>a
    <3>9. \A m \in 1..Cardinality(T) : s[m] \in T
      BY <2>3, <3>7, <3>8
    <3>10. s \in [1..Cardinality(T) -> T]
      BY <3>9
    <3>11. Increasing(s)
      <4> SUFFICES ASSUME NEW i \in 1..Cardinality(T), NEW j \in 1..Cardinality(T), i < j
                   PROVE  s[i] < s[j]
        BY DEF Increasing
      <4>1. i \in 1..c
        BY <3>5, <3>6, <3>7
      <4>2. CASE j \in 1..c
        <5>1. s[i] = t[i] /\ s[j] = t[j] /\ DOMAIN t = 1..c
          BY <3>4, <3>6, <4>1, <4>2
        <5> QED
          BY <3>4, <4>1, <4>2, <5>1 DEF Increasing
      <4>3. CASE j = c + 1
        <5>1. s[i] = t[i] /\ s[j] = n - 1
          BY <3>6, <4>1, <4>3
        <5> QED
          BY <3>8, <4>1, <5>1
      <4> QED
        BY <3>7, <4>2, <4>3
    <3> HIDE DEF s
    <3> QED
      BY <3>10, <3>11
  <2> QED
    BY <2>1, <2>2, <2>3
<1>2. Bad = {}
  <2> SUFFICES ASSUME Bad # {} PROVE FALSE
    OBVIOUS
  <2>1. PICK n \in Bad : \A m \in Bad : n <= m
    BY LeastOf
  <2> HIDE DEF Sorted
  <2>2. ASSUME NEW j \in Nat, j < n, NEW U \in SUBSET (0..(j - 1)) PROVE Sorted(U)
    <3>1. n \in Nat /\ ~(n <= j)
      BY <2>2
    <3>2. j \notin Bad
      BY <2>1, <3>1
    <3> QED
      BY <3>2
  <2>3. \A T \in SUBSET (0..(n - 1)) : Sorted(T)
    BY <1>1, <2>1, <2>2
  <2> QED
    BY <2>1, <2>3
<1> QED
  BY <1>2

(* Ascending lists a finite set of numbers, each of them once, in order. *)
LEMMA AscendingLists ==
    ASSUME NEW k \in Nat, NEW S \in SUBSET (0..(k - 1))
    PROVE  /\ Cardinality(S) \in Nat
           /\ Ascending(S) \in [1..Cardinality(S) -> S]
           /\ Increasing(Ascending(S))
           /\ \A x \in S : \E n \in 1..Cardinality(S) : Ascending(S)[n] = x
<1>1. IsFiniteSet(S) /\ Cardinality(S) \in Nat
  BY BelowIsFinite
<1>2. \E s \in [1..Cardinality(S) -> S] : \A m, n \in DOMAIN s : m < n => s[m] < s[n]
  BY AscendingExists DEF Increasing
<1>3. Ascending(S) \in [1..Cardinality(S) -> S] /\ Increasing(Ascending(S))
  BY <1>2 DEF Ascending, Increasing
<1> DEFINE s == Ascending(S)
           D == 1..Cardinality(S)
<1> HIDE DEF s
<1>4. \A m, n \in D : s[m] = s[n] => m = n
  <2> SUFFICES ASSUME NEW m \in D, NEW n \in D, m # n PROVE s[m] # s[n]
    OBVIOUS
  <2>0. \A x \in S : x \in Int
    OBVIOUS
  <2>1. s[m] \in Int /\ s[n] \in Int /\ DOMAIN s = D
    BY <1>3, <2>0 DEF s
  <2>2. m < n => s[m] < s[n]
    BY <1>3, <2>1 DEF s, Increasing
  <2>3. n < m => s[n] < s[m]
    BY <1>3, <2>1 DEF s, Increasing
  <2>4. m < n \/ n < m
    BY <1>1
  <2> QED
    BY <2>1, <2>2, <2>3, <2>4
<1>5. s \in Injection(D, S)
  BY <1>3, <1>4 DEF s, Injection, IsInjective
<1>6. IsFiniteSet(D) /\ Cardinality(D) = Cardinality(S)
  BY <1>1, FS_Interval
<1>7. s \in Surjection(D, S)
  BY <1>1, <1>5, <1>6, FS_Injection
<1>8. \A x \in S : \E n \in D : s[n] = x
  BY <1>7 DEF Surjection
<1> QED
  BY <1>1, <1>3, <1>8 DEF s

(* A function on the numbers up to n is a sequence, and its values its range. *)
LEMMA ListIsSeq ==
    ASSUME NEW n \in Nat, NEW S, NEW s \in [1..n -> S]
    PROVE  s \in Seq(S) /\ DOMAIN s = 1..n /\ Range(s) = {s[m] : m \in 1..n} /\ Range(s) \subseteq S
BY SeqDef DEF Range

-----------------------------------------------------------------------------
(* Inputs in the order of their submission, and what screens leave of them. *)

(* InOrder lists each of the inputs, by their numbers. *)
LEMMA InOrderLists ==
    ASSUME LedgerTypeOK, Numbered, NEW S \in SUBSET Inputs, \A i \in S : Present(i)
    PROVE  /\ InOrder(S) \in Seq(Inputs)
           /\ Range(InOrder(S)) = S
           /\ \A k, l \in DOMAIN InOrder(S) :
                k < l <=> inputs[InOrder(S)[k]].sequence < inputs[InOrder(S)[l]].sequence
<1> DEFINE N == {inputs[i].sequence : i \in S}
           places == Ascending(N)
           c == Cardinality(N)
           s == InOrder(S)
<1>1. sequence \in Nat /\ N \in SUBSET (0..(sequence - 1))
  BY DEF LedgerTypeOK, Numbered
<1>2. /\ c \in Nat /\ places \in [1..c -> N] /\ Increasing(places)
      /\ \A x \in N : \E n \in 1..c : places[n] = x
  BY <1>1, AscendingLists
<1>3. s = [n \in 1..c |-> CHOOSE i \in S : inputs[i].sequence = places[n]]
  BY <1>2 DEF InOrder
<1>4. \A n \in 1..c : \E i \in S : inputs[i].sequence = places[n]
  BY <1>2
<1>a. \A n \in 1..c : places[n] \in Int
  BY <1>1, <1>2
<1>b. DOMAIN places = 1..c
  BY <1>2
<1> HIDE DEF N, places, c, s
<1>5. \A n \in 1..c : s[n] \in S /\ inputs[s[n]].sequence = places[n]
  BY <1>3, <1>4
<1>6. s \in [1..c -> S]
  BY <1>3, <1>5
<1>7. s \in Seq(S) /\ DOMAIN s = 1..c /\ Range(s) = {s[m] : m \in 1..c} /\ Range(s) \subseteq S
  BY <1>2, <1>6, ListIsSeq
<1>8. s \in Seq(Inputs)
  BY <1>7, SeqMonotonic
<1>9. Range(s) = S
  <2> SUFFICES ASSUME NEW i \in S PROVE i \in Range(s)
    BY <1>7
  <2>1. inputs[i].sequence \in N
    BY DEF N
  <2>2. PICK n \in 1..c : places[n] = inputs[i].sequence
    BY <1>2, <2>1
  <2>3. s[n] \in S /\ inputs[s[n]].sequence = inputs[i].sequence
    BY <1>5, <2>2
  <2>4. s[n] = i
    BY <2>3 DEF Numbered
  <2> QED
    BY <1>7, <2>4
<1>10. ASSUME NEW k \in 1..c, NEW l \in 1..c PROVE k < l <=> places[k] < places[l]
  <2>1. k < l => places[k] < places[l]
    BY <1>2, <1>b DEF Increasing
  <2>2. l < k => places[l] < places[k]
    BY <1>2, <1>b DEF Increasing
  <2>3. k < l \/ l < k \/ k = l
    OBVIOUS
  <2> QED
    BY <1>a, <2>1, <2>2, <2>3
<1>11. \A k, l \in DOMAIN s : k < l <=> inputs[s[k]].sequence < inputs[s[l]].sequence
  BY <1>5, <1>7, <1>10
<1> QED
  BY <1>8, <1>9, <1>11 DEF s

(* Removing keeps the order of what is left. *)
LEMMA WithoutKeeps ==
    ASSUME NEW items \in Seq(Inputs), NEW gone
    PROVE  /\ Without(items, gone) \in Seq(Inputs)
           /\ Range(Without(items, gone)) \subseteq Range(items)
           /\ \E places \in [DOMAIN Without(items, gone) -> DOMAIN items] :
                /\ Increasing(places)
                /\ \A n \in DOMAIN Without(items, gone) :
                     Without(items, gone)[n] = items[places[n]]
                /\ \A k \in DOMAIN items :
                     k \in gone \/ \E n \in DOMAIN Without(items, gone) : places[n] = k
<1> DEFINE P == DOMAIN items \ gone
           places == Ascending(P)
           c == Cardinality(P)
           s == Without(items, gone)
<1>1. Len(items) \in Nat /\ DOMAIN items = 1..Len(items) /\ \A n \in 1..Len(items) : items[n] \in Inputs
  BY LenProperties, ElementOfSeq
<1>2. P \in SUBSET (0..((Len(items) + 1) - 1)) /\ Len(items) + 1 \in Nat /\ P \subseteq DOMAIN items
  BY <1>1
<1>3. /\ c \in Nat /\ places \in [1..c -> P] /\ Increasing(places)
      /\ \A k \in P : \E n \in 1..c : places[n] = k
  BY <1>2, AscendingLists
<1>a. \A k \in DOMAIN items : k \in gone \/ k \in P
  OBVIOUS
<1>4. s = [n \in 1..c |-> items[places[n]]]
  BY <1>3 DEF Without
<1> HIDE DEF P, places, c, s
<1>5. \A n \in 1..c : places[n] \in DOMAIN items
  BY <1>2, <1>3
<1>6. s \in [1..c -> Inputs] /\ \A n \in 1..c : s[n] = items[places[n]]
  BY <1>1, <1>4, <1>5
<1>7. s \in Seq(Inputs) /\ DOMAIN s = 1..c /\ Range(s) = {s[m] : m \in 1..c}
  BY <1>3, <1>6, ListIsSeq
<1>8. Range(s) \subseteq Range(items)
  BY <1>5, <1>6, <1>7 DEF Range
<1>9. places \in [DOMAIN s -> DOMAIN items]
  BY <1>3, <1>5, <1>7
<1>10. \A k \in DOMAIN items : k \in gone \/ \E n \in DOMAIN s : places[n] = k
  BY <1>3, <1>7, <1>a
<1> QED
  BY <1>3, <1>6, <1>7, <1>8, <1>9, <1>10 DEF s

(* What screens take out of a request was in it. *)
LEMMA ScreensRemove ==
    ASSUME NEW parts, NEW queued, NEW screens \in ScreensOf(parts, queued)
    PROVE  PartsRemoved(screens) \subseteq DOMAIN parts
<1>1. \A n \in DOMAIN screens : screens[n].parts \subseteq DOMAIN parts
  BY DEF ScreensOf, Halting, Removing
<1> QED
  BY <1>1 DEF PartsRemoved

(* Screens remove from both lists they are given. *)
LEMMA IngressKeeps ==
    ASSUME NEW parts, NEW queued, NEW screens
    PROVE  \E gone :
             /\ Ingress(screens, parts, queued).parts = Without(parts, PartsRemoved(screens))
             /\ Ingress(screens, parts, queued).queued = Without(queued, gone)
BY DEF Ingress

-----------------------------------------------------------------------------
(* The queue *)

(* An input that no attempt will be given again. *)
Settled(i) == inputs[i].status \in {"admitted", "discarded"}

Store == LedgerTypeOK /\ Numbered

(* What no step of this system undoes in the queue. *)
QueueMoves ==
    /\ Store'
    /\ sequence' >= sequence
    /\ \A i \in Inputs : Present(i) => Present(i)' /\ inputs'[i].sequence = inputs[i].sequence
    /\ \A i \in Inputs : Settled(i) => Settled(i)'
    /\ \A i \in Inputs : ~Present(i) /\ Present(i)' => inputs'[i].sequence >= sequence

(* Only rows move, and only as far as QueueMoves allows. *)
LEMMA RowsMove ==
    ASSUME Store, inputs' \in [Inputs -> InputRecords],
           UNCHANGED <<entries, decisions, lease, tokens, sequence>>,
           \A i \in Inputs : /\ Present(i)' <=> Present(i)
                             /\ Present(i) => inputs'[i].sequence = inputs[i].sequence
                             /\ Settled(i) => Settled(i)'
    PROVE  QueueMoves
<1>1. LedgerTypeOK'
  BY DEF Store, LedgerTypeOK
<1>2. Numbered'
  BY QueueMovesKeepOrder DEF Store
<1>3. sequence' >= sequence
  BY DEF Store, LedgerTypeOK
<1> QED
  BY <1>1, <1>2, <1>3 DEF QueueMoves, Store

(* Admitting settles what it names, and admits nothing else. *)
LEMMA AdmitMoves ==
    ASSUME Store, NEW ids, NEW t, AdmitInputs(ids, t)
    PROVE  /\ QueueMoves
           /\ \A i \in Inputs : inputs'[i].status = "admitted" => inputs[i].status = "admitted" \/ i \in ids
           /\ \A i \in ids \cap Inputs : Present(i) => Settled(i)'
<1>1. inputs \in [Inputs -> InputRecords]
  BY DEF Store, LedgerTypeOK
<1>2. /\ inputs' = [i \in Inputs |-> IF i \in ids /\ inputs[i].status \notin {"none", "discarded"}
                                       THEN [inputs[i] EXCEPT !.status = "admitted"]
                                       ELSE inputs[i]]
      /\ UNCHANGED <<entries, decisions, lease, tokens, sequence>>
  BY DEF AdmitInputs, recordVars, leaseVars
<1>3. inputs' \in [Inputs -> InputRecords]
  BY <1>1, <1>2 DEF InputRecords
<1>4. \A i \in Inputs : /\ Present(i)' <=> Present(i)
                        /\ Present(i) => inputs'[i].sequence = inputs[i].sequence
                        /\ Settled(i) => Settled(i)'
  BY <1>1, <1>2 DEF InputRecords, Present, Settled
<1>5. QueueMoves
  BY <1>2, <1>3, <1>4, RowsMove
<1>6. \A i \in Inputs : inputs'[i].status = "admitted" => inputs[i].status = "admitted" \/ i \in ids
  BY <1>1, <1>2 DEF InputRecords
<1>7. \A i \in ids \cap Inputs : Present(i) => Settled(i)'
  BY <1>1, <1>2 DEF InputRecords, Present, Settled
<1> QED
  BY <1>5, <1>6, <1>7

(* Discarding settles what it names, and admits nothing. *)
LEMMA DiscardMoves ==
    ASSUME Store, NEW ids, NEW t, DiscardInputs(ids, t)
    PROVE  /\ QueueMoves
           /\ \A i \in Inputs : inputs'[i].status = "admitted" => inputs[i].status = "admitted"
           /\ \A i \in ids \cap Inputs : Present(i) => Settled(i)'
<1>1. inputs \in [Inputs -> InputRecords]
  BY DEF Store, LedgerTypeOK
<1>2. /\ inputs' = [i \in Inputs |-> IF i \in ids /\ Present(i)
                                       THEN [inputs[i] EXCEPT !.status = "discarded"]
                                       ELSE inputs[i]]
      /\ UNCHANGED <<entries, decisions, lease, tokens, sequence>>
  BY DEF DiscardInputs, recordVars, leaseVars
<1>3. inputs' \in [Inputs -> InputRecords]
  BY <1>1, <1>2 DEF InputRecords
<1>4. \A i \in Inputs : /\ Present(i)' <=> Present(i)
                        /\ Present(i) => inputs'[i].sequence = inputs[i].sequence
                        /\ Settled(i) => Settled(i)'
  BY <1>1, <1>2 DEF InputRecords, Present, Settled
<1>5. QueueMoves
  BY <1>2, <1>3, <1>4, RowsMove
<1>6. \A i \in Inputs : inputs'[i].status = "admitted" => inputs[i].status = "admitted"
  BY <1>1, <1>2 DEF InputRecords
<1>7. \A i \in ids \cap Inputs : Present(i) => Settled(i)'
  BY <1>1, <1>2 DEF InputRecords, Present, Settled
<1> QED
  BY <1>5, <1>6, <1>7

(* Claiming changes no more than the status of inputs that are not settled. *)
LEMMA ClaimMoves ==
    ASSUME Store, NEW a, ClaimAll(a)
    PROVE  /\ QueueMoves
           /\ \A i \in Inputs : inputs'[i].status = "admitted" => inputs[i].status = "admitted"
           /\ Claimable(a) \subseteq Inputs
           /\ \A i \in Claimable(a) : Present(i) /\ ~Settled(i)
<1>1. inputs \in [Inputs -> InputRecords]
  BY DEF Store, LedgerTypeOK
<1>0. /\ Claimable(a) \subseteq Inputs
      /\ \A i \in Claimable(a) : Present(i) /\ ~Settled(i) /\ inputs[i].status \in {"pending", "claimed"}
  BY DEF Claimable, Present, Settled
<1>2. /\ inputs' = [i \in Inputs |-> IF i \in Claimable(a) THEN [inputs[i] EXCEPT !.status = "claimed"]
                                                           ELSE inputs[i]]
      /\ UNCHANGED <<entries, decisions, lease, tokens, sequence>>
  BY DEF ClaimAll, recordVars, leaseVars
<1>3. inputs' \in [Inputs -> InputRecords]
  BY <1>1, <1>2 DEF InputRecords
<1>4. \A i \in Inputs : /\ Present(i)' <=> Present(i)
                        /\ Present(i) => inputs'[i].sequence = inputs[i].sequence
                        /\ Settled(i) => Settled(i)'
  BY <1>0, <1>1, <1>2 DEF InputRecords, Present, Settled
<1>5. QueueMoves
  BY <1>2, <1>3, <1>4, RowsMove
<1>6. \A i \in Inputs : inputs'[i].status = "admitted" => inputs[i].status = "admitted"
  BY <1>1, <1>2 DEF InputRecords
<1> QED
  BY <1>0, <1>5, <1>6

(* A submission comes after all others. *)
LEMMA EnqueueMoves ==
    ASSUME Store, NEW i \in Inputs, EnqueueInput(i)
    PROVE  /\ QueueMoves
           /\ Present(i)' /\ ~Present(i)
           /\ \A j \in Inputs : inputs'[j].status = "admitted" => inputs[j].status = "admitted"
<1>1. inputs \in [Inputs -> InputRecords] /\ sequence \in Nat
  BY DEF Store, LedgerTypeOK
<1>2. /\ inputs' = [inputs EXCEPT ![i] = [status |-> "pending", sequence |-> sequence]]
      /\ sequence' = sequence + 1 /\ ~Present(i)
      /\ UNCHANGED <<entries, decisions, lease, tokens>>
  BY DEF EnqueueInput, recordVars, leaseVars
<1>3. LedgerTypeOK'
  BY <1>1, <1>2 DEF Store, LedgerTypeOK, InputRecords
<1>4. Numbered'
  BY EnqueueKeepsOrder DEF Store
<1>5. \A j \in Inputs : j # i => inputs'[j] = inputs[j]
  BY <1>1, <1>2
<1>6. inputs'[i] = [status |-> "pending", sequence |-> sequence]
  BY <1>1, <1>2
<1>7. ~Settled(i)
  BY <1>2 DEF Present, Settled
<1>8. \A j \in Inputs : /\ Present(j) => Present(j)' /\ inputs'[j].sequence = inputs[j].sequence
                        /\ Settled(j) => Settled(j)'
                        /\ ~Present(j) /\ Present(j)' => inputs'[j].sequence >= sequence
                        /\ inputs'[j].status = "admitted" => inputs[j].status = "admitted"
  BY <1>1, <1>2, <1>5, <1>6, <1>7 DEF Present, Settled
<1> QED
  BY <1>1, <1>2, <1>3, <1>4, <1>6, <1>8 DEF QueueMoves, Store, Present

(* The lease is none of the queue. *)
LEMMA LeaseMoves ==
    ASSUME Store, \/ \E a \in Owners : Acquire(a) \/ Release(a)
                  \/ Expire
                  \/ UNCHANGED ledgerVars
    PROVE  QueueMoves /\ inputs' = inputs
<1>1. inputs' = inputs /\ sequence' = sequence
  BY DEF Acquire, Release, Expire, queueVars, ledgerVars
<1>2. LedgerTypeOK'
  BY LedgerConstants, LeaseTyped DEF Store, LeaseCalls, LedgerTypeOK, ledgerVars
<1>3. Numbered'
  BY <1>1, QueueMovesKeepOrder DEF Store, Present
<1> QED
  BY <1>1, <1>2, <1>3 DEF QueueMoves, Store, Present, Settled, LedgerTypeOK

-----------------------------------------------------------------------------
(* The invariant *)

Points == Controlling \cup {"new", "over"}

CellsTyped ==
    /\ at \in [Owners -> Points]
    /\ tok \in [Owners -> Nat]
    /\ own \in [Owners -> Prompts \cup {NoInput}]
    /\ context \in [Owners -> Seq(Messages)]
    /\ written \in [Owners -> Seq(Messages)]
    /\ draft \in [Owners -> Messages]
    /\ pending \in [Owners -> Seq(Inputs)]
    /\ resumed \in [Owners -> BOOLEAN]
    /\ seen \in [Owners -> SUBSET Inputs]
    /\ rounds \in [Owners -> 0..MaxRounds]
    /\ drained \in [Owners -> 0..sequence]

HistoryTyped == /\ committed \in Seq(Messages) /\ carried \in SUBSET Inputs /\ withdrawn \in SUBSET Inputs
                /\ torn \in BOOLEAN

(* Before its first turn. *)
Starting == {"new", "open", "enqueue", "admitprompt", "refused"}

(* Where an attempt goes through its turns. *)
Turning == {"claim", "screen", "record", "admit", "ask", "answered", "finish"}

(* An attempt's input session: what it has claimed it still holds for its next *)
(* request, or has in its history, or is settled.                              *)
Session(a) ==
    /\ Range(pending[a]) \subseteq seen[a]
    /\ \A i \in seen[a] : Present(i)
    /\ at[a] \in Starting \cup {"over"} => seen[a] = {} /\ ~resumed[a]
    /\ pending[a] # <<>> => at[a] \in {"claim", "screen", "record", "admit"}
    /\ at[a] \in {"enqueue", "admitprompt"} => own[a] # NoInput
    /\ at[a] \in Turning => \A i \in seen[a] :
         i \in Range(pending[a]) \/ Settled(i) \/ i \in Represented(context[a])
    /\ resumed[a] => /\ at[a] \in {"claim", "screen", "record"}
                     /\ context[a] # <<>> /\ draft[a].ids = Last(context[a]).ids
                     /\ seen[a] \cap Represented(context[a]) = {}
    /\ at[a] = "admit" => Range(pending[a]) \subseteq carried
    /\ at[a] = "answered" => context[a] # <<>>

Drains(a) ==
    at[a] = "finished" => \A i \in Inputs : Present(i) /\ inputs[i].sequence < drained[a] =>
        Settled(i) \/ i \in Represented(context[a])

(* The attempt is past the look at its prompt: if it has one, it brings it. *)
Brings(a) == at[a] \notin {"new", "open", "enqueue"}

Carriers ==
    \A i \in Inputs : inputs[i].status = "admitted" =>
        i \in carried \/ \E a \in Owners : own[a] = i /\ Brings(a)

DeliveryInv ==
    /\ TypeOK
    /\ Numbered
    /\ \A a \in Owners : Session(a) /\ Drains(a)
    /\ Carriers

(* The invariant, in the parts that the steps are shown to keep. *)
LEMMA DeliveryParts ==
    DeliveryInv <=> /\ Store /\ CellsTyped /\ HistoryTyped /\ Carriers
                    /\ \A a \in Owners : Session(a) /\ Drains(a)
BY DEF DeliveryInv, Store, CellsTyped, HistoryTyped, TypeOK, Points

(* The same after a step. *)
LEMMA DeliveryPartsNext ==
    (/\ Store /\ CellsTyped /\ HistoryTyped /\ Carriers
     /\ \A a \in Owners : Session(a) /\ Drains(a))' => DeliveryInv'
BY DeliveryParts, PTL

-----------------------------------------------------------------------------
(* What an attempt's step does to the others, and what it owes them *)

(* The cells of the other attempts are left alone. *)
Apart(a) ==
    \A b \in Owners \ {a} :
        /\ at'[b] = at[b] /\ own'[b] = own[b] /\ context'[b] = context[b]
        /\ written'[b] = written[b] /\ draft'[b] = draft[b] /\ resumed'[b] = resumed[b]
        /\ pending'[b] = pending[b] /\ seen'[b] = seen[b] /\ rounds'[b] = rounds[b]
        /\ drained'[b] = drained[b]

Owed(a) ==
    /\ QueueMoves
    /\ Brings(a) => Brings(a)' /\ own'[a] = own[a]
    /\ carried \subseteq carried' /\ withdrawn \subseteq withdrawn'
    /\ \A i \in Inputs : inputs'[i].status = "admitted" =>
         \/ inputs[i].status = "admitted"
         \/ i \in carried'
         \/ own'[a] = i /\ Brings(a)'

(* The other attempts keep their sessions. *)
LEMMA OthersStand ==
    ASSUME CellsTyped, Store, QueueMoves, carried \subseteq carried', NEW b \in Owners, Session(b), Drains(b),
           at'[b] = at[b], own'[b] = own[b], context'[b] = context[b], draft'[b] = draft[b],
           resumed'[b] = resumed[b], pending'[b] = pending[b], seen'[b] = seen[b],
           drained'[b] = drained[b]
    PROVE  Session(b)' /\ Drains(b)'
<1>1. seen[b] \subseteq Inputs /\ \A i \in seen[b] : Present(i)' /\ (Settled(i) => Settled(i)')
  BY DEF CellsTyped, Session, QueueMoves
<1>2. Session(b)'
  <2>1. \A i \in seen'[b] : Present(i)'
    BY <1>1
  <2>2. at'[b] \in Turning => \A i \in seen'[b] :
          i \in Range(pending'[b]) \/ Settled(i)' \/ i \in Represented(context'[b])
    BY <1>1 DEF Session
  <2> QED
    BY <2>1, <2>2 DEF Session
<1>3. Drains(b)'
  <2> SUFFICES ASSUME at'[b] = "finished", NEW i \in Inputs, Present(i)', inputs'[i].sequence < drained'[b]
               PROVE  Settled(i)' \/ i \in Represented(context'[b])
    BY DEF Drains
  <2>1. sequence \in Nat /\ drained[b] \in 0..sequence
    BY DEF CellsTyped, Store, LedgerTypeOK
  <2>2. inputs'[i].sequence \in Nat
    BY DEF QueueMoves, Store, LedgerTypeOK, InputRecords
  <2>3. Present(i)
    BY <2>1, <2>2 DEF QueueMoves
  <2>4. inputs[i].sequence < drained[b]
    BY <2>3 DEF QueueMoves
  <2>5. Settled(i) \/ i \in Represented(context[b])
    BY <2>3, <2>4 DEF Drains
  <2> QED
    BY <2>5 DEF QueueMoves
<1> QED
  BY <1>2, <1>3

(* A step that owes the others nothing more keeps the invariant. *)
LEMMA StepKeeps ==
    ASSUME DeliveryInv, NEW a \in Owners, Owed(a), Apart(a), CellsTyped', HistoryTyped',
           Session(a)', Drains(a)'
    PROVE  DeliveryInv'
<1>1. Store /\ CellsTyped /\ Carriers /\ \A b \in Owners : Session(b) /\ Drains(b)
  BY DeliveryParts
<1>2. Store' /\ QueueMoves /\ carried \subseteq carried'
  BY DEF Owed, QueueMoves
<1>3. \A b \in Owners : Session(b)' /\ Drains(b)'
  <2> SUFFICES ASSUME NEW b \in Owners, b # a PROVE Session(b)' /\ Drains(b)'
    OBVIOUS
  <2>1. /\ at'[b] = at[b] /\ own'[b] = own[b] /\ context'[b] = context[b] /\ draft'[b] = draft[b]
        /\ resumed'[b] = resumed[b] /\ pending'[b] = pending[b] /\ seen'[b] = seen[b]
        /\ drained'[b] = drained[b]
    BY DEF Apart
  <2> QED
    BY <1>1, <1>2, <2>1, OthersStand
<1>4. \A b \in Owners : Brings(b) => Brings(b)' /\ own'[b] = own[b]
  BY DEF Owed, Apart, Brings
<1>5. Carriers'
  <2> SUFFICES ASSUME NEW i \in Inputs, inputs'[i].status = "admitted"
               PROVE  i \in carried' \/ \E b \in Owners : own'[b] = i /\ Brings(b)'
    BY DEF Carriers
  <2>1. CASE inputs[i].status = "admitted"
    BY <1>1, <1>2, <1>4, <2>1 DEF Carriers
  <2>2. CASE inputs[i].status # "admitted"
    BY <2>2 DEF Owed
  <2> QED
    BY <2>1, <2>2
<1>6. /\ Store' /\ CellsTyped' /\ HistoryTyped' /\ Carriers'
      /\ \A b \in Owners : Session(b)' /\ Drains(b)'
  BY <1>2, <1>3, <1>5
<1> QED
  BY <1>6, DeliveryPartsNext

-----------------------------------------------------------------------------
(* Messages *)

(* The last message of a history, and what comes before it. *)
LEMMA FrontAndLast ==
    ASSUME NEW h \in Seq(Messages), h # <<>>
    PROVE  /\ Front(h) \in Seq(Messages) /\ Len(Front(h)) = Len(h) - 1
           /\ Len(h) \in Nat \ {0} /\ DOMAIN h = 1..Len(h) /\ DOMAIN Front(h) = 1..(Len(h) - 1)
           /\ \A n \in 1..(Len(h) - 1) : Front(h)[n] = h[n]
           /\ Last(h) = h[Len(h)] /\ Last(h) \in Messages
<1>1. Len(h) \in Nat \ {0} /\ DOMAIN h = 1..Len(h)
  BY EmptySeq, LenProperties
<1>2. \A n \in 1..(Len(h) - 1) : h[n] \in Messages
  BY <1>1, ElementOfSeq
<1>3. Front(h) = SubSeq(h, 1, Len(h) - 1) /\ Last(h) = h[Len(h)]
  BY DEF Front, Last
<1>4. /\ Front(h) \in Seq(Messages) /\ Len(Front(h)) = Len(h) - 1
      /\ \A n \in 1..(Len(h) - 1) : Front(h)[n] = h[n]
  <2>1. /\ SubSeq(h, 1, Len(h) - 1) \in Seq(Messages)
        /\ Len(SubSeq(h, 1, Len(h) - 1)) = IF 1 <= Len(h) - 1 THEN (Len(h) - 1) - 1 + 1 ELSE 0
        /\ \A n \in 1..((Len(h) - 1) - 1 + 1) : SubSeq(h, 1, Len(h) - 1)[n] = h[1 + n - 1]
    BY <1>1, <1>2, SubSeqProperties
  <2> QED
    BY <1>1, <1>3, <2>1
<1>5. h[Len(h)] \in Messages
  BY <1>1, ElementOfSeq
<1>6. DOMAIN Front(h) = 1..(Len(h) - 1)
  BY <1>4, LenProperties
<1> QED
  BY <1>1, <1>3, <1>4, <1>5, <1>6

(* The ids of a history that grows by a message, or whose last one is replaced. *)
LEMMA RepresentedAppend ==
    ASSUME NEW h \in Seq(Messages), NEW m \in Messages
    PROVE  Represented(Append(h, m)) = Represented(h) \cup m.ids
<1>1. /\ Len(h) \in Nat /\ DOMAIN h = 1..Len(h)
      /\ Append(h, m) \in Seq(Messages) /\ Len(Append(h, m)) = Len(h) + 1
      /\ \A n \in 1..Len(h) : Append(h, m)[n] = h[n]
      /\ Append(h, m)[Len(h) + 1] = m
  BY LenProperties, AppendProperties
<1>2. DOMAIN Append(h, m) = DOMAIN h \cup {Len(h) + 1}
  <2>1. DOMAIN Append(h, m) = 1..(Len(h) + 1)
    BY <1>1, LenProperties
  <2> QED
    BY <1>1, <2>1
<1> QED
  BY <1>1, <1>2 DEF Represented

(* The ids of a history are its last message's and those before. *)
LEMMA RepresentedFront ==
    ASSUME NEW h \in Seq(Messages), h # <<>>
    PROVE  Represented(h) = Represented(Front(h)) \cup Last(h).ids
<1>1. /\ Len(h) \in Nat \ {0} /\ DOMAIN h = 1..Len(h) /\ DOMAIN Front(h) = 1..(Len(h) - 1)
      /\ \A n \in 1..(Len(h) - 1) : Front(h)[n] = h[n]
      /\ Last(h) = h[Len(h)]
  BY FrontAndLast
<1>2. DOMAIN h = DOMAIN Front(h) \cup {Len(h)}
  BY <1>1
<1> QED
  BY <1>1, <1>2 DEF Represented

(* A history's inputs are inputs, and each has a place. *)
LEMMA HeldAreInputs ==
    ASSUME NEW h \in Seq(Messages)
    PROVE  /\ Held(h) \subseteq Inputs
           /\ \A i : i \in Held(h) <=> \E n \in DOMAIN h : \E k \in DOMAIN h[n].holds : h[n].holds[k] = i
           /\ \A n \in DOMAIN h : h[n] \in Messages
           /\ \A n \in DOMAIN h : \A k \in DOMAIN h[n].holds :
                h[n].holds[k] \in Held(h) /\ h[n].holds[k] \in Inputs
<1>1. \A n \in DOMAIN h : h[n] \in Messages
  BY ElementOfSeq, LenProperties
<1>2. \A i : i \in Held(h) <=> \E n \in DOMAIN h : \E k \in DOMAIN h[n].holds : h[n].holds[k] = i
  BY DEF Held, Range
<1>3. \A n \in DOMAIN h : \A k \in DOMAIN h[n].holds : h[n].holds[k] \in Inputs
  <2> SUFFICES ASSUME NEW n \in DOMAIN h, NEW k \in DOMAIN h[n].holds PROVE h[n].holds[k] \in Inputs
    OBVIOUS
  <2>1. h[n].holds \in Seq(Inputs)
    BY <1>1 DEF Messages
  <2> QED
    BY <2>1, ElementOfSeq, LenProperties
<1> QED
  BY <1>1, <1>2, <1>3

(* Requests and responses are messages. *)
LEMMA MessageTypes ==
    /\ \A holds \in Seq(Inputs), ids \in SUBSET Inputs :
         /\ Request(holds, ids) \in Messages
         /\ Request(holds, ids).holds = holds /\ Request(holds, ids).ids = ids
         /\ Request(holds, ids).type = "request"
    /\ Empty \in Messages /\ Empty.holds = <<>> /\ Empty.ids = {}
    /\ \A type \in {"calls", "answer"} :
         /\ Response(type) \in Messages
         /\ Response(type).holds = <<>> /\ Response(type).ids = {} /\ Response(type).type = type
<1>1. <<>> \in Seq(Inputs)
  BY EmptySeq
<1> QED
  BY <1>1 DEF Messages, Request, Response, Empty

(* An attempt's prompt is an input. *)
LEMMA PromptIsInput ==
    \A p \in Prompts : p \in Inputs /\ p # NoInput /\ <<p>> \in Seq(Inputs)
BY DeliveryConstants

-----------------------------------------------------------------------------
(* The steps *)

Kept(a) == Owed(a) /\ Apart(a) /\ CellsTyped' /\ HistoryTyped' /\ Session(a)' /\ Drains(a)'

(* The bound of the looks at the queue only grows. *)
LEMMA DrainedTyped ==
    ASSUME Store, CellsTyped, QueueMoves
    PROVE  drained \in [Owners -> 0..sequence'] /\ sequence \in 0..sequence'
<1>1. sequence \in Nat /\ sequence' \in Nat /\ sequence' >= sequence
  BY DEF Store, LedgerTypeOK, QueueMoves
<1>2. 0..sequence \subseteq 0..sequence'
  BY <1>1
<1> QED
  BY <1>1, <1>2 DEF CellsTyped

(* Where the agent starts, the draft is a message and the session is new. *)
LEMMA StartAgentGives ==
    ASSUME CellsTyped, NEW a \in Owners, NEW prompt \in Prompts \cup {NoInput},
           NEW messages \in Seq(Messages), StartAgent(a, prompt, messages)
    PROVE  /\ at' \in [Owners -> Points] /\ draft' \in [Owners -> Messages]
           /\ resumed' \in [Owners -> BOOLEAN]
           /\ \A b \in Owners \ {a} : at'[b] = at[b] /\ draft'[b] = draft[b] /\ resumed'[b] = resumed[b]
           /\ at'[a] \in {"claim", "answered", "refused"}
           /\ at'[a] = "refused" => prompt # NoInput
           /\ at'[a] = "answered" => /\ prompt = NoInput /\ ~resumed'[a] /\ messages # <<>>
                                    /\ Last(messages).type # "request"
           /\ prompt # NoInput => draft'[a] = Request(<<prompt>>, {}) /\ ~resumed'[a]
           /\ prompt = NoInput /\ ~resumed'[a] => draft'[a] = Empty
           /\ resumed'[a] => /\ messages # <<>> /\ draft'[a] = Last(messages) /\ at'[a] = "claim"
                             /\ Last(messages).type = "request"
           /\ ~resumed'[a] /\ prompt = NoInput =>
                messages = <<>> \/ Last(messages).type # "request"
<1> DEFINE ending == IF messages = <<>> THEN "nothing" ELSE Last(messages).type
           resumes == prompt = NoInput /\ ending = "request"
           d == IF prompt # NoInput THEN Request(<<prompt>>, {})
                ELSE IF resumes THEN Last(messages) ELSE Empty
           p == CASE prompt # NoInput /\ ending = "calls"             -> "refused"
                  [] prompt = NoInput /\ ending \in {"calls", "answer"} -> "answered"
                  [] OTHER                                            -> "claim"
<1>1. draft' = [draft EXCEPT ![a] = d] /\ resumed' = [resumed EXCEPT ![a] = resumes]
      /\ at' = [at EXCEPT ![a] = p]
  BY DEF StartAgent, Goto
<1>2. messages # <<>> => Last(messages) \in Messages
  BY FrontAndLast
<1>3. ending = "request" => messages # <<>> /\ Last(messages).type = "request"
  OBVIOUS
<1>a. ending # "request" => messages = <<>> \/ Last(messages).type # "request"
  OBVIOUS
<1>4. d \in Messages
  <2>1. CASE prompt # NoInput
    <3>1. <<prompt>> \in Seq(Inputs) /\ {} \in SUBSET Inputs
      BY <2>1, PromptIsInput
    <3> QED
      BY <2>1, <3>1, MessageTypes
  <2>2. CASE prompt = NoInput
    BY <1>2, <1>3, <2>2, MessageTypes
  <2> QED
    BY <2>1, <2>2
<1>5. /\ p \in {"claim", "answered", "refused"}
      /\ p = "refused" => prompt # NoInput
      /\ resumes => p = "claim"
  OBVIOUS
<1>b. p = "answered" => /\ prompt = NoInput /\ ~resumes /\ messages # <<>>
                        /\ Last(messages).type # "request"
  OBVIOUS
<1>6. p \in Points
  BY <1>5 DEF Points, Controlling
<1>7. resumes \in BOOLEAN
  OBVIOUS
<1>8. /\ prompt # NoInput => d = Request(<<prompt>>, {}) /\ ~resumes
      /\ prompt = NoInput /\ ~resumes => d = Empty
      /\ resumes => messages # <<>> /\ d = Last(messages) /\ Last(messages).type = "request"
      /\ ~resumes /\ prompt = NoInput => messages = <<>> \/ Last(messages).type # "request"
  BY <1>3, <1>a
<1> HIDE DEF d, p, resumes, ending
<1>9. draft'[a] = d /\ resumed'[a] = resumes /\ at'[a] = p
  BY <1>1 DEF CellsTyped
<1>10. /\ at' \in [Owners -> Points] /\ draft' \in [Owners -> Messages]
       /\ resumed' \in [Owners -> BOOLEAN]
       /\ \A b \in Owners \ {a} : at'[b] = at[b] /\ draft'[b] = draft[b] /\ resumed'[b] = resumed[b]
  BY <1>1, <1>4, <1>6, <1>7 DEF CellsTyped
<1> QED
  BY <1>5, <1>8, <1>9, <1>10, <1>b

(* An attempt begins with a session that has claimed nothing. *)
LEMMA BeginKeeps ==
    ASSUME DeliveryInv, NEW a \in Owners, Begin(a)
    PROVE  Kept(a)
<1>0. Store /\ CellsTyped /\ HistoryTyped /\ Session(a)
  BY DeliveryParts
<1>1. /\ at[a] = "new" /\ Acquire(a) /\ tok' = [tok EXCEPT ![a] = lease'.token]
      /\ at' = [at EXCEPT ![a] = "open"]
      /\ UNCHANGED <<written, context, draft, resumed, pending, seen, rounds, drained, committed, carried, withdrawn, torn>>
  BY DEF Begin, Goto, turnVars, historyVars
<1>2. PICK p \in Prompts \cup {NoInput} : own' = [own EXCEPT ![a] = p]
  BY DEF Begin
<1>3. QueueMoves /\ inputs' = inputs
  BY <1>0, <1>1, LeaseMoves
<1>4. drained \in [Owners -> 0..sequence']
  BY <1>0, <1>3, DrainedTyped
<1>5. lease'.token \in Nat
  BY <1>3 DEF QueueMoves, Store, LedgerTypeOK, Leases
<1>6. CellsTyped'
  BY <1>0, <1>1, <1>2, <1>4, <1>5 DEF CellsTyped, Points, Controlling
<1>7. at'[a] = "open"
  BY <1>0, <1>1 DEF CellsTyped
<1>8. Session(a)' /\ Drains(a)'
  <2>1. seen[a] = {} /\ ~resumed[a] /\ pending[a] = <<>> /\ Range(pending[a]) = {}
    BY <1>0, <1>1 DEF Session, Starting, Range
  <2> QED
    BY <1>1, <1>7, <2>1 DEF Session, Drains, Starting, Turning
<1>9. Apart(a)
  BY <1>0, <1>1, <1>2 DEF Apart, CellsTyped
<1>10. Owed(a)
  BY <1>1, <1>3 DEF Owed, Brings
<1>11. HistoryTyped'
  BY <1>0, <1>1 DEF HistoryTyped
<1> QED
  BY <1>6, <1>8, <1>9, <1>10, <1>11 DEF Kept

(* A session that has claimed nothing stands wherever the agent starts. *)
LEMMA StartedSession ==
    ASSUME NEW a \in Owners, CellsTyped, Session(a), at[a] \in Starting,
           NEW prompt \in Prompts \cup {NoInput}, StartAgent(a, prompt, context'[a]),
           context'[a] \in Seq(Messages), UNCHANGED <<pending, seen>>
    PROVE  Session(a)' /\ Drains(a)' /\ Brings(a)'
<1>1. seen[a] = {} /\ pending[a] = <<>> /\ Range(pending[a]) = {}
  BY DEF Session, Starting, Range
<1>2. /\ at'[a] \in {"claim", "answered", "refused"}
      /\ at'[a] = "answered" => context'[a] # <<>>
      /\ resumed'[a] => context'[a] # <<>> /\ draft'[a].ids = Last(context'[a]).ids /\ at'[a] = "claim"
      /\ at'[a] = "refused" => ~resumed'[a]
  BY StartAgentGives
<1> QED
  BY <1>1, <1>2 DEF Session, Drains, Starting, Turning, Brings

(* The branch is taken as its readers see it. *)
LEMMA OpenBranchKeeps ==
    ASSUME DeliveryInv, NEW a \in Owners, OpenBranch(a)
    PROVE  Kept(a)
<1>0. Store /\ CellsTyped /\ HistoryTyped /\ Session(a)
  BY DeliveryParts
<1>1. /\ at[a] = "open" /\ context' = [context EXCEPT ![a] = committed]
      /\ written' = [written EXCEPT ![a] = committed]
      /\ UNCHANGED ledgerVars /\ UNCHANGED <<tok, own, pending, seen, rounds, drained, committed, carried, withdrawn>>
  BY DEF OpenBranch
<1>2. torn' \in BOOLEAN
  BY DEF OpenBranch, HistoryTyped
<1>3. QueueMoves /\ inputs' = inputs
  BY <1>0, <1>1, LeaseMoves
<1>4. drained \in [Owners -> 0..sequence']
  BY <1>0, <1>3, DrainedTyped
<1>5. committed \in Seq(Messages) /\ context'[a] = committed
  BY <1>0, <1>1 DEF HistoryTyped, CellsTyped
<1>6. Owed(a)
  BY <1>1, <1>3 DEF Owed, Brings
<1>7. HistoryTyped'
  BY <1>0, <1>1, <1>2 DEF HistoryTyped
<1>8. /\ context' \in [Owners -> Seq(Messages)] /\ written' \in [Owners -> Seq(Messages)]
      /\ \A b \in Owners \ {a} : context'[b] = context[b] /\ written'[b] = written[b]
  BY <1>0, <1>1, <1>5 DEF CellsTyped
<1>9. CASE own[a] = NoInput
  <2>1. StartAgent(a, NoInput, context'[a]) /\ NoInput \in Prompts \cup {NoInput}
    BY <1>5, <1>9 DEF OpenBranch
  <2>2. Session(a)' /\ Drains(a)'
    BY <1>0, <1>1, <1>5, <2>1, StartedSession DEF Starting
  <2>3. /\ at' \in [Owners -> Points] /\ draft' \in [Owners -> Messages]
        /\ resumed' \in [Owners -> BOOLEAN]
        /\ \A b \in Owners \ {a} : at'[b] = at[b] /\ draft'[b] = draft[b] /\ resumed'[b] = resumed[b]
    BY <1>0, <1>5, <2>1, StartAgentGives
  <2>4. CellsTyped' /\ Apart(a)
    BY <1>0, <1>1, <1>4, <1>8, <2>3 DEF CellsTyped, Apart
  <2> QED
    BY <1>6, <1>7, <2>2, <2>4 DEF Kept
<1>10. CASE own[a] # NoInput
  <2>1. at' = [at EXCEPT ![a] = "enqueue"] /\ UNCHANGED <<draft, resumed>>
    BY <1>10 DEF OpenBranch, Goto
  <2>2. at'[a] = "enqueue"
    BY <1>0, <2>1 DEF CellsTyped
  <2>3. seen[a] = {} /\ ~resumed[a] /\ pending[a] = <<>> /\ Range(pending[a]) = {}
    BY <1>0, <1>1 DEF Session, Starting, Range
  <2>4. Session(a)' /\ Drains(a)'
    BY <1>1, <1>10, <2>1, <2>2, <2>3 DEF Session, Drains, Starting, Turning
  <2>5. at' \in [Owners -> Points]
    BY <1>0, <2>1 DEF CellsTyped, Points, Controlling
  <2>6. CellsTyped' /\ Apart(a)
    BY <1>0, <1>1, <1>4, <1>8, <2>1, <2>5 DEF CellsTyped, Apart
  <2> QED
    BY <1>6, <1>7, <2>4, <2>6 DEF Kept
<1> QED
  BY <1>9, <1>10

(* A prompt is queued, or dropped before the attempt counts as its bringer. *)
LEMMA EnqueuePromptKeeps ==
    ASSUME DeliveryInv, NEW a \in Owners, EnqueuePrompt(a)
    PROVE  Kept(a)
<1>0. Store /\ CellsTyped /\ HistoryTyped /\ Session(a)
  BY DeliveryParts
<1>1. at[a] = "enqueue"
      /\ UNCHANGED <<tok, context, written, pending, seen, rounds, drained, committed, carried, withdrawn, torn>>
  BY DEF EnqueuePrompt, historyVars
<1>2. own[a] # NoInput /\ own[a] \in Prompts /\ own[a] \in Inputs
  BY <1>0, <1>1, PromptIsInput DEF Session, CellsTyped
<1>3. ~Brings(a)
  BY <1>1 DEF Brings
<1>4. HistoryTyped'
  BY <1>0, <1>1 DEF HistoryTyped
<1>5. CASE /\ EnqueueInput(own[a]) /\ Goto(a, "admitprompt") /\ UNCHANGED <<own, draft, resumed>>
  <2>1. /\ QueueMoves
        /\ \A j \in Inputs : inputs'[j].status = "admitted" => inputs[j].status = "admitted"
    BY <1>0, <1>2, <1>5, EnqueueMoves
  <2>2. drained \in [Owners -> 0..sequence']
    BY <1>0, <2>1, DrainedTyped
  <2>3. at' = [at EXCEPT ![a] = "admitprompt"] /\ at'[a] = "admitprompt"
    BY <1>0, <1>5 DEF CellsTyped, Goto
  <2>4. CellsTyped' /\ Apart(a)
    BY <1>0, <1>1, <1>5, <2>2, <2>3 DEF CellsTyped, Apart, Points, Controlling
  <2>5. seen[a] = {} /\ ~resumed[a] /\ pending[a] = <<>> /\ Range(pending[a]) = {}
    BY <1>0, <1>1 DEF Session, Starting, Range
  <2>6. Session(a)' /\ Drains(a)'
    BY <1>1, <1>2, <1>5, <2>3, <2>5 DEF Session, Drains, Starting, Turning
  <2>7. Owed(a)
    BY <1>1, <1>3, <2>1 DEF Owed
  <2> QED
    BY <1>4, <2>4, <2>6, <2>7 DEF Kept
<1>6. CASE /\ Present(own[a]) /\ own' = [own EXCEPT ![a] = NoInput]
           /\ StartAgent(a, NoInput, context[a]) /\ UNCHANGED ledgerVars
  <2>1. QueueMoves /\ inputs' = inputs
    BY <1>0, <1>6, LeaseMoves
  <2>2. drained \in [Owners -> 0..sequence']
    BY <1>0, <2>1, DrainedTyped
  <2>3. /\ NoInput \in Prompts \cup {NoInput} /\ context'[a] \in Seq(Messages)
        /\ StartAgent(a, NoInput, context'[a]) /\ context'[a] = context[a]
    BY <1>0, <1>1, <1>6 DEF CellsTyped
  <2>4. Session(a)' /\ Drains(a)'
    BY <1>0, <1>1, <2>3, StartedSession DEF Starting
  <2>5. /\ at' \in [Owners -> Points] /\ draft' \in [Owners -> Messages]
        /\ resumed' \in [Owners -> BOOLEAN]
        /\ \A b \in Owners \ {a} : at'[b] = at[b] /\ draft'[b] = draft[b] /\ resumed'[b] = resumed[b]
    BY <1>0, <2>3, StartAgentGives
  <2>6. own' \in [Owners -> Prompts \cup {NoInput}] /\ \A b \in Owners \ {a} : own'[b] = own[b]
    BY <1>0, <1>6 DEF CellsTyped
  <2>7. CellsTyped' /\ Apart(a)
    BY <1>0, <1>1, <2>2, <2>5, <2>6 DEF CellsTyped, Apart
  <2>8. Owed(a)
    BY <1>1, <1>3, <2>1 DEF Owed
  <2> QED
    BY <1>4, <2>4, <2>7, <2>8 DEF Kept
<1> QED
  BY <1>5, <1>6 DEF EnqueuePrompt

(* The prompt is admitted by the attempt that brings it. *)
LEMMA AdmitPromptKeeps ==
    ASSUME DeliveryInv, NEW a \in Owners, AdmitPrompt(a)
    PROVE  Kept(a)
<1>0. Store /\ CellsTyped /\ HistoryTyped /\ Session(a)
  BY DeliveryParts
<1>1. /\ at[a] = "admitprompt" /\ AdmitInputs({own[a]}, tok[a]) /\ StartAgent(a, own[a], context[a])
      /\ UNCHANGED <<tok, own, context, written, pending, seen, rounds, drained, committed, carried, withdrawn, torn>>
  BY DEF AdmitPrompt, historyVars
<1>2. /\ QueueMoves
      /\ \A i \in Inputs : inputs'[i].status = "admitted" => inputs[i].status = "admitted" \/ i = own[a]
  BY <1>0, <1>1, AdmitMoves
<1>3. drained \in [Owners -> 0..sequence']
  BY <1>0, <1>2, DrainedTyped
<1>4. /\ own[a] \in Prompts \cup {NoInput} /\ context'[a] \in Seq(Messages)
      /\ StartAgent(a, own[a], context'[a]) /\ context'[a] = context[a]
  BY <1>0, <1>1 DEF CellsTyped
<1>5. Session(a)' /\ Drains(a)' /\ Brings(a)'
  BY <1>0, <1>1, <1>4, StartedSession DEF Starting
<1>6. /\ at' \in [Owners -> Points] /\ draft' \in [Owners -> Messages]
      /\ resumed' \in [Owners -> BOOLEAN]
      /\ \A b \in Owners \ {a} : at'[b] = at[b] /\ draft'[b] = draft[b] /\ resumed'[b] = resumed[b]
  BY <1>0, <1>4, StartAgentGives
<1>7. CellsTyped' /\ Apart(a)
  BY <1>0, <1>1, <1>3, <1>6 DEF CellsTyped, Apart
<1>8. Owed(a)
  BY <1>1, <1>2, <1>5 DEF Owed
<1>9. HistoryTyped'
  BY <1>0, <1>1 DEF HistoryTyped
<1> QED
  BY <1>5, <1>7, <1>8, <1>9 DEF Kept

(* What is claimable is in the queue, not settled, and new to the session. *)
LEMMA ClaimedInOrder ==
    ASSUME Store, NEW a \in Owners, ClaimAll(a)
    PROVE  /\ InOrder(Claimable(a)) \in Seq(Inputs)
           /\ Range(InOrder(Claimable(a))) = Claimable(a)
           /\ Claimable(a) = {} => InOrder(Claimable(a)) = <<>>
<1>1. Claimable(a) \in SUBSET Inputs /\ \A i \in Claimable(a) : Present(i)
  BY ClaimMoves
<1>2. InOrder(Claimable(a)) \in Seq(Inputs) /\ Range(InOrder(Claimable(a))) = Claimable(a)
  BY <1>1, InOrderLists DEF Store
<1> HIDE DEF Claimable, InOrder
<1>3. Claimable(a) = {} => InOrder(Claimable(a)) = <<>>
  <2> SUFFICES ASSUME Claimable(a) = {} PROVE InOrder(Claimable(a)) = <<>>
    OBVIOUS
  <2>1. DOMAIN InOrder(Claimable(a)) = {}
    BY <1>2 DEF Range
  <2>2. /\ Len(InOrder(Claimable(a))) \in Nat
        /\ DOMAIN InOrder(Claimable(a)) = 1..Len(InOrder(Claimable(a)))
    BY <1>2, LenProperties
  <2>3. Len(InOrder(Claimable(a))) = 0
    BY <2>1, <2>2
  <2> QED
    BY <1>2, <2>3, EmptySeq
<1> QED
  BY <1>2, <1>3

(* What two lists hold together. *)
LEMMA RangeOfBoth ==
    ASSUME NEW s \in Seq(Inputs), NEW t \in Seq(Inputs)
    PROVE  s \o t \in Seq(Inputs) /\ Range(s \o t) = Range(s) \cup Range(t)
<1>1. /\ Len(s) \in Nat /\ Len(t) \in Nat
      /\ DOMAIN s = 1..Len(s) /\ DOMAIN t = 1..Len(t)
      /\ s \o t \in Seq(Inputs) /\ Len(s \o t) = Len(s) + Len(t)
      /\ DOMAIN (s \o t) = 1..Len(s \o t)
      /\ \A n \in 1..(Len(s) + Len(t)) : (s \o t)[n] = IF n <= Len(s) THEN s[n] ELSE t[n - Len(s)]
  BY LenProperties, ConcatProperties
<1>2. Range(s \o t) \subseteq Range(s) \cup Range(t)
  <2> SUFFICES ASSUME NEW n \in 1..(Len(s) + Len(t))
               PROVE  (s \o t)[n] \in Range(s) \cup Range(t)
    BY <1>1 DEF Range
  <2>1. CASE n <= Len(s)
    BY <1>1, <2>1 DEF Range
  <2>2. CASE ~(n <= Len(s))
    <3>1. n - Len(s) \in 1..Len(t)
      BY <1>1, <2>2
    <3> QED
      BY <1>1, <2>2, <3>1 DEF Range
  <2> QED
    BY <2>1, <2>2
<1>3. Range(s) \subseteq Range(s \o t)
  <2> SUFFICES ASSUME NEW n \in 1..Len(s) PROVE s[n] \in Range(s \o t)
    BY <1>1 DEF Range
  <2>1. n \in 1..(Len(s) + Len(t)) /\ n <= Len(s)
    BY <1>1
  <2> QED
    BY <1>1, <2>1 DEF Range
<1>4. Range(t) \subseteq Range(s \o t)
  <2> SUFFICES ASSUME NEW n \in 1..Len(t) PROVE t[n] \in Range(s \o t)
    BY <1>1 DEF Range
  <2>1. n + Len(s) \in 1..(Len(s) + Len(t)) /\ ~(n + Len(s) <= Len(s)) /\ (n + Len(s)) - Len(s) = n
    BY <1>1
  <2>2. (s \o t)[n + Len(s)] = t[n]
    BY <1>1, <2>1
  <2> QED
    BY <1>1, <2>1, <2>2 DEF Range
<1> QED
  BY <1>1, <1>2, <1>3, <1>4

(* What is claimed joins what is pending for the next request. *)
LEMMA ClaimKeeps ==
    ASSUME DeliveryInv, NEW a \in Owners, Claim(a)
    PROVE  Kept(a)
<1>0. Store /\ CellsTyped /\ HistoryTyped /\ Session(a)
  BY DeliveryParts
<1>1. /\ at[a] = "claim" /\ ClaimAll(a) /\ at' = [at EXCEPT ![a] = "screen"]
      /\ pending' = [pending EXCEPT ![a] = pending[a] \o InOrder(Claimable(a))]
      /\ seen' = [seen EXCEPT ![a] = seen[a] \cup Claimable(a)]
      /\ UNCHANGED <<tok, own, context, written, draft, resumed, rounds, drained, committed, carried, withdrawn, torn>>
  BY DEF Claim, ClaimAll, Goto, historyVars
<1>2. /\ QueueMoves
      /\ \A i \in Inputs : inputs'[i].status = "admitted" => inputs[i].status = "admitted"
      /\ Claimable(a) \subseteq Inputs
      /\ \A i \in Claimable(a) : Present(i) /\ ~Settled(i)
  BY <1>0, <1>1, ClaimMoves
<1>3. InOrder(Claimable(a)) \in Seq(Inputs) /\ Range(InOrder(Claimable(a))) = Claimable(a)
  BY <1>0, <1>1, ClaimedInOrder
<1>4. drained \in [Owners -> 0..sequence']
  BY <1>0, <1>2, DrainedTyped
<1>5. /\ pending[a] \o InOrder(Claimable(a)) \in Seq(Inputs)
      /\ Range(pending[a] \o InOrder(Claimable(a))) = Range(pending[a]) \cup Claimable(a)
  BY <1>0, <1>3, RangeOfBoth DEF CellsTyped
<1>a. \A i \in Claimable(a) : i \notin Represented(context[a])
  BY DEF Claimable
<1> HIDE DEF Claimable, InOrder
<1>6. /\ at'[a] = "screen" /\ seen'[a] = seen[a] \cup Claimable(a)
      /\ pending'[a] = pending[a] \o InOrder(Claimable(a))
      /\ Range(pending'[a]) = Range(pending[a]) \cup Claimable(a)
  BY <1>0, <1>1, <1>5 DEF CellsTyped
<1>b. at' \in [Owners -> Points] /\ seen' \in [Owners -> SUBSET Inputs] /\ pending' \in [Owners -> Seq(Inputs)]
  BY <1>0, <1>1, <1>2, <1>5 DEF CellsTyped, Points, Controlling
<1>7. CellsTyped'
  BY <1>0, <1>1, <1>4, <1>b DEF CellsTyped
<1>8. Apart(a)
  BY <1>0, <1>1 DEF Apart, CellsTyped
<1>9. Session(a)'
  <2>1. \A i \in seen'[a] : i \in Inputs /\ Present(i)'
    BY <1>0, <1>2, <1>6 DEF Session, CellsTyped, QueueMoves
  <2>2. \A i \in seen'[a] : i \in Range(pending'[a]) \/ Settled(i)' \/ i \in Represented(context'[a])
    <3> SUFFICES ASSUME NEW i \in seen[a]
                 PROVE  i \in Range(pending'[a]) \/ Settled(i)' \/ i \in Represented(context'[a])
      BY <1>6
    <3>1. i \in Range(pending[a]) \/ Settled(i) \/ i \in Represented(context[a])
      BY <1>0, <1>1 DEF Session, Turning
    <3>2. i \in Inputs
      BY <1>0 DEF CellsTyped
    <3> QED
      BY <1>1, <1>2, <1>6, <3>1, <3>2 DEF QueueMoves
  <2>3. resumed'[a] => /\ context'[a] # <<>> /\ draft'[a].ids = Last(context'[a]).ids
                       /\ seen'[a] \cap Represented(context'[a]) = {}
    BY <1>0, <1>1, <1>6, <1>a DEF Session
  <2>4. Range(pending'[a]) \subseteq seen'[a]
    BY <1>0, <1>6 DEF Session
  <2> QED
    BY <1>6, <2>1, <2>2, <2>3, <2>4 DEF Session, Starting
<1>10. Drains(a)'
  BY <1>6 DEF Drains
<1>11. Owed(a)
  BY <1>1, <1>2, <1>6 DEF Owed, Brings
<1>12. HistoryTyped'
  BY <1>0, <1>1 DEF HistoryTyped
<1> QED
  BY <1>7, <1>8, <1>9, <1>10, <1>11, <1>12 DEF Kept

(* A turn that halts leaves nothing of its draft. *)
LEMMA HaltStands ==
    ASSUME NEW a \in Owners, Store, CellsTyped, Session(a), Halt(a), UNCHANGED inputs,
           UNCHANGED <<context, seen>>
    PROVE  /\ Session(a)' /\ Drains(a)' /\ Brings(a)'
           /\ at' \in [Owners -> Points] /\ draft' \in [Owners -> Messages]
           /\ resumed' \in [Owners -> BOOLEAN] /\ pending' \in [Owners -> Seq(Inputs)]
           /\ \A b \in Owners \ {a} : /\ at'[b] = at[b] /\ draft'[b] = draft[b]
                                      /\ resumed'[b] = resumed[b] /\ pending'[b] = pending[b]
<1>1. /\ at' = [at EXCEPT ![a] = "halted"] /\ pending' = [pending EXCEPT ![a] = <<>>]
      /\ draft' = [draft EXCEPT ![a] = Empty] /\ resumed' = [resumed EXCEPT ![a] = FALSE]
  BY DEF Halt, Goto
<1>2. <<>> \in Seq(Inputs) /\ Empty \in Messages
  BY MessageTypes, EmptySeq
<1>3. /\ at' \in [Owners -> Points] /\ draft' \in [Owners -> Messages]
      /\ resumed' \in [Owners -> BOOLEAN] /\ pending' \in [Owners -> Seq(Inputs)]
  BY <1>1, <1>2 DEF CellsTyped, Points, Controlling
<1>4. at'[a] = "halted" /\ pending'[a] = <<>> /\ resumed'[a] = FALSE /\ Range(pending'[a]) = {}
  BY <1>1 DEF CellsTyped, Range
<1>5. Session(a)'
  BY <1>4 DEF Session, Starting, Turning, Present
<1>6. Drains(a)' /\ Brings(a)'
  BY <1>4 DEF Drains, Brings
<1>7. \A b \in Owners \ {a} : /\ at'[b] = at[b] /\ draft'[b] = draft[b]
                              /\ resumed'[b] = resumed[b] /\ pending'[b] = pending[b]
  BY <1>1 DEF CellsTyped
<1> QED
  BY <1>3, <1>5, <1>6, <1>7

(* What the screens remove is discarded, and so settled. *)
LEMMA ScreenKeeps ==
    ASSUME DeliveryInv, NEW a \in Owners, Screen(a)
    PROVE  Kept(a)
<1>0. Store /\ CellsTyped /\ HistoryTyped /\ Session(a)
  BY DeliveryParts
<1>1. /\ at[a] = "screen"
      /\ UNCHANGED <<tok, own, context, written, seen, rounds, drained, committed, carried, torn>>
  BY DEF Screen
<1>2. ASSUME NEW gone \in SUBSET Inputs, withdrawn' = withdrawn \cup gone
      PROVE  HistoryTyped' /\ withdrawn \subseteq withdrawn'
  BY <1>0, <1>1, <1>2 DEF HistoryTyped
<1>3. ASSUME NEW parts \in Seq(Inputs), draft' = [draft EXCEPT ![a].holds = parts],
             NEW gone \in SUBSET Inputs, withdrawn' = withdrawn \cup gone,
             NEW kept \in Seq(Inputs), Range(kept) \subseteq Range(pending[a]),
             pending' = [pending EXCEPT ![a] = kept], at' = [at EXCEPT ![a] = "record"],
             UNCHANGED resumed, QueueMoves,
             \A i \in Inputs : inputs'[i].status = "admitted" => inputs[i].status = "admitted",
             \A i \in Range(pending[a]) \ Range(kept) : Settled(i)'
      PROVE  Kept(a)
  <2>1. drained \in [Owners -> 0..sequence']
    BY <1>0, <1>3, DrainedTyped
  <2>2. at'[a] = "record" /\ pending'[a] = kept
    BY <1>0, <1>3 DEF CellsTyped
  <2>a. draft' \in [Owners -> Messages] /\ draft'[a].ids = draft[a].ids
    BY <1>0, <1>3 DEF CellsTyped, Messages
  <2>3. CellsTyped' /\ Apart(a)
    BY <1>0, <1>1, <1>3, <2>1, <2>a DEF CellsTyped, Apart, Points, Controlling
  <2>4. \A i \in seen'[a] : i \in Inputs /\ Present(i)'
    BY <1>0, <1>1, <1>3 DEF Session, CellsTyped, QueueMoves
  <2>5. \A i \in seen'[a] : i \in Range(pending'[a]) \/ Settled(i)' \/ i \in Represented(context'[a])
    <3> SUFFICES ASSUME NEW i \in seen[a]
                 PROVE  i \in Range(kept) \/ Settled(i)' \/ i \in Represented(context[a])
      BY <1>1, <2>2
    <3>1. i \in Range(pending[a]) \/ Settled(i) \/ i \in Represented(context[a])
      BY <1>0, <1>1 DEF Session, Turning
    <3>2. i \in Inputs
      BY <1>0 DEF CellsTyped
    <3> QED
      BY <1>3, <3>1, <3>2 DEF QueueMoves
  <2>6. Session(a)'
    <3>1. Range(pending'[a]) \subseteq seen'[a]
      BY <1>0, <1>1, <1>3, <2>2 DEF Session
    <3>2. resumed'[a] => /\ context'[a] # <<>> /\ draft'[a].ids = Last(context'[a]).ids
                         /\ seen'[a] \cap Represented(context'[a]) = {}
      BY <1>0, <1>1, <1>3, <2>a DEF Session
    <3> QED
      BY <2>2, <2>4, <2>5, <3>1, <3>2 DEF Session, Starting
  <2>7. Drains(a)'
    BY <2>2 DEF Drains
  <2>8. HistoryTyped' /\ withdrawn \subseteq withdrawn'
    BY <1>2, <1>3
  <2>9. Owed(a)
    BY <1>1, <1>3, <2>2, <2>8 DEF Owed, Brings
  <2> QED
    BY <2>3, <2>6, <2>7, <2>8, <2>9 DEF Kept
<1>4. CASE Goto(a, "record") /\ UNCHANGED <<ledgerVars, draft, resumed, pending, withdrawn>>
  <2>1. QueueMoves /\ inputs' = inputs
    BY <1>0, <1>4, LeaseMoves
  <2>2. pending' = [pending EXCEPT ![a] = pending[a]] /\ pending[a] \in Seq(Inputs)
    BY <1>0, <1>4 DEF CellsTyped
  <2>3. at' = [at EXCEPT ![a] = "record"] /\ UNCHANGED resumed
    BY <1>4 DEF Goto
  <2>4. draft' = [draft EXCEPT ![a].holds = draft[a].holds] /\ draft[a].holds \in Seq(Inputs)
    BY <1>0, <1>4 DEF CellsTyped, Messages
  <2>5. {} \in SUBSET Inputs /\ withdrawn' = withdrawn \cup {}
    BY <1>4
  <2> QED
    BY <1>3, <2>1, <2>2, <2>3, <2>4, <2>5
<1>5. CASE Halt(a) /\ UNCHANGED <<ledgerVars, withdrawn>>
  <2>1. QueueMoves /\ inputs' = inputs
    BY <1>0, <1>5, LeaseMoves
  <2>2. drained \in [Owners -> 0..sequence']
    BY <1>0, <2>1, DrainedTyped
  <2>3. /\ Session(a)' /\ Drains(a)' /\ Brings(a)'
        /\ at' \in [Owners -> Points] /\ draft' \in [Owners -> Messages]
        /\ resumed' \in [Owners -> BOOLEAN] /\ pending' \in [Owners -> Seq(Inputs)]
        /\ \A b \in Owners \ {a} : /\ at'[b] = at[b] /\ draft'[b] = draft[b]
                                   /\ resumed'[b] = resumed[b] /\ pending'[b] = pending[b]
    BY <1>0, <1>1, <1>5, <2>1, HaltStands
  <2>4. CellsTyped' /\ Apart(a)
    BY <1>0, <1>1, <2>2, <2>3 DEF CellsTyped, Apart
  <2>5. HistoryTyped'
    BY <1>0, <1>1, <1>5 DEF HistoryTyped
  <2>6. Owed(a)
    BY <1>1, <1>5, <2>1, <2>3 DEF Owed
  <2> QED
    BY <2>3, <2>4, <2>5, <2>6 DEF Kept
<1>6. ASSUME NEW screens \in ScreensOf(draft[a].holds, pending[a]),
             withdrawn' = IF resumed[a]
                            THEN withdrawn \cup {draft[a].holds[n] : n \in PartsRemoved(screens)}
                            ELSE withdrawn,
             draft' = [draft EXCEPT ![a].holds = Ingress(screens, draft[a].holds, pending[a]).parts],
             pending' = [pending EXCEPT ![a] = Ingress(screens, draft[a].holds, pending[a]).queued],
             IF Range(pending[a]) \ Range(Ingress(screens, draft[a].holds, pending[a]).queued) = {}
               THEN UNCHANGED ledgerVars
               ELSE DiscardInputs(Range(pending[a]) \ Range(Ingress(screens, draft[a].holds, pending[a]).queued), tok[a]),
             Goto(a, "record"), UNCHANGED resumed
      PROVE  Kept(a)
  <2> DEFINE parts == Ingress(screens, draft[a].holds, pending[a]).parts
             kept == Ingress(screens, draft[a].holds, pending[a]).queued
             removed == Range(pending[a]) \ Range(kept)
  <2>d. draft[a].holds \in Seq(Inputs) /\ pending[a] \in Seq(Inputs)
    BY <1>0 DEF CellsTyped, Messages
  <2>1. /\ parts \in Seq(Inputs)
        /\ kept \in Seq(Inputs) /\ Range(kept) \subseteq Range(pending[a])
    BY <2>d, IngressKeeps, WithoutKeeps
  <2>2. \A i \in removed : i \in Inputs /\ Present(i)
    BY <1>0 DEF Session, CellsTyped
  <2>3. at' = [at EXCEPT ![a] = "record"]
    BY <1>6 DEF Goto
  <2>a. /\ draft' = [draft EXCEPT ![a].holds = parts] /\ pending' = [pending EXCEPT ![a] = kept]
        /\ UNCHANGED resumed
    BY <1>6
  <2>b. \/ removed = {} /\ UNCHANGED ledgerVars
        \/ DiscardInputs(removed, tok[a])
    BY <1>6
  <2>c. \A i \in Range(pending[a]) \ Range(kept) : i \in removed
    OBVIOUS
  <2>e. PICK gone \in SUBSET Inputs : withdrawn' = withdrawn \cup gone
    <3>1. \A n \in PartsRemoved(screens) : draft[a].holds[n] \in Inputs
      BY <2>d, ScreensRemove, LenProperties, ElementOfSeq
    <3>2. {draft[a].holds[n] : n \in PartsRemoved(screens)} \in SUBSET Inputs /\ {} \in SUBSET Inputs
      BY <3>1
    <3> QED
      BY <1>6, <3>2
  <2> HIDE DEF parts, kept, removed
  <2>4. CASE removed = {} /\ UNCHANGED ledgerVars
    <3>1. QueueMoves /\ inputs' = inputs
      BY <1>0, <2>4, LeaseMoves
    <3>2. \A i \in Range(pending[a]) \ Range(kept) : Settled(i)'
      BY <2>4, <2>c
    <3> QED
      BY <1>3, <2>1, <2>3, <2>a, <2>e, <3>1, <3>2
  <2>5. CASE DiscardInputs(removed, tok[a])
    <3>1. /\ QueueMoves
          /\ \A i \in Inputs : inputs'[i].status = "admitted" => inputs[i].status = "admitted"
          /\ \A i \in removed \cap Inputs : Present(i) => Settled(i)'
      BY <1>0, <2>5, DiscardMoves
    <3>2. \A i \in Range(pending[a]) \ Range(kept) : Settled(i)'
      BY <2>2, <2>c, <3>1
    <3> QED
      BY <1>3, <2>1, <2>3, <2>a, <2>e, <3>1, <3>2
  <2> QED
    BY <2>4, <2>5, <2>b
<1> QED
  BY <1>4, <1>5, <1>6 DEF Screen

(* The request that is recorded is a message, which holds what was pending. *)
LEMMA CarryingGives ==
    ASSUME NEW a \in Owners, CellsTyped
    PROVE  /\ Carrying(a) \in Messages
           /\ Carrying(a).holds = draft[a].holds \o pending[a]
           /\ Carrying(a).ids = IF pending[a] = <<>> THEN draft[a].ids ELSE Range(pending[a])
           /\ Carrying(a).type = "request"
           /\ Range(Carrying(a).holds) = Range(draft[a].holds) \cup Range(pending[a])
           /\ Range(Carrying(a).holds) \subseteq Inputs
<1>1. draft[a].holds \in Seq(Inputs) /\ draft[a].ids \in SUBSET Inputs /\ pending[a] \in Seq(Inputs)
  BY DEF CellsTyped, Messages
<1>2. Range(pending[a]) \subseteq Inputs /\ Range(draft[a].holds) \subseteq Inputs
  BY <1>1, ElementOfSeq, LenProperties DEF Range
<1>3. /\ draft[a].holds \o pending[a] \in Seq(Inputs)
      /\ Range(draft[a].holds \o pending[a]) = Range(draft[a].holds) \cup Range(pending[a])
  BY <1>1, RangeOfBoth
<1>4. (IF pending[a] = <<>> THEN draft[a].ids ELSE Range(pending[a])) \in SUBSET Inputs
  BY <1>1, <1>2
<1> DEFINE holds == draft[a].holds \o pending[a]
           ids == IF pending[a] = <<>> THEN draft[a].ids ELSE Range(pending[a])
<1>5. Carrying(a) = Request(holds, ids)
  BY DEF Carrying
<1>6. holds \in Seq(Inputs) /\ ids \in SUBSET Inputs
  BY <1>3, <1>4
<1> HIDE DEF holds, ids
<1>7. /\ Carrying(a) \in Messages /\ Carrying(a).holds = holds /\ Carrying(a).ids = ids
      /\ Carrying(a).type = "request"
  BY <1>5, <1>6, MessageTypes
<1> QED
  BY <1>2, <1>3, <1>7 DEF holds, ids

(* The history it is recorded in: a resumed request takes its own place. *)
LEMMA RecordedHistory ==
    ASSUME NEW a \in Owners, CellsTyped, Session(a)
    PROVE  /\ (IF resumed[a] THEN Front(context[a]) ELSE context[a]) \in Seq(Messages)
           /\ Append(IF resumed[a] THEN Front(context[a]) ELSE context[a], Carrying(a)) \in Seq(Messages)
           /\ ~resumed[a] => Represented(context[a]) \subseteq
                Represented(Append(IF resumed[a] THEN Front(context[a]) ELSE context[a], Carrying(a)))
<1>1. context[a] \in Seq(Messages) /\ Carrying(a) \in Messages
  BY CarryingGives DEF CellsTyped
<1>2. resumed[a] => context[a] # <<>>
  BY DEF Session
<1>3. (IF resumed[a] THEN Front(context[a]) ELSE context[a]) \in Seq(Messages)
  BY <1>1, <1>2, FrontAndLast
<1>4. Append(IF resumed[a] THEN Front(context[a]) ELSE context[a], Carrying(a)) \in Seq(Messages)
  BY <1>1, <1>3, AppendProperties
<1>5. Represented(context[a]) \subseteq Represented(Append(context[a], Carrying(a)))
  BY <1>1, RepresentedAppend
<1> QED
  BY <1>3, <1>4, <1>5

(* A recorded request carries all that was pending for it. *)
LEMMA RecordRequestKeeps ==
    ASSUME NEW a \in Owners, DeliveryInv, at[a] = "record", rounds[a] < MaxRounds,
           RecordRequest(a), UNCHANGED ledgerVars, UNCHANGED <<tok, own, seen, drained>>
    PROVE  Kept(a)
<1>0. Store /\ CellsTyped /\ HistoryTyped /\ Session(a)
  BY DeliveryParts
<1> DEFINE h == IF resumed[a] THEN Front(context[a]) ELSE context[a]
           p == IF pending[a] = <<>> THEN "ask" ELSE "admit"
<1>1. /\ rounds' = [rounds EXCEPT ![a] = rounds[a] + 1]
      /\ context' = [context EXCEPT ![a] = Append(h, Carrying(a))]
      /\ written' = [written EXCEPT ![a] = Append(written[a], Carrying(a))]
      /\ committed' = written'[a]
      /\ carried' = carried \cup Range(Carrying(a).holds)
      /\ draft' = [draft EXCEPT ![a] = Empty]
      /\ resumed' = [resumed EXCEPT ![a] = FALSE]
      /\ at' = [at EXCEPT ![a] = p]
      /\ UNCHANGED <<pending, withdrawn, torn>>
  BY DEF RecordRequest, Goto
<1>2. QueueMoves /\ inputs' = inputs
  BY <1>0, LeaseMoves
<1>3. drained \in [Owners -> 0..sequence']
  BY <1>0, <1>2, DrainedTyped
<1>4. /\ Carrying(a) \in Messages
      /\ Range(Carrying(a).holds) = Range(draft[a].holds) \cup Range(pending[a])
      /\ Range(Carrying(a).holds) \subseteq Inputs
  BY <1>0, CarryingGives
<1>5. /\ Append(h, Carrying(a)) \in Seq(Messages)
      /\ ~resumed[a] => Represented(context[a]) \subseteq Represented(Append(h, Carrying(a)))
  BY <1>0, RecordedHistory
<1>6. Append(written[a], Carrying(a)) \in Seq(Messages)
  BY <1>0, <1>4, AppendProperties DEF CellsTyped
<1>7. p \in {"ask", "admit"} /\ (p = "admit" <=> pending[a] # <<>>)
  OBVIOUS
<1>8. rounds[a] + 1 \in 0..MaxRounds
  BY <1>0, DeliveryConstants DEF CellsTyped
<1> HIDE DEF h, p, Carrying
<1>9. /\ at'[a] = p /\ context'[a] = Append(h, Carrying(a)) /\ ~resumed'[a]
      /\ written'[a] = Append(written[a], Carrying(a))
  BY <1>0, <1>1 DEF CellsTyped
<1>10. /\ at' \in [Owners -> Points] /\ rounds' \in [Owners -> 0..MaxRounds]
       /\ context' \in [Owners -> Seq(Messages)] /\ written' \in [Owners -> Seq(Messages)]
       /\ draft' \in [Owners -> Messages] /\ resumed' \in [Owners -> BOOLEAN]
  BY <1>0, <1>1, <1>5, <1>6, <1>7, <1>8, MessageTypes DEF CellsTyped, Points, Controlling
<1>11. CellsTyped'
  BY <1>0, <1>1, <1>3, <1>10 DEF CellsTyped
<1>12. Apart(a)
  BY <1>0, <1>1 DEF Apart, CellsTyped
<1>13. HistoryTyped'
  BY <1>0, <1>1, <1>4, <1>6, <1>9 DEF HistoryTyped
<1>14. Session(a)'
  <2>1. \A i \in seen'[a] : Present(i)'
    BY <1>0, <1>2 DEF Session, Present
  <2>2. \A i \in seen'[a] : i \in Range(pending'[a]) \/ Settled(i)' \/ i \in Represented(context'[a])
    <3> SUFFICES ASSUME NEW i \in seen[a]
                 PROVE  i \in Range(pending[a]) \/ Settled(i)' \/ i \in Represented(context'[a])
      BY <1>1
    <3>1. i \in Range(pending[a]) \/ Settled(i) \/ i \in Represented(context[a])
      BY <1>0 DEF Session, Turning
    <3>2. resumed[a] => i \notin Represented(context[a])
      BY <1>0 DEF Session
    <3>3. Settled(i) => Settled(i)'
      BY <1>2 DEF Settled
    <3> QED
      BY <1>5, <1>9, <3>1, <3>2, <3>3
  <2>3. Range(pending'[a]) \subseteq seen'[a]
    BY <1>0, <1>1 DEF Session
  <2>4. Range(pending'[a]) \subseteq carried'
    BY <1>1, <1>4
  <2> QED
    BY <1>1, <1>7, <1>9, <2>1, <2>2, <2>3, <2>4 DEF Session, Starting
<1>15. Drains(a)'
  BY <1>7, <1>9 DEF Drains
<1>16. Owed(a)
  BY <1>1, <1>2, <1>7, <1>9 DEF Owed, Brings
<1> QED
  BY <1>11, <1>12, <1>13, <1>14, <1>15, <1>16 DEF Kept

(* A turn is halted or its request recorded. *)
LEMMA SteerAndRecordKeeps ==
    ASSUME DeliveryInv, NEW a \in Owners, SteerAndRecord(a)
    PROVE  Kept(a)
<1>0. Store /\ CellsTyped /\ HistoryTyped /\ Session(a)
  BY DeliveryParts
<1>1. at[a] = "record" /\ rounds[a] < MaxRounds /\ UNCHANGED ledgerVars /\ UNCHANGED <<tok, own, seen, drained>>
  BY DEF SteerAndRecord
<1>2. \/ Halt(a) /\ UNCHANGED <<rounds, context, written, committed, carried, withdrawn, torn>>
      \/ RecordRequest(a)
  BY DEF SteerAndRecord, historyVars
<1>3. CASE RecordRequest(a)
  BY <1>1, <1>3, RecordRequestKeeps
<1>4. CASE Halt(a) /\ UNCHANGED <<rounds, context, written, committed, carried, withdrawn, torn>>
  <2>1. QueueMoves /\ inputs' = inputs
    BY <1>0, <1>1, LeaseMoves
  <2>2. drained \in [Owners -> 0..sequence']
    BY <1>0, <2>1, DrainedTyped
  <2>3. /\ Session(a)' /\ Drains(a)' /\ Brings(a)'
        /\ at' \in [Owners -> Points] /\ draft' \in [Owners -> Messages]
        /\ resumed' \in [Owners -> BOOLEAN] /\ pending' \in [Owners -> Seq(Inputs)]
        /\ \A b \in Owners \ {a} : /\ at'[b] = at[b] /\ draft'[b] = draft[b]
                                   /\ resumed'[b] = resumed[b] /\ pending'[b] = pending[b]
    BY <1>0, <1>1, <1>4, <2>1, HaltStands
  <2>4. CellsTyped' /\ Apart(a)
    BY <1>0, <1>1, <1>4, <2>2, <2>3 DEF CellsTyped, Apart
  <2>5. Owed(a)
    BY <1>1, <1>4, <2>1, <2>3 DEF Owed
  <2>6. HistoryTyped'
    BY <1>0, <1>4 DEF HistoryTyped
  <2> QED
    BY <2>3, <2>4, <2>5, <2>6 DEF Kept
<1> QED
  BY <1>2, <1>3, <1>4

(* What is admitted was carried by the request just recorded. *)
LEMMA AdmitKeeps ==
    ASSUME DeliveryInv, NEW a \in Owners, Admit(a)
    PROVE  Kept(a)
<1>0. Store /\ CellsTyped /\ HistoryTyped /\ Session(a)
  BY DeliveryParts
<1>1. /\ at[a] = "admit" /\ AdmitInputs(Range(pending[a]), tok[a])
      /\ pending' = [pending EXCEPT ![a] = <<>>] /\ at' = [at EXCEPT ![a] = "ask"]
      /\ UNCHANGED <<tok, own, context, written, draft, resumed, seen, rounds, drained, committed, carried, withdrawn, torn>>
  BY DEF Admit, Goto, historyVars
<1>2. /\ QueueMoves
      /\ \A i \in Inputs : inputs'[i].status = "admitted" =>
           inputs[i].status = "admitted" \/ i \in Range(pending[a])
      /\ \A i \in Range(pending[a]) \cap Inputs : Present(i) => Settled(i)'
  BY <1>0, <1>1, AdmitMoves
<1>3. drained \in [Owners -> 0..sequence']
  BY <1>0, <1>2, DrainedTyped
<1>4. at'[a] = "ask" /\ pending'[a] = <<>> /\ Range(pending'[a]) = {} /\ ~resumed[a]
  BY <1>0, <1>1 DEF CellsTyped, Range, Session
<1>5. <<>> \in Seq(Inputs)
  BY EmptySeq
<1>6. CellsTyped' /\ Apart(a)
  BY <1>0, <1>1, <1>3, <1>5 DEF CellsTyped, Apart, Points, Controlling
<1>7. HistoryTyped'
  BY <1>0, <1>1 DEF HistoryTyped
<1>8. Range(pending[a]) \subseteq carried
  BY <1>0, <1>1 DEF Session
<1>9. Owed(a)
  BY <1>1, <1>2, <1>4, <1>8 DEF Owed, Brings
<1>10. Session(a)'
  <2>1. \A i \in seen'[a] : i \in Inputs /\ Present(i) /\ Present(i)'
    BY <1>0, <1>1, <1>2 DEF Session, CellsTyped, QueueMoves
  <2>2. \A i \in seen'[a] : Settled(i)' \/ i \in Represented(context'[a])
    <3> SUFFICES ASSUME NEW i \in seen[a] PROVE Settled(i)' \/ i \in Represented(context[a])
      BY <1>1
    <3>1. i \in Range(pending[a]) \/ Settled(i) \/ i \in Represented(context[a])
      BY <1>0, <1>1 DEF Session, Turning
    <3>2. i \in Inputs /\ Present(i)
      BY <1>1, <2>1
    <3> QED
      BY <1>2, <3>1, <3>2 DEF QueueMoves
  <2> QED
    BY <1>1, <1>4, <2>1, <2>2 DEF Session, Starting
<1>11. Drains(a)'
  BY <1>4 DEF Drains
<1> QED
  BY <1>6, <1>7, <1>9, <1>10, <1>11 DEF Kept

(* An answer of the model names no inputs. *)
LEMMA AskModelKeeps ==
    ASSUME DeliveryInv, NEW a \in Owners, AskModel(a)
    PROVE  Kept(a)
<1>0. Store /\ CellsTyped /\ HistoryTyped /\ Session(a)
  BY DeliveryParts
<1>1. /\ at[a] = "ask" /\ at' = [at EXCEPT ![a] = "answered"] /\ UNCHANGED ledgerVars
      /\ UNCHANGED <<tok, own, written, draft, resumed, pending, seen, rounds, drained, committed, carried, withdrawn, torn>>
  BY DEF AskModel, Goto, historyVars
<1>2. PICK type \in {"calls", "answer"} : context' = [context EXCEPT ![a] = Append(context[a], Response(type))]
  BY DEF AskModel
<1>3. QueueMoves /\ inputs' = inputs
  BY <1>0, <1>1, LeaseMoves
<1>4. drained \in [Owners -> 0..sequence']
  BY <1>0, <1>3, DrainedTyped
<1>5. context[a] \in Seq(Messages) /\ Response(type) \in Messages
  BY <1>0, MessageTypes DEF CellsTyped
<1>6. Append(context[a], Response(type)) \in Seq(Messages) /\ Append(context[a], Response(type)) # <<>>
  BY <1>5, AppendProperties
<1>7. Represented(context[a]) \subseteq Represented(Append(context[a], Response(type)))
  BY <1>5, RepresentedAppend
<1> HIDE DEF Response
<1>8. at'[a] = "answered" /\ context'[a] = Append(context[a], Response(type)) /\ ~resumed[a] /\ pending[a] = <<>>
  BY <1>0, <1>1, <1>2 DEF CellsTyped, Session
<1>9. CellsTyped' /\ Apart(a)
  BY <1>0, <1>1, <1>2, <1>4, <1>6 DEF CellsTyped, Apart, Points, Controlling
<1>10. HistoryTyped'
  BY <1>0, <1>1 DEF HistoryTyped
<1>11. Owed(a)
  BY <1>1, <1>3, <1>8 DEF Owed, Brings
<1>12. Session(a)'
  <2>1. \A i \in seen'[a] : Present(i)'
    BY <1>0, <1>1, <1>3 DEF Session, Present
  <2>2. \A i \in seen'[a] : i \in Range(pending'[a]) \/ Settled(i)' \/ i \in Represented(context'[a])
    BY <1>0, <1>1, <1>3, <1>7, <1>8 DEF Session, Turning, Settled
  <2>3. Range(pending'[a]) \subseteq seen'[a]
    BY <1>0, <1>1 DEF Session
  <2> QED
    BY <1>1, <1>6, <1>8, <2>1, <2>2, <2>3 DEF Session, Starting
<1>13. Drains(a)'
  BY <1>8 DEF Drains
<1> QED
  BY <1>9, <1>10, <1>11, <1>12, <1>13 DEF Kept

(* Recording the answer changes no input. *)
LEMMA RecordResponseKeeps ==
    ASSUME DeliveryInv, NEW a \in Owners, RecordResponse(a)
    PROVE  Kept(a)
<1>0. Store /\ CellsTyped /\ HistoryTyped /\ Session(a)
  BY DeliveryParts
<1> DEFINE p == IF Last(context[a]).type = "calls" THEN "claim" ELSE "finish"
<1>1. /\ at[a] = "answered" /\ at' = [at EXCEPT ![a] = p] /\ UNCHANGED ledgerVars
      /\ written' = [written EXCEPT ![a] = Append(written[a], Last(context[a]))]
      /\ committed' = written'[a]
      /\ UNCHANGED <<tok, own, context, draft, resumed, pending, seen, rounds, drained, carried, withdrawn, torn>>
  BY DEF RecordResponse, Goto
<1>2. p \in {"claim", "finish"}
  OBVIOUS
<1> HIDE DEF p
<1>3. QueueMoves /\ inputs' = inputs
  BY <1>0, <1>1, LeaseMoves
<1>4. drained \in [Owners -> 0..sequence']
  BY <1>0, <1>3, DrainedTyped
<1>5. Append(written[a], Last(context[a])) \in Seq(Messages)
  <2>1. context[a] # <<>>
    BY <1>0, <1>1 DEF Session
  <2> QED
    BY <1>0, <2>1, FrontAndLast, AppendProperties DEF CellsTyped
<1>6. at'[a] = p /\ ~resumed[a] /\ pending[a] = <<>>
  BY <1>0, <1>1 DEF CellsTyped, Session
<1>7. written' \in [Owners -> Seq(Messages)] /\ committed' \in Seq(Messages)
  BY <1>0, <1>1, <1>5 DEF CellsTyped
<1>8. CellsTyped' /\ Apart(a)
  BY <1>0, <1>1, <1>2, <1>4, <1>7 DEF CellsTyped, Apart, Points, Controlling
<1>9. HistoryTyped'
  BY <1>0, <1>1, <1>7 DEF HistoryTyped
<1>10. Owed(a)
  BY <1>1, <1>2, <1>3, <1>6 DEF Owed, Brings
<1>11. Session(a)'
  <2>1. \A i \in seen'[a] : Present(i)'
    BY <1>0, <1>1, <1>3 DEF Session, Present
  <2>2. \A i \in seen'[a] : i \in Range(pending'[a]) \/ Settled(i)' \/ i \in Represented(context'[a])
    BY <1>0, <1>1, <1>3 DEF Session, Turning, Settled
  <2>3. Range(pending'[a]) \subseteq seen'[a]
    BY <1>0, <1>1 DEF Session
  <2> QED
    BY <1>1, <1>2, <1>6, <2>1, <2>2, <2>3 DEF Session, Starting
<1>12. Drains(a)'
  BY <1>2, <1>6 DEF Drains
<1> QED
  BY <1>8, <1>9, <1>10, <1>11, <1>12 DEF Kept

(* Looking at the queue, a session that holds nothing claims all that is left. *)
LEMMA DecideFinishKeeps ==
    ASSUME DeliveryInv, NEW a \in Owners, DecideFinish(a)
    PROVE  Kept(a)
<1>0. Store /\ CellsTyped /\ HistoryTyped /\ Session(a)
  BY DeliveryParts
<1>1. /\ at[a] = "finish" /\ ClaimAll(a)
      /\ pending' = [pending EXCEPT ![a] = InOrder(Claimable(a))]
      /\ seen' = [seen EXCEPT ![a] = seen[a] \cup Claimable(a)]
      /\ drained' = [drained EXCEPT ![a] = sequence] /\ sequence' = sequence
      /\ inputs' = [i \in Inputs |-> IF i \in Claimable(a) THEN [inputs[i] EXCEPT !.status = "claimed"]
                                                            ELSE inputs[i]]
      /\ UNCHANGED <<tok, own, context, written, draft, resumed, rounds, committed, carried, withdrawn, torn>>
  BY DEF DecideFinish, ClaimAll, historyVars
<1>2. PICK p \in {"claim", "finished"} : at' = [at EXCEPT ![a] = p] /\ (p = "finished" => Claimable(a) = {})
  BY DEF DecideFinish, Goto
<1>3. /\ QueueMoves
      /\ \A i \in Inputs : inputs'[i].status = "admitted" => inputs[i].status = "admitted"
      /\ Claimable(a) \subseteq Inputs
      /\ \A i \in Claimable(a) : Present(i) /\ ~Settled(i)
  BY <1>0, <1>1, ClaimMoves
<1>4. /\ InOrder(Claimable(a)) \in Seq(Inputs) /\ Range(InOrder(Claimable(a))) = Claimable(a)
      /\ Claimable(a) = {} => InOrder(Claimable(a)) = <<>>
  BY <1>0, <1>1, ClaimedInOrder
<1>5. drained \in [Owners -> 0..sequence'] /\ sequence \in 0..sequence'
  BY <1>0, <1>3, DrainedTyped
<1>6. \A i \in Inputs : i \notin Claimable(a) /\ Present(i) =>
        Settled(i) \/ i \in Represented(context[a]) \/ i \in seen[a]
  <2>1. inputs \in [Inputs -> InputRecords]
    BY <1>0 DEF Store, LedgerTypeOK
  <2> QED
    BY <2>1 DEF Claimable, Present, Settled, InputRecords
<1> HIDE DEF Claimable, InOrder
<1>7. /\ at'[a] = p /\ pending'[a] = InOrder(Claimable(a)) /\ seen'[a] = seen[a] \cup Claimable(a)
      /\ ~resumed[a] /\ pending[a] = <<>> /\ Range(pending[a]) = {}
  BY <1>0, <1>1, <1>2 DEF CellsTyped, Session, Range
<1>8. /\ at' \in [Owners -> Points] /\ pending' \in [Owners -> Seq(Inputs)]
      /\ seen' \in [Owners -> SUBSET Inputs] /\ drained' \in [Owners -> 0..sequence']
  BY <1>0, <1>1, <1>2, <1>3, <1>4, <1>5 DEF CellsTyped, Points, Controlling
<1>9. CellsTyped'
  BY <1>0, <1>1, <1>8 DEF CellsTyped
<1>10. Apart(a)
  BY <1>0, <1>1, <1>2 DEF CellsTyped, Apart
<1>11. HistoryTyped'
  BY <1>0, <1>1 DEF HistoryTyped
<1>12. Owed(a)
  BY <1>1, <1>3, <1>7 DEF Owed, Brings
<1>13. \A i \in seen[a] : i \in Inputs /\ (Settled(i) \/ i \in Represented(context[a]))
  BY <1>0, <1>1, <1>7 DEF Session, Turning, CellsTyped
<1>14. Session(a)'
  <2>1. \A i \in seen'[a] : Present(i)'
    BY <1>0, <1>3, <1>7 DEF Session, CellsTyped, QueueMoves
  <2>2. \A i \in seen'[a] : i \in Range(pending'[a]) \/ Settled(i)' \/ i \in Represented(context'[a])
    BY <1>1, <1>3, <1>4, <1>7, <1>13 DEF QueueMoves
  <2>3. Range(pending'[a]) \subseteq seen'[a]
    BY <1>4, <1>7
  <2>4. pending'[a] # <<>> => at'[a] = "claim"
    BY <1>2, <1>4, <1>7
  <2> QED
    BY <1>1, <1>7, <2>1, <2>2, <2>3, <2>4 DEF Session, Starting
<1>15. Drains(a)'
  <2> SUFFICES ASSUME at'[a] = "finished", NEW i \in Inputs, Present(i)'
               PROVE  Settled(i)' \/ i \in Represented(context'[a])
    BY DEF Drains
  <2>1. Claimable(a) = {}
    BY <1>2, <1>7
  <2>2. inputs'[i] = inputs[i]
    BY <1>1, <2>1
  <2>3. Settled(i) \/ i \in Represented(context[a])
    BY <1>6, <1>13, <2>1, <2>2 DEF Present
  <2> QED
    BY <1>1, <1>3, <2>3 DEF QueueMoves
<1> QED
  BY <1>9, <1>10, <1>11, <1>12, <1>14, <1>15 DEF Kept

(* Settling a run changes no input. *)
LEMMA SettleKeeps ==
    ASSUME DeliveryInv, NEW a \in Owners, Settle(a)
    PROVE  Kept(a)
<1>0. Store /\ CellsTyped /\ HistoryTyped /\ Session(a)
  BY DeliveryParts
<1>1. /\ at[a] \in {"finished", "halted"} /\ at' = [at EXCEPT ![a] = "leave"] /\ UNCHANGED ledgerVars
      /\ written' = [written EXCEPT ![a] = context[a]]
      /\ committed' = committed \/ committed' = context[a]
      /\ UNCHANGED <<tok, own, context, draft, resumed, pending, seen, rounds, drained, carried, withdrawn, torn>>
  BY DEF Settle, Goto, turnVars
<1>2. QueueMoves /\ inputs' = inputs
  BY <1>0, <1>1, LeaseMoves
<1>3. drained \in [Owners -> 0..sequence']
  BY <1>0, <1>2, DrainedTyped
<1>4. at'[a] = "leave" /\ pending[a] = <<>> /\ ~resumed[a]
  BY <1>0, <1>1 DEF CellsTyped, Session
<1>5. CellsTyped' /\ Apart(a)
  BY <1>0, <1>1, <1>3 DEF CellsTyped, Apart, Points, Controlling
<1>6. HistoryTyped'
  BY <1>0, <1>1 DEF HistoryTyped, CellsTyped
<1>7. Owed(a)
  BY <1>1, <1>2, <1>4 DEF Owed, Brings
<1>8. Session(a)' /\ Drains(a)'
  BY <1>0, <1>1, <1>2, <1>4 DEF Session, Drains, Starting, Turning, Present
<1> QED
  BY <1>5, <1>6, <1>7, <1>8 DEF Kept

(* What an attempt held is gone, and what it brought stays named. *)
LEMMA GoneKeeps ==
    ASSUME DeliveryInv, NEW a \in Owners, at[a] \in Controlling, Release(a) \/ UNCHANGED ledgerVars,
           Gone(a), UNCHANGED <<tok, own, committed, carried, withdrawn>>, torn' \in BOOLEAN
    PROVE  Kept(a)
<1>0. Store /\ CellsTyped /\ HistoryTyped /\ Session(a)
  BY DeliveryParts
<1>1. /\ at' = [at EXCEPT ![a] = "over"]
      /\ context' = [context EXCEPT ![a] = <<>>]
      /\ written' = [written EXCEPT ![a] = <<>>]
      /\ draft' = [draft EXCEPT ![a] = Empty]
      /\ resumed' = [resumed EXCEPT ![a] = FALSE]
      /\ pending' = [pending EXCEPT ![a] = <<>>]
      /\ seen' = [seen EXCEPT ![a] = {}]
      /\ rounds' = [rounds EXCEPT ![a] = 0]
      /\ drained' = [drained EXCEPT ![a] = 0]
  BY DEF Gone, Goto
<1>2. QueueMoves /\ inputs' = inputs
  BY <1>0, LeaseMoves
<1>3. drained \in [Owners -> 0..sequence'] /\ sequence' \in Nat
  BY <1>0, <1>2, DrainedTyped DEF QueueMoves, Store, LedgerTypeOK
<1>4. <<>> \in Seq(Messages) /\ <<>> \in Seq(Inputs) /\ Empty \in Messages /\ 0 \in 0..MaxRounds /\ 0 \in 0..sequence'
  BY <1>3, DeliveryConstants, MessageTypes, EmptySeq
<1>5. /\ at' \in [Owners -> Points]
      /\ context' \in [Owners -> Seq(Messages)] /\ written' \in [Owners -> Seq(Messages)]
      /\ draft' \in [Owners -> Messages] /\ resumed' \in [Owners -> BOOLEAN]
      /\ pending' \in [Owners -> Seq(Inputs)] /\ seen' \in [Owners -> SUBSET Inputs]
      /\ rounds' \in [Owners -> 0..MaxRounds]
  BY <1>0, <1>1, <1>4 DEF CellsTyped, Points
<1>6. drained' \in [Owners -> 0..sequence']
  BY <1>1, <1>3, <1>4
<1>7. CellsTyped'
  BY <1>0, <1>5, <1>6 DEF CellsTyped
<1>8. Apart(a)
  BY <1>0, <1>1 DEF CellsTyped, Apart
<1>9. HistoryTyped'
  BY <1>0 DEF HistoryTyped
<1>10. /\ at'[a] = "over" /\ pending'[a] = <<>> /\ ~resumed'[a] /\ seen'[a] = {}
       /\ Range(pending'[a]) = {}
  BY <1>0, <1>1 DEF CellsTyped, Range
<1>11. Session(a)' /\ Drains(a)'
  BY <1>10 DEF Session, Drains, Starting, Turning
<1>12. Owed(a)
  BY <1>2, <1>10 DEF Owed, Brings
<1> QED
  BY <1>7, <1>8, <1>9, <1>11, <1>12 DEF Kept

(* Leaving, an attempt gives up what it held. *)
LEMMA LeaveKeeps ==
    ASSUME DeliveryInv, NEW a \in Owners, Leave(a)
    PROVE  Kept(a)
<1>1. /\ at[a] \in Controlling /\ Release(a) /\ Gone(a)
      /\ UNCHANGED <<tok, own, committed, carried, withdrawn, torn>>
  BY DEF Leave, Controlling, historyVars
<1>2. torn' \in BOOLEAN
  BY <1>1, DeliveryParts DEF HistoryTyped
<1> QED
  BY <1>1, <1>2, GoneKeeps

(* Failing, an attempt gives up what it held. *)
LEMMA FailKeeps ==
    ASSUME DeliveryInv, NEW a \in Owners, Fail(a)
    PROVE  Kept(a)
<1>1. /\ at[a] \in Controlling /\ (Release(a) \/ UNCHANGED ledgerVars)
      /\ Gone(a) /\ UNCHANGED <<tok, own, committed, carried, withdrawn>>
  BY DEF Fail
<1>2. torn' \in BOOLEAN
  BY DeliveryParts DEF Fail, HistoryTyped
<1> QED
  BY <1>1, <1>2, GoneKeeps

-----------------------------------------------------------------------------
(* Theorems *)

(* Nothing is queued, and no attempt has begun. *)
LEMMA DeliveryInitially == Init => DeliveryInv
<1> SUFFICES ASSUME Init PROVE DeliveryInv
  OBVIOUS
<1>1. /\ LedgerInit /\ committed = <<>> /\ carried = {} /\ withdrawn = {} /\ torn = FALSE
      /\ at = [a \in Owners |-> "new"]
      /\ tok = [a \in Owners |-> 0]
      /\ own = [a \in Owners |-> NoInput]
      /\ context = [a \in Owners |-> <<>>]
      /\ written = [a \in Owners |-> <<>>]
      /\ draft = [a \in Owners |-> Empty]
      /\ resumed = [a \in Owners |-> FALSE]
      /\ pending = [a \in Owners |-> <<>>]
      /\ seen = [a \in Owners |-> {}]
      /\ rounds = [a \in Owners |-> 0]
      /\ drained = [a \in Owners |-> 0]
  BY DEF Init
<1>2. LedgerTypeOK /\ Numbered
  BY <1>1 DEF LedgerInit, LedgerTypeOK, InputRecords, Steps, Leases, Numbered, Present
<1>3. <<>> \in Seq(Messages) /\ <<>> \in Seq(Inputs) /\ Empty \in Messages /\ 0 \in 0..MaxRounds /\ 0 \in 0..sequence
  BY <1>2, DeliveryConstants, MessageTypes, EmptySeq DEF LedgerTypeOK
<1>4. CellsTyped
  BY <1>1, <1>3 DEF CellsTyped, Points
<1>5. HistoryTyped
  BY <1>1, <1>3 DEF HistoryTyped
<1>6. Carriers
  BY <1>1 DEF Carriers, LedgerInit
<1>7. \A a \in Owners : Session(a) /\ Drains(a)
  <2> SUFFICES ASSUME NEW a \in Owners PROVE Session(a) /\ Drains(a)
    OBVIOUS
  <2>1. at[a] = "new" /\ pending[a] = <<>> /\ ~resumed[a] /\ seen[a] = {} /\ Range(pending[a]) = {}
    BY <1>1 DEF Range
  <2> QED
    BY <2>1 DEF Session, Drains, Starting, Turning
<1> QED
  BY <1>2, <1>4, <1>5, <1>6, <1>7, DeliveryParts DEF Store

(* Steps of the environment change no attempt. *)
LEMMA OutsideKeeps ==
    ASSUME DeliveryInv, UNCHANGED deliveryVars, QueueMoves,
           \A i \in Inputs : inputs'[i].status = "admitted" => inputs[i].status = "admitted"
    PROVE  DeliveryInv'
<1>0. Store /\ CellsTyped /\ HistoryTyped /\ Carriers /\ \A b \in Owners : Session(b) /\ Drains(b)
  BY DeliveryParts
<1>1. UNCHANGED <<at, tok, own, written, context, draft, resumed, pending, seen, rounds, drained, committed, carried, withdrawn, torn>>
  BY DEF deliveryVars, attemptVars, turnVars, historyVars
<1>2. drained \in [Owners -> 0..sequence']
  BY <1>0, DrainedTyped
<1>3. CellsTyped' /\ HistoryTyped'
  BY <1>0, <1>1, <1>2 DEF CellsTyped, HistoryTyped
<1>4. \A b \in Owners : Session(b)' /\ Drains(b)'
  BY <1>0, <1>1, OthersStand
<1>5. Carriers'
  BY <1>0, <1>1 DEF Carriers, Brings
<1>6. /\ Store' /\ CellsTyped' /\ HistoryTyped' /\ Carriers'
      /\ \A b \in Owners : Session(b)' /\ Drains(b)'
  BY <1>3, <1>4, <1>5 DEF QueueMoves
<1> QED
  BY <1>6, DeliveryPartsNext

(* Every step keeps the invariant. *)
LEMMA DeliveryPreserved == DeliveryInv /\ [Next]_vars => DeliveryInv'
<1> SUFFICES ASSUME DeliveryInv, [Next]_vars PROVE DeliveryInv'
  OBVIOUS
<1>0. Store
  BY DeliveryParts
<1>1. ASSUME NEW a \in Owners, Begin(a) \/ AttemptStep(a) \/ Fail(a) PROVE DeliveryInv'
  <2>1. Kept(a)
    <3>1. CASE Begin(a) \/ OpenBranch(a) \/ EnqueuePrompt(a) \/ AdmitPrompt(a)
      BY <3>1, BeginKeeps, OpenBranchKeeps, EnqueuePromptKeeps, AdmitPromptKeeps
    <3>2. CASE Claim(a) \/ Screen(a) \/ SteerAndRecord(a) \/ Admit(a)
      BY <3>2, ClaimKeeps, ScreenKeeps, SteerAndRecordKeeps, AdmitKeeps
    <3>3. CASE AskModel(a) \/ RecordResponse(a) \/ DecideFinish(a) \/ Settle(a)
      BY <3>3, AskModelKeeps, RecordResponseKeeps, DecideFinishKeeps, SettleKeeps
    <3>4. CASE Leave(a) \/ Fail(a)
      BY <3>4, LeaveKeeps, FailKeeps
    <3> QED
      BY <1>1, <3>1, <3>2, <3>3, <3>4 DEF AttemptStep
  <2> QED
    BY <2>1, StepKeeps DEF Kept
<1>2. ASSUME NEW i \in Inputs, Submit(i) PROVE DeliveryInv'
  <2>1. EnqueueInput(i) /\ UNCHANGED deliveryVars
    BY <1>2 DEF Submit
  <2>2. QueueMoves /\ \A j \in Inputs : inputs'[j].status = "admitted" => inputs[j].status = "admitted"
    BY <1>0, <2>1, EnqueueMoves
  <2> QED
    BY <2>1, <2>2, OutsideKeeps
<1>3. CASE Lapse
  <2>1. Expire /\ UNCHANGED deliveryVars
    BY <1>3 DEF Lapse
  <2>2. QueueMoves /\ inputs' = inputs
    BY <1>0, <2>1, LeaseMoves
  <2> QED
    BY <2>1, <2>2, OutsideKeeps
<1>4. CASE UNCHANGED vars
  <2>1. UNCHANGED ledgerVars /\ UNCHANGED deliveryVars
    BY <1>4 DEF vars
  <2>2. QueueMoves /\ inputs' = inputs
    BY <1>0, <2>1, LeaseMoves
  <2> QED
    BY <2>1, <2>2, OutsideKeeps
<1> QED
  BY <1>1, <1>2, <1>3, <1>4 DEF Next

(* The invariant holds throughout. *)
LEMMA DeliveryInvariant == Spec => []DeliveryInv
BY DeliveryInitially, DeliveryPreserved, PTL DEF Spec

(* Whatever prompts, steers, screens and failures there are, the queue, the    *)
(* attempts and the histories are what the code takes them for.                *)
THEOREM DeliveryTypeCorrect == Spec => []TypeOK
<1>1. DeliveryInv => TypeOK
  BY DEF DeliveryInv
<1> QED
  BY <1>1, DeliveryInvariant, PTL

(* No input is forgotten: the queue calls admitted only what a request in the  *)
(* transcript has carried and what a run brought itself as its prompt.         *)
THEOREM DeliveryAdmittedWasCarried == Spec => []AdmittedWasCarried
<1>1. DeliveryInv => AdmittedWasCarried
  BY DEF DeliveryInv, Carriers, AdmittedWasCarried
<1> QED
  BY <1>1, DeliveryInvariant, PTL

(* An attempt that completes has, of all that was submitted before its last    *)
(* look at the queue, left nothing that is neither settled nor in its history. *)
THEOREM DeliveryFinishDrains == Spec => []FinishDrains
<1>1. DeliveryInv => FinishDrains
  BY DEF DeliveryInv, Drains, FinishDrains, Settled
<1> QED
  BY <1>1, DeliveryInvariant, PTL

=============================================================================
