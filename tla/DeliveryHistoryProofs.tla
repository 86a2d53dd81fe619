------------------------ MODULE DeliveryHistoryProofs ------------------------
(***************************************************************************)
(* Theorems about the histories of Delivery: the order in which inputs     *)
(* enter them, and that none enters one twice, for any prompts, inputs,    *)
(* attempts, screens and bounds.                                           *)
(*                                                                         *)
(* InSubmissionOrder speaks of the committed history alone and is not      *)
(* inductive.  What keeps it is that an attempt never claims one input     *)
(* while an earlier one is left unclaimed, unsettled and unknown to its    *)
(* history (Line), and that the same holds of every history it may take    *)
(* up from another attempt (History) and of the one it will have when it   *)
(* rewrites the request that ended it (Fits).  A prompt that a run brings  *)
(* itself goes before what is queued, and a part that screens took out of  *)
(* a recorded request has lost its place: both are exempt, and the latter  *)
(* still known.                                                            *)
(*                                                                         *)
(* CarriedOnceUnlessTorn rests on what every attempt, a stale one too,     *)
(* still may write (Whole): its history has no input twice, names every    *)
(* input of it that is not settled, so that no claim returns it (Once),    *)
(* and has none of what is pending or drafted; and on whoever left a       *)
(* request at the end of the branch being there to answer it (Answered),   *)
(* so that nobody resumes it.                                              *)
(***************************************************************************)
EXTENDS DeliveryProofs

-----------------------------------------------------------------------------
(* The invariant *)

(* The prompts that attempts have brought themselves. *)
Brought == {own[a] : a \in {b \in Owners : Brings(b)}}

(* What no order is asked of. *)
Exempt == Brought \cup withdrawn

Below(i, j) == Present(i) /\ inputs[i].sequence < inputs[j].sequence

(* What a history holds, or held before a screen. *)
Known(h) == Held(h) \cup withdrawn

(* Only requests hold and name inputs. *)
Plain(h) == \A n \in DOMAIN h : h[n].type # "request" => h[n].holds = <<>> /\ h[n].ids = {}

(* A history holds inputs in order, and of what was submitted before an input *)
(* that it holds nothing is left to be claimed that it does not know.         *)
History(h) ==
    /\ Plain(h)
    /\ Represented(h) \subseteq Known(h)
    /\ \A i \in Held(h) : Present(i)
    /\ HoldsInOrder(h, Exempt)
    /\ \A j \in Held(h) \ Exempt, i \in Inputs : Below(i, j) => Settled(i) \/ i \in Known(h)

(* A request that goes with the messages c: its inputs are in the queue; a     *)
(* resumed one may take the last place in c, any other holds a prompt that was *)
(* brought or nothing.                                                         *)
Fits(c, m, resumes) ==
    /\ \A i \in Range(m.holds) : Present(i)
    /\ ~resumes => m.ids = {} /\ Range(m.holds) \subseteq Brought
    /\ resumes => /\ c # <<>> /\ m.type = "request"
                  /\ History(Append(Front(c), m)) /\ Known(Append(Front(c), m)) = Known(c)

Draft(a) ==
    /\ Fits(context[a], draft[a], resumed[a])
    /\ at[a] = "admitprompt" => Present(own[a])
    /\ at[a] = "answered" => Last(context[a]).holds = <<>> /\ Last(context[a]).ids = {}

(* An attempt's queue: it has claimed everything before what it has claimed,  *)
(* and what is pending comes after what its history holds, in order.          *)
Line(a) ==
    /\ at[a] \in Turning => \A s \in seen[a], i \in Inputs :
          Below(i, s) => Settled(i) \/ i \in seen[a] \/ i \in Known(context[a])
    /\ \A i \in Range(pending[a]), j \in Held(context[a]) \ Exempt : Below(i, j) => i \in Known(context[a])
    /\ \A k, l \in DOMAIN pending[a] :
          Below(pending[a][k], pending[a][l]) => k < l \/ pending[a][k] \in Known(context[a])

Lines(a) ==
    /\ History(context[a]) /\ History(written[a]) /\ Known(written[a]) = Known(context[a])
    /\ Draft(a) /\ Line(a)

OrderInv == DeliveryInv /\ History(committed) /\ \A a \in Owners : Lines(a)

-----------------------------------------------------------------------------
(* What histories hold *)

(* A history without messages is in order. *)
LEMMA EmptyHistory == History(<<>>) /\ Known(<<>>) = withdrawn /\ Held(<<>>) = {}
<1>1. DOMAIN <<>> = {}
  OBVIOUS
<1>2. Held(<<>>) = {} /\ Represented(<<>>) = {}
  BY <1>1 DEF Held, Represented
<1> QED
  BY <1>1, <1>2 DEF History, Plain, HoldsInOrder, Known

(* What a history holds when a message follows it. *)
LEMMA HeldAppend ==
    ASSUME NEW h \in Seq(Messages), NEW m \in Messages
    PROVE  /\ Held(Append(h, m)) = Held(h) \cup Range(m.holds)
           /\ Plain(h) /\ (m.type # "request" => m.holds = <<>> /\ m.ids = {}) => Plain(Append(h, m))
<1>1. /\ Len(h) \in Nat /\ DOMAIN h = 1..Len(h)
      /\ Append(h, m) \in Seq(Messages) /\ Len(Append(h, m)) = Len(h) + 1
      /\ \A n \in 1..Len(h) : Append(h, m)[n] = h[n]
      /\ Append(h, m)[Len(h) + 1] = m
  BY LenProperties, AppendProperties
<1>2. DOMAIN Append(h, m) = DOMAIN h \cup {Len(h) + 1}
  <2>1. DOMAIN Append(h, m) = 1..(Len(h) + 1)
    BY <1>1, LenProperties
  <2> QED
    BY <1>1, <2>1
<1> QED
  BY <1>1, <1>2 DEF Held, Plain

(* What it held without its last message. *)
LEMMA HeldFront ==
    ASSUME NEW h \in Seq(Messages), h # <<>>
    PROVE  /\ Held(h) = Held(Front(h)) \cup Range(Last(h).holds)
           /\ Plain(h) => /\ Plain(Front(h))
                          /\ Last(h).type # "request" => Last(h).holds = <<>> /\ Last(h).ids = {}
<1>1. /\ Len(h) \in Nat \ {0} /\ DOMAIN h = 1..Len(h) /\ DOMAIN Front(h) = 1..(Len(h) - 1)
      /\ \A n \in 1..(Len(h) - 1) : Front(h)[n] = h[n]
      /\ Last(h) = h[Len(h)]
  BY FrontAndLast
<1>2. DOMAIN h = DOMAIN Front(h) \cup {Len(h)}
  BY <1>1
<1> QED
  BY <1>1, <1>2 DEF Held, Plain

(* A message that is appended is the last one, and the rest the front. *)
LEMMA FrontOfAppend ==
    ASSUME NEW h \in Seq(Messages), NEW m \in Messages
    PROVE  /\ Append(h, m) \in Seq(Messages) /\ Append(h, m) # <<>>
           /\ Front(Append(h, m)) = h /\ Last(Append(h, m)) = m
<1> DEFINE H == Append(h, m)
           N == Len(h)
<1>1. /\ N \in Nat /\ DOMAIN h = 1..N /\ H \in Seq(Messages) /\ Len(H) = N + 1
      /\ \A n \in 1..N : H[n] = h[n]
      /\ H[N + 1] = m
  BY LenProperties, AppendProperties
<1> SUFFICES H # <<>> /\ Front(H) = h /\ Last(H) = m
  BY <1>1
<1> HIDE DEF H
<1>2. H # <<>>
  BY <1>1, EmptySeq
<1>3. /\ Front(H) \in Seq(Messages) /\ Len(Front(H)) = Len(H) - 1
      /\ \A n \in 1..(Len(H) - 1) : Front(H)[n] = H[n]
      /\ Last(H) = H[Len(H)]
  BY <1>1, <1>2, FrontAndLast
<1>4. Len(Front(H)) = N /\ \A n \in 1..N : Front(H)[n] = h[n]
  BY <1>1, <1>3
<1>5. Front(H) = h
  BY <1>3, <1>4, SeqEqual
<1> QED
  BY <1>1, <1>2, <1>3, <1>5

(* A history is its front and its last message. *)
LEMMA AppendOfFront ==
    ASSUME NEW h \in Seq(Messages), h # <<>>
    PROVE  Append(Front(h), Last(h)) = h
<1> DEFINE f == Front(h)
           m == Last(h)
           H == Append(f, m)
<1>1. /\ f \in Seq(Messages) /\ Len(f) = Len(h) - 1 /\ Len(h) \in Nat \ {0}
      /\ \A n \in 1..(Len(h) - 1) : f[n] = h[n]
      /\ m = h[Len(h)] /\ m \in Messages
  BY FrontAndLast
<1> HIDE DEF f, m
<1>2. /\ H \in Seq(Messages) /\ Len(H) = Len(f) + 1
      /\ \A n \in 1..Len(f) : H[n] = f[n]
      /\ H[Len(f) + 1] = m
  BY <1>1, AppendProperties
<1> HIDE DEF H
<1>3. Len(H) = Len(h)
  BY <1>1, <1>2
<1>4. \A n \in 1..Len(h) : H[n] = h[n]
  BY <1>1, <1>2
<1>5. H = h
  BY <1>2, <1>3, <1>4, SeqEqual
<1> QED
  BY <1>5 DEF H, f, m

-----------------------------------------------------------------------------
(* What the queue's moves leave of the order *)

(* Nothing comes before an input that was not before it. *)
LEMMA BelowStands ==
    ASSUME Store, QueueMoves, NEW i \in Inputs, NEW j \in Inputs, Present(j)
    PROVE  Below(i, j)' => Below(i, j)
<1> SUFFICES ASSUME Below(i, j)' PROVE Below(i, j)
  OBVIOUS
<1>1. /\ inputs[j].sequence \in 0..(sequence - 1) /\ sequence \in Nat
      /\ inputs'[i].sequence \in Nat
  BY DEF Store, Numbered, LedgerTypeOK, QueueMoves, InputRecords
<1>2. Present(i)' /\ inputs'[i].sequence < inputs'[j].sequence
  BY DEF Below
<1>3. inputs'[j].sequence = inputs[j].sequence
  BY DEF QueueMoves
<1>4. ~(inputs'[i].sequence >= sequence)
  BY <1>1, <1>2, <1>3
<1>5. Present(i)
  BY <1>2, <1>4 DEF QueueMoves
<1>6. inputs'[i].sequence = inputs[i].sequence
  BY <1>5 DEF QueueMoves
<1> QED
  BY <1>2, <1>3, <1>5, <1>6 DEF Below

(* An order over more prompts exempts more. *)
LEMMA MoreExempt ==
    ASSUME NEW h, NEW E, NEW F, E \subseteq F, HoldsInOrder(h, E)
    PROVE  HoldsInOrder(h, F)
BY DEF HoldsInOrder

(* Nothing that was exempt is so no longer. *)
Exempting == Brought \subseteq Brought' /\ withdrawn \subseteq withdrawn'

(* Nor is what was known forgotten. *)
LEMMA KnownStands ==
    ASSUME Exempting, NEW h
    PROVE  /\ Exempt \subseteq Exempt'
           /\ Known(h) \subseteq Known(h)' /\ Known(h)' = Known(h) \cup withdrawn'
           /\ \A g : Known(g) = Known(h) => Known(g)' = Known(h)'
BY DEF Exempting, Exempt, Known

(* An order stands while the queue moves. *)
LEMMA OrderStands ==
    ASSUME Store, QueueMoves, NEW h \in Seq(Messages), \A i \in Held(h) : Present(i),
           NEW E, HoldsInOrder(h, E)
    PROVE  HoldsInOrder(h, E)'
<1>1. Held(h) \subseteq Inputs
  BY HeldAreInputs
<1>2. \A i \in Held(h) : inputs'[i].sequence = inputs[i].sequence
  BY <1>1 DEF QueueMoves
<1> SUFFICES ASSUME NEW n \in DOMAIN h, NEW l \in DOMAIN h[n].holds, NEW i \in Held(h) \ E,
                    h[n].holds[l] \notin E,
                    inputs'[i].sequence < inputs'[h[n].holds[l]].sequence
             PROVE  \E m \in 1..n : \E k \in DOMAIN h[m].holds :
                      h[m].holds[k] = i /\ (m < n \/ k < l)
  BY DEF HoldsInOrder
<1>3. h[n].holds[l] \in Held(h)
  BY HeldAreInputs
<1>4. inputs[i].sequence < inputs[h[n].holds[l]].sequence
  BY <1>2, <1>3
<1> QED
  BY <1>4 DEF HoldsInOrder

(* A history stays as it was. *)
LEMMA HistoryStands ==
    ASSUME Store, QueueMoves, Exempting, NEW h \in Seq(Messages), History(h)
    PROVE  History(h)'
<1>1. Held(h) \subseteq Inputs
  BY HeldAreInputs
<1>2. \A i \in Held(h) : Present(i) /\ Present(i)' /\ inputs'[i].sequence = inputs[i].sequence
  BY <1>1 DEF History, QueueMoves
<1>a. Exempt \subseteq Exempt' /\ Known(h) \subseteq Known(h)'
  BY KnownStands
<1>3. HoldsInOrder(h, Exempt)'
  <2> SUFFICES ASSUME NEW n \in DOMAIN h, NEW l \in DOMAIN h[n].holds, NEW i \in Held(h) \ Exempt',
                      h[n].holds[l] \notin Exempt',
                      inputs'[i].sequence < inputs'[h[n].holds[l]].sequence
               PROVE  \E m \in 1..n : \E k \in DOMAIN h[m].holds :
                        h[m].holds[k] = i /\ (m < n \/ k < l)
    BY DEF HoldsInOrder
  <2>1. h[n].holds[l] \in Held(h)
    BY HeldAreInputs
  <2>2. inputs[i].sequence < inputs[h[n].holds[l]].sequence
    BY <1>2, <2>1
  <2> QED
    BY <1>a, <2>2 DEF History, HoldsInOrder
<1>4. ASSUME NEW j \in Held(h) \ Exempt', NEW i \in Inputs, Below(i, j)'
      PROVE  Settled(i)' \/ i \in Known(h)'
  <2>1. Below(i, j)
    BY <1>1, <1>2, <1>4, BelowStands
  <2>2. Settled(i) \/ i \in Known(h)
    BY <1>a, <2>1 DEF History
  <2> QED
    BY <1>a, <2>2 DEF QueueMoves
<1>5. Plain(h)' /\ (Represented(h) \subseteq Known(h))'
  BY <1>a DEF History
<1> QED
  BY <1>2, <1>3, <1>4, <1>5 DEF History

(* A request that fits still does. *)
LEMMA FitsStill ==
    ASSUME Store, QueueMoves, Exempting, NEW c \in Seq(Messages), NEW m \in Messages, NEW r \in BOOLEAN,
           Fits(c, m, r)
    PROVE  Fits(c, m, r)'
<1>1. \A i \in Range(m.holds) : i \in Inputs
  <2>1. m.holds \in Seq(Inputs)
    BY DEF Messages
  <2> QED
    BY <2>1, ElementOfSeq, LenProperties DEF Range
<1>2. \A i \in Range(m.holds) : Present(i)'
  BY <1>1 DEF Fits, QueueMoves
<1>3. ~r => m.ids = {} /\ Range(m.holds) \subseteq Brought'
  BY DEF Fits, Exempting
<1>4. ASSUME r
      PROVE  History(Append(Front(c), m))' /\ Known(Append(Front(c), m))' = Known(c)'
  <2>1. c # <<>> /\ History(Append(Front(c), m)) /\ Known(Append(Front(c), m)) = Known(c)
    BY <1>4 DEF Fits
  <2>2. Append(Front(c), m) \in Seq(Messages)
    BY <2>1, FrontAndLast, AppendProperties
  <2> QED
    BY <2>1, <2>2, HistoryStands, KnownStands
<1> QED
  BY <1>2, <1>3, <1>4 DEF Fits

(* So does an empty one. *)
LEMMA EmptyFits ==
    ASSUME NEW c
    PROVE  Empty \in Messages /\ Fits(c, Empty, FALSE)
<1>1. Empty \in Messages /\ Empty.holds = <<>> /\ Empty.ids = {} /\ Range(<<>>) = {}
  BY MessageTypes DEF Range
<1> QED
  BY <1>1 DEF Fits

(* An attempt whose cells change has lines when what it has then is in order   *)
(* with the queue as it was.                                                   *)
LEMMA LinesAnew ==
    ASSUME Store, QueueMoves, Exempting, NEW a \in Owners,
           NEW c \in Seq(Messages), NEW w \in Seq(Messages), NEW m \in Messages, NEW r \in BOOLEAN,
           NEW q \in Seq(Inputs), NEW S \in SUBSET Inputs,
           context'[a] = c, written'[a] = w, draft'[a] = m, resumed'[a] = r, pending'[a] = q, seen'[a] = S,
           History(c), History(w), Known(w) = Known(c),
           Range(q) \subseteq S, \A i \in S : Present(i),
           Fits(c, m, r)',
           at'[a] = "admitprompt" => Present(own[a])',
           at'[a] = "answered" => Last(c).holds = <<>> /\ Last(c).ids = {},
           at'[a] \in Turning => \A s \in S, i \in Inputs :
              Below(i, s) => Settled(i)' \/ i \in S \/ i \in Known(c),
           \A i \in Range(q), j \in Held(c) \ Exempt : Below(i, j) => i \in Known(c),
           \A k, l \in DOMAIN q : Below(q[k], q[l]) => k < l \/ q[k] \in Known(c)
    PROVE  Lines(a)'
<1>1. \A k \in DOMAIN q : q[k] \in Inputs /\ q[k] \in Range(q)
  BY ElementOfSeq, LenProperties DEF Range
<1>2. Exempt \subseteq Exempt' /\ Known(c) \subseteq Known(c)' /\ Known(w)' = Known(c)'
  BY KnownStands
<1>3. History(c)' /\ History(w)'
  BY HistoryStands
<1>4. Draft(a)'
  BY DEF Draft
<1>5. Held(c) \subseteq Inputs /\ \A j \in Held(c) : Present(j)
  BY HeldAreInputs DEF History
<1>6. Line(a)'
  <2>1. at'[a] \in Turning => \A s \in S, i \in Inputs :
          Below(i, s)' => Settled(i)' \/ i \in S \/ i \in Known(c)'
    <3> SUFFICES ASSUME at'[a] \in Turning, NEW s \in S, NEW i \in Inputs, Below(i, s)'
                 PROVE  Settled(i)' \/ i \in S \/ i \in Known(c)'
      OBVIOUS
    <3>1. Below(i, s)
      BY BelowStands
    <3> QED
      BY <1>2, <3>1
  <2>2. \A i \in Range(q), j \in Held(c) \ Exempt' : Below(i, j)' => i \in Known(c)'
    <3> SUFFICES ASSUME NEW i \in Range(q), NEW j \in Held(c) \ Exempt', Below(i, j)'
                 PROVE  i \in Known(c)'
      OBVIOUS
    <3>1. i \in Inputs /\ j \in Inputs /\ Present(j)
      BY <1>5
    <3>2. Below(i, j)
      BY <3>1, BelowStands
    <3> QED
      BY <1>2, <3>2
  <2>3. \A k, l \in DOMAIN q : Below(q[k], q[l])' => k < l \/ q[k] \in Known(c)'
    <3> SUFFICES ASSUME NEW k \in DOMAIN q, NEW l \in DOMAIN q, Below(q[k], q[l])'
                 PROVE  k < l \/ q[k] \in Known(c)'
      OBVIOUS
    <3>1. q[k] \in Inputs /\ q[l] \in Inputs /\ Present(q[l])
      BY <1>1
    <3>2. Below(q[k], q[l])
      BY <3>1, BelowStands
    <3> QED
      BY <1>2, <3>2
  <2> QED
    BY <2>1, <2>2, <2>3 DEF Line
<1> QED
  BY <1>2, <1>3, <1>4, <1>6 DEF Lines

(* Attempts whose cells a step leaves alone keep their lines; so does one that *)
(* only goes on, unless it begins its turns with claims.                       *)
LEMMA LinesStand ==
    ASSUME Store, CellsTyped, QueueMoves, Exempting, NEW a \in Owners, Session(a), Lines(a),
           context'[a] = context[a], written'[a] = written[a], draft'[a] = draft[a],
           resumed'[a] = resumed[a], pending'[a] = pending[a], seen'[a] = seen[a],
           at'[a] \in Turning => at[a] \in Turning \/ seen[a] = {},
           at'[a] = "admitprompt" => Present(own[a])',
           at'[a] = "answered" => at[a] = "answered"
    PROVE  Lines(a)'
<1>a. /\ context[a] \in Seq(Messages) /\ written[a] \in Seq(Messages) /\ seen[a] \in SUBSET Inputs
      /\ pending[a] \in Seq(Inputs) /\ draft[a] \in Messages /\ resumed[a] \in BOOLEAN
  BY DEF CellsTyped
<1>b. PICK c \in Seq(Messages) : c = context[a]
  BY <1>a
<1>c. PICK m \in Messages : m = draft[a]
  BY <1>a
<1>d. PICK r \in BOOLEAN : r = resumed[a]
  BY <1>a
<1> DEFINE w == written[a]
           q == pending[a]
           S == seen[a]
<1>0. w \in Seq(Messages) /\ S \in SUBSET Inputs /\ q \in Seq(Inputs)
  BY <1>a
<1>1. Range(q) \subseteq S /\ \A i \in S : Present(i)
  BY DEF Session
<1>2. /\ History(c) /\ History(w) /\ Known(w) = Known(c) /\ Fits(c, m, r)
      /\ at'[a] = "answered" => Last(c).holds = <<>> /\ Last(c).ids = {}
  BY <1>b, <1>c, <1>d DEF Lines, Draft
<1>3. Fits(c, m, r)'
  BY <1>2, FitsStill
<1>4. at'[a] \in Turning => \A s \in S, i \in Inputs : Below(i, s) => Settled(i)' \/ i \in S \/ i \in Known(c)
  BY <1>b DEF Lines, Line, QueueMoves
<1>5. /\ \A i \in Range(q), j \in Held(c) \ Exempt : Below(i, j) => i \in Known(c)
      /\ \A k, l \in DOMAIN q : Below(q[k], q[l]) => k < l \/ q[k] \in Known(c)
  BY <1>b DEF Lines, Line
<1>6. /\ context'[a] = c /\ written'[a] = w /\ draft'[a] = m /\ resumed'[a] = r
      /\ pending'[a] = q /\ seen'[a] = S
  BY <1>b, <1>c, <1>d
<1> HIDE DEF w, q, S
<1> QED
  BY <1>0, <1>1, <1>2, <1>3, <1>4, <1>5, <1>6, LinesAnew

-----------------------------------------------------------------------------
(* Order, when a message is appended *)

(* An input has a place before place l of message n. *)
PlacedBefore(h, i, n, l) ==
    \E m \in 1..n : \E k \in DOMAIN h[m].holds : h[m].holds[k] = i /\ (m < n \/ k < l)

(* The order, in terms of places. *)
LEMMA OrderMeans ==
    ASSUME NEW h, NEW E
    PROVE  HoldsInOrder(h, E) <=>
             \A n \in DOMAIN h : \A l \in DOMAIN h[n].holds : \A i \in Held(h) \ E :
               h[n].holds[l] \notin E /\ inputs[i].sequence < inputs[h[n].holds[l]].sequence =>
                 PlacedBefore(h, i, n, l)
BY DEF HoldsInOrder, PlacedBefore

(* The places of two lists in their concatenation. *)
LEMMA PlacesOfBoth ==
    ASSUME NEW s \in Seq(Inputs), NEW t \in Seq(Inputs)
    PROVE  /\ Len(s) \in Nat /\ Len(t) \in Nat
           /\ DOMAIN s = 1..Len(s) /\ DOMAIN t = 1..Len(t)
           /\ DOMAIN (s \o t) = 1..(Len(s) + Len(t))
           /\ \A k \in DOMAIN s : k \in DOMAIN (s \o t) /\ (s \o t)[k] = s[k]
           /\ \A k \in DOMAIN t : k + Len(s) \in DOMAIN (s \o t) /\ (s \o t)[k + Len(s)] = t[k]
           /\ \A l \in DOMAIN (s \o t) :
                \/ l \in DOMAIN s /\ (s \o t)[l] = s[l]
                \/ l - Len(s) \in DOMAIN t /\ (s \o t)[l] = t[l - Len(s)]
<1>1. /\ Len(s) \in Nat /\ Len(t) \in Nat
      /\ DOMAIN s = 1..Len(s) /\ DOMAIN t = 1..Len(t)
      /\ s \o t \in Seq(Inputs) /\ Len(s \o t) = Len(s) + Len(t)
      /\ DOMAIN (s \o t) = 1..Len(s \o t)
      /\ \A n \in 1..(Len(s) + Len(t)) : (s \o t)[n] = IF n <= Len(s) THEN s[n] ELSE t[n - Len(s)]
  BY LenProperties, ConcatProperties
<1>2. \A k \in DOMAIN s : k \in DOMAIN (s \o t) /\ (s \o t)[k] = s[k]
  <2> SUFFICES ASSUME NEW k \in 1..Len(s) PROVE k \in DOMAIN (s \o t) /\ (s \o t)[k] = s[k]
    BY <1>1
  <2>1. k \in 1..(Len(s) + Len(t)) /\ k <= Len(s)
    BY <1>1
  <2> QED
    BY <1>1, <2>1
<1>3. \A k \in DOMAIN t : k + Len(s) \in DOMAIN (s \o t) /\ (s \o t)[k + Len(s)] = t[k]
  <2> SUFFICES ASSUME NEW k \in 1..Len(t)
               PROVE  k + Len(s) \in DOMAIN (s \o t) /\ (s \o t)[k + Len(s)] = t[k]
    BY <1>1
  <2>1. k + Len(s) \in 1..(Len(s) + Len(t)) /\ ~(k + Len(s) <= Len(s)) /\ (k + Len(s)) - Len(s) = k
    BY <1>1
  <2> QED
    BY <1>1, <2>1
<1>4. ASSUME NEW l \in 1..(Len(s) + Len(t))
      PROVE  \/ l \in DOMAIN s /\ (s \o t)[l] = s[l]
             \/ l - Len(s) \in DOMAIN t /\ (s \o t)[l] = t[l - Len(s)]
  <2>1. CASE l <= Len(s)
    <3>1. l \in 1..Len(s)
      BY <1>1, <2>1
    <3> QED
      BY <1>1, <2>1, <3>1
  <2>2. CASE ~(l <= Len(s))
    <3>1. l - Len(s) \in 1..Len(t)
      BY <1>1, <2>2
    <3> QED
      BY <1>1, <2>2, <3>1
  <2> QED
    BY <2>1, <2>2
<1> QED
  BY <1>1, <1>2, <1>3, <1>4

(* A message keeps the order when what it brings anew comes after what the    *)
(* history holds, and comes in order itself.                                  *)
LEMMA ExtendInOrder ==
    ASSUME NEW g \in Seq(Messages), NEW m \in Messages,
           NEW d \in Seq(Inputs), NEW p \in Seq(Inputs), m.holds = d \o p,
           NEW E, HoldsInOrder(g, E),
           \A j \in Held(g) \ E, i \in (Range(d) \cup Range(p)) \ E :
             inputs[i].sequence < inputs[j].sequence => i \in Held(g),
           \A l \in DOMAIN d, i \in (Held(g) \cup Range(d) \cup Range(p)) \ E :
             d[l] \notin E /\ inputs[i].sequence < inputs[d[l]].sequence =>
               i \in Held(g) \/ \E k \in DOMAIN d : k < l /\ d[k] = i,
           \A k, l \in DOMAIN p : p[k] \notin E /\ inputs[p[k]].sequence < inputs[p[l]].sequence =>
             k < l \/ p[k] \in Held(g) \cup Range(d)
    PROVE  HoldsInOrder(Append(g, m), E)
<1> DEFINE H == Append(g, m)
           N == Len(g) + 1
<1>1. /\ Len(g) \in Nat /\ DOMAIN g = 1..Len(g)
      /\ H \in Seq(Messages) /\ Len(H) = N
      /\ \A n \in 1..Len(g) : H[n] = g[n]
      /\ H[N] = m
  BY LenProperties, AppendProperties
<1>2. DOMAIN H = 1..N
  BY <1>1, LenProperties
<1>3. Held(H) = Held(g) \cup Range(d) \cup Range(p)
  <2>1. Range(m.holds) = Range(d) \cup Range(p)
    BY RangeOfBoth
  <2>2. Held(H) = Held(g) \cup Range(m.holds)
    BY HeldAppend
  <2> QED
    BY <2>1, <2>2
<1> SUFFICES HoldsInOrder(H, E)
  OBVIOUS
<1> HIDE DEF H
<1> SUFFICES ASSUME NEW n \in DOMAIN H, NEW l \in DOMAIN H[n].holds, NEW i \in Held(H) \ E,
                    H[n].holds[l] \notin E,
                    inputs[i].sequence < inputs[H[n].holds[l]].sequence
             PROVE  PlacedBefore(H, i, n, l)
  BY OrderMeans
<1>4. CASE n \in 1..Len(g)
  <2>1. H[n] = g[n] /\ n \in DOMAIN g
    BY <1>1, <1>4
  <2>2. g[n].holds[l] \in Held(g) \ E
    BY <2>1, HeldAreInputs
  <2>3. i \in Held(g)
    BY <1>3, <2>1, <2>2
  <2>a. /\ l \in DOMAIN g[n].holds /\ g[n].holds[l] \notin E /\ i \in Held(g) \ E
        /\ inputs[i].sequence < inputs[g[n].holds[l]].sequence
    BY <2>1, <2>3
  <2>b. PlacedBefore(g, i, n, l)
    BY <2>1, <2>a, OrderMeans
  <2>4. PICK x \in 1..n : \E k \in DOMAIN g[x].holds : g[x].holds[k] = i /\ (x < n \/ k < l)
    BY <2>b DEF PlacedBefore
  <2>5. x \in 1..Len(g)
    BY <1>1, <1>4
  <2>6. H[x] = g[x]
    BY <1>1, <2>5
  <2> QED
    BY <2>4, <2>6 DEF PlacedBefore
<1>5. CASE n = N
  <2>1. H[n].holds = d \o p
    BY <1>1, <1>5
  <2>a. d \in Seq(Inputs) /\ p \in Seq(Inputs)
    OBVIOUS
  <2>b. l \in DOMAIN (d \o p)
    BY <2>1
  <2>2. /\ Len(d) \in Nat /\ Len(p) \in Nat
        /\ DOMAIN d = 1..Len(d) /\ DOMAIN p = 1..Len(p)
        /\ DOMAIN (d \o p) = 1..(Len(d) + Len(p))
        /\ \A k \in DOMAIN d : k \in DOMAIN (d \o p) /\ (d \o p)[k] = d[k]
        /\ \A k \in DOMAIN p : k + Len(d) \in DOMAIN (d \o p) /\ (d \o p)[k + Len(d)] = p[k]
        /\ \/ l \in DOMAIN d /\ (d \o p)[l] = d[l]
           \/ l - Len(d) \in DOMAIN p /\ (d \o p)[l] = p[l - Len(d)]
    BY ONLY <2>a, <2>b, PlacesOfBoth
  <2>3. ASSUME i \in Held(g)
        PROVE  PlacedBefore(H, i, n, l)
    <3>1. PICK x \in DOMAIN g : \E k \in DOMAIN g[x].holds : g[x].holds[k] = i
      BY <2>3, HeldAreInputs
    <3>2. x \in 1..n /\ x < n /\ H[x] = g[x]
      BY <1>1, <1>5
    <3> QED
      BY <3>1, <3>2 DEF PlacedBefore
  <2>4. ASSUME NEW k \in DOMAIN d, d[k] = i, k < l
        PROVE  PlacedBefore(H, i, n, l)
    <3>1. k \in DOMAIN H[n].holds /\ H[n].holds[k] = i /\ n \in 1..n
      BY <1>1, <1>5, <2>1, <2>2, <2>4
    <3> QED
      BY <2>4, <3>1 DEF PlacedBefore
  <2>5. CASE l \in DOMAIN d /\ (d \o p)[l] = d[l]
    <3>1. i \in Held(g) \/ \E k \in DOMAIN d : k < l /\ d[k] = i
      BY <1>3, <2>1, <2>5
    <3> QED
      BY <2>3, <2>4, <3>1
  <2>6. CASE l - Len(d) \in DOMAIN p /\ (d \o p)[l] = p[l - Len(d)]
    <3>0. l \in Int /\ l > Len(d)
      BY <2>1, <2>2, <2>6
    <3>1. CASE i \in Range(d)
      <4>1. PICK k \in DOMAIN d : d[k] = i
        BY <3>1 DEF Range
      <4>2. k < l
        BY <2>2, <3>0
      <4> QED
        BY <2>4, <4>1, <4>2
    <3>2. CASE i \in Range(p) /\ i \notin Held(g) \cup Range(d)
      <4>1. PICK k \in DOMAIN p : p[k] = i
        BY <3>2 DEF Range
      <4>2. k < l - Len(d)
        BY <2>1, <2>6, <3>2, <4>1
      <4>3. k + Len(d) < l
        BY <2>2, <3>0, <4>2
      <4>4. k + Len(d) \in DOMAIN H[n].holds /\ H[n].holds[k + Len(d)] = i /\ n \in 1..n
        BY <1>1, <1>5, <2>1, <2>2, <4>1
      <4> QED
        BY <4>3, <4>4 DEF PlacedBefore
    <3> QED
      BY <1>3, <2>3, <3>1, <3>2
  <2> QED
    BY <2>2, <2>5, <2>6
<1> QED
  BY <1>1, <1>2, <1>4, <1>5

(* What comes before an input of a history is held before it. *)
LEMMA FrontInOrder ==
    ASSUME NEW h \in Seq(Messages), h # <<>>, NEW E, HoldsInOrder(h, E)
    PROVE  /\ HoldsInOrder(Front(h), E)
           /\ \A j \in Held(Front(h)) \ E, i \in Held(h) \ E :
                inputs[i].sequence < inputs[j].sequence => i \in Held(Front(h))
           /\ \A l \in DOMAIN Last(h).holds, i \in Held(h) \ E :
                Last(h).holds[l] \notin E /\ inputs[i].sequence < inputs[Last(h).holds[l]].sequence =>
                  i \in Held(Front(h)) \/ \E k \in DOMAIN Last(h).holds : k < l /\ Last(h).holds[k] = i
<1> DEFINE f == Front(h)
           N == Len(h)
<1>1. /\ f \in Seq(Messages) /\ N \in Nat \ {0} /\ DOMAIN h = 1..N /\ DOMAIN f = 1..(N - 1)
      /\ \A n \in 1..(N - 1) : f[n] = h[n]
      /\ Last(h) = h[N]
  BY FrontAndLast
<1>2. Held(f) \subseteq Held(h)
  BY HeldFront
<1> HIDE DEF f, N
<1>a. \A x \in DOMAIN f : \A k \in DOMAIN f[x].holds : f[x].holds[k] \in Held(f)
  BY <1>1, HeldAreInputs
<1>3. ASSUME NEW n \in DOMAIN f, NEW l \in DOMAIN f[n].holds, NEW i \in Held(h) \ E,
             f[n].holds[l] \notin E, inputs[i].sequence < inputs[f[n].holds[l]].sequence
      PROVE  PlacedBefore(f, i, n, l) /\ i \in Held(f)
  <2>1. n \in DOMAIN h /\ f[n] = h[n] /\ n \in 1..(N - 1)
    BY <1>1
  <2>2. PlacedBefore(h, i, n, l)
    BY <1>3, <2>1, OrderMeans
  <2>3. PICK m \in 1..n : \E k \in DOMAIN h[m].holds : h[m].holds[k] = i /\ (m < n \/ k < l)
    BY <2>2 DEF PlacedBefore
  <2>4. m \in 1..(N - 1)
    BY <1>1, <2>1
  <2>5. f[m] = h[m] /\ m \in DOMAIN f
    BY <1>1, <2>4
  <2>6. PlacedBefore(f, i, n, l)
    BY <2>3, <2>5 DEF PlacedBefore
  <2>7. i \in Held(f)
    BY <1>a, <2>3, <2>5
  <2> QED
    BY <2>6, <2>7
<1>4. HoldsInOrder(f, E)
  BY <1>2, <1>3, OrderMeans
<1>5. ASSUME NEW j \in Held(f) \ E, NEW i \in Held(h) \ E, inputs[i].sequence < inputs[j].sequence
      PROVE  i \in Held(f)
  <2>1. PICK n \in DOMAIN f : \E l \in DOMAIN f[n].holds : f[n].holds[l] = j
    BY <1>1, HeldAreInputs
  <2> QED
    BY <1>3, <1>5, <2>1
<1>6. ASSUME NEW l \in DOMAIN Last(h).holds, NEW i \in Held(h) \ E,
             Last(h).holds[l] \notin E, inputs[i].sequence < inputs[Last(h).holds[l]].sequence
      PROVE  i \in Held(f) \/ \E k \in DOMAIN Last(h).holds : k < l /\ Last(h).holds[k] = i
  <2>1. N \in DOMAIN h /\ Last(h) = h[N]
    BY <1>1
  <2>2. PlacedBefore(h, i, N, l)
    BY <1>6, <2>1, OrderMeans
  <2>3. PICK m \in 1..N : \E k \in DOMAIN h[m].holds : h[m].holds[k] = i /\ (m < N \/ k < l)
    BY <2>2 DEF PlacedBefore
  <2>4. CASE m = N
    <3>1. ~(m < N)
      BY <1>1, <2>4
    <3> QED
      BY <2>1, <2>3, <2>4, <3>1
  <2>5. CASE m # N
    <3>0. N \in Nat \ {0} /\ m \in 1..N
      BY <1>1
    <3>1. m \in 1..(N - 1)
      BY <2>5, <3>0
    <3>2. f[m] = h[m] /\ m \in DOMAIN f
      BY <1>1, <3>1
    <3> QED
      BY <1>a, <2>3, <3>2
  <2> QED
    BY <2>4, <2>5
<1> QED
  BY <1>4, <1>5, <1>6 DEF f

(* A history that a request of the attempt follows is still one. *)
LEMMA RecordExtends ==
    ASSUME NEW a \in Owners, Store, CellsTyped, Session(a), Lines(a), at[a] = "record",
           NEW g \in Seq(Messages),
           \/ g = written[a]
           \/ resumed[a] /\ g = Front(context[a])
           \/ ~resumed[a] /\ g = context[a]
    PROVE  /\ History(Append(g, Carrying(a))) /\ Append(g, Carrying(a)) \in Seq(Messages)
           /\ Known(Append(g, Carrying(a))) =
                Known(context[a]) \cup Range(draft[a].holds) \cup Range(pending[a])
<1> DEFINE d == draft[a].holds
           p == pending[a]
           c == context[a]
           m == Carrying(a)
           f == Front(c)
           x == Append(f, draft[a])
<1>0. /\ c \in Seq(Messages) /\ d \in Seq(Inputs) /\ p \in Seq(Inputs)
      /\ seen[a] \subseteq Inputs /\ draft[a] \in Messages
  BY DEF CellsTyped, Messages
<1>1. /\ m \in Messages /\ m.holds = d \o p /\ m.type = "request"
      /\ m.ids = IF p = <<>> THEN draft[a].ids ELSE Range(p)
      /\ Range(m.holds) = Range(d) \cup Range(p) /\ Range(m.holds) \subseteq Inputs
  BY CarryingGives
<1>2. /\ History(c) /\ History(written[a]) /\ Known(written[a]) = Known(c)
      /\ \A i \in Range(d) : Present(i)
      /\ ~resumed[a] => draft[a].ids = {} /\ Range(d) \subseteq Brought
      /\ resumed[a] => c # <<>> /\ History(x) /\ Known(x) = Known(c)
  BY DEF Lines, Draft, Fits
<1>3. /\ \A s \in seen[a], i \in Inputs : Below(i, s) => Settled(i) \/ i \in seen[a] \/ i \in Known(c)
      /\ \A i \in Range(p), j \in Held(c) \ Exempt : Below(i, j) => i \in Known(c)
      /\ \A k, l \in DOMAIN p : Below(p[k], p[l]) => k < l \/ p[k] \in Known(c)
  BY DEF Lines, Line, Turning
<1>4. /\ Range(p) \subseteq seen[a] /\ \A i \in seen[a] : Present(i)
      /\ \A i \in seen[a] : i \in Range(p) \/ Settled(i) \/ i \in Represented(c)
      /\ resumed[a] => draft[a].ids = Last(c).ids
  BY DEF Session, Turning
<1>5. resumed[a] => /\ f \in Seq(Messages) /\ Held(f) \subseteq Held(c) /\ Known(c) = Held(f) \cup Range(d) \cup withdrawn
                    /\ Plain(f) /\ Represented(c) = Represented(f) \cup draft[a].ids
                    /\ HoldsInOrder(f, Exempt)
                    /\ \A j \in Held(f) \ Exempt, i \in Known(c) \ Exempt :
                         inputs[i].sequence < inputs[j].sequence => i \in Held(f)
                    /\ \A l \in DOMAIN d, i \in Known(c) \ Exempt :
                         d[l] \notin Exempt /\ inputs[i].sequence < inputs[d[l]].sequence =>
                           i \in Held(f) \/ \E k \in DOMAIN d : k < l /\ d[k] = i
  <2> SUFFICES ASSUME resumed[a]
               PROVE  /\ f \in Seq(Messages) /\ Held(f) \subseteq Held(c) /\ Known(c) = Held(f) \cup Range(d) \cup withdrawn
                      /\ Plain(f) /\ Represented(c) = Represented(f) \cup draft[a].ids
                      /\ HoldsInOrder(f, Exempt)
                      /\ \A j \in Held(f) \ Exempt, i \in Known(c) \ Exempt :
                           inputs[i].sequence < inputs[j].sequence => i \in Held(f)
                      /\ \A l \in DOMAIN d, i \in Known(c) \ Exempt :
                           d[l] \notin Exempt /\ inputs[i].sequence < inputs[d[l]].sequence =>
                             i \in Held(f) \/ \E k \in DOMAIN d : k < l /\ d[k] = i
    OBVIOUS
  <2>1. c # <<>> /\ History(x) /\ Known(x) = Known(c)
    BY <1>2
  <2>2. f \in Seq(Messages) /\ Held(f) \subseteq Held(c) /\ Plain(f) /\ Represented(c) = Represented(f) \cup draft[a].ids
    BY <1>0, <1>2, <1>4, <2>1, FrontAndLast, HeldFront, RepresentedFront DEF History
  <2>3. /\ x \in Seq(Messages) /\ x # <<>> /\ Front(x) = f /\ Last(x) = draft[a]
        /\ Held(x) = Held(f) \cup Range(d)
    BY <1>0, <2>2, FrontOfAppend, HeldAppend
  <2>4. Known(c) = Held(f) \cup Range(d) \cup withdrawn
    BY <2>1, <2>3 DEF Known
  <2> HIDE DEF x, f, d
  <2>5. HoldsInOrder(x, Exempt)
    BY <2>1 DEF History
  <2>6. /\ HoldsInOrder(f, Exempt)
        /\ \A j \in Held(f) \ Exempt, i \in Held(x) \ Exempt :
             inputs[i].sequence < inputs[j].sequence => i \in Held(f)
        /\ \A l \in DOMAIN Last(x).holds, i \in Held(x) \ Exempt :
             Last(x).holds[l] \notin Exempt /\ inputs[i].sequence < inputs[Last(x).holds[l]].sequence =>
               i \in Held(f) \/ \E k \in DOMAIN Last(x).holds : k < l /\ Last(x).holds[k] = i
    BY <2>3, <2>5, FrontInOrder
  <2>7. Last(x).holds = d
    BY <2>3 DEF d
  <2>8. \A i \in Known(c) \ Exempt : i \in Held(x) \ Exempt
    BY <2>3, <2>4 DEF Exempt
  <2>9. \A j \in Held(f) \ Exempt, i \in Known(c) \ Exempt :
          inputs[i].sequence < inputs[j].sequence => i \in Held(f)
    BY <2>6, <2>8
  <2>10. \A l \in DOMAIN d, i \in Known(c) \ Exempt :
           d[l] \notin Exempt /\ inputs[i].sequence < inputs[d[l]].sequence =>
             i \in Held(f) \/ \E k \in DOMAIN d : k < l /\ d[k] = i
    BY <2>6, <2>7, <2>8
  <2> QED
    BY <2>2, <2>4, <2>6, <2>9, <2>10
<1>6. Represented(c) \subseteq Known(c)
  BY <1>2 DEF History
<1>a. \A k \in DOMAIN p : p[k] \in Range(p)
  BY DEF Range
<1>b. \A l \in DOMAIN d : d[l] \in Range(d)
  BY DEF Range
<1>c. \A h : Known(h) = Held(h) \cup withdrawn
  BY DEF Known
<1>d. withdrawn \subseteq Exempt /\ Brought \subseteq Exempt
  BY DEF Exempt
<1> HIDE DEF d, p, c, m, f, x
<1>7. /\ Held(g) \subseteq Known(c) /\ Known(c) \subseteq Held(g) \cup Range(d) \cup withdrawn
      /\ Plain(g) /\ Represented(g) \subseteq Known(c) /\ HoldsInOrder(g, Exempt)
  <2>1. CASE g = written[a] \/ (~resumed[a] /\ g = c)
    BY <1>2, <1>c, <2>1 DEF History
  <2>2. CASE resumed[a] /\ g = f
    BY <1>5, <1>6, <1>c, <2>2
  <2> QED
    BY <2>1, <2>2 DEF c, f
<1>8. \A i \in Range(d) \ Exempt : resumed[a] /\ i \in Known(c)
  BY <1>2, <1>5, <1>d
<1>9. \A i \in Held(c) \cup Range(d) \cup Range(p) : Present(i)
  BY <1>2, <1>4 DEF History
<1>10. Known(g) = Known(c) \/ (resumed[a] /\ g = f)
  BY <1>2 DEF c, f
<1>e. \A i \in Known(c) \ Exempt : i \in Held(c) \ Exempt
  BY <1>c, <1>d
<1>f. Known(g) = Known(c) => \A i \in Known(c) \ Exempt : i \in Held(g)
  BY <1>c, <1>d
<1>11. ASSUME NEW j \in Held(g) \ Exempt, NEW i \in (Range(d) \cup Range(p)) \ Exempt,
              inputs[i].sequence < inputs[j].sequence
       PROVE  i \in Held(g)
  <2>1. j \in Held(c) \ Exempt /\ Below(i, j)
    BY <1>7, <1>9, <1>11, <1>e DEF Below
  <2>2. i \in Known(c) \ Exempt
    BY <1>3, <1>8, <2>1
  <2> QED
    BY <1>5, <1>10, <1>11, <1>f, <2>2
<1>12. ASSUME NEW l \in DOMAIN d, NEW i \in (Held(g) \cup Range(d) \cup Range(p)) \ Exempt,
              d[l] \notin Exempt, inputs[i].sequence < inputs[d[l]].sequence
       PROVE  i \in Held(g) \/ \E k \in DOMAIN d : k < l /\ d[k] = i
  <2>1. resumed[a] /\ d[l] \in Known(c) \ Exempt
    BY <1>8, <1>12, <1>b
  <2>2. Present(i)
    BY <1>7, <1>9, <1>e
  <2>3. Below(i, d[l]) /\ d[l] \in Held(c) \ Exempt
    BY <1>12, <1>e, <2>1, <2>2 DEF Below
  <2>4. i \in Known(c) \ Exempt
    BY <1>3, <1>7, <1>8, <2>3
  <2> QED
    BY <1>5, <1>10, <1>12, <1>f, <2>1, <2>4
<1>13. ASSUME NEW k \in DOMAIN p, NEW l \in DOMAIN p, p[k] \notin Exempt,
              inputs[p[k]].sequence < inputs[p[l]].sequence
       PROVE  k < l \/ p[k] \in Held(g) \cup Range(d)
  <2>1. Below(p[k], p[l])
    BY <1>9, <1>13, <1>a DEF Below
  <2>2. k < l \/ p[k] \in Known(c)
    BY <1>3, <2>1
  <2> QED
    BY <1>7, <1>13, <1>d, <2>2
<1>14. HoldsInOrder(Append(g, m), Exempt)
  <2>1. \A j \in Held(g) \ Exempt, i \in (Range(d) \cup Range(p)) \ Exempt :
          inputs[i].sequence < inputs[j].sequence => i \in Held(g)
    BY <1>11
  <2>2. \A l \in DOMAIN d, i \in (Held(g) \cup Range(d) \cup Range(p)) \ Exempt :
          d[l] \notin Exempt /\ inputs[i].sequence < inputs[d[l]].sequence =>
            i \in Held(g) \/ \E k \in DOMAIN d : k < l /\ d[k] = i
    BY <1>12
  <2>3. \A k, l \in DOMAIN p : p[k] \notin Exempt /\ inputs[p[k]].sequence < inputs[p[l]].sequence =>
          k < l \/ p[k] \in Held(g) \cup Range(d)
    BY <1>13
  <2>4. d \in Seq(Inputs) /\ p \in Seq(Inputs) /\ m \in Messages /\ m.holds = d \o p
    BY <1>0, <1>1
  <2>5. HoldsInOrder(g, Exempt)
    BY <1>7
  <2> QED
    BY <2>1, <2>2, <2>3, <2>4, <2>5, ExtendInOrder
<1>15. Held(Append(g, m)) = Held(g) \cup Range(d) \cup Range(p) /\ Plain(Append(g, m))
  BY <1>1, <1>7, HeldAppend
<1>16. Known(Append(g, m)) = Known(c) \cup Range(d) \cup Range(p)
  <2>1. CASE Known(g) = Known(c)
    BY <1>15, <1>c, <2>1
  <2>2. CASE resumed[a] /\ g = f
    BY <1>5, <1>15, <1>c, <2>2
  <2> QED
    BY <1>10, <2>1, <2>2
<1>17. Represented(Append(g, m)) \subseteq Known(Append(g, m))
  <2>1. m.ids \subseteq Known(c) \cup Range(p)
    BY <1>1, <1>2, <1>5, <1>6
  <2>2. Represented(Append(g, m)) = Represented(g) \cup m.ids
    BY <1>1, RepresentedAppend
  <2> QED
    BY <1>7, <1>16, <2>1, <2>2
<1>18. ASSUME NEW j \in Held(Append(g, m)) \ Exempt, NEW i \in Inputs, Below(i, j)
       PROVE  Settled(i) \/ i \in Known(Append(g, m))
  <2>1. CASE j \in Known(c)
    BY <1>2, <1>16, <1>18, <1>e, <2>1 DEF History
  <2>2. CASE j \in Range(p)
    BY <1>3, <1>4, <1>6, <1>16, <1>18, <2>2
  <2> QED
    BY <1>7, <1>8, <1>15, <1>18, <2>1, <2>2
<1>19. \A i \in Held(Append(g, m)) : Present(i)
  <2>1. \A i \in Held(g) : Present(i)
    BY <1>2, <1>5 DEF History, f, c
  <2> QED
    BY <1>9, <1>15, <2>1
<1>20. History(Append(g, m))
  BY <1>14, <1>15, <1>17, <1>18, <1>19 DEF History
<1>21. Append(g, m) \in Seq(Messages)
  BY <1>1, AppendProperties
<1> QED
  BY <1>16, <1>20, <1>21 DEF m, c, d, p

-----------------------------------------------------------------------------
(* The steps *)

(* What a step has to show, beyond what it keeps of DeliveryInv. *)
Ordered(a) == Lines(a)' /\ History(committed)'

(* What every step of an attempt finds, and what it leaves of the queue. *)
LEMMA StepFinds ==
    ASSUME OrderInv, NEW a \in Owners, Kept(a)
    PROVE  /\ DeliveryInv /\ Store /\ CellsTyped /\ HistoryTyped /\ Session(a) /\ Lines(a)
           /\ History(committed) /\ committed \in Seq(Messages)
           /\ Store' /\ CellsTyped' /\ QueueMoves /\ Exempting
           /\ committed' = committed => History(committed)'
<1>1. /\ DeliveryInv /\ Store /\ CellsTyped /\ HistoryTyped /\ Session(a) /\ Lines(a)
      /\ History(committed) /\ committed \in Seq(Messages)
  BY DeliveryParts DEF OrderInv, HistoryTyped
<1>2. Store' /\ CellsTyped' /\ QueueMoves
  BY DEF Kept, Owed, QueueMoves
<1>3. \A b \in Owners : Brings(b) => Brings(b)' /\ own'[b] = own[b]
  BY DEF Kept, Owed, Apart, Brings
<1>4. Exempting
  BY <1>3 DEF Brought, Exempting, Kept, Owed
<1>5. committed' = committed => History(committed)'
  BY <1>1, <1>2, <1>4, HistoryStands
<1> QED
  BY <1>1, <1>2, <1>4, <1>5

(* The other attempts' lines stand, and so the invariant is kept. *)
LEMMA OrderedKeeps ==
    ASSUME OrderInv, NEW a \in Owners, Kept(a), Ordered(a)
    PROVE  OrderInv'
<1>1. Store /\ CellsTyped /\ QueueMoves /\ Exempting
  BY StepFinds
<1>2. DeliveryInv'
  BY StepKeeps DEF OrderInv, Kept
<1>3. ASSUME NEW b \in Owners, b # a PROVE Lines(b)'
  <2>1. Session(b) /\ Lines(b)
    BY DEF OrderInv, DeliveryInv
  <2>2. /\ at'[b] = at[b] /\ own'[b] = own[b] /\ context'[b] = context[b]
        /\ written'[b] = written[b] /\ draft'[b] = draft[b] /\ resumed'[b] = resumed[b]
        /\ pending'[b] = pending[b] /\ seen'[b] = seen[b]
    BY <1>3 DEF Kept, Apart
  <2>3. at'[b] = "admitprompt" => Present(own[b])'
    <3>1. at[b] = "admitprompt" => Present(own[b]) /\ own[b] \in Inputs
      BY <1>1, <2>1, PromptIsInput DEF Lines, Draft, Session, CellsTyped
    <3> QED
      BY <1>1, <2>2, <3>1 DEF QueueMoves
  <2> QED
    BY <1>1, <2>1, <2>2, <2>3, LinesStand
<1> QED
  BY <1>2, <1>3 DEF Ordered, OrderInv

(* Where the agent starts, its draft is its prompt, the request that ends the  *)
(* history, or nothing.                                                        *)
LEMMA StartedLines ==
    ASSUME Store, CellsTyped, QueueMoves, Exempting, NEW a \in Owners,
           NEW p \in Prompts \cup {NoInput}, NEW c \in Seq(Messages), NEW w \in Seq(Messages),
           StartAgent(a, p, c), context'[a] = c, written'[a] = w,
           pending'[a] = <<>>, seen'[a] = {},
           History(c), History(w), Known(w) = Known(c),
           p # NoInput => Present(p)' /\ p \in Brought'
    PROVE  Lines(a)'
<1>1. /\ at'[a] \in {"claim", "answered", "refused"} /\ draft'[a] \in Messages /\ resumed'[a] \in BOOLEAN
      /\ p # NoInput => draft'[a] = Request(<<p>>, {}) /\ ~resumed'[a]
      /\ p = NoInput /\ ~resumed'[a] => draft'[a] = Empty
      /\ resumed'[a] => c # <<>> /\ draft'[a] = Last(c) /\ Last(c).type = "request"
      /\ at'[a] = "answered" => c # <<>> /\ Last(c).type # "request"
  BY StartAgentGives
<1>a. PICK m \in Messages : m = draft'[a]
  BY <1>1
<1>b. PICK r \in BOOLEAN : r = resumed'[a]
  BY <1>1
<1>2. Fits(c, m, r)'
  <2>1. CASE p # NoInput
    <3>1. <<p>> \in Seq(Inputs) /\ {} \in SUBSET Inputs
      BY <2>1, PromptIsInput
    <3>a. m = Request(<<p>>, {}) /\ ~r
      BY <1>1, <1>a, <1>b, <2>1
    <3>2. m.holds = <<p>> /\ m.ids = {}
      BY <3>1, <3>a, MessageTypes
    <3>3. Range(<<p>>) = {p}
      BY DEF Range
    <3> QED
      BY <2>1, <3>2, <3>3, <3>a DEF Fits
  <2>2. CASE p = NoInput /\ ~r
    <3>1. m.holds = <<>> /\ m.ids = {}
      BY <1>1, <1>a, <1>b, <2>2, MessageTypes
    <3>2. Range(<<>>) = {}
      BY DEF Range
    <3> QED
      BY <2>2, <3>1, <3>2 DEF Fits
  <2>3. CASE r
    <3>1. c # <<>> /\ m = Last(c) /\ m.type = "request"
      BY <1>1, <1>a, <1>b, <2>3
    <3>2. Append(Front(c), m) = c
      BY <3>1, AppendOfFront
    <3>3. History(c)'
      BY HistoryStands
    <3>4. \A i \in Range(m.holds) : i \in Held(c)
      BY <3>1, HeldFront
    <3>5. \A i \in Held(c) : Present(i)'
      BY <3>3 DEF History
    <3> QED
      BY <2>3, <3>1, <3>2, <3>3, <3>4, <3>5 DEF Fits
  <2> QED
    BY <2>1, <2>2, <2>3
<1>3. /\ <<>> \in Seq(Inputs) /\ {} \in SUBSET Inputs /\ DOMAIN <<>> = {} /\ Range(<<>>) = {}
      /\ draft'[a] = m /\ resumed'[a] = r
  BY <1>a, <1>b, EmptySeq DEF Range
<1>4. at'[a] # "admitprompt" /\ (at'[a] = "answered" => Last(c).holds = <<>> /\ Last(c).ids = {})
  BY <1>1, HeldFront DEF History
<1> DEFINE q == <<>>
           S == {}
<1>5. /\ q \in Seq(Inputs) /\ S \in SUBSET Inputs /\ Range(q) \subseteq S /\ pending'[a] = q /\ seen'[a] = S
      /\ \A i \in S : FALSE
      /\ \A i \in Range(q) : FALSE
      /\ \A k \in DOMAIN q : FALSE
  BY <1>3
<1> HIDE DEF q, S
<1> QED
  BY <1>2, <1>3, <1>4, <1>5, LinesAnew

(* A session that has claimed nothing holds nothing. *)
LEMMA StartingIsNew ==
    ASSUME NEW a \in Owners, Session(a), at[a] \in Starting
    PROVE  seen[a] = {} /\ ~resumed[a] /\ pending[a] = <<>>
BY DEF Session, Starting

(* An attempt that begins has read nothing yet. *)
LEMMA BeginOrdered ==
    ASSUME OrderInv, NEW a \in Owners, Begin(a)
    PROVE  Ordered(a)
<1>0. /\ Store /\ CellsTyped /\ Session(a) /\ Lines(a)
      /\ QueueMoves /\ Exempting
      /\ committed' = committed => History(committed)'
  BY BeginKeeps, StepFinds DEF OrderInv
<1>1. /\ at[a] = "new" /\ at' = [at EXCEPT ![a] = "open"]
      /\ UNCHANGED <<written, context, draft, resumed, pending, seen, committed>>
  BY DEF Begin, Goto, turnVars, historyVars
<1>2. at'[a] = "open"
  BY <1>0, <1>1 DEF CellsTyped
<1>3. Lines(a)'
  BY <1>0, <1>1, <1>2, LinesStand DEF Turning
<1> QED
  BY <1>0, <1>1, <1>3 DEF Ordered

(* The branch it reads is in order. *)
LEMMA OpenBranchOrdered ==
    ASSUME OrderInv, NEW a \in Owners, OpenBranch(a)
    PROVE  Ordered(a)
<1>0. /\ Store /\ CellsTyped /\ Session(a) /\ Lines(a)
      /\ History(committed) /\ committed \in Seq(Messages)
      /\ QueueMoves /\ Exempting
      /\ committed' = committed => History(committed)'
  BY OpenBranchKeeps, StepFinds DEF OrderInv
<1>1. /\ at[a] = "open" /\ context' = [context EXCEPT ![a] = committed]
      /\ written' = [written EXCEPT ![a] = committed]
      /\ UNCHANGED <<own, pending, seen, committed>>
  BY DEF OpenBranch
<1>2. seen[a] = {} /\ ~resumed[a] /\ pending[a] = <<>>
  BY <1>0, <1>1, StartingIsNew DEF Starting
<1>3. context'[a] = committed /\ written'[a] = committed /\ seen'[a] = {} /\ pending'[a] = <<>>
  BY <1>0, <1>1, <1>2 DEF CellsTyped
<1>4. CASE own[a] = NoInput
  <2>1. StartAgent(a, NoInput, committed) /\ NoInput \in Prompts \cup {NoInput}
    BY <1>4 DEF OpenBranch
  <2>2. Lines(a)'
    BY <1>0, <1>3, <2>1, StartedLines
  <2> QED
    BY <1>0, <1>1, <2>2 DEF Ordered
<1>5. CASE own[a] # NoInput
  <2>1. at' = [at EXCEPT ![a] = "enqueue"] /\ UNCHANGED <<draft, resumed>>
    BY <1>5 DEF OpenBranch, Goto
  <2>2. /\ at'[a] = "enqueue" /\ draft'[a] = draft[a] /\ draft[a] \in Messages
        /\ resumed'[a] = FALSE /\ resumed[a] = FALSE /\ FALSE \in BOOLEAN
    BY <1>0, <1>2, <2>1 DEF CellsTyped
  <2>a. PICK c \in Seq(Messages) : c = committed
    BY <1>0
  <2>b. PICK m \in Messages : m = draft[a]
    BY <2>2
  <2>3. Fits(c, m, FALSE)'
    <3>1. Fits(context[a], m, FALSE)
      BY <1>0, <2>2, <2>b DEF Lines, Draft
    <3>2. Fits(c, m, FALSE)
      BY <3>1 DEF Fits
    <3> QED
      BY <1>0, <2>2, <3>2, FitsStill
  <2>4. <<>> \in Seq(Inputs) /\ {} \in SUBSET Inputs /\ DOMAIN <<>> = {} /\ Range(<<>>) = {}
    BY EmptySeq DEF Range
  <2>5. Lines(a)'
    BY <1>0, <1>3, <2>2, <2>3, <2>4, <2>a, <2>b, LinesAnew
  <2> QED
    BY <1>0, <1>1, <2>5 DEF Ordered
<1> QED
  BY <1>4, <1>5

(* Its prompt is queued, or dropped for the history as it stands. *)
LEMMA EnqueuePromptOrdered ==
    ASSUME OrderInv, NEW a \in Owners, EnqueuePrompt(a)
    PROVE  Ordered(a)
<1>0. /\ Store /\ CellsTyped /\ Session(a) /\ Lines(a)
      /\ QueueMoves /\ Exempting
      /\ committed' = committed => History(committed)'
  BY EnqueuePromptKeeps, StepFinds DEF OrderInv
<1>1. at[a] = "enqueue" /\ UNCHANGED <<context, written, pending, seen, committed>>
  BY DEF EnqueuePrompt, historyVars
<1>2. seen[a] = {} /\ ~resumed[a] /\ pending[a] = <<>>
  BY <1>0, <1>1, StartingIsNew DEF Starting
<1>3. own[a] \in Inputs
  BY <1>0, <1>1, PromptIsInput DEF Session, CellsTyped
<1>4. CASE /\ EnqueueInput(own[a]) /\ Goto(a, "admitprompt") /\ UNCHANGED <<own, draft, resumed>>
  <2>1. Present(own[a])'
    BY <1>0, <1>3, <1>4, EnqueueMoves
  <2>2. at'[a] = "admitprompt"
    BY <1>0, <1>4 DEF CellsTyped, Goto
  <2>3. Lines(a)'
    BY <1>0, <1>1, <1>2, <1>4, <2>1, <2>2, LinesStand DEF Turning
  <2> QED
    BY <1>0, <1>1, <2>3 DEF Ordered
<1>5. CASE StartAgent(a, NoInput, context[a])
  <2>1. /\ context[a] \in Seq(Messages) /\ written[a] \in Seq(Messages) /\ NoInput \in Prompts \cup {NoInput}
        /\ History(context[a]) /\ History(written[a]) /\ Known(written[a]) = Known(context[a])
    BY <1>0 DEF CellsTyped, Lines
  <2>2. context'[a] = context[a] /\ written'[a] = written[a] /\ pending'[a] = <<>> /\ seen'[a] = {}
    BY <1>1, <1>2
  <2>3. Lines(a)'
    BY <1>0, <1>5, <2>1, <2>2, StartedLines
  <2> QED
    BY <1>0, <1>1, <2>3 DEF Ordered
<1> QED
  BY <1>4, <1>5 DEF EnqueuePrompt

(* The prompt it admits is one it has brought. *)
LEMMA AdmitPromptOrdered ==
    ASSUME OrderInv, NEW a \in Owners, AdmitPrompt(a)
    PROVE  Ordered(a)
<1>0. /\ Store /\ CellsTyped /\ Session(a) /\ Lines(a) /\ CellsTyped'
      /\ QueueMoves /\ Exempting
      /\ committed' = committed => History(committed)'
  BY AdmitPromptKeeps, StepFinds DEF OrderInv
<1>1. /\ at[a] = "admitprompt" /\ StartAgent(a, own[a], context[a])
      /\ UNCHANGED <<own, context, written, pending, seen, committed>>
  BY DEF AdmitPrompt, historyVars
<1>2. seen[a] = {} /\ ~resumed[a] /\ pending[a] = <<>>
  BY <1>0, <1>1, StartingIsNew DEF Starting
<1>3. /\ context[a] \in Seq(Messages) /\ written[a] \in Seq(Messages) /\ own[a] \in Prompts \cup {NoInput}
      /\ History(context[a]) /\ History(written[a]) /\ Known(written[a]) = Known(context[a])
  BY <1>0 DEF CellsTyped, Lines
<1>6. own[a] # NoInput => Present(own[a])'
  <2>1. Present(own[a]) /\ (own[a] # NoInput => own[a] \in Inputs)
    BY <1>0, <1>1, <1>3, PromptIsInput DEF Lines, Draft
  <2> QED
    BY <1>0, <1>1, <2>1 DEF QueueMoves
<1>4. context'[a] = context[a] /\ written'[a] = written[a] /\ pending'[a] = <<>> /\ seen'[a] = {}
  BY <1>1, <1>2
<1>5. own[a] \in Brought'
  <2>1. own[a] \in Brought
    BY <1>1 DEF Brought, Brings
  <2> QED
    BY <1>0, <2>1 DEF Exempting
<1>7. Lines(a)'
  BY <1>0, <1>1, <1>3, <1>4, <1>5, <1>6, StartedLines
<1> QED
  BY <1>0, <1>1, <1>7 DEF Ordered

(* What is claimed completes the queue's part of the order: it is all that is  *)
(* left before anything claimed, and comes after what was pending.             *)
LEMMA ClaimedLines ==
    ASSUME Store, CellsTyped, QueueMoves, Exempting, NEW a \in Owners,
           Session(a), Lines(a), ClaimAll(a), at[a] \in Turning,
           pending'[a] = pending[a] \o InOrder(Claimable(a)), seen'[a] = seen[a] \cup Claimable(a),
           context'[a] = context[a], written'[a] = written[a],
           draft'[a] = draft[a], resumed'[a] = resumed[a],
           at'[a] # "admitprompt", at'[a] # "answered"
    PROVE  Lines(a)'
<1> DEFINE d == pending[a]
           e == InOrder(Claimable(a))
           C == Claimable(a)
           S == seen[a] \cup Claimable(a)
<1>0. context[a] \in Seq(Messages)
  BY DEF CellsTyped
<1>a. PICK c \in Seq(Messages) : c = context[a]
  BY <1>0
<1>1. /\ C \in SUBSET Inputs /\ \A i \in C : Present(i) /\ ~Settled(i)
      /\ \A i \in C : i \notin seen[a]
      /\ \A i \in Inputs : Present(i) => Settled(i) \/ i \in Represented(c) \/ i \in seen[a] \/ i \in C
  <2>1. inputs \in [Inputs -> InputRecords]
    BY DEF Store, LedgerTypeOK
  <2>2. C \in SUBSET Inputs /\ \A i \in C : Present(i) /\ ~Settled(i)
    BY ClaimMoves
  <2>3. \A i \in C : i \notin seen[a]
    BY DEF Claimable
  <2>4. \A i \in Inputs : Present(i) => Settled(i) \/ i \in Represented(c) \/ i \in seen[a] \/ i \in C
    BY <1>a, <2>1 DEF Claimable, Present, Settled, InputRecords
  <2> QED
    BY <2>2, <2>3, <2>4
<1>2. /\ e \in Seq(Inputs) /\ Range(e) = C
      /\ \A k, l \in DOMAIN e : k < l <=> inputs[e[k]].sequence < inputs[e[l]].sequence
  BY <1>1, InOrderLists DEF Store
<1>3. /\ written[a] \in Seq(Messages) /\ draft[a] \in Messages
      /\ d \in Seq(Inputs) /\ seen[a] \subseteq Inputs /\ resumed[a] \in BOOLEAN
  BY DEF CellsTyped
<1>4. /\ Range(d) \subseteq seen[a] /\ \A i \in seen[a] : Present(i)
  BY DEF Session
<1>5. /\ History(c) /\ History(written[a]) /\ Known(written[a]) = Known(c)
      /\ Fits(c, draft[a], resumed[a])
  BY <1>a DEF Lines, Draft
<1>6. /\ \A s \in seen[a], i \in Inputs : Below(i, s) => Settled(i) \/ i \in seen[a] \/ i \in Known(c)
      /\ \A i \in Range(d), j \in Held(c) \ Exempt : Below(i, j) => i \in Known(c)
      /\ \A k, l \in DOMAIN d : Below(d[k], d[l]) => k < l \/ d[k] \in Known(c)
  BY <1>a DEF Lines, Line
<1>7. Represented(c) \subseteq Known(c)
  BY <1>5 DEF History
<1>8. d \o e \in Seq(Inputs) /\ Range(d \o e) = Range(d) \cup C
  BY <1>2, <1>3, RangeOfBoth
<1>9. /\ S \in SUBSET Inputs /\ \A i \in S : Present(i)
      /\ S = seen[a] \cup C
  BY <1>1, <1>3, <1>4
<1>10. pending'[a] = d \o e /\ seen'[a] = S /\ context'[a] = c
  BY <1>a
<1>11. \A k \in DOMAIN e : e[k] \in C
  BY <1>2 DEF Range
<1>12. \A k \in DOMAIN d : d[k] \in seen[a]
  BY <1>4 DEF Range
<1> HIDE DEF C, d, e, S
<1>13. \A s \in S, i \in Inputs : Below(i, s) => Settled(i)' \/ i \in S \/ i \in Known(c)
  <2> SUFFICES ASSUME NEW i \in Inputs, Present(i) PROVE Settled(i)' \/ i \in S \/ i \in Known(c)
    BY DEF Below
  <2>1. Settled(i) \/ i \in Represented(c) \/ i \in seen[a] \/ i \in C
    BY <1>1
  <2> QED
    BY <1>7, <1>9, <2>1 DEF QueueMoves
<1>14. \A i \in Range(d \o e), j \in Held(c) \ Exempt : Below(i, j) => i \in Known(c)
  <2> SUFFICES ASSUME NEW i \in C, NEW j \in Held(c) \ Exempt, Below(i, j) PROVE i \in Known(c)
    BY <1>6, <1>8
  <2>1. Settled(i) \/ i \in Known(c)
    BY <1>1, <1>5 DEF History
  <2> QED
    BY <1>1, <2>1
<1>15. ASSUME NEW k \in DOMAIN (d \o e), NEW l \in DOMAIN (d \o e), Below((d \o e)[k], (d \o e)[l])
       PROVE  k < l \/ (d \o e)[k] \in Known(c)
  <2>1. /\ Len(d) \in Nat /\ Len(e) \in Nat /\ DOMAIN d = 1..Len(d) /\ DOMAIN e = 1..Len(e)
        /\ \/ k \in DOMAIN d /\ (d \o e)[k] = d[k]
           \/ k - Len(d) \in DOMAIN e /\ (d \o e)[k] = e[k - Len(d)]
        /\ \/ l \in DOMAIN d /\ (d \o e)[l] = d[l]
           \/ l - Len(d) \in DOMAIN e /\ (d \o e)[l] = e[l - Len(d)]
        /\ DOMAIN (d \o e) = 1..(Len(d) + Len(e))
    BY <1>2, <1>3, PlacesOfBoth
  <2>2. k \in Int /\ l \in Int
    BY <2>1
  <2>3. CASE k \in DOMAIN d /\ (d \o e)[k] = d[k] /\ l \in DOMAIN d /\ (d \o e)[l] = d[l]
    BY <1>6, <1>15, <2>3
  <2>4. CASE k \in DOMAIN d /\ l - Len(d) \in DOMAIN e
    <3>1. k \in 1..Len(d) /\ l - Len(d) \in 1..Len(e)
      BY <2>1, <2>4
    <3> QED
      BY <2>1, <2>2, <3>1
  <2>5. CASE /\ k - Len(d) \in DOMAIN e /\ (d \o e)[k] = e[k - Len(d)]
             /\ l - Len(d) \in DOMAIN e /\ (d \o e)[l] = e[l - Len(d)]
    <3>1. inputs[e[k - Len(d)]].sequence < inputs[e[l - Len(d)]].sequence
      BY <1>15, <2>5 DEF Below
    <3>2. k - Len(d) < l - Len(d)
      BY <1>2, <2>5, <3>1
    <3> QED
      BY <2>1, <2>2, <3>2
  <2>6. CASE /\ k - Len(d) \in DOMAIN e /\ (d \o e)[k] = e[k - Len(d)]
             /\ l \in DOMAIN d /\ (d \o e)[l] = d[l]
    <3>1. e[k - Len(d)] \in C /\ d[l] \in seen[a] /\ Below(e[k - Len(d)], d[l])
      BY <1>11, <1>12, <1>15, <2>6
    <3>2. e[k - Len(d)] \in Inputs
      BY <1>1, <3>1
    <3>3. e[k - Len(d)] \in Known(c)
      BY <1>1, <1>6, <3>1, <3>2
    <3> QED
      BY <2>6, <3>3
  <2> QED
    BY <2>1, <2>3, <2>4, <2>5, <2>6
<1>16. /\ Range(d \o e) \subseteq S
       /\ \A k, l \in DOMAIN (d \o e) : Below((d \o e)[k], (d \o e)[l]) => k < l \/ (d \o e)[k] \in Known(c)
  BY <1>4, <1>8, <1>9, <1>15
<1>b. PICK m \in Messages : m = draft[a]
  BY <1>3
<1>c. PICK r \in BOOLEAN : r = resumed[a]
  BY <1>3
<1>17. Fits(c, m, r)'
  BY <1>5, <1>b, <1>c, FitsStill
<1> DEFINE q == d \o e
<1>18. /\ q \in Seq(Inputs) /\ pending'[a] = q /\ Range(q) \subseteq S
       /\ \A i \in Range(q), j \in Held(c) \ Exempt : Below(i, j) => i \in Known(c)
       /\ \A k, l \in DOMAIN q : Below(q[k], q[l]) => k < l \/ q[k] \in Known(c)
  BY <1>8, <1>10, <1>14, <1>16
<1> HIDE DEF q
<1> DEFINE w == written[a]
<1>19. /\ w \in Seq(Messages) /\ q \in Seq(Inputs) /\ S \in SUBSET Inputs
       /\ context'[a] = c /\ written'[a] = w /\ draft'[a] = m /\ resumed'[a] = r /\ pending'[a] = q /\ seen'[a] = S
       /\ History(c) /\ History(w) /\ Known(w) = Known(c)
  BY <1>3, <1>5, <1>9, <1>10, <1>18, <1>b, <1>c
<1>20. /\ Fits(c, m, r)'
       /\ Range(q) \subseteq S /\ \A i \in S : Present(i)
       /\ at'[a] # "admitprompt" /\ at'[a] # "answered"
  BY <1>5, <1>9, <1>17, <1>18
<1>21. Store /\ QueueMoves /\ Exempting /\ a \in Owners
  OBVIOUS
<1>22. c \in Seq(Messages) /\ m \in Messages /\ r \in BOOLEAN
  OBVIOUS
<1> HIDE DEF w
<1> QED
  BY ONLY <1>13, <1>18, <1>19, <1>20, <1>21, <1>22, LinesAnew

(* Claiming keeps the order. *)
LEMMA ClaimOrdered ==
    ASSUME OrderInv, NEW a \in Owners, Claim(a)
    PROVE  Ordered(a)
<1>0. /\ Store /\ CellsTyped /\ Session(a) /\ Lines(a)
      /\ QueueMoves /\ Exempting
      /\ committed' = committed => History(committed)'
  BY ClaimKeeps, StepFinds DEF OrderInv
<1>1. /\ at[a] = "claim" /\ ClaimAll(a) /\ at' = [at EXCEPT ![a] = "screen"]
      /\ pending' = [pending EXCEPT ![a] = pending[a] \o InOrder(Claimable(a))]
      /\ seen' = [seen EXCEPT ![a] = seen[a] \cup Claimable(a)]
      /\ UNCHANGED <<context, written, draft, resumed, committed>>
  BY DEF Claim, ClaimAll, Goto, historyVars
<1> HIDE DEF Claimable, InOrder
<1>2. /\ at'[a] = "screen" /\ seen'[a] = seen[a] \cup Claimable(a)
      /\ pending'[a] = pending[a] \o InOrder(Claimable(a))
  BY <1>0, <1>1 DEF CellsTyped
<1>3. at[a] \in Turning
  BY <1>1 DEF Turning
<1>4. Lines(a)'
  BY <1>0, <1>1, <1>2, <1>3, ClaimedLines
<1> QED
  BY <1>0, <1>1, <1>4 DEF Ordered

(* So does the last look at the queue, which finds nothing pending. *)
LEMMA DecideFinishOrdered ==
    ASSUME OrderInv, NEW a \in Owners, DecideFinish(a)
    PROVE  Ordered(a)
<1>0. /\ Store /\ CellsTyped /\ Session(a) /\ Lines(a)
      /\ QueueMoves /\ Exempting
      /\ committed' = committed => History(committed)'
  BY DecideFinishKeeps, StepFinds DEF OrderInv
<1>1. /\ at[a] = "finish" /\ ClaimAll(a)
      /\ pending' = [pending EXCEPT ![a] = InOrder(Claimable(a))]
      /\ seen' = [seen EXCEPT ![a] = seen[a] \cup Claimable(a)]
      /\ UNCHANGED <<context, written, draft, resumed, committed>>
  BY DEF DecideFinish, ClaimAll, historyVars
<1>2. PICK p \in {"claim", "finished"} : at' = [at EXCEPT ![a] = p]
  BY DEF DecideFinish, Goto
<1>3. InOrder(Claimable(a)) \in Seq(Inputs)
  BY <1>0, <1>1, ClaimedInOrder
<1> HIDE DEF Claimable, InOrder
<1>4. /\ at'[a] = p /\ seen'[a] = seen[a] \cup Claimable(a)
      /\ pending'[a] = InOrder(Claimable(a)) /\ pending[a] = <<>>
  BY <1>0, <1>1, <1>2 DEF CellsTyped, Session
<1>5. pending'[a] = pending[a] \o InOrder(Claimable(a))
  <2>1. <<>> \o InOrder(Claimable(a)) = InOrder(Claimable(a))
    BY <1>3, ConcatEmptySeq
  <2> QED
    BY <1>4, <2>1
<1>6. at[a] \in Turning
  BY <1>1 DEF Turning
<1>7. Lines(a)'
  BY <1>0, <1>1, <1>4, <1>5, <1>6, ClaimedLines
<1> QED
  BY <1>0, <1>1, <1>7 DEF Ordered

(* Nothing more is pending than was, in the order it was, and the draft fits.  *)
LEMMA LessPending ==
    ASSUME Store, CellsTyped, QueueMoves, Exempting, NEW a \in Owners,
           Session(a), Lines(a), NEW c \in Seq(Messages), context[a] = c, NEW q \in Seq(Inputs), Range(q) \subseteq Range(pending[a]),
           \A k, l \in DOMAIN q : Below(q[k], q[l]) => k < l \/ q[k] \in Known(c),
           pending'[a] = q, seen'[a] = seen[a], context'[a] = c, written'[a] = written[a],
           NEW m \in Messages, NEW r \in BOOLEAN, draft'[a] = m, resumed'[a] = r, Fits(c, m, r)',
           at'[a] \in Turning => at[a] \in Turning,
           at'[a] # "admitprompt", at'[a] # "answered"
    PROVE  Lines(a)'
<1> DEFINE w == written[a]
           S == seen[a]
<1>1. w \in Seq(Messages) /\ S \in SUBSET Inputs
  BY DEF CellsTyped
<1>2. Range(q) \subseteq S /\ \A i \in S : Present(i)
  BY DEF Session
<1>3. /\ History(c) /\ History(w) /\ Known(w) = Known(c)
      /\ \A i \in Range(q), j \in Held(c) \ Exempt : Below(i, j) => i \in Known(c)
  BY DEF Lines, Line
<1>4. at'[a] \in Turning => \A s \in S, i \in Inputs :
        Below(i, s) => Settled(i)' \/ i \in S \/ i \in Known(c)
  BY DEF Lines, Line, QueueMoves
<1>5. /\ Fits(c, m, r)' /\ context'[a] = c /\ written'[a] = w /\ seen'[a] = S
      /\ \A k, l \in DOMAIN q : Below(q[k], q[l]) => k < l \/ q[k] \in Known(c)
  OBVIOUS
<1> HIDE DEF w, S
<1> QED
  BY <1>1, <1>2, <1>3, <1>4, <1>5, LinesAnew

(* The empty list holds nothing. *)
LEMMA NothingPending ==
    /\ <<>> \in Seq(Inputs) /\ Range(<<>>) = {} /\ DOMAIN <<>> = {}
BY EmptySeq DEF Range

(* A turn that halts leaves the history as it was. *)
LEMMA HaltLines ==
    ASSUME Store, CellsTyped, QueueMoves, Exempting, NEW a \in Owners,
           Session(a), Lines(a), Halt(a), UNCHANGED <<context, written, seen>>
    PROVE  Lines(a)'
<1>1. /\ at' = [at EXCEPT ![a] = "halted"] /\ pending' = [pending EXCEPT ![a] = <<>>]
      /\ draft' = [draft EXCEPT ![a] = Empty] /\ resumed' = [resumed EXCEPT ![a] = FALSE]
  BY DEF Halt, Goto
<1>2. at'[a] = "halted" /\ pending'[a] = <<>> /\ draft'[a] = Empty /\ resumed'[a] = FALSE
  BY <1>1 DEF CellsTyped
<1>3. at'[a] \notin Turning /\ at'[a] # "admitprompt" /\ at'[a] # "answered"
  BY <1>2 DEF Turning
<1>a. context[a] \in Seq(Messages)
  BY DEF CellsTyped
<1>b. PICK c \in Seq(Messages) : c = context[a]
  BY <1>a
<1>4. FALSE \in BOOLEAN /\ Fits(c, Empty, FALSE)' /\ Empty \in Messages
  BY EmptyFits, FitsStill
<1> HIDE DEF Empty
<1> QED
  BY <1>2, <1>3, <1>4, <1>b, NothingPending, LessPending

(* What screens leave of a resumed request keeps the order, once what they     *)
(* took out is exempt.                                                         *)
LEMMA ScreenedInOrder ==
    ASSUME NEW f \in Seq(Messages), NEW m \in Messages, NEW n \in Messages, NEW E, NEW gone,
           HoldsInOrder(Append(f, m), E), n.holds = Without(m.holds, gone),
           \A k \in DOMAIN m.holds : k \in gone => m.holds[k] \in E
    PROVE  HoldsInOrder(Append(f, n), E)
<1> DEFINE x == Append(f, m)
           d == m.holds
           e == n.holds
<1>1. x \in Seq(Messages) /\ x # <<>> /\ Front(x) = f /\ Last(x) = m /\ Held(x) = Held(f) \cup Range(d)
  BY FrontOfAppend, HeldAppend
<1>2. d \in Seq(Inputs) /\ e \in Seq(Inputs) /\ e = Without(d, gone) /\ n.holds = e
  BY DEF Messages
<1>a. Len(d) \in Nat /\ DOMAIN d = 1..Len(d) /\ Len(e) \in Nat /\ DOMAIN e = 1..Len(e)
  BY <1>2, LenProperties
<1>3. \A k \in DOMAIN d : k \in gone => d[k] \in E
  OBVIOUS
<1>4. HoldsInOrder(x, E)
  OBVIOUS
<1> HIDE DEF x, d, e
<1>5. PICK places \in [DOMAIN e -> DOMAIN d] :
        /\ Increasing(places)
        /\ \A l \in DOMAIN e : e[l] = d[places[l]]
        /\ \A k \in DOMAIN d : k \in gone \/ \E l \in DOMAIN e : places[l] = k
  <2>1. d \in Seq(Inputs) /\ e = Without(d, gone)
    BY <1>2
  <2>2. \E places \in [DOMAIN Without(d, gone) -> DOMAIN d] :
          /\ Increasing(places)
          /\ \A l \in DOMAIN Without(d, gone) : Without(d, gone)[l] = d[places[l]]
          /\ \A k \in DOMAIN d : k \in gone \/ \E l \in DOMAIN Without(d, gone) : places[l] = k
    BY <2>1, WithoutKeeps
  <2> QED
    BY ONLY <2>1, <2>2
<1>6. Range(e) \subseteq Range(d)
  BY <1>2, WithoutKeeps
<1>7. /\ HoldsInOrder(f, E)
      /\ \A j \in Held(f) \ E, i \in Held(x) \ E :
           inputs[i].sequence < inputs[j].sequence => i \in Held(f)
      /\ \A l \in DOMAIN Last(x).holds, i \in Held(x) \ E :
           Last(x).holds[l] \notin E /\ inputs[i].sequence < inputs[Last(x).holds[l]].sequence =>
             i \in Held(f) \/ \E k \in DOMAIN Last(x).holds : k < l /\ Last(x).holds[k] = i
  BY <1>1, <1>4, FrontInOrder
<1>8. ASSUME NEW j \in Held(f) \ E, NEW i \in Range(e) \ E, inputs[i].sequence < inputs[j].sequence
      PROVE  i \in Held(f)
  BY <1>1, <1>6, <1>7, <1>8
<1>9. ASSUME NEW l \in DOMAIN e, NEW i \in (Held(f) \cup Range(e)) \ E,
             e[l] \notin E, inputs[i].sequence < inputs[e[l]].sequence
      PROVE  i \in Held(f) \/ \E k \in DOMAIN e : k < l /\ e[k] = i
  <2>1. places[l] \in DOMAIN d /\ e[l] = d[places[l]] /\ i \in Held(x) \ E /\ Last(x).holds = d
    BY <1>1, <1>5, <1>6 DEF d
  <2>2. i \in Held(f) \/ \E k \in DOMAIN d : k < places[l] /\ d[k] = i
    BY <1>7, <1>9, <2>1
  <2>3. ASSUME NEW k \in DOMAIN d, k < places[l], d[k] = i
        PROVE  \E o \in DOMAIN e : o < l /\ e[o] = i
    <3>1. k \notin gone
      BY <1>3, <2>3
    <3>2. PICK o \in DOMAIN e : places[o] = k
      BY <1>5, <3>1
    <3>3. o \in Nat /\ l \in Nat /\ places[o] \in Nat /\ places[l] \in Nat /\ DOMAIN places = DOMAIN e
      BY <1>5, <1>a, <2>1, <3>2
    <3>4. l < o => places[l] < places[o]
      BY <1>5, <3>3 DEF Increasing
    <3>5. o < l
      BY <2>3, <3>2, <3>3, <3>4
    <3> QED
      BY <1>5, <2>3, <3>2, <3>5
  <2> QED
    BY <2>2, <2>3
<1>10. HoldsInOrder(Append(f, n), E)
  <2>1. <<>> \in Seq(Inputs) /\ Range(<<>>) = {} /\ DOMAIN <<>> = {}
    BY NothingPending
  <2>2. n.holds = e \o <<>>
    BY <1>2, ConcatEmptySeq
  <2>3. \A j \in Held(f) \ E, i \in (Range(e) \cup Range(<<>>)) \ E :
          inputs[i].sequence < inputs[j].sequence => i \in Held(f)
    BY <1>8, <2>1
  <2>4. \A l \in DOMAIN e, i \in (Held(f) \cup Range(e) \cup Range(<<>>)) \ E :
          e[l] \notin E /\ inputs[i].sequence < inputs[e[l]].sequence =>
            i \in Held(f) \/ \E k \in DOMAIN e : k < l /\ e[k] = i
    BY <1>9, <2>1
  <2>5. HoldsInOrder(f, E)
    BY <1>7
  <2> QED
    BY <1>2, <2>1, <2>2, <2>3, <2>4, <2>5, ExtendInOrder
<1> QED
  BY <1>10

(* What screens leave of a request fits where it did. *)
LEMMA ScreenedFits ==
    ASSUME Store, QueueMoves, Exempting, NEW c \in Seq(Messages), NEW m \in Messages, NEW n \in Messages,
           NEW r \in BOOLEAN, NEW gone, Fits(c, m, r),
           n.holds = Without(m.holds, gone), n.ids = m.ids, n.type = m.type,
           r => withdrawn' = withdrawn \cup {m.holds[k] : k \in gone}
    PROVE  Fits(c, n, r)'
<1>0. m.holds \in Seq(Inputs) /\ n.holds \in Seq(Inputs)
  BY DEF Messages
<1>1. Range(n.holds) \subseteq Range(m.holds)
  BY <1>0, WithoutKeeps
<1>2. Fits(c, m, r)'
  BY FitsStill
<1>3. \A i \in Range(n.holds) : Present(i)'
  BY <1>1, <1>2 DEF Fits
<1>4. ~r => n.ids = {} /\ Range(n.holds) \subseteq Brought'
  BY <1>1, <1>2 DEF Fits
<1>5. ASSUME r
      PROVE  /\ c # <<>> /\ n.type = "request"
             /\ History(Append(Front(c), n))' /\ Known(Append(Front(c), n))' = Known(c)'
  <2> DEFINE f == Front(c)
             x == Append(f, m)
             y == Append(f, n)
  <2>1. c # <<>> /\ m.type = "request" /\ History(x) /\ History(x)' /\ Known(x)' = Known(c)'
    BY <1>2, <1>5 DEF Fits
  <2>2. f \in Seq(Messages)
    BY <2>1, FrontAndLast
  <2>3. /\ x \in Seq(Messages) /\ y \in Seq(Messages)
        /\ Held(x) = Held(f) \cup Range(m.holds) /\ Held(y) = Held(f) \cup Range(n.holds)
        /\ Represented(x) = Represented(f) \cup m.ids /\ Represented(y) = Represented(f) \cup n.ids
    BY <2>2, FrontOfAppend, HeldAppend, RepresentedAppend
  <2>4. Plain(y)
    <3>1. x # <<>> /\ Front(x) = f /\ Plain(x)
      BY <2>1, <2>2, FrontOfAppend DEF History
    <3>2. Plain(f)
      BY <2>3, <3>1, HeldFront
    <3> QED
      BY <2>1, <2>2, <3>2, HeldAppend
  <2> HIDE DEF x, y, f
  <2>5. \A i \in Range(m.holds) : i \in Range(n.holds) \/ i \in withdrawn'
    <3> DEFINE d == m.holds
               e == n.holds
    <3>a. d \in Seq(Inputs) /\ e = Without(d, gone)
      BY <1>0
    <3> HIDE DEF d, e
    <3>b. PICK places \in [DOMAIN e -> DOMAIN d] :
            /\ \A l \in DOMAIN e : e[l] = d[places[l]]
            /\ \A k \in DOMAIN d : k \in gone \/ \E l \in DOMAIN e : places[l] = k
      BY <3>a, WithoutKeeps
    <3>1. /\ \A l \in DOMAIN n.holds : n.holds[l] = m.holds[places[l]]
          /\ \A k \in DOMAIN m.holds : k \in gone \/ \E l \in DOMAIN n.holds : places[l] = k
      BY <3>b DEF d, e
    <3>2. ASSUME NEW k \in DOMAIN m.holds
          PROVE  m.holds[k] \in Range(n.holds) \/ m.holds[k] \in withdrawn'
      BY <1>5, <3>1 DEF Range
    <3> QED
      BY <3>2 DEF Range
  <2>6. Known(y)' = Known(x)'
    BY <1>1, <2>3, <2>5 DEF Known
  <2>7. HoldsInOrder(x, Exempt')
    <3>1. HoldsInOrder(x, Exempt) /\ Exempt \subseteq Exempt'
      BY <2>1, KnownStands DEF History
    <3> QED
      BY <3>1, MoreExempt
  <2>8. HoldsInOrder(y, Exempt')
    <3>1. \A k \in DOMAIN m.holds : k \in gone => m.holds[k] \in Exempt'
      BY <1>5 DEF Exempt
    <3>2. HoldsInOrder(Append(f, m), Exempt')
      BY <2>7 DEF x
    <3> QED
      BY <2>2, <3>1, <3>2, ScreenedInOrder DEF y
  <2>9. \A i \in Held(x) : Present(i) /\ Present(i)'
    BY <2>1 DEF History
  <2>10. \A i \in Held(y) : i \in Held(x) /\ Present(i)
    BY <1>1, <2>3, <2>9
  <2>11. HoldsInOrder(y, Exempt)'
    BY <2>3, <2>8, <2>10, OrderStands
  <2>12. \A j \in Held(y) \ Exempt', i \in Inputs : Below(i, j)' => Settled(i)' \/ i \in Known(y)'
    BY <2>1, <2>6, <2>10 DEF History
  <2>13. (Represented(y) \subseteq Known(y))'
    BY <2>1, <2>3, <2>6 DEF History
  <2>14. History(y)'
    BY <2>4, <2>9, <2>10, <2>11, <2>12, <2>13 DEF History
  <2> QED
    BY <2>1, <2>6, <2>14 DEF y, f
<1> QED
  BY <1>3, <1>4, <1>5 DEF Fits

(* What screens leave keeps its order. *)
LEMMA ScreenOrdered ==
    ASSUME OrderInv, NEW a \in Owners, Screen(a)
    PROVE  Ordered(a)
<1>0. /\ Store /\ CellsTyped /\ Session(a) /\ Lines(a) /\ CellsTyped'
      /\ QueueMoves /\ Exempting
      /\ committed' = committed => History(committed)'
  BY ScreenKeeps, StepFinds DEF OrderInv
<1>1. at[a] = "screen" /\ UNCHANGED <<context, written, seen, committed>>
  BY DEF Screen
<1>2. CASE Goto(a, "record") /\ UNCHANGED <<draft, resumed, pending>>
  <2>1. at'[a] = "record"
    BY <1>0, <1>2 DEF CellsTyped, Goto
  <2>2. at[a] \in Turning
    BY <1>1 DEF Turning
  <2>3. Lines(a)'
    BY <1>0, <1>1, <1>2, <2>1, <2>2, LinesStand
  <2> QED
    BY <1>0, <1>1, <2>3 DEF Ordered
<1>3. CASE Halt(a)
  BY <1>0, <1>1, <1>3, HaltLines DEF Ordered
<1>4. ASSUME NEW screens,
             draft' = [draft EXCEPT ![a].holds = Ingress(screens, draft[a].holds, pending[a]).parts],
             pending' = [pending EXCEPT ![a] = Ingress(screens, draft[a].holds, pending[a]).queued],
             withdrawn' = IF resumed[a]
                            THEN withdrawn \cup {draft[a].holds[n] : n \in PartsRemoved(screens)}
                            ELSE withdrawn,
             Goto(a, "record"), UNCHANGED resumed
      PROVE  Ordered(a)
  <2> DEFINE kept == Ingress(screens, draft[a].holds, pending[a]).queued
             p == pending[a]
  <2>0. /\ context[a] \in Seq(Messages) /\ p \in Seq(Inputs) /\ draft[a] \in Messages
        /\ draft'[a] \in Messages /\ resumed[a] \in BOOLEAN
    BY <1>0 DEF CellsTyped
  <2>d. PICK c \in Seq(Messages) : c = context[a]
    BY <2>0
  <2>e. PICK m \in Messages : m = draft'[a]
    BY <2>0
  <2>f. PICK r \in BOOLEAN : r = resumed[a]
    BY <2>0
  <2>g. PICK d \in Messages : d = draft[a]
    BY <2>0
  <2>1. p \in Seq(Inputs)
    BY <2>0
  <2>a. PICK gone : kept = Without(p, gone)
    BY IngressKeeps
  <2>4. pending'[a] = kept /\ at'[a] = "record"
    BY <1>0, <1>4 DEF CellsTyped, Goto
  <2>b. /\ m.holds = Without(d.holds, PartsRemoved(screens))
        /\ m.ids = d.ids /\ m.type = d.type
    BY <1>0, <1>4, <2>0, <2>e, <2>g, IngressKeeps DEF CellsTyped, Messages
  <2>5. \A k, l \in DOMAIN p : Below(p[k], p[l]) => k < l \/ p[k] \in Known(c)
    BY <1>0, <2>d DEF Lines, Line
  <2>6. Len(p) \in Nat /\ DOMAIN p = 1..Len(p)
    BY <2>1, LenProperties
  <2>c. draft'[a] = m /\ resumed'[a] = r
    BY <1>4, <2>e, <2>f
  <2> HIDE DEF kept, p
  <2>2. kept \in Seq(Inputs) /\ Range(kept) \subseteq Range(p)
    BY <2>1, <2>a, WithoutKeeps
  <2>3. PICK places \in [DOMAIN kept -> DOMAIN p] :
          Increasing(places) /\ \A n \in DOMAIN kept : kept[n] = p[places[n]]
    BY <2>1, <2>a, WithoutKeeps
  <2>7. Len(kept) \in Nat /\ DOMAIN kept = 1..Len(kept)
    BY <2>2, LenProperties
  <2>8. ASSUME NEW k \in DOMAIN kept, NEW l \in DOMAIN kept, Below(kept[k], kept[l])
        PROVE  k < l \/ kept[k] \in Known(c)
    <3>1. places[k] \in DOMAIN p /\ places[l] \in DOMAIN p
      OBVIOUS
    <3>2. Below(p[places[k]], p[places[l]])
      BY <2>3, <2>8
    <3>3. places[k] < places[l] \/ kept[k] \in Known(c)
      BY <2>3, <2>5, <3>1, <3>2
    <3>4. k \in Int /\ l \in Int /\ places[k] \in Int /\ places[l] \in Int
      BY <2>6, <2>7, <3>1
    <3>5. l < k => places[l] < places[k]
      BY <2>3 DEF Increasing
    <3>6. l = k => places[l] = places[k]
      OBVIOUS
    <3> QED
      BY <3>3, <3>4, <3>5, <3>6
  <2>9. at[a] \in Turning /\ at'[a] # "admitprompt" /\ at'[a] # "answered"
    BY <1>1, <2>4 DEF Turning
  <2>10. context[a] = c /\ context'[a] = c
    BY <1>1, <2>d
  <2>11. Fits(c, m, r)'
    <3>1. Fits(c, d, r)
      BY <1>0, <2>d, <2>f, <2>g DEF Lines, Draft
    <3>2. r => withdrawn' = withdrawn \cup {d.holds[n] : n \in PartsRemoved(screens)}
      BY <1>4, <2>f, <2>g
    <3> QED
      BY <1>0, <2>b, <3>1, <3>2, ScreenedFits
  <2>13. Lines(a)'
    BY <1>0, <1>1, <2>2, <2>4, <2>8, <2>9, <2>10, <2>11, <2>c, LessPending DEF p
  <2> QED
    BY <1>0, <1>1, <2>13 DEF Ordered
<1> QED
  BY <1>2, <1>3, <1>4 DEF Screen

(* What is admitted is in the history already. *)
LEMMA AdmitOrdered ==
    ASSUME OrderInv, NEW a \in Owners, Admit(a)
    PROVE  Ordered(a)
<1>0. /\ Store /\ CellsTyped /\ Session(a) /\ Lines(a)
      /\ QueueMoves /\ Exempting
      /\ committed' = committed => History(committed)'
  BY AdmitKeeps, StepFinds DEF OrderInv
<1>1. /\ at[a] = "admit" /\ pending' = [pending EXCEPT ![a] = <<>>] /\ at' = [at EXCEPT ![a] = "ask"]
      /\ UNCHANGED <<context, written, draft, resumed, seen, committed>>
  BY DEF Admit, Goto, historyVars
<1>2. at'[a] = "ask" /\ pending'[a] = <<>> /\ at[a] \in Turning
  BY <1>0, <1>1 DEF CellsTyped, Turning
<1>3. at'[a] # "admitprompt" /\ at'[a] # "answered"
  BY <1>2
<1>a. context[a] \in Seq(Messages) /\ draft[a] \in Messages /\ resumed[a] \in BOOLEAN
  BY <1>0 DEF CellsTyped
<1>b. PICK c \in Seq(Messages) : c = context[a]
  BY <1>a
<1>c. PICK m \in Messages : m = draft[a]
  BY <1>a
<1>d. PICK r \in BOOLEAN : r = resumed[a]
  BY <1>a
<1>4. Fits(c, m, r)'
  BY <1>0, <1>b, <1>c, <1>d, FitsStill DEF Lines, Draft
<1>5. Lines(a)'
  BY <1>0, <1>1, <1>2, <1>3, <1>4, <1>b, <1>c, <1>d, NothingPending, LessPending
<1> QED
  BY <1>0, <1>1, <1>5 DEF Ordered

(* The recorded request holds all that was pending, in the attempt's history   *)
(* and in the transcript alike.                                                *)
LEMMA RecordRequestOrdered ==
    ASSUME OrderInv, NEW a \in Owners, at[a] = "record", RecordRequest(a), Kept(a), UNCHANGED seen
    PROVE  Ordered(a)
<1>0. /\ Store /\ CellsTyped /\ Session(a) /\ Lines(a)
      /\ QueueMoves /\ Exempting
  BY StepFinds
<1> DEFINE g == IF resumed[a] THEN Front(context[a]) ELSE context[a]
           c == Append(g, Carrying(a))
           w == Append(written[a], Carrying(a))
           H == Known(context[a]) \cup Range(draft[a].holds) \cup Range(pending[a])
           p == IF pending[a] = <<>> THEN "ask" ELSE "admit"
<1>1. /\ context' = [context EXCEPT ![a] = c]
      /\ written' = [written EXCEPT ![a] = w]
      /\ committed' = written'[a]
      /\ draft' = [draft EXCEPT ![a] = Empty]
      /\ resumed' = [resumed EXCEPT ![a] = FALSE]
      /\ at' = [at EXCEPT ![a] = p]
      /\ UNCHANGED pending
  BY DEF RecordRequest, Goto
<1>2. p \in {"ask", "admit"}
  OBVIOUS
<1>3. g \in Seq(Messages) /\ written[a] \in Seq(Messages)
  BY <1>0, RecordedHistory DEF CellsTyped
<1>4. \/ g = Front(context[a]) /\ resumed[a]
      \/ g = context[a] /\ ~resumed[a]
  OBVIOUS
<1> HIDE DEF g, p
<1>5. History(c) /\ c \in Seq(Messages) /\ Known(c) = H
  <2>1. \/ g = written[a]
        \/ resumed[a] /\ g = Front(context[a])
        \/ ~resumed[a] /\ g = context[a]
    BY <1>4
  <2> QED
    BY <1>0, <1>3, <2>1, RecordExtends
<1>6. History(w) /\ w \in Seq(Messages) /\ Known(w) = H
  BY <1>0, <1>3, RecordExtends
<1>7. Range(pending[a]) \subseteq H /\ Known(context[a]) \subseteq H
  OBVIOUS
<1> HIDE DEF H, c, w
<1>8. /\ context'[a] = c /\ written'[a] = w /\ draft'[a] = Empty /\ resumed'[a] = FALSE /\ at'[a] = p
      /\ pending'[a] = pending[a] /\ seen'[a] = seen[a] /\ committed' = w
  BY <1>0, <1>1 DEF CellsTyped
<1>9. /\ pending[a] \in Seq(Inputs) /\ seen[a] \in SUBSET Inputs
      /\ Range(pending[a]) \subseteq seen[a] /\ \A i \in seen[a] : Present(i)
  BY <1>0 DEF CellsTyped, Session
<1>10. \A s \in seen[a], i \in Inputs : Below(i, s) => Settled(i)' \/ i \in seen[a] \/ i \in Known(c)
  <2> SUFFICES ASSUME NEW s \in seen[a], NEW i \in Inputs, Below(i, s)
               PROVE  Settled(i)' \/ i \in seen[a] \/ i \in Known(c)
    OBVIOUS
  <2>1. at[a] \in Turning
    BY DEF Turning
  <2>2. Settled(i) \/ i \in seen[a] \/ i \in Known(context[a])
    BY <1>0, <2>1 DEF Lines, Line
  <2> QED
    BY <1>0, <1>5, <1>7, <2>2 DEF QueueMoves
<1>11. /\ \A i \in Range(pending[a]), j \in Held(c) \ Exempt : Below(i, j) => i \in Known(c)
       /\ \A k, l \in DOMAIN pending[a] :
            Below(pending[a][k], pending[a][l]) => k < l \/ pending[a][k] \in Known(c)
  <2>1. \A k \in DOMAIN pending[a] : pending[a][k] \in Range(pending[a])
    BY DEF Range
  <2> QED
    BY <1>5, <1>7, <2>1
<1>a. PICK k \in Seq(Messages) : k = c
  BY <1>5
<1>12. Empty \in Messages /\ FALSE \in BOOLEAN /\ Fits(k, Empty, FALSE)'
  BY <1>0, EmptyFits, FitsStill
<1>13. at'[a] # "admitprompt" /\ at'[a] # "answered"
  BY <1>2, <1>8
<1> HIDE DEF Empty
<1>14. Known(w) = Known(c)
  BY <1>5, <1>6
<1>15. Lines(a)'
  BY <1>0, <1>5, <1>6, <1>8, <1>9, <1>10, <1>11, <1>12, <1>13, <1>14, <1>a, LinesAnew
<1>16. History(committed)'
  <2>1. \A h \in Seq(Messages) : History(h) => History(h)'
    BY <1>0, HistoryStands
  <2> QED
    BY <1>6, <1>8, <2>1
<1> QED
  BY <1>15, <1>16 DEF Ordered

(* A turn is halted or its request recorded. *)
LEMMA SteerAndRecordOrdered ==
    ASSUME OrderInv, NEW a \in Owners, SteerAndRecord(a)
    PROVE  Ordered(a)
<1>0. /\ Store /\ CellsTyped /\ Session(a) /\ Lines(a) /\ Kept(a)
      /\ QueueMoves /\ Exempting
      /\ committed' = committed => History(committed)'
  BY SteerAndRecordKeeps, StepFinds DEF OrderInv
<1>1. at[a] = "record" /\ UNCHANGED seen
  BY DEF SteerAndRecord
<1>2. CASE RecordRequest(a)
  BY <1>0, <1>1, <1>2, RecordRequestOrdered
<1>3. CASE Halt(a) /\ UNCHANGED <<rounds, context, written, historyVars>>
  <2>1. UNCHANGED <<context, written, seen>> /\ committed' = committed
    BY <1>1, <1>3 DEF historyVars
  <2>2. Lines(a)'
    BY <1>0, <1>3, <2>1, HaltLines
  <2> QED
    BY <1>0, <2>1, <2>2 DEF Ordered
<1> QED
  BY <1>2, <1>3 DEF SteerAndRecord

(* A message that holds nothing changes nothing of the order. *)
LEMMA NothingAdded ==
    ASSUME NEW h \in Seq(Messages), History(h), NEW m \in Messages, m.holds = <<>>, m.ids = {}
    PROVE  /\ History(Append(h, m)) /\ Append(h, m) \in Seq(Messages)
           /\ Held(Append(h, m)) = Held(h) /\ Known(Append(h, m)) = Known(h)
<1>1. Range(m.holds) = {} /\ DOMAIN m.holds = {} /\ <<>> \o <<>> = <<>> /\ <<>> \in Seq(Inputs)
  BY NothingPending, ConcatEmptySeq
<1>2. Append(h, m) \in Seq(Messages)
  BY AppendProperties
<1>3. /\ Held(Append(h, m)) = Held(h) /\ Plain(Append(h, m))
      /\ Represented(Append(h, m)) = Represented(h)
  BY <1>1, HeldAppend, RepresentedAppend DEF History
<1>a. Known(Append(h, m)) = Known(h)
  BY <1>3 DEF Known
<1>4. HoldsInOrder(Append(h, m), Exempt)
  <2>1. HoldsInOrder(h, Exempt)
    BY DEF History
  <2>2. <<>> \in Seq(Inputs) /\ m.holds = <<>> \o <<>> /\ DOMAIN <<>> = {} /\ Range(<<>>) = {}
    BY <1>1, NothingPending
  <2> QED
    BY <2>1, <2>2, ExtendInOrder
<1> QED
  BY <1>2, <1>3, <1>4, <1>a DEF History

(* Histories that hold what an attempt's history held, with nothing pending    *)
(* and no request resumed, keep its lines.                                     *)
LEMMA SameHeld ==
    ASSUME Store, CellsTyped, QueueMoves, Exempting, NEW a \in Owners,
           Session(a), Lines(a), pending[a] = <<>>, pending'[a] = <<>>, seen'[a] = seen[a],
           draft'[a] = draft[a], resumed'[a] = resumed[a], resumed[a] = FALSE,
           NEW c \in Seq(Messages), NEW w \in Seq(Messages), context'[a] = c, written'[a] = w,
           History(c), History(w), Known(c) = Known(context[a]), Known(w) = Known(context[a]),
           at'[a] \in Turning => at[a] \in Turning,
           at'[a] # "admitprompt",
           at'[a] = "answered" => Last(c).holds = <<>> /\ Last(c).ids = {}
    PROVE  Lines(a)'
<1>1. /\ draft[a] \in Messages /\ seen[a] \in SUBSET Inputs /\ \A i \in seen[a] : Present(i)
  BY DEF CellsTyped, Session
<1>2. FALSE \in BOOLEAN /\ resumed'[a] = FALSE /\ Fits(c, draft[a], FALSE)'
  <2>1. Fits(context[a], draft[a], FALSE)
    BY DEF Lines, Draft
  <2>2. Fits(c, draft[a], FALSE)
    BY <2>1 DEF Fits
  <2> QED
    BY <1>1, <2>2, FitsStill
<1>3. at'[a] \in Turning => \A s \in seen[a], i \in Inputs :
        Below(i, s) => Settled(i)' \/ i \in seen[a] \/ i \in Known(c)
  BY DEF Lines, Line, QueueMoves
<1>4. Known(w) = Known(c)
  OBVIOUS
<1> QED
  BY <1>1, <1>2, <1>3, <1>4, NothingPending, LinesAnew

(* The model's answer holds no inputs. *)
LEMMA AskModelOrdered ==
    ASSUME OrderInv, NEW a \in Owners, AskModel(a)
    PROVE  Ordered(a)
<1>0. /\ Store /\ CellsTyped /\ Session(a) /\ Lines(a)
      /\ QueueMoves /\ Exempting
      /\ committed' = committed => History(committed)'
  BY AskModelKeeps, StepFinds DEF OrderInv
<1>1. /\ at[a] = "ask" /\ at' = [at EXCEPT ![a] = "answered"]
      /\ UNCHANGED <<written, draft, resumed, pending, seen, committed>>
  BY DEF AskModel, Goto, historyVars
<1>2. PICK type \in {"calls", "answer"} : context' = [context EXCEPT ![a] = Append(context[a], Response(type))]
  BY DEF AskModel
<1> DEFINE m == Response(type)
           c == Append(context[a], m)
<1>3. m \in Messages /\ m.holds = <<>> /\ m.ids = {}
  BY MessageTypes
<1> HIDE DEF m
<1>4. /\ context[a] \in Seq(Messages) /\ written[a] \in Seq(Messages)
      /\ History(context[a]) /\ History(written[a]) /\ Known(written[a]) = Known(context[a])
  BY <1>0 DEF CellsTyped, Lines
<1>5. c \in Seq(Messages) /\ History(c) /\ Known(c) = Known(context[a])
  BY <1>3, <1>4, NothingAdded
<1>6. Last(c).holds = <<>> /\ Last(c).ids = {}
  <2>1. /\ Len(context[a]) \in Nat
        /\ Len(c) = Len(context[a]) + 1 /\ c[Len(context[a]) + 1] = m
    BY <1>3, <1>4, LenProperties, AppendProperties
  <2>2. Last(c) = m
    BY <2>1 DEF Last
  <2> QED
    BY <1>3, <2>2
<1>7. context'[a] = c /\ written'[a] = written[a] /\ at'[a] = "answered" /\ pending[a] = <<>> /\ resumed[a] = FALSE
  BY <1>0, <1>1, <1>2 DEF CellsTyped, Session, m
<1>8. at[a] \in Turning
  BY <1>1 DEF Turning
<1> HIDE DEF c
<1>9. Lines(a)'
  BY <1>0, <1>1, <1>4, <1>5, <1>6, <1>7, <1>8, SameHeld
<1> QED
  BY <1>0, <1>1, <1>9 DEF Ordered

(* Recording the answer adds no inputs. *)
LEMMA RecordResponseOrdered ==
    ASSUME OrderInv, NEW a \in Owners, RecordResponse(a)
    PROVE  Ordered(a)
<1>0. /\ Store /\ CellsTyped /\ Session(a) /\ Lines(a)
      /\ QueueMoves /\ Exempting
  BY RecordResponseKeeps, StepFinds DEF OrderInv
<1> DEFINE p == IF Last(context[a]).type = "calls" THEN "claim" ELSE "finish"
           m == Last(context[a])
           w == Append(written[a], m)
<1>1. /\ at[a] = "answered" /\ at' = [at EXCEPT ![a] = p]
      /\ written' = [written EXCEPT ![a] = w] /\ committed' = written'[a]
      /\ UNCHANGED <<context, draft, resumed, pending, seen>>
  BY DEF RecordResponse, Goto
<1>2. p \in {"claim", "finish"}
  OBVIOUS
<1>3. m \in Messages /\ m.holds = <<>> /\ m.ids = {}
  <2>1. context[a] # <<>> /\ context[a] \in Seq(Messages)
    BY <1>0, <1>1 DEF Session, CellsTyped
  <2>2. m.holds = <<>> /\ m.ids = {}
    BY <1>0, <1>1 DEF Lines, Draft
  <2> QED
    BY <2>1, <2>2, FrontAndLast
<1> HIDE DEF p, m
<1>4. /\ context[a] \in Seq(Messages) /\ written[a] \in Seq(Messages)
      /\ History(context[a]) /\ History(written[a]) /\ Known(written[a]) = Known(context[a])
  BY <1>0 DEF CellsTyped, Lines
<1>5. w \in Seq(Messages) /\ History(w) /\ Known(w) = Known(context[a])
  BY <1>3, <1>4, NothingAdded
<1> HIDE DEF w
<1>6. /\ context'[a] = context[a] /\ written'[a] = w /\ at'[a] = p /\ pending[a] = <<>> /\ resumed[a] = FALSE
      /\ committed' = w
  BY <1>0, <1>1 DEF CellsTyped, Session
<1>7. at[a] \in Turning /\ at'[a] # "admitprompt" /\ at'[a] # "answered"
  BY <1>1, <1>2, <1>6 DEF Turning
<1>8. Lines(a)'
  BY <1>0, <1>1, <1>4, <1>5, <1>6, <1>7, SameHeld
<1>9. \A h \in Seq(Messages) : History(h) => History(h)'
  BY <1>0, HistoryStands
<1> QED
  BY <1>5, <1>6, <1>8, <1>9 DEF Ordered

(* Settling commits the attempt's own history, which is in order. *)
LEMMA SettleOrdered ==
    ASSUME OrderInv, NEW a \in Owners, Settle(a)
    PROVE  Ordered(a)
<1>0. /\ Store /\ CellsTyped /\ Session(a) /\ Lines(a)
      /\ History(committed) /\ committed \in Seq(Messages)
      /\ QueueMoves /\ Exempting
  BY SettleKeeps, StepFinds DEF OrderInv
<1>1. /\ at[a] \in {"finished", "halted"} /\ at' = [at EXCEPT ![a] = "leave"]
      /\ written' = [written EXCEPT ![a] = context[a]]
      /\ committed' = committed \/ committed' = context[a]
      /\ UNCHANGED <<context, draft, resumed, pending, seen>>
  BY DEF Settle, Goto, turnVars
<1>2. context[a] \in Seq(Messages) /\ History(context[a])
  BY <1>0 DEF CellsTyped, Lines
<1>3. /\ context'[a] = context[a] /\ written'[a] = context[a] /\ at'[a] = "leave" /\ pending[a] = <<>>
      /\ resumed[a] = FALSE
  BY <1>0, <1>1 DEF CellsTyped, Session
<1>4. at'[a] \notin Turning /\ at'[a] # "admitprompt" /\ at'[a] # "answered"
  BY <1>3 DEF Turning
<1>5. Lines(a)'
  BY <1>0, <1>1, <1>2, <1>3, <1>4, SameHeld
<1>6. \A h \in Seq(Messages) : History(h) => History(h)'
  BY <1>0, HistoryStands
<1> QED
  BY <1>0, <1>1, <1>2, <1>5, <1>6 DEF Ordered

(* An attempt that is gone holds nothing. *)
LEMMA GoneOrdered ==
    ASSUME OrderInv, NEW a \in Owners, Kept(a), Gone(a), UNCHANGED committed
    PROVE  Ordered(a)
<1>0. /\ Store /\ CellsTyped /\ Session(a) /\ Lines(a)
      /\ QueueMoves /\ Exempting
      /\ committed' = committed => History(committed)'
  BY StepFinds
<1>1. /\ at' = [at EXCEPT ![a] = "over"]
      /\ context' = [context EXCEPT ![a] = <<>>]
      /\ written' = [written EXCEPT ![a] = <<>>]
      /\ draft' = [draft EXCEPT ![a] = Empty]
      /\ resumed' = [resumed EXCEPT ![a] = FALSE]
      /\ pending' = [pending EXCEPT ![a] = <<>>]
      /\ seen' = [seen EXCEPT ![a] = {}]
  BY DEF Gone, Goto
<1>2. /\ at'[a] = "over" /\ context'[a] = <<>> /\ written'[a] = <<>> /\ draft'[a] = Empty
      /\ resumed'[a] = FALSE /\ pending'[a] = <<>> /\ seen'[a] = {}
  BY <1>0, <1>1 DEF CellsTyped
<1>3. Empty \in Messages /\ FALSE \in BOOLEAN /\ Fits(<<>>, Empty, FALSE)'
  BY <1>0, EmptySeq, EmptyFits, FitsStill
<1>4. <<>> \in Seq(Messages) /\ {} \in SUBSET Inputs
  BY EmptySeq
<1> HIDE DEF Empty
<1>5. at'[a] \notin Turning /\ at'[a] # "admitprompt" /\ at'[a] # "answered"
  BY <1>2 DEF Turning
<1>6. Lines(a)'
  BY <1>0, <1>2, <1>3, <1>4, <1>5, EmptyHistory, NothingPending, LinesAnew
<1> QED
  BY <1>0, <1>6 DEF Ordered

-----------------------------------------------------------------------------
(* Theorems *)

(* No history holds anything yet. *)
LEMMA OrderInitially == Init => OrderInv
<1> SUFFICES ASSUME Init PROVE OrderInv
  OBVIOUS
<1>1. DeliveryInv
  BY DeliveryInitially
<1>2. /\ committed = <<>>
      /\ at = [a \in Owners |-> "new"]
      /\ context = [a \in Owners |-> <<>>]
      /\ written = [a \in Owners |-> <<>>]
      /\ draft = [a \in Owners |-> Empty]
      /\ resumed = [a \in Owners |-> FALSE]
      /\ pending = [a \in Owners |-> <<>>]
  BY DEF Init
<1>3. ASSUME NEW a \in Owners PROVE Lines(a)
  <2>1. /\ at[a] = "new" /\ context[a] = <<>> /\ written[a] = <<>> /\ draft[a] = Empty /\ pending[a] = <<>>
        /\ resumed[a] = FALSE
    BY <1>2
  <2>2. Fits(<<>>, Empty, FALSE)
    BY EmptyFits
  <2> HIDE DEF Empty
  <2>3. Draft(a)
    BY <2>1, <2>2, NothingPending DEF Draft
  <2>4. Line(a)
    BY <2>1, NothingPending DEF Line, Turning
  <2> QED
    BY <2>1, <2>3, <2>4, EmptyHistory DEF Lines
<1> QED
  BY <1>1, <1>2, <1>3, EmptyHistory DEF OrderInv

(* Steps of the environment change no history. *)
LEMMA OutsideOrdered ==
    ASSUME OrderInv, UNCHANGED deliveryVars, QueueMoves, DeliveryInv'
    PROVE  OrderInv'
<1>0. /\ Store /\ CellsTyped /\ HistoryTyped /\ History(committed)
      /\ \A b \in Owners : Session(b) /\ Lines(b)
  BY DeliveryParts DEF OrderInv
<1>1. UNCHANGED <<at, own, written, context, draft, resumed, pending, seen, committed, withdrawn>>
  BY DEF deliveryVars, attemptVars, turnVars, historyVars
<1>2. Exempting
  BY <1>1 DEF Brought, Brings, Exempting
<1>3. History(committed)'
  BY <1>0, <1>1, <1>2, HistoryStands DEF HistoryTyped
<1>4. ASSUME NEW b \in Owners PROVE Lines(b)'
  <2>1. at'[b] = "admitprompt" => Present(own[b])'
    <3>1. at[b] = "admitprompt" => Present(own[b]) /\ own[b] \in Inputs
      BY <1>0, PromptIsInput DEF Lines, Draft, Session, CellsTyped
    <3> QED
      BY <1>1, <3>1 DEF QueueMoves
  <2> QED
    BY <1>0, <1>1, <1>2, <2>1, LinesStand
<1> QED
  BY <1>3, <1>4 DEF OrderInv

(* Every step of an attempt keeps the order. *)
LEMMA StepOrdered ==
    ASSUME OrderInv, NEW a \in Owners, Begin(a) \/ AttemptStep(a) \/ Fail(a)
    PROVE  Kept(a) /\ Ordered(a)
<1>0. DeliveryInv
  BY DEF OrderInv
<1>1. CASE Begin(a) \/ OpenBranch(a) \/ EnqueuePrompt(a) \/ AdmitPrompt(a)
  <2>1. Kept(a)
    BY <1>0, <1>1, BeginKeeps, OpenBranchKeeps, EnqueuePromptKeeps, AdmitPromptKeeps
  <2>2. Ordered(a)
    BY <1>1, BeginOrdered, OpenBranchOrdered, EnqueuePromptOrdered, AdmitPromptOrdered
  <2> QED
    BY <2>1, <2>2
<1>2. CASE Claim(a) \/ Screen(a) \/ SteerAndRecord(a) \/ Admit(a)
  <2>1. Kept(a)
    BY <1>0, <1>2, ClaimKeeps, ScreenKeeps, SteerAndRecordKeeps, AdmitKeeps
  <2>2. Ordered(a)
    BY <1>2, ClaimOrdered, ScreenOrdered, SteerAndRecordOrdered, AdmitOrdered
  <2> QED
    BY <2>1, <2>2
<1>3. CASE AskModel(a) \/ RecordResponse(a) \/ DecideFinish(a) \/ Settle(a)
  <2>1. Kept(a)
    BY <1>0, <1>3, AskModelKeeps, RecordResponseKeeps, DecideFinishKeeps, SettleKeeps
  <2>2. Ordered(a)
    BY <1>3, AskModelOrdered, RecordResponseOrdered, DecideFinishOrdered, SettleOrdered
  <2> QED
    BY <2>1, <2>2
<1>4. CASE Leave(a) \/ Fail(a)
  <2>1. Kept(a)
    BY <1>0, <1>4, LeaveKeeps, FailKeeps
  <2>2. Gone(a) /\ UNCHANGED committed
    BY <1>4 DEF Leave, Fail, historyVars
  <2> QED
    BY <2>1, <2>2, GoneOrdered
<1> QED
  BY <1>1, <1>2, <1>3, <1>4 DEF AttemptStep

(* Every step keeps the order. *)
LEMMA OrderPreserved == OrderInv /\ [Next]_vars => OrderInv'
<1> SUFFICES ASSUME OrderInv, [Next]_vars PROVE OrderInv'
  OBVIOUS
<1>0. DeliveryInv /\ Store /\ DeliveryInv'
  BY DeliveryParts, DeliveryPreserved DEF OrderInv
<1>1. ASSUME NEW a \in Owners, Begin(a) \/ AttemptStep(a) \/ Fail(a) PROVE OrderInv'
  BY <1>1, StepOrdered, OrderedKeeps
<1>2. ASSUME NEW i \in Inputs, Submit(i) PROVE OrderInv'
  <2>1. EnqueueInput(i) /\ UNCHANGED deliveryVars
    BY <1>2 DEF Submit
  <2>2. QueueMoves
    BY <1>0, <2>1, EnqueueMoves
  <2> QED
    BY <1>0, <2>1, <2>2, OutsideOrdered
<1>3. CASE Lapse
  <2>1. Expire /\ UNCHANGED deliveryVars
    BY <1>3 DEF Lapse
  <2>2. QueueMoves
    BY <1>0, <2>1, LeaseMoves
  <2> QED
    BY <1>0, <2>1, <2>2, OutsideOrdered
<1>4. CASE UNCHANGED vars
  <2>1. UNCHANGED ledgerVars /\ UNCHANGED deliveryVars
    BY <1>4 DEF vars
  <2>2. QueueMoves
    BY <1>0, <2>1, LeaseMoves
  <2> QED
    BY <1>0, <2>1, <2>2, OutsideOrdered
<1> QED
  BY <1>1, <1>2, <1>3, <1>4 DEF Next

(* The invariant holds throughout. *)
LEMMA OrderInvariant == Spec => []OrderInv
BY OrderInitially, OrderPreserved, PTL DEF Spec

(* Whatever attempts claim, prefetch, halt, crash and leave behind, queued     *)
(* inputs enter a history in the order of their submission.                    *)
THEOREM DeliveryInSubmissionOrder == Spec => []InSubmissionOrder
<1>1. OrderInv => InSubmissionOrder
  <2> SUFFICES ASSUME OrderInv PROVE InSubmissionOrder
    OBVIOUS
  <2>1. HoldsInOrder(committed, Exempt) /\ Exempt \subseteq {own[a] : a \in Owners} \cup withdrawn
    BY DEF OrderInv, History, Brought, Exempt
  <2> QED
    BY <2>1, MoreExempt DEF InSubmissionOrder
<1> QED
  BY <1>1, OrderInvariant, PTL

-----------------------------------------------------------------------------
(* Each input once: the invariant *)

Ends(h, type) == h # <<>> /\ Last(h).type = type

(* No input has two places, and none that the queue may yet give out goes      *)
(* unnamed: claims skip what a history names.                                  *)
Recorded(h) == \A i \in Held(h) : Settled(i) \/ i \in Represented(h)

Once(h) == HoldsOnce(h) /\ Recorded(h)

(* A draft holds only prompts that are settled and that its history lacks. *)
NewDraft(a) ==
    /\ IsInjective(draft[a].holds)
    /\ \A i \in Range(draft[a].holds) : Settled(i) /\ i \notin Held(context[a]) /\ i \notin seen[a]

(* Before an attempt knows whether its prompt is new. *)
Unprompted == {"new", "open", "enqueue", "admitprompt"}

(* An attempt that took up a settled branch: it resumes no request, its history *)
(* holds what its transcript does, each input once, and it has for its next     *)
(* request only what is new.                                                    *)
Whole(a) ==
    /\ ~resumed[a]
    /\ at[a] \notin {"admit", "ask"} => ~Ends(context[a], "request")
    /\ at[a] \notin {"admit", "ask", "answered"} => ~Ends(written[a], "request")
    /\ Held(written[a]) = Held(context[a])
    /\ Once(context[a]) /\ Once(written[a])
    /\ at[a] \in {"claim", "screen", "record"} => Range(pending[a]) \cap Held(context[a]) = {}
    /\ at[a] = "admitprompt" => own[a] \notin Held(context[a])
    /\ IsInjective(pending[a])
    /\ at[a] \in Unprompted => Range(draft[a].holds) = {}
    /\ NewDraft(a)

Answering(a) == rounds[a] > 0 /\ at[a] \in {"admit", "ask", "answered"}

(* Whoever left a request at the end of the branch is still about to answer it. *)
Answered ==
    Ends(committed, "request") => \E b \in Owners : Answering(b) /\ written[b] = committed

Untorn ==
    ~torn => /\ Once(committed) /\ Answered
             /\ \A a \in Owners : Whole(a)

OnceInv == OrderInv /\ Untorn

-----------------------------------------------------------------------------
(* Places *)

(* A message that brings only new inputs, each once, gives none a second place. *)
LEMMA OnceExtends ==
    ASSUME NEW h \in Seq(Messages), NEW m \in Messages, HoldsOnce(h),
           IsInjective(m.holds), Range(m.holds) \cap Held(h) = {}
    PROVE  HoldsOnce(Append(h, m))
<1> DEFINE H == Append(h, m)
           N == Len(h) + 1
<1>1. /\ Len(h) \in Nat /\ DOMAIN h = 1..Len(h)
      /\ H \in Seq(Messages) /\ Len(H) = N
      /\ \A n \in 1..Len(h) : H[n] = h[n]
      /\ H[N] = m
  BY LenProperties, AppendProperties
<1>2. DOMAIN H = 1..N
  BY <1>1, LenProperties
<1>3. \A n \in DOMAIN H : n \in DOMAIN h \/ n = N
  BY <1>1, <1>2
<1> SUFFICES HoldsOnce(H)
  OBVIOUS
<1> HIDE DEF H, N
<1> SUFFICES ASSUME NEW x \in DOMAIN H, NEW y \in DOMAIN H,
                    NEW k \in DOMAIN H[x].holds, NEW l \in DOMAIN H[y].holds,
                    H[x].holds[k] = H[y].holds[l]
             PROVE  x = y /\ k = l
  BY DEF HoldsOnce
<1>4. \A n \in DOMAIN h : H[n] = h[n] /\ \A j \in DOMAIN h[n].holds : h[n].holds[j] \in Held(h)
  BY <1>1, HeldAreInputs
<1>5. \A j \in DOMAIN m.holds : m.holds[j] \notin Held(h)
  BY DEF Range
<1>6. CASE x \in DOMAIN h /\ y \in DOMAIN h
  BY <1>4, <1>6 DEF HoldsOnce
<1>7. CASE x = N /\ y = N
  BY <1>1, <1>7 DEF IsInjective
<1>8. CASE x \in DOMAIN h /\ y = N
  BY <1>1, <1>4, <1>5, <1>8
<1>9. CASE x = N /\ y \in DOMAIN h
  BY <1>1, <1>4, <1>5, <1>9
<1> QED
  BY <1>3, <1>6, <1>7, <1>8, <1>9

(* What it brings is named, or settled. *)
LEMMA RecordedExtends ==
    ASSUME NEW h \in Seq(Messages), NEW m \in Messages, Recorded(h),
           \A i \in Range(m.holds) : Settled(i) \/ i \in m.ids
    PROVE  Recorded(Append(h, m))
BY HeldAppend, RepresentedAppend DEF Recorded

(* Two lists that share nothing have no repetition when neither has. *)
LEMMA JoinedOnce ==
    ASSUME NEW s \in Seq(Inputs), NEW t \in Seq(Inputs), IsInjective(s), IsInjective(t),
           Range(s) \cap Range(t) = {}
    PROVE  IsInjective(s \o t)
<1> DEFINE u == s \o t
<1>1. /\ Len(s) \in Nat /\ Len(t) \in Nat
      /\ DOMAIN s = 1..Len(s) /\ DOMAIN t = 1..Len(t)
      /\ DOMAIN u = 1..(Len(s) + Len(t))
      /\ \A l \in DOMAIN u :
           \/ l \in DOMAIN s /\ u[l] = s[l]
           \/ l - Len(s) \in DOMAIN t /\ u[l] = t[l - Len(s)]
  BY PlacesOfBoth
<1>2. \A k \in DOMAIN s, l \in DOMAIN t : s[k] # t[l]
  BY DEF Range
<1> SUFFICES IsInjective(u)
  OBVIOUS
<1> HIDE DEF u
<1> SUFFICES ASSUME NEW k \in DOMAIN u, NEW l \in DOMAIN u, u[k] = u[l] PROVE k = l
  BY DEF IsInjective
<1>3. CASE k \in DOMAIN s /\ u[k] = s[k] /\ l \in DOMAIN s /\ u[l] = s[l]
  BY <1>3 DEF IsInjective
<1>4. CASE /\ k - Len(s) \in DOMAIN t /\ u[k] = t[k - Len(s)]
           /\ l - Len(s) \in DOMAIN t /\ u[l] = t[l - Len(s)]
  <2>1. k - Len(s) = l - Len(s)
    BY <1>4 DEF IsInjective
  <2>2. k \in Int /\ l \in Int
    BY <1>1
  <2> QED
    BY <1>1, <2>1, <2>2
<1> QED
  BY <1>1, <1>2, <1>3, <1>4

(* An input is listed once. *)
LEMMA ListedOnce ==
    ASSUME LedgerTypeOK, Numbered, NEW S \in SUBSET Inputs, \A i \in S : Present(i)
    PROVE  IsInjective(InOrder(S))
<1> DEFINE s == InOrder(S)
<1>1. s \in Seq(Inputs) /\ Range(s) = S
      /\ \A k, l \in DOMAIN s : k < l <=> inputs[s[k]].sequence < inputs[s[l]].sequence
  BY InOrderLists
<1>2. Len(s) \in Nat /\ DOMAIN s = 1..Len(s)
  BY <1>1, LenProperties
<1>3. \A k \in DOMAIN s : s[k] \in S
  BY <1>1 DEF Range
<1>4. \A i \in S : inputs[i].sequence \in Int
  BY DEF LedgerTypeOK, InputRecords
<1> SUFFICES IsInjective(s)
  OBVIOUS
<1> HIDE DEF s
<1> SUFFICES ASSUME NEW k \in DOMAIN s, NEW l \in DOMAIN s, s[k] = s[l] PROVE k = l
  BY DEF IsInjective
<1>5. inputs[s[k]].sequence = inputs[s[l]].sequence /\ inputs[s[k]].sequence \in Int
  BY <1>3, <1>4
<1>6. ~(k < l) /\ ~(l < k)
  BY <1>1, <1>5
<1> QED
  BY <1>2, <1>6

(* Screens repeat nothing. *)
LEMMA ScreenedOnce ==
    ASSUME NEW items \in Seq(Inputs), NEW gone, IsInjective(items)
    PROVE  IsInjective(Without(items, gone))
<1> SUFFICES ASSUME NEW kept, kept = Without(items, gone) PROVE IsInjective(kept)
  OBVIOUS
<1>1. PICK places \in [DOMAIN kept -> DOMAIN items] :
        Increasing(places) /\ \A n \in DOMAIN kept : kept[n] = items[places[n]]
  BY WithoutKeeps
<1>2. /\ Len(kept) \in Nat /\ DOMAIN kept = 1..Len(kept)
      /\ Len(items) \in Nat /\ DOMAIN items = 1..Len(items)
  <2>1. kept \in Seq(Inputs)
    BY WithoutKeeps
  <2> QED
    BY <2>1, LenProperties
<1> SUFFICES ASSUME NEW k \in DOMAIN kept, NEW l \in DOMAIN kept, kept[k] = kept[l] PROVE k = l
  BY DEF IsInjective
<1>3. places[k] \in DOMAIN items /\ places[l] \in DOMAIN items /\ places[k] \in Int
  BY <1>2
<1>4. places[k] = places[l]
  BY <1>1, <1>3 DEF IsInjective
<1>5. ~(places[k] < places[l]) /\ ~(places[l] < places[k])
  BY <1>3, <1>4
<1>6. ~(k < l) /\ ~(l < k)
  <2>1. \A m, n \in DOMAIN places : m < n => places[m] < places[n]
    BY <1>1 DEF Increasing
  <2>2. DOMAIN places = DOMAIN kept
    OBVIOUS
  <2> QED
    BY <1>5, <2>1, <2>2
<1> QED
  BY <1>2, <1>6

-----------------------------------------------------------------------------
(* Each input once: the steps *)

(* What a step has to show, beyond what it keeps of OrderInv. *)
Wholly(a) == Whole(a)' /\ Once(committed)' /\ Answered'

(* Histories that hold each input once still do when the queue moves. *)
LEMMA OnceStands ==
    ASSUME QueueMoves
    PROVE  \A h \in Seq(Messages) : Once(h) => Once(h)'
<1> SUFFICES ASSUME NEW h \in Seq(Messages), Once(h) PROVE Once(h)'
  OBVIOUS
<1>1. Held(h) \subseteq Inputs
  BY HeldAreInputs
<1>2. \A i \in Held(h) : Settled(i)' \/ i \in Represented(h)
  BY <1>1 DEF Once, Recorded, QueueMoves
<1> QED
  BY <1>2 DEF Once, Recorded

(* What a step of an attempt finds while nothing is torn. *)
LEMMA OnceFinds ==
    ASSUME OnceInv, ~torn, NEW a \in Owners, Kept(a)
    PROVE  /\ OrderInv /\ Store /\ CellsTyped /\ HistoryTyped /\ Session(a) /\ Lines(a)
           /\ CellsTyped' /\ QueueMoves /\ Apart(a)
           /\ Whole(a) /\ Once(committed) /\ Answered /\ committed \in Seq(Messages)
           /\ committed' = committed => Once(committed)'
<1>1. /\ OrderInv /\ Store /\ CellsTyped /\ HistoryTyped /\ Session(a) /\ Lines(a)
      /\ CellsTyped' /\ QueueMoves /\ committed \in Seq(Messages)
  BY StepFinds DEF OnceInv
<1>2. Whole(a) /\ Once(committed) /\ Answered
  BY DEF OnceInv, Untorn
<1>3. committed' = committed => Once(committed)'
  BY <1>1, <1>2, OnceStands
<1> QED
  BY <1>1, <1>2, <1>3 DEF Kept

(* An attempt that keeps its histories, and of its draft no more than it had,  *)
(* stays whole when what it then has pending is not in its history yet.        *)
LEMMA WholeWith ==
    ASSUME QueueMoves, CellsTyped, NEW a \in Owners, Whole(a),
           context'[a] = context[a], written'[a] = written[a], ~resumed'[a],
           NEW d \in Seq(Inputs), draft'[a].holds = d, IsInjective(d), Range(d) \subseteq Range(draft[a].holds),
           NEW q \in Seq(Inputs), pending'[a] = q, IsInjective(q),
           at'[a] \notin {"admit", "ask"} => at[a] \notin {"admit", "ask"},
           at'[a] \notin {"admit", "ask", "answered"} => at[a] \notin {"admit", "ask", "answered"},
           at'[a] \in {"claim", "screen", "record"} => Range(q) \cap Held(context[a]) = {},
           at'[a] = "admitprompt" => own'[a] \notin Held(context[a]),
           at'[a] \in Unprompted => at[a] \in Unprompted,
           \A i \in Inputs : Settled(i) /\ i \notin seen[a] => i \notin seen'[a]
    PROVE  Whole(a)'
<1>1. Once(written[a])' /\ Once(context[a])'
  <2>1. written[a] \in Seq(Messages) /\ Once(written[a]) /\ context[a] \in Seq(Messages) /\ Once(context[a])
    BY DEF CellsTyped, Whole
  <2> QED
    BY <2>1, OnceStands
<1>2. NewDraft(a)'
  <2>1. \A i \in Range(d) : i \in Inputs
    BY ElementOfSeq, LenProperties DEF Range
  <2>2. \A i \in Range(d) : Settled(i) /\ i \notin Held(context[a]) /\ i \notin seen[a]
    BY DEF Whole, NewDraft
  <2>3. \A i \in Range(d) : Settled(i)' /\ i \notin Held(context'[a]) /\ i \notin seen'[a]
    BY <2>1, <2>2 DEF QueueMoves
  <2> QED
    BY <2>3 DEF NewDraft
<1>3. at'[a] \in Unprompted => Range(draft'[a].holds) = {}
  BY DEF Whole
<1>4. /\ at'[a] \notin {"admit", "ask"} => ~Ends(context'[a], "request")
      /\ at'[a] \notin {"admit", "ask", "answered"} => ~Ends(written'[a], "request")
      /\ Held(written'[a]) = Held(context'[a])
  BY DEF Whole
<1> QED
  BY <1>1, <1>2, <1>3, <1>4 DEF Whole

(* So it does when it keeps its draft, or drops it. *)
LEMMA WholeOn ==
    ASSUME QueueMoves, CellsTyped, NEW a \in Owners, Whole(a),
           context'[a] = context[a], written'[a] = written[a], ~resumed'[a],
           draft'[a] = draft[a] \/ draft'[a].holds = <<>>,
           NEW q \in Seq(Inputs), pending'[a] = q, IsInjective(q),
           at'[a] \notin {"admit", "ask"} => at[a] \notin {"admit", "ask"},
           at'[a] \notin {"admit", "ask", "answered"} => at[a] \notin {"admit", "ask", "answered"},
           at'[a] \in {"claim", "screen", "record"} => Range(q) \cap Held(context[a]) = {},
           at'[a] = "admitprompt" => own'[a] \notin Held(context[a]),
           at'[a] \in Unprompted => at[a] \in Unprompted,
           \A i \in Inputs : Settled(i) /\ i \notin seen[a] => i \notin seen'[a]
    PROVE  Whole(a)'
<1>1. draft[a].holds \in Seq(Inputs) /\ IsInjective(draft[a].holds)
  BY DEF CellsTyped, Messages, Whole, NewDraft
<1>2. IsInjective(<<>>)
  BY NothingPending DEF IsInjective
<1>3. CASE draft'[a] = draft[a]
  BY <1>1, <1>3, WholeWith
<1>4. CASE draft'[a].holds = <<>>
  BY <1>2, <1>4, NothingPending, WholeWith
<1> QED
  BY <1>3, <1>4

(* The request that ends the transcript is still about to be answered when     *)
(* whoever left it still is.                                                   *)
LEMMA AnsweredStands ==
    ASSUME NEW a \in Owners, Apart(a), Answered, committed' = committed,
           Answering(a) => Answering(a)' /\ written'[a] = written[a]
    PROVE  Answered'
<1> SUFFICES ASSUME Ends(committed, "request")
             PROVE  \E b \in Owners : Answering(b)' /\ written'[b] = committed
  BY DEF Answered
<1>1. PICK b \in Owners : Answering(b) /\ written[b] = committed
  BY DEF Answered
<1>2. Answering(b)' /\ written'[b] = committed
  BY <1>1 DEF Apart, Answering
<1> QED
  BY <1>2

(* The other attempts stay whole, and so the invariant is kept. *)
LEMMA WhollyKeeps ==
    ASSUME OnceInv, NEW a \in Owners, Kept(a), Ordered(a), ~torn' => ~torn /\ Wholly(a)
    PROVE  OnceInv'
<1>1. OrderInv'
  BY OrderedKeeps DEF OnceInv
<1>2. ASSUME ~torn' PROVE Once(committed)' /\ Answered' /\ \A b \in Owners : Whole(b)'
  <2>1. ~torn /\ Wholly(a)
    BY <1>2
  <2>2. CellsTyped /\ QueueMoves /\ Apart(a)
    BY <2>1, OnceFinds
  <2>3. ASSUME NEW b \in Owners, b # a PROVE Whole(b)'
    <3>1. Whole(b)
      BY <2>1 DEF OnceInv, Untorn
    <3>2. /\ at'[b] = at[b] /\ own'[b] = own[b] /\ context'[b] = context[b]
          /\ written'[b] = written[b] /\ draft'[b] = draft[b] /\ resumed'[b] = resumed[b]
          /\ pending'[b] = pending[b] /\ seen'[b] = seen[b]
      BY <2>2, <2>3 DEF Apart
    <3>3. /\ pending[b] \in Seq(Inputs) /\ IsInjective(pending[b]) /\ ~resumed'[b]
          /\ at'[b] \in {"claim", "screen", "record"} => Range(pending[b]) \cap Held(context[b]) = {}
          /\ at'[b] = "admitprompt" => own'[b] \notin Held(context[b])
      BY <2>2, <3>1, <3>2 DEF Whole, CellsTyped
    <3> QED
      BY <2>2, <3>1, <3>2, <3>3, WholeOn
  <2> QED
    BY <2>1, <2>3 DEF Wholly
<1> QED
  BY <1>1, <1>2 DEF OnceInv, Untorn

(* A step that leaves the transcript alone need only keep the attempt whole,   *)
(* and answering what it was about to answer.                                  *)
LEMMA QuietWholly ==
    ASSUME OnceInv, ~torn, NEW a \in Owners, Kept(a), committed' = committed, Whole(a)',
           Answering(a) => Answering(a)' /\ written'[a] = written[a]
    PROVE  Wholly(a)
<1>1. Once(committed)' /\ Apart(a) /\ Answered
  BY OnceFinds
<1> QED
  BY <1>1, AnsweredStands DEF Wholly

(* An attempt that begins has no history yet. *)
LEMMA BeginWholly ==
    ASSUME OnceInv, ~torn, NEW a \in Owners, Begin(a)
    PROVE  Wholly(a)
<1>0. Kept(a)
  BY BeginKeeps DEF OnceInv, OrderInv
<1>1. CellsTyped /\ QueueMoves /\ Whole(a)
  BY <1>0, OnceFinds
<1>2. /\ at[a] = "new" /\ at' = [at EXCEPT ![a] = "open"]
      /\ UNCHANGED <<written, context, draft, resumed, pending, seen, committed>>
  BY DEF Begin, Goto, turnVars, historyVars
<1>3. at'[a] = "open" /\ pending[a] \in Seq(Inputs)
  BY <1>1, <1>2 DEF CellsTyped
<1>4. IsInjective(pending[a]) /\ ~resumed'[a]
  BY <1>1, <1>2 DEF Whole
<1>5. Whole(a)'
  BY <1>1, <1>2, <1>3, <1>4, WholeOn DEF Unprompted
<1>6. ~Answering(a)
  BY <1>2 DEF Answering
<1> QED
  BY <1>0, <1>2, <1>5, <1>6, QuietWholly

(* Where the agent starts on a settled history with a prompt that is new, or   *)
(* without one, the attempt is whole.                                          *)
LEMMA StartedWhole ==
    ASSUME CellsTyped, QueueMoves, NEW a \in Owners, NEW p \in Prompts \cup {NoInput},
           NEW w \in Seq(Messages), NEW c \in Seq(Messages), StartAgent(a, p, c), context'[a] = c, written'[a] = w,
           pending'[a] = <<>>, seen'[a] = {}, Once(c), Once(w), ~Ends(c, "request"), ~Ends(w, "request"), Held(w) = Held(c),
           p # NoInput => Settled(p)' /\ p \notin Held(c)
    PROVE  Whole(a)'
<1>1. /\ at'[a] \in {"claim", "answered", "refused"}
      /\ p # NoInput => draft'[a] = Request(<<p>>, {}) /\ ~resumed'[a]
      /\ p = NoInput /\ ~resumed'[a] => draft'[a] = Empty
      /\ resumed'[a] => c # <<>> /\ Last(c).type = "request"
  BY StartAgentGives
<1>2. ~resumed'[a]
  BY <1>1 DEF Ends
<1>3. NewDraft(a)'
  <2>1. CASE p # NoInput
    <3>1. p \in Prompts /\ <<p>> \in Seq(Inputs) /\ {} \in SUBSET Inputs
      BY <2>1, PromptIsInput
    <3>a. Request(<<p>>, {}).holds = <<p>>
      BY <3>1, MessageTypes
    <3>2. draft'[a].holds = <<p>>
      BY <1>1, <2>1, <3>a
    <3>3. DOMAIN <<p>> = {1} /\ Range(<<p>>) = {p}
      BY DEF Range
    <3>4. IsInjective(<<p>>)
      BY <3>3 DEF IsInjective
    <3> QED
      BY <2>1, <3>2, <3>3, <3>4 DEF NewDraft
  <2>2. CASE p = NoInput
    <3>1. draft'[a].holds = <<>>
      BY <1>1, <1>2, <2>2, MessageTypes
    <3>2. Range(<<>>) = {} /\ IsInjective(<<>>)
      BY NothingPending DEF IsInjective
    <3> QED
      BY <3>1, <3>2 DEF NewDraft
  <2> QED
    BY <2>1, <2>2
<1>4. Once(written[a])' /\ Once(context[a])'
  <2>1. \A h \in Seq(Messages) : Once(h) => Once(h)'
    BY OnceStands
  <2> QED
    BY <2>1
<1>5. /\ Range(pending'[a]) = {} /\ IsInjective(pending'[a])
      /\ at'[a] \notin Unprompted /\ at'[a] # "admitprompt"
  BY <1>1, NothingPending DEF IsInjective, Unprompted
<1> QED
  BY <1>2, <1>3, <1>4, <1>5 DEF Whole

(* With no attempt between a request and its settlement, the branch that an    *)
(* attempt reads does not end in a request.                                    *)
LEMMA OpenBranchWholly ==
    ASSUME OnceInv, ~torn, NEW a \in Owners, OpenBranch(a), ~torn'
    PROVE  Wholly(a)
<1>0. Kept(a)
  BY OpenBranchKeeps DEF OnceInv, OrderInv
<1>1. /\ CellsTyped /\ QueueMoves /\ Whole(a) /\ Session(a)
      /\ Once(committed) /\ Answered /\ committed \in Seq(Messages)
      /\ committed' = committed => Once(committed)'
  BY <1>0, OnceFinds
<1>2. /\ at[a] = "open" /\ context' = [context EXCEPT ![a] = committed]
      /\ written' = [written EXCEPT ![a] = committed]
      /\ torn' = (torn \/ \E b \in Owners : Unsettled(b))
      /\ UNCHANGED <<own, pending, seen, committed>>
  BY DEF OpenBranch
<1>3. ~Ends(committed, "request")
  <2>1. \A b \in Owners : ~Unsettled(b)
    BY <1>2
  <2>2. \A b \in Owners : Answering(b) => Unsettled(b)
    BY DEF Answering, Unsettled
  <2> QED
    BY <1>1, <2>1, <2>2 DEF Answered
<1>4. seen[a] = {} /\ ~resumed[a] /\ pending[a] = <<>>
  BY <1>1, <1>2, StartingIsNew DEF Starting
<1>5. context'[a] = committed /\ written'[a] = committed /\ seen'[a] = {} /\ pending'[a] = <<>>
  BY <1>1, <1>2, <1>4 DEF CellsTyped
<1>6. Whole(a)'
  <2>1. CASE own[a] = NoInput
    <3>1. StartAgent(a, NoInput, committed) /\ NoInput \in Prompts \cup {NoInput}
      BY <2>1 DEF OpenBranch
    <3> QED
      BY <1>1, <1>3, <1>5, <3>1, StartedWhole
  <2>2. CASE own[a] # NoInput
    <3>1. at' = [at EXCEPT ![a] = "enqueue"] /\ UNCHANGED <<draft, resumed>>
      BY <2>2 DEF OpenBranch, Goto
    <3>2. /\ at'[a] = "enqueue" /\ Range(draft'[a].holds) = {} /\ ~resumed'[a]
          /\ IsInjective(draft'[a].holds) /\ IsInjective(pending'[a])
      BY <1>1, <1>2, <1>4, <3>1 DEF CellsTyped, Whole, NewDraft, Unprompted
    <3>3. Once(written[a])' /\ Once(context[a])'
      <4>1. \A h \in Seq(Messages) : Once(h) => Once(h)'
        BY <1>1, OnceStands
      <4> QED
        BY <1>1, <1>5, <4>1
    <3>4. NewDraft(a)'
      BY <3>2 DEF NewDraft
    <3> QED
      BY <1>3, <1>5, <3>2, <3>3, <3>4 DEF Whole
  <2> QED
    BY <2>1, <2>2
<1>7. Answered'
  BY <1>2, <1>3 DEF Answered
<1> QED
  BY <1>1, <1>2, <1>6, <1>7 DEF Wholly

(* The queue had never heard of a prompt that is queued: no history holds it. *)
LEMMA EnqueuePromptWholly ==
    ASSUME OnceInv, ~torn, NEW a \in Owners, EnqueuePrompt(a)
    PROVE  Wholly(a)
<1>0. Kept(a)
  BY EnqueuePromptKeeps DEF OnceInv, OrderInv
<1>1. /\ Store /\ CellsTyped /\ QueueMoves /\ Whole(a) /\ Session(a) /\ Lines(a)
  BY <1>0, OnceFinds
<1>2. at[a] = "enqueue" /\ UNCHANGED <<context, written, pending, seen, committed>>
  BY DEF EnqueuePrompt, historyVars
<1>3. seen[a] = {} /\ ~resumed[a] /\ pending[a] = <<>>
  BY <1>1, <1>2, StartingIsNew DEF Starting
<1>4. /\ written[a] \in Seq(Messages) /\ Once(written[a]) /\ ~Ends(written[a], "request")
      /\ context[a] \in Seq(Messages) /\ Once(context[a]) /\ ~Ends(context[a], "request")
      /\ Held(written[a]) = Held(context[a])
  BY <1>1, <1>2 DEF CellsTyped, Whole
<1>5. Whole(a)'
  <2>1. CASE /\ EnqueueInput(own[a]) /\ Goto(a, "admitprompt") /\ UNCHANGED <<own, draft, resumed>>
    <3>1. own[a] \in Inputs
      BY <1>1, <1>2, PromptIsInput DEF Session, CellsTyped
    <3>2. ~Present(own[a])
      BY <1>1, <2>1, <3>1, EnqueueMoves
    <3>3. own'[a] \notin Held(context[a])
      BY <1>1, <2>1, <3>2 DEF Lines, History
    <3>4. at'[a] = "admitprompt"
      BY <1>1, <2>1 DEF CellsTyped, Goto
    <3>5. /\ pending[a] \in Seq(Inputs) /\ IsInjective(pending[a]) /\ ~resumed'[a]
      BY <1>1, <1>3, <2>1 DEF CellsTyped, Whole
    <3> QED
      BY <1>1, <1>2, <2>1, <3>3, <3>4, <3>5, WholeOn DEF Unprompted
  <2>2. CASE StartAgent(a, NoInput, context[a])
    <3>1. NoInput \in Prompts \cup {NoInput}
      OBVIOUS
    <3>2. /\ StartAgent(a, NoInput, context[a]) /\ context'[a] = context[a] /\ written'[a] = written[a]
          /\ pending'[a] = <<>> /\ seen'[a] = {}
      BY <1>2, <1>3, <1>4, <2>2
    <3> QED
      BY <1>1, <1>4, <3>1, <3>2, StartedWhole
  <2> QED
    BY <2>1, <2>2 DEF EnqueuePrompt
<1>6. ~Answering(a)
  BY <1>2 DEF Answering
<1> QED
  BY <1>0, <1>2, <1>5, <1>6, QuietWholly

(* The prompt it admits is settled, and new to its history. *)
LEMMA AdmitPromptWholly ==
    ASSUME OnceInv, ~torn, NEW a \in Owners, AdmitPrompt(a)
    PROVE  Wholly(a)
<1>0. Kept(a)
  BY AdmitPromptKeeps DEF OnceInv, OrderInv
<1>1. /\ Store /\ CellsTyped /\ QueueMoves /\ Whole(a) /\ Session(a) /\ Lines(a)
  BY <1>0, OnceFinds
<1>2. /\ at[a] = "admitprompt" /\ AdmitInputs({own[a]}, tok[a]) /\ StartAgent(a, own[a], context[a])
      /\ UNCHANGED <<context, written, pending, seen, committed>>
  BY DEF AdmitPrompt, historyVars
<1>3. seen[a] = {} /\ ~resumed[a] /\ pending[a] = <<>>
  BY <1>1, <1>2, StartingIsNew DEF Starting
<1>4. /\ written[a] \in Seq(Messages) /\ Once(written[a]) /\ ~Ends(written[a], "request")
      /\ context[a] \in Seq(Messages) /\ Once(context[a]) /\ ~Ends(context[a], "request")
      /\ Held(written[a]) = Held(context[a])
  BY <1>1, <1>2 DEF CellsTyped, Whole
<1>5. PICK p \in Prompts : p = own[a]
  BY <1>1, <1>2 DEF Session, CellsTyped
<1>6. p \in Inputs /\ Present(p) /\ p \notin Held(context[a])
  BY <1>1, <1>2, <1>5, PromptIsInput DEF Lines, Draft, Whole
<1>a. Settled(p)'
  <2>1. AdmitInputs({p}, tok[a]) /\ p \in {p} \cap Inputs
    BY <1>2, <1>5, <1>6
  <2> QED
    BY <1>1, <1>6, <2>1, AdmitMoves
<1>7. Whole(a)'
  <2>1. /\ StartAgent(a, p, context[a]) /\ context'[a] = context[a] /\ written'[a] = written[a]
        /\ pending'[a] = <<>> /\ seen'[a] = {}
    BY <1>2, <1>3, <1>4, <1>5
  <2> QED
    BY <1>1, <1>4, <1>6, <1>a, <2>1, StartedWhole
<1>8. ~Answering(a)
  BY <1>2 DEF Answering
<1> QED
  BY <1>0, <1>2, <1>7, <1>8, QuietWholly

(* What is claimable is in no history whole: an input there is settled or      *)
(* named.                                                                      *)
LEMMA ClaimedAnew ==
    ASSUME Store, CellsTyped, NEW a \in Owners, ClaimAll(a), Session(a), Whole(a)
    PROVE  /\ Claimable(a) \cap Held(context[a]) = {}
           /\ Claimable(a) \cap Range(pending[a]) = {}
           /\ IsInjective(InOrder(Claimable(a)))
           /\ \A i \in Inputs : Settled(i) /\ i \notin seen[a] => i \notin seen[a] \cup Claimable(a)
<1>1. Claimable(a) \subseteq Inputs /\ \A i \in Claimable(a) : Present(i) /\ ~Settled(i)
  BY ClaimMoves
<1>2. \A i \in Claimable(a) : i \notin Represented(context[a]) /\ i \notin seen[a]
  BY DEF Claimable
<1>3. Recorded(context[a])
  BY DEF Whole, Once
<1>4. Claimable(a) \cap Held(context[a]) = {}
  BY <1>1, <1>2, <1>3 DEF Recorded
<1>5. Claimable(a) \cap Range(pending[a]) = {}
  BY <1>2 DEF Session
<1>6. IsInjective(InOrder(Claimable(a)))
  <2>1. Claimable(a) \in SUBSET Inputs /\ \A i \in Claimable(a) : Present(i)
    BY <1>1
  <2>2. LedgerTypeOK /\ Numbered
    BY DEF Store
  <2> QED
    BY <2>1, <2>2, ListedOnce
<1> QED
  BY <1>1, <1>4, <1>5, <1>6

(* What is claimed is new, to the history and to what was pending. *)
LEMMA ClaimWholly ==
    ASSUME OnceInv, ~torn, NEW a \in Owners, Claim(a)
    PROVE  Wholly(a)
<1>0. Kept(a)
  BY ClaimKeeps DEF OnceInv, OrderInv
<1>1. /\ Store /\ CellsTyped /\ QueueMoves /\ Whole(a) /\ Session(a)
  BY <1>0, OnceFinds
<1> DEFINE t == InOrder(Claimable(a))
           q == pending[a] \o t
<1>2. /\ at[a] = "claim" /\ ClaimAll(a) /\ at' = [at EXCEPT ![a] = "screen"]
      /\ pending' = [pending EXCEPT ![a] = q]
      /\ seen' = [seen EXCEPT ![a] = seen[a] \cup Claimable(a)]
      /\ UNCHANGED <<context, written, draft, resumed, committed>>
  BY DEF Claim, ClaimAll, Goto, historyVars
<1>3. /\ Claimable(a) \cap Held(context[a]) = {} /\ Claimable(a) \cap Range(pending[a]) = {}
      /\ IsInjective(t)
      /\ \A i \in Inputs : Settled(i) /\ i \notin seen[a] => i \notin seen[a] \cup Claimable(a)
  BY <1>1, <1>2, ClaimedAnew
<1>4. t \in Seq(Inputs) /\ Range(t) = Claimable(a)
  BY <1>1, <1>2, ClaimedInOrder
<1>5. /\ pending[a] \in Seq(Inputs) /\ IsInjective(pending[a])
      /\ Range(pending[a]) \cap Held(context[a]) = {}
  BY <1>1, <1>2 DEF CellsTyped, Whole
<1> HIDE DEF t
<1>6. q \in Seq(Inputs) /\ Range(q) = Range(pending[a]) \cup Claimable(a)
  BY <1>4, <1>5, RangeOfBoth
<1>7. IsInjective(q)
  BY <1>3, <1>4, <1>5, JoinedOnce
<1>8. Range(q) \cap Held(context[a]) = {}
  BY <1>3, <1>5, <1>6
<1> HIDE DEF q
<1>9. /\ at'[a] = "screen" /\ pending'[a] = q /\ seen'[a] = seen[a] \cup Claimable(a)
      /\ ~resumed'[a]
  BY <1>1, <1>2 DEF CellsTyped, Whole
<1>10. Whole(a)'
  BY <1>1, <1>2, <1>3, <1>6, <1>7, <1>8, <1>9, WholeOn DEF Unprompted
<1>11. ~Answering(a)
  BY <1>2 DEF Answering
<1> QED
  BY <1>0, <1>2, <1>10, <1>11, QuietWholly

(* So is what a late input prefetches. *)
LEMMA DecideFinishWholly ==
    ASSUME OnceInv, ~torn, NEW a \in Owners, DecideFinish(a)
    PROVE  Wholly(a)
<1>0. Kept(a)
  BY DecideFinishKeeps DEF OnceInv, OrderInv
<1>1. /\ Store /\ CellsTyped /\ QueueMoves /\ Whole(a) /\ Session(a)
  BY <1>0, OnceFinds
<1> DEFINE t == InOrder(Claimable(a))
<1>2. /\ at[a] = "finish" /\ ClaimAll(a)
      /\ pending' = [pending EXCEPT ![a] = t]
      /\ seen' = [seen EXCEPT ![a] = seen[a] \cup Claimable(a)]
      /\ UNCHANGED <<context, written, draft, resumed, committed>>
  BY DEF DecideFinish, ClaimAll, historyVars
<1>3. /\ Claimable(a) \cap Held(context[a]) = {} /\ IsInjective(t)
      /\ \A i \in Inputs : Settled(i) /\ i \notin seen[a] => i \notin seen[a] \cup Claimable(a)
  BY <1>1, <1>2, ClaimedAnew
<1>4. t \in Seq(Inputs) /\ Range(t) = Claimable(a)
  BY <1>1, <1>2, ClaimedInOrder
<1>5. Range(t) \cap Held(context[a]) = {}
  BY <1>3, <1>4
<1> HIDE DEF t
<1>6. at'[a] \in {"claim", "finished"}
  BY <1>1 DEF DecideFinish, Goto, CellsTyped
<1>7. pending'[a] = t /\ seen'[a] = seen[a] \cup Claimable(a) /\ ~resumed'[a]
  BY <1>1, <1>2 DEF CellsTyped, Whole
<1>8. /\ at'[a] # "admitprompt" /\ at'[a] \notin Unprompted
      /\ at[a] \notin {"admit", "ask", "answered"} /\ at[a] \notin {"admit", "ask"}
  BY <1>2, <1>6 DEF Unprompted
<1>9. Whole(a)'
  BY <1>1, <1>2, <1>3, <1>4, <1>5, <1>7, <1>8, WholeOn
<1>10. ~Answering(a)
  BY <1>2 DEF Answering
<1> QED
  BY <1>0, <1>2, <1>9, <1>10, QuietWholly

(* A turn that halts holds nothing more for its history. *)
LEMMA HaltWhole ==
    ASSUME CellsTyped, QueueMoves, NEW a \in Owners, Whole(a), Halt(a), at[a] \in {"screen", "record"},
           UNCHANGED <<context, written, seen>>
    PROVE  Whole(a)'
<1>1. /\ at' = [at EXCEPT ![a] = "halted"] /\ pending' = [pending EXCEPT ![a] = <<>>]
      /\ draft' = [draft EXCEPT ![a] = Empty] /\ resumed' = [resumed EXCEPT ![a] = FALSE]
  BY DEF Halt, Goto
<1>2. at'[a] = "halted" /\ pending'[a] = <<>> /\ draft'[a] = Empty /\ ~resumed'[a]
  BY <1>1 DEF CellsTyped
<1>3. draft'[a].holds = <<>>
  BY <1>2, MessageTypes
<1>4. <<>> \in Seq(Inputs) /\ IsInjective(<<>>) /\ at'[a] \notin Unprompted
  BY <1>2, NothingPending DEF IsInjective, Unprompted
<1> QED
  BY <1>2, <1>3, <1>4, WholeOn

(* What screens leave of the draft and of what was pending is as new as it was. *)
LEMMA ScreenedWhole ==
    ASSUME CellsTyped, QueueMoves, NEW a \in Owners, Whole(a), at[a] = "screen", Goto(a, "record"),
           UNCHANGED <<resumed, context, written, seen>>,
           NEW d \in Seq(Inputs), draft'[a].holds = d, IsInjective(d), Range(d) \subseteq Range(draft[a].holds),
           NEW q \in Seq(Inputs), pending'[a] = q, IsInjective(q), Range(q) \subseteq Range(pending[a])
    PROVE  Whole(a)'
<1>1. at'[a] = "record" /\ ~resumed'[a]
  BY DEF CellsTyped, Goto, Whole
<1>2. Range(q) \cap Held(context[a]) = {}
  BY DEF Whole
<1> QED
  BY <1>1, <1>2, WholeWith DEF Unprompted

(* Screens leave some of what was pending. *)
LEMMA ScreenWholly ==
    ASSUME OnceInv, ~torn, NEW a \in Owners, Screen(a)
    PROVE  Wholly(a)
<1>0. Kept(a)
  BY ScreenKeeps DEF OnceInv, OrderInv
<1>1. /\ CellsTyped /\ QueueMoves /\ Whole(a)
  BY <1>0, OnceFinds
<1>2. at[a] = "screen" /\ UNCHANGED <<context, written, seen, committed>>
  BY DEF Screen
<1>3. /\ pending[a] \in Seq(Inputs) /\ IsInjective(pending[a])
      /\ draft[a] \in Messages /\ draft[a].holds \in Seq(Inputs) /\ IsInjective(draft[a].holds)
  BY <1>1 DEF CellsTyped, Whole, NewDraft, Messages
<1>4. ASSUME Whole(a)' PROVE Wholly(a)
  <2>1. ~Answering(a)
    BY <1>2 DEF Answering
  <2> QED
    BY <1>0, <1>2, <1>4, <2>1, QuietWholly
<1>5. CASE Goto(a, "record") /\ UNCHANGED <<draft, resumed, pending>>
  <2>1. pending'[a] = pending[a] /\ draft'[a].holds = draft[a].holds
    BY <1>5
  <2>2. Whole(a)'
    BY <1>1, <1>2, <1>3, <1>5, <2>1, ScreenedWhole
  <2> QED
    BY <1>4, <2>2
<1>6. CASE Halt(a)
  <2>1. Whole(a)'
    BY <1>1, <1>2, <1>6, HaltWhole
  <2> QED
    BY <1>4, <2>1
<1>7. ASSUME NEW screens,
             draft' = [draft EXCEPT ![a].holds = Ingress(screens, draft[a].holds, pending[a]).parts],
             pending' = [pending EXCEPT ![a] = Ingress(screens, draft[a].holds, pending[a]).queued],
             Goto(a, "record"), UNCHANGED resumed
      PROVE  Wholly(a)
  <2>1. PICK gone :
          /\ Ingress(screens, draft[a].holds, pending[a]).parts = Without(draft[a].holds, PartsRemoved(screens))
          /\ Ingress(screens, draft[a].holds, pending[a]).queued = Without(pending[a], gone)
    BY IngressKeeps
  <2> DEFINE d == Without(draft[a].holds, PartsRemoved(screens))
             q == Without(pending[a], gone)
  <2>2. draft'[a].holds = d /\ pending'[a] = q
    BY <1>1, <1>3, <1>7, <2>1 DEF CellsTyped, Messages
  <2>3. d \in Seq(Inputs) /\ Range(d) \subseteq Range(draft[a].holds) /\ IsInjective(d)
    BY <1>3, WithoutKeeps, ScreenedOnce
  <2>4. q \in Seq(Inputs) /\ Range(q) \subseteq Range(pending[a]) /\ IsInjective(q)
    BY <1>3, WithoutKeeps, ScreenedOnce
  <2> HIDE DEF d, q
  <2>5. Whole(a)'
    BY <1>1, <1>2, <1>7, <2>2, <2>3, <2>4, ScreenedWhole
  <2> QED
    BY <1>4, <2>5
<1> QED
  BY <1>5, <1>6, <1>7 DEF Screen

(* What is admitted is no longer pending. *)
LEMMA AdmitWholly ==
    ASSUME OnceInv, ~torn, NEW a \in Owners, Admit(a)
    PROVE  Wholly(a)
<1>0. Kept(a)
  BY AdmitKeeps DEF OnceInv, OrderInv
<1>1. /\ CellsTyped /\ QueueMoves /\ Whole(a)
  BY <1>0, OnceFinds
<1>2. /\ at[a] = "admit" /\ pending' = [pending EXCEPT ![a] = <<>>] /\ at' = [at EXCEPT ![a] = "ask"]
      /\ UNCHANGED <<context, written, draft, resumed, seen, rounds, committed>>
  BY DEF Admit, Goto, historyVars
<1>3. at'[a] = "ask" /\ pending'[a] = <<>> /\ ~resumed'[a]
  BY <1>1, <1>2 DEF CellsTyped, Whole
<1>4. <<>> \in Seq(Inputs) /\ IsInjective(<<>>)
  BY NothingPending DEF IsInjective
<1>5. Whole(a)'
  BY <1>1, <1>2, <1>3, <1>4, WholeOn DEF Unprompted
<1>6. Answering(a) => Answering(a)' /\ written'[a] = written[a]
  BY <1>2, <1>3 DEF Answering
<1> QED
  BY <1>0, <1>2, <1>5, <1>6, QuietWholly

(* A history ends in what was appended to it last. *)
LEMMA LastAppended ==
    ASSUME NEW h \in Seq(Messages), NEW m \in Messages
    PROVE  Append(h, m) \in Seq(Messages) /\ Append(h, m) # <<>> /\ Last(Append(h, m)) = m
<1>1. /\ Len(h) \in Nat /\ Append(h, m) \in Seq(Messages)
      /\ Len(Append(h, m)) = Len(h) + 1 /\ Append(h, m)[Len(h) + 1] = m
  BY LenProperties, AppendProperties
<1>2. Append(h, m) # <<>>
  <2>1. Len(Append(h, m)) # 0
    BY <1>1
  <2> QED
    BY <2>1, EmptySeq
<1> QED
  BY <1>1, <1>2 DEF Last

(* The recorded request holds a new prompt, what was pending, or nothing: all  *)
(* of it new, each once, and settled or named.  Its attempt is to answer it.   *)
LEMMA RecordRequestWholly ==
    ASSUME OnceInv, ~torn, NEW a \in Owners, at[a] = "record", RecordRequest(a), Kept(a), UNCHANGED seen
    PROVE  Wholly(a)
<1>1. /\ CellsTyped /\ CellsTyped' /\ QueueMoves /\ Whole(a) /\ Session(a)
  BY OnceFinds
<1> DEFINE m == Carrying(a)
           H == Held(context[a])
           c == Append(context[a], m)
           w == Append(written[a], m)
           p == IF pending[a] = <<>> THEN "ask" ELSE "admit"
<1>2. /\ written[a] \in Seq(Messages) /\ HoldsOnce(written[a]) /\ Recorded(written[a]) /\ Held(written[a]) = H
      /\ context[a] \in Seq(Messages) /\ HoldsOnce(context[a]) /\ Recorded(context[a]) /\ Held(context[a]) = H
      /\ ~resumed[a]
      /\ pending[a] \in Seq(Inputs) /\ IsInjective(pending[a]) /\ Range(pending[a]) \cap H = {}
      /\ Range(pending[a]) \subseteq seen[a] /\ draft[a].holds \in Seq(Inputs)
  BY <1>1 DEF CellsTyped, Whole, Once, Session, Messages
<1>3. /\ context' = [context EXCEPT ![a] = c] /\ written' = [written EXCEPT ![a] = w]
      /\ committed' = written'[a] /\ rounds' = [rounds EXCEPT ![a] = rounds[a] + 1]
      /\ draft' = [draft EXCEPT ![a] = Empty] /\ resumed' = [resumed EXCEPT ![a] = FALSE]
      /\ at' = [at EXCEPT ![a] = p] /\ UNCHANGED pending
  BY <1>2 DEF RecordRequest, Goto
<1>4. p \in {"ask", "admit"}
  OBVIOUS
<1>5. /\ m \in Messages /\ m.holds = draft[a].holds \o pending[a]
      /\ m.ids = IF pending[a] = <<>> THEN draft[a].ids ELSE Range(pending[a])
      /\ Range(m.holds) = Range(draft[a].holds) \cup Range(pending[a])
  BY <1>1, CarryingGives
<1>6. /\ IsInjective(draft[a].holds)
      /\ \A i \in Range(draft[a].holds) : Settled(i) /\ i \notin H /\ i \notin seen[a]
  BY <1>1 DEF Whole, NewDraft
<1> HIDE DEF H
<1>7. IsInjective(m.holds)
  <2>1. Range(draft[a].holds) \cap Range(pending[a]) = {}
    BY <1>2, <1>6
  <2> QED
    BY <1>2, <1>5, <1>6, <2>1, JoinedOnce
<1>8. Range(m.holds) \cap H = {}
  BY <1>2, <1>5, <1>6
<1>9. \A i \in Range(m.holds) : Settled(i) \/ i \in m.ids
  <2>1. pending[a] = <<>> => Range(pending[a]) = {}
    BY NothingPending
  <2> QED
    BY <1>5, <1>6, <2>1
<1> HIDE DEF m, p
<1>10. Once(w) /\ w \in Seq(Messages) /\ Held(w) = H \cup Range(m.holds)
  BY <1>2, <1>5, <1>7, <1>8, <1>9, OnceExtends, RecordedExtends, LastAppended, HeldAppend DEF Once
<1>a. Once(c) /\ c \in Seq(Messages) /\ Held(c) = H \cup Range(m.holds)
  BY <1>2, <1>5, <1>7, <1>8, <1>9, OnceExtends, RecordedExtends, LastAppended, HeldAppend DEF Once
<1> HIDE DEF w, c
<1>11. /\ context'[a] = c /\ written'[a] = w /\ committed' = w /\ draft'[a] = Empty
       /\ ~resumed'[a] /\ at'[a] = p /\ pending'[a] = pending[a] /\ rounds'[a] = rounds[a] + 1
  BY <1>1, <1>3 DEF CellsTyped
<1>12. \A h \in Seq(Messages) : Once(h) => Once(h)'
  BY <1>1, OnceStands
<1>13. Once(committed)' /\ Once(written[a])' /\ Once(context[a])' /\ Held(written'[a]) = Held(context'[a])
  BY <1>10, <1>a, <1>11, <1>12
<1>14. at'[a] \in {"ask", "admit"}
  BY <1>4, <1>11
<1>15. Whole(a)'
  <2>1. NewDraft(a)' /\ Range(draft'[a].holds) = {}
    <3>1. draft'[a].holds = <<>> /\ Range(<<>>) = {} /\ IsInjective(<<>>)
      BY <1>11, MessageTypes, NothingPending DEF IsInjective
    <3> QED
      BY <3>1 DEF NewDraft
  <2>2. IsInjective(pending'[a])
    BY <1>2, <1>11
  <2> QED
    BY <1>11, <1>13, <1>14, <2>1, <2>2 DEF Whole
<1>16. Answering(a)'
  <2>1. rounds[a] \in Nat
    BY <1>1, DeliveryConstants DEF CellsTyped
  <2>2. rounds'[a] > 0
    BY <1>11, <2>1
  <2> QED
    BY <1>14, <2>2 DEF Answering
<1>17. Answered'
  BY <1>11, <1>16 DEF Answered
<1> QED
  BY <1>13, <1>15, <1>17 DEF Wholly

(* A turn is halted or its request recorded. *)
LEMMA SteerAndRecordWholly ==
    ASSUME OnceInv, ~torn, NEW a \in Owners, SteerAndRecord(a)
    PROVE  Wholly(a)
<1>0. Kept(a)
  BY SteerAndRecordKeeps DEF OnceInv, OrderInv
<1>1. /\ CellsTyped /\ QueueMoves /\ Whole(a)
  BY <1>0, OnceFinds
<1>2. at[a] = "record" /\ UNCHANGED seen
  BY DEF SteerAndRecord
<1>3. CASE RecordRequest(a)
  BY <1>0, <1>2, <1>3, RecordRequestWholly
<1>4. CASE Halt(a) /\ UNCHANGED <<rounds, context, written, historyVars>>
  <2>1. UNCHANGED <<context, written, seen>> /\ committed' = committed /\ ~Answering(a)
    BY <1>2, <1>4 DEF historyVars, Answering
  <2>2. Whole(a)'
    BY <1>1, <1>2, <1>4, <2>1, HaltWhole
  <2> QED
    BY <1>0, <2>1, <2>2, QuietWholly
<1> QED
  BY <1>3, <1>4 DEF SteerAndRecord

(* A message that holds nothing leaves a history that holds each input once. *)
LEMMA OnceWithoutMore ==
    ASSUME NEW h \in Seq(Messages), Once(h), NEW m \in Messages, m.holds = <<>>
    PROVE  Append(h, m) \in Seq(Messages) /\ Once(Append(h, m)) /\ Held(Append(h, m)) = Held(h)
<1>1. Range(m.holds) = {} /\ IsInjective(m.holds)
  BY NothingPending DEF IsInjective
<1>2. HoldsOnce(h) /\ Recorded(h)
  BY DEF Once
<1>3. Range(m.holds) \cap Held(h) = {} /\ \A i \in Range(m.holds) : Settled(i) \/ i \in m.ids
  BY <1>1
<1>4. HoldsOnce(Append(h, m)) /\ Recorded(Append(h, m))
  BY <1>1, <1>2, <1>3, OnceExtends, RecordedExtends
<1>5. Held(Append(h, m)) = Held(h)
  BY <1>1, HeldAppend
<1> QED
  BY <1>4, <1>5, LastAppended DEF Once

(* The model's turn comes after the request, in the attempt's history first. *)
LEMMA AskModelWholly ==
    ASSUME OnceInv, ~torn, NEW a \in Owners, AskModel(a)
    PROVE  Wholly(a)
<1>0. Kept(a)
  BY AskModelKeeps DEF OnceInv, OrderInv
<1>1. /\ CellsTyped /\ QueueMoves /\ Whole(a) /\ Session(a)
  BY <1>0, OnceFinds
<1>2. /\ at[a] = "ask" /\ at' = [at EXCEPT ![a] = "answered"]
      /\ UNCHANGED <<written, draft, resumed, pending, seen, rounds, committed>>
  BY DEF AskModel, Goto, historyVars
<1>3. PICK type \in {"calls", "answer"} : context' = [context EXCEPT ![a] = Append(context[a], Response(type))]
  BY DEF AskModel
<1> DEFINE m == Response(type)
           c == Append(context[a], m)
<1>4. m \in Messages /\ m.type # "request" /\ m.holds = <<>>
  BY MessageTypes
<1> HIDE DEF m
<1>5. /\ context[a] \in Seq(Messages) /\ Once(context[a]) /\ written[a] \in Seq(Messages) /\ Once(written[a])
      /\ Held(written[a]) = Held(context[a])
  BY <1>1 DEF CellsTyped, Whole
<1>6. Last(c) = m /\ c \in Seq(Messages) /\ Once(c) /\ Held(c) = Held(context[a])
  BY <1>4, <1>5, LastAppended, OnceWithoutMore
<1>7. ~Ends(c, "request")
  BY <1>4, <1>6 DEF Ends
<1> HIDE DEF c
<1>8. context'[a] = c /\ at'[a] = "answered" /\ ~resumed'[a]
  BY <1>1, <1>2, <1>3 DEF CellsTyped, Whole, m, c
<1>9. Once(written[a])' /\ Once(context[a])' /\ Held(written'[a]) = Held(context'[a])
  <2>1. \A h \in Seq(Messages) : Once(h) => Once(h)'
    BY <1>1, OnceStands
  <2> QED
    BY <1>2, <1>5, <1>6, <1>8, <2>1
<1>10. NewDraft(a)'
  <2>1. draft[a].holds \in Seq(Inputs)
    BY <1>1 DEF CellsTyped, Messages
  <2>2. \A i \in Range(draft[a].holds) : i \in Inputs
    BY <2>1, ElementOfSeq, LenProperties DEF Range
  <2>3. \A i \in Range(draft[a].holds) : Settled(i)' /\ i \notin Held(context'[a]) /\ i \notin seen'[a]
    BY <1>1, <1>2, <1>6, <1>8, <2>2 DEF Whole, NewDraft, QueueMoves
  <2> QED
    BY <1>1, <1>2, <2>3 DEF Whole, NewDraft
<1>11. IsInjective(pending'[a])
  BY <1>1, <1>2 DEF Whole
<1>12. Whole(a)'
  BY <1>7, <1>8, <1>9, <1>10, <1>11 DEF Whole, Unprompted
<1>13. Answering(a) => Answering(a)' /\ written'[a] = written[a]
  BY <1>2, <1>8 DEF Answering
<1> QED
  BY <1>0, <1>2, <1>12, <1>13, QuietWholly

(* With the turn recorded the request is answered. *)
LEMMA RecordResponseWholly ==
    ASSUME OnceInv, ~torn, NEW a \in Owners, RecordResponse(a)
    PROVE  Wholly(a)
<1>0. Kept(a)
  BY RecordResponseKeeps DEF OnceInv, OrderInv
<1>1. /\ CellsTyped /\ QueueMoves /\ Whole(a) /\ Session(a) /\ Lines(a)
  BY <1>0, OnceFinds
<1> DEFINE m == Last(context[a])
           p == IF m.type = "calls" THEN "claim" ELSE "finish"
           w == Append(written[a], m)
<1>2. /\ at[a] = "answered" /\ at' = [at EXCEPT ![a] = p]
      /\ written' = [written EXCEPT ![a] = w] /\ committed' = written'[a]
      /\ UNCHANGED <<context, draft, resumed, pending, seen>>
  BY DEF RecordResponse, Goto
<1>3. p \in {"claim", "finish"}
  OBVIOUS
<1>4. /\ context[a] \in Seq(Messages) /\ context[a] # <<>> /\ Once(context[a])
      /\ written[a] \in Seq(Messages) /\ Once(written[a])
      /\ pending[a] = <<>> /\ m.holds = <<>> /\ ~Ends(context[a], "request")
      /\ Held(written[a]) = Held(context[a])
  BY <1>1, <1>2 DEF CellsTyped, Session, Lines, Draft, Whole
<1>5. m \in Messages /\ m.type # "request"
  BY <1>4, FrontAndLast DEF Ends
<1> HIDE DEF m, p
<1>6. Once(w) /\ Held(w) = Held(context[a]) /\ w \in Seq(Messages) /\ ~Ends(w, "request")
  BY <1>4, <1>5, LastAppended, OnceWithoutMore DEF Ends
<1> HIDE DEF w
<1>7. /\ context'[a] = context[a] /\ written'[a] = w /\ committed' = w /\ at'[a] = p /\ ~resumed'[a]
      /\ pending'[a] = <<>> /\ draft'[a] = draft[a] /\ seen'[a] = seen[a]
  BY <1>1, <1>2, <1>4 DEF CellsTyped, Whole
<1>8. Once(committed)' /\ Once(written[a])' /\ Once(context[a])' /\ Held(written'[a]) = Held(context'[a])
  <2>1. \A h \in Seq(Messages) : Once(h) => Once(h)'
    BY <1>1, OnceStands
  <2> QED
    BY <1>4, <1>6, <1>7, <2>1
<1>9. NewDraft(a)'
  <2>1. draft[a].holds \in Seq(Inputs)
    BY <1>1 DEF CellsTyped, Messages
  <2>2. \A i \in Range(draft[a].holds) : i \in Inputs
    BY <2>1, ElementOfSeq, LenProperties DEF Range
  <2>3. \A i \in Range(draft[a].holds) : Settled(i)' /\ i \notin Held(context'[a]) /\ i \notin seen'[a]
    BY <1>1, <1>7, <2>2 DEF Whole, NewDraft, QueueMoves
  <2> QED
    BY <1>1, <1>7, <2>3 DEF Whole, NewDraft
<1>10. Range(<<>>) = {} /\ IsInjective(<<>>) /\ at'[a] \in {"claim", "finish"}
  BY <1>3, <1>7, NothingPending DEF IsInjective
<1>11. ~Ends(written'[a], "request") /\ ~Ends(context'[a], "request")
  BY <1>4, <1>6, <1>7
<1>12. Whole(a)'
  BY <1>7, <1>8, <1>9, <1>10, <1>11 DEF Whole, Unprompted
<1>13. Answered'
  BY <1>6, <1>7 DEF Answered
<1> QED
  BY <1>8, <1>12, <1>13 DEF Wholly

(* What an attempt settles with holds each input once and ends in no request. *)
LEMMA SettleWholly ==
    ASSUME OnceInv, ~torn, NEW a \in Owners, Settle(a)
    PROVE  Wholly(a)
<1>0. Kept(a)
  BY SettleKeeps DEF OnceInv, OrderInv
<1>1. /\ CellsTyped /\ QueueMoves /\ Whole(a)
  BY <1>0, OnceFinds
<1>2. /\ at[a] \in {"finished", "halted"} /\ at' = [at EXCEPT ![a] = "leave"]
      /\ written' = [written EXCEPT ![a] = context[a]]
      /\ UNCHANGED <<context, draft, resumed, pending, seen>>
  BY DEF Settle, Goto, turnVars
<1>3. /\ context[a] \in Seq(Messages) /\ Once(context[a]) /\ ~Ends(context[a], "request")
      /\ draft[a].holds \in Seq(Inputs) /\ ~resumed[a]
  BY <1>1, <1>2 DEF CellsTyped, Whole, Messages
<1>4. /\ at'[a] = "leave" /\ written'[a] = context[a] /\ context'[a] = context[a]
      /\ draft'[a] = draft[a] /\ pending'[a] = pending[a] /\ seen'[a] = seen[a] /\ ~resumed'[a]
  BY <1>1, <1>2, <1>3 DEF CellsTyped
<1>5. \A h \in Seq(Messages) : Once(h) => Once(h)'
  BY <1>1, OnceStands
<1>6. Once(written[a])' /\ Once(context[a])' /\ Held(written'[a]) = Held(context'[a])
  BY <1>3, <1>4, <1>5
<1>7. NewDraft(a)'
  <2>1. \A i \in Range(draft[a].holds) : i \in Inputs
    BY <1>3, ElementOfSeq, LenProperties DEF Range
  <2>2. \A i \in Range(draft[a].holds) : Settled(i)' /\ i \notin Held(context'[a]) /\ i \notin seen'[a]
    BY <1>1, <1>4, <2>1 DEF Whole, NewDraft, QueueMoves
  <2> QED
    BY <1>1, <1>4, <2>2 DEF Whole, NewDraft
<1>8. Whole(a)'
  BY <1>1, <1>3, <1>4, <1>6, <1>7 DEF Whole, Unprompted
<1>9. CASE committed' = committed
  <2>1. ~Answering(a)
    BY <1>2 DEF Answering
  <2> QED
    BY <1>0, <1>8, <1>9, <2>1, QuietWholly
<1>10. CASE committed' = context[a]
  <2>1. Once(committed)'
    BY <1>3, <1>5, <1>10
  <2>2. Answered'
    BY <1>3, <1>10 DEF Answered
  <2> QED
    BY <1>8, <2>1, <2>2 DEF Wholly
<1> QED
  BY <1>9, <1>10 DEF Settle

(* An attempt that ends between turns leaves no request behind. *)
LEMMA GoneWholly ==
    ASSUME OnceInv, ~torn, NEW a \in Owners, Kept(a), Gone(a), UNCHANGED committed, ~Answering(a)
    PROVE  Wholly(a)
<1>1. CellsTyped
  BY OnceFinds
<1>2. /\ at' = [at EXCEPT ![a] = "over"]
      /\ context' = [context EXCEPT ![a] = <<>>] /\ written' = [written EXCEPT ![a] = <<>>]
      /\ draft' = [draft EXCEPT ![a] = Empty] /\ resumed' = [resumed EXCEPT ![a] = FALSE]
      /\ pending' = [pending EXCEPT ![a] = <<>>]
  BY DEF Gone, Goto
<1>3. /\ at'[a] = "over" /\ context'[a] = <<>> /\ written'[a] = <<>> /\ draft'[a].holds = <<>>
      /\ ~resumed'[a] /\ pending'[a] = <<>>
  BY <1>1, <1>2, MessageTypes DEF CellsTyped
<1>4. HoldsOnce(<<>>) /\ ~Ends(<<>>, "request") /\ IsInjective(<<>>)
  BY NothingPending DEF HoldsOnce, Ends, IsInjective
<1>5. Once(written[a])' /\ Once(context[a])'
  BY <1>3, <1>4, EmptyHistory DEF Once, Recorded
<1>6. NewDraft(a)' /\ Range(draft'[a].holds) = {}
  BY <1>3, <1>4, NothingPending DEF NewDraft
<1>7. Whole(a)'
  BY <1>3, <1>4, <1>5, <1>6 DEF Whole, Unprompted
<1> QED
  BY <1>7, QuietWholly

-----------------------------------------------------------------------------
(* Each input once: the theorem *)

(* Nothing has been written yet. *)
LEMMA OnceInitially == Init => OnceInv
<1> SUFFICES ASSUME Init PROVE OnceInv
  OBVIOUS
<1>1. OrderInv
  BY OrderInitially
<1>2. HoldsOnce(<<>>) /\ ~Ends(<<>>, "request") /\ IsInjective(<<>>)
  BY NothingPending DEF HoldsOnce, Ends, IsInjective
<1>3. Once(<<>>)
  BY <1>2, EmptyHistory DEF Once, Recorded
<1>4. ASSUME NEW a \in Owners PROVE Whole(a)
  <2>1. /\ at[a] = "new" /\ context[a] = <<>> /\ written[a] = <<>> /\ draft[a].holds = <<>>
        /\ pending[a] = <<>> /\ ~resumed[a]
    BY <1>4, MessageTypes DEF Init
  <2>2. NewDraft(a) /\ Range(draft[a].holds) = {}
    BY <1>2, <2>1, NothingPending DEF NewDraft
  <2> QED
    BY <1>2, <1>3, <2>1, <2>2 DEF Whole
<1>5. committed = <<>>
  BY DEF Init
<1> QED
  BY <1>1, <1>2, <1>3, <1>4, <1>5 DEF OnceInv, Untorn, Answered

(* Steps of the environment leave every attempt whole. *)
LEMMA OutsideOnce ==
    ASSUME OnceInv, UNCHANGED deliveryVars, QueueMoves, OrderInv'
    PROVE  OnceInv'
<1>0. OrderInv /\ CellsTyped /\ HistoryTyped
  BY DeliveryParts DEF OnceInv, OrderInv
<1>1. UNCHANGED <<at, own, written, context, draft, resumed, pending, seen, rounds, committed, torn>>
  BY DEF deliveryVars, attemptVars, turnVars, historyVars
<1>2. ASSUME ~torn' PROVE Once(committed)' /\ Answered' /\ \A b \in Owners : Whole(b)'
  <2>1. Once(committed) /\ Answered /\ \A b \in Owners : Whole(b)
    BY <1>1, <1>2 DEF OnceInv, Untorn
  <2>2. Once(committed)'
    BY <1>0, <1>1, <2>1, OnceStands DEF HistoryTyped
  <2>3. Answered'
    BY <1>1, <2>1 DEF Answered, Answering
  <2>4. ASSUME NEW b \in Owners PROVE Whole(b)'
    <3>1. Whole(b)
      BY <2>1
    <3>2. /\ pending[b] \in Seq(Inputs) /\ IsInjective(pending[b]) /\ ~resumed'[b]
          /\ at'[b] \in {"claim", "screen", "record"} => Range(pending[b]) \cap Held(context[b]) = {}
          /\ at'[b] = "admitprompt" => own'[b] \notin Held(context[b])
      BY <1>0, <1>1, <3>1 DEF Whole, CellsTyped
    <3> QED
      BY <1>0, <1>1, <3>1, <3>2, WholeOn
  <2> QED
    BY <2>2, <2>3, <2>4
<1> QED
  BY <1>2 DEF OnceInv, Untorn

(* What is torn stays so. *)
LEMMA TornStands ==
    ASSUME NEW a \in Owners, Begin(a) \/ AttemptStep(a) \/ Fail(a), ~torn'
    PROVE  ~torn
<1>1. CASE Begin(a) \/ EnqueuePrompt(a) \/ AdmitPrompt(a)
  BY <1>1 DEF Begin, EnqueuePrompt, AdmitPrompt, historyVars
<1>2. CASE OpenBranch(a) \/ Fail(a)
  BY <1>2 DEF OpenBranch, Fail
<1>3. CASE Claim(a) \/ Screen(a) \/ SteerAndRecord(a) \/ Admit(a)
  BY <1>3 DEF Claim, Screen, SteerAndRecord, RecordRequest, Admit, historyVars
<1>4. CASE AskModel(a) \/ RecordResponse(a) \/ DecideFinish(a) \/ Settle(a) \/ Leave(a)
  BY <1>4 DEF AskModel, RecordResponse, DecideFinish, Settle, Leave, historyVars
<1> QED
  BY <1>1, <1>2, <1>3, <1>4 DEF AttemptStep

(* Every step of an attempt leaves it whole, or something torn. *)
LEMMA StepWholly ==
    ASSUME OnceInv, NEW a \in Owners, Begin(a) \/ AttemptStep(a) \/ Fail(a), Kept(a), ~torn'
    PROVE  ~torn /\ Wholly(a)
<1>0. ~torn
  BY TornStands
<1>1. CASE Begin(a) \/ OpenBranch(a) \/ EnqueuePrompt(a) \/ AdmitPrompt(a)
  BY <1>0, <1>1, BeginWholly, OpenBranchWholly, EnqueuePromptWholly, AdmitPromptWholly
<1>2. CASE Claim(a) \/ Screen(a) \/ SteerAndRecord(a) \/ Admit(a)
  BY <1>0, <1>2, ClaimWholly, ScreenWholly, SteerAndRecordWholly, AdmitWholly
<1>3. CASE AskModel(a) \/ RecordResponse(a) \/ DecideFinish(a) \/ Settle(a)
  BY <1>0, <1>3, AskModelWholly, RecordResponseWholly, DecideFinishWholly, SettleWholly
<1>4. CASE Leave(a) \/ Fail(a)
  <2>1. Gone(a) /\ UNCHANGED committed
    BY <1>4 DEF Leave, Fail, historyVars
  <2>2. ~Answering(a)
    <3>1. CASE Leave(a)
      BY <3>1 DEF Leave, Answering
    <3>2. CASE Fail(a)
      BY <3>2 DEF Fail, Unsettled, Answering
    <3> QED
      BY <1>4, <3>1, <3>2
  <2> QED
    BY <1>0, <2>1, <2>2, GoneWholly
<1> QED
  BY <1>1, <1>2, <1>3, <1>4 DEF AttemptStep

(* Every step keeps the invariant. *)
LEMMA OncePreserved == OnceInv /\ [Next]_vars => OnceInv'
<1> SUFFICES ASSUME OnceInv, [Next]_vars PROVE OnceInv'
  OBVIOUS
<1>0. OrderInv /\ Store /\ OrderInv'
  BY DeliveryParts, OrderPreserved DEF OnceInv, OrderInv
<1>1. ASSUME NEW a \in Owners, Begin(a) \/ AttemptStep(a) \/ Fail(a) PROVE OnceInv'
  <2>1. Kept(a) /\ Ordered(a)
    BY <1>0, <1>1, StepOrdered
  <2>2. ~torn' => ~torn /\ Wholly(a)
    BY <1>1, <2>1, StepWholly
  <2> QED
    BY <2>1, <2>2, WhollyKeeps
<1>2. ASSUME UNCHANGED deliveryVars, QueueMoves PROVE OnceInv'
  BY <1>0, <1>2, OutsideOnce
<1>3. ASSUME NEW i \in Inputs, Submit(i) PROVE OnceInv'
  BY <1>0, <1>2, <1>3, EnqueueMoves DEF Submit
<1>4. CASE Lapse
  BY <1>0, <1>2, <1>4, LeaseMoves DEF Lapse
<1>5. CASE UNCHANGED vars
  BY <1>0, <1>2, <1>5, LeaseMoves DEF vars
<1> QED
  BY <1>1, <1>3, <1>4, <1>5 DEF Next

(* The invariant holds throughout. *)
LEMMA OnceInvariant == Spec => []OnceInv
BY OnceInitially, OncePreserved, PTL DEF Spec

(* As long as no attempt is cut off or overtaken between a request and its     *)
(* settlement, nobody's retried prompt, stale worker or late input gives an    *)
(* input a second place in the transcript.                                     *)
THEOREM DeliveryCarriedOnceUnlessTorn == Spec => []CarriedOnceUnlessTorn
<1>1. OnceInv => CarriedOnceUnlessTorn
  BY DEF OnceInv, Untorn, Once, CarriedOnceUnlessTorn
<1> QED
  BY <1>1, OnceInvariant, PTL

=============================================================================
