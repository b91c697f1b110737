------------------------ MODULE PulseSequencesProofs -------------------------
(***************************************************************************)
(* That the timing card is loaded with the sequences the ready programs    *)
(* registered last, wherever the sequence id tells apart the tables of     *)
(* ready clients that are triggered; and that it does so with one client   *)
(* in a trigger, and with one radar of at most three channels.  A table    *)
(* cached under an id stands for some table with that id whose merge it    *)
(* is: this is the invariant that an unchanged id may rely on.  What the   *)
(* loop over the clients computes is shown by induction over a set of      *)
(* natural numbers.                                                        *)
(***************************************************************************)
EXTENDS PulseSequences, WellFoundedInduction, SequenceTheorems, TLAPS

-----------------------------------------------------------------------------
(* The sequence id *)

(* Induction over the natural numbers, for a set in place of a predicate. *)
LEMMA SetInduction ==
  ASSUME NEW T, 0 \in T, \A k \in Nat : k \in T => k + 1 \in T
  PROVE  Nat \subseteq T
<1> DEFINE R == OpToRel(<, Nat)
<1> DEFINE B == Nat \ T
<1>1. \A x, y \in Nat : <<y, x>> \in R <=> y < x
  BY DEF OpToRel
<1>2. IsWellFoundedOn(R, Nat)
  BY NatLessThanWellFounded
<1> HIDE DEF R
<1>3. ASSUME B # {} PROVE FALSE
  <2>1. PICK x \in B : \A y \in B : ~(<<y, x>> \in R)
    BY <1>2, <1>3, WFMin, Zenon
  <2>2. x \in Nat /\ x # 0
    OBVIOUS
  <2>3. x - 1 \in Nat /\ x - 1 < x /\ (x - 1) + 1 = x
    BY <2>2
  <2>4. x - 1 \notin B
    BY <1>1, <2>1, <2>2, <2>3
  <2>5. (x - 1) + 1 \in T
    BY <2>3, <2>4
  <2> QED BY <2>1, <2>3, <2>5
<1> QED BY <1>3

(* The loop's sum exists for any list of numbers. *)
LEMMA SumExists ==
  ASSUME NEW n \in Nat, NEW w \in [1 .. n -> Nat]
  PROVE  \E f : f = [k \in 0 .. n |-> IF k = 0 THEN -1 ELSE f[k - 1] + w[k]]
<1> DEFINE Good(m, f) == f = [k \in 0 .. m |-> IF k = 0 THEN -1 ELSE f[k - 1] + w[k]]
<1> DEFINE T == {m \in Nat : m <= n => \E f : Good(m, f)}
<1>1. 0 \in T
  <2> DEFINE f0 == [k \in 0 .. 0 |-> -1]
  <2>1. Good(0, f0)
    OBVIOUS
  <2> QED BY <2>1
<1>2. ASSUME NEW m \in Nat, m \in T PROVE m + 1 \in T
  <2> SUFFICES ASSUME m + 1 <= n PROVE \E f : Good(m + 1, f)
    OBVIOUS
  <2>1. PICK g : Good(m, g)
    BY <1>2
  <2> DEFINE f1 == [k \in 0 .. m + 1 |-> IF k = m + 1 THEN g[m] + w[m + 1] ELSE g[k]]
  <2>2. Good(m + 1, f1)
    BY <2>1
  <2> QED BY <2>2
<1>3. n \in T
  <2> HIDE DEF T
  <2> QED BY <1>1, <1>2, SetInduction
<1> QED BY <1>3

LEMMA Numbers ==
  /\ MAX_RADARS \in Nat /\ MAX_CHANNELS \in Nat /\ Indexes \subseteq Nat
  /\ Long \subseteq Seqs /\ NULL \notin Seqs /\ NULL \notin Slots
<1>1. Slots \subseteq Nat \X Nat
  <2>1. 0 .. MAX_RADARS - 1 \subseteq Nat /\ 0 .. MAX_CHANNELS - 1 \subseteq Nat
    BY SequencesAssumption
  <2> QED BY <2>1 DEF Slots
<1>2. 0 .. 3 \subseteq Nat
  OBVIOUS
<1> QED BY <1>1, <1>2, SequencesAssumption, Zenon

LEMMA WeightNat ==
  ASSUME NEW e \in Slots \X Indexes
  PROVE  Weight(e) \in Nat /\ Weight(e) >= 1
<1>1. e[1] \in Slots /\ e[2] \in Indexes
  OBVIOUS
<1>2. e[2] \in Nat
  BY <1>1, Numbers, Zenon
<1>3. e[1][1] \in 0 .. MAX_RADARS - 1 /\ e[1][2] \in 0 .. MAX_CHANNELS - 1
  BY <1>1 DEF Slots
<1>4. e[1][1] \in Nat /\ e[1][2] \in Nat
  BY <1>3, Numbers
<1> DEFINE r == e[1][1]
<1> DEFINE c == e[1][2]
<1> DEFINE i == e[2]
<1>5. Weight(e) = 1000 * r + 100 * c + i + 1
  BY DEF Weight
<1> HIDE DEF r, c, i
<1>6. r \in Nat /\ c \in Nat /\ i \in Nat
  BY <1>2, <1>4 DEF r, c, i
<1> QED BY <1>5, <1>6

LEMMA IdSum ==
  ASSUME NEW t \in Seq(Slots \X Indexes)
  PROVE  \E f \in [0 .. Len(t) -> Int] :
            /\ IdOf(t) = f[Len(t)] /\ f[0] = -1
            /\ \A k \in 1 .. Len(t) : f[k] = f[k - 1] + Weight(t[k])
            /\ \A k \in 0 .. Len(t) : f[k] >= -1
<1> DEFINE n == Len(t)
<1> DEFINE w == [k \in 1 .. n |-> Weight(t[k])]
<1> DEFINE f == CHOOSE f : f = [k \in 0 .. n |-> IF k = 0 THEN -1 ELSE f[k - 1] + Weight(t[k])]
<1>1. n \in Nat /\ w \in [1 .. n -> Nat]
  <2>1. ASSUME NEW k \in 1 .. n PROVE Weight(t[k]) \in Nat
    BY WeightNat
  <2> QED BY <2>1
<1>2. f = [k \in 0 .. n |-> IF k = 0 THEN -1 ELSE f[k - 1] + Weight(t[k])]
  <2>1. PICK g : g = [k \in 0 .. n |-> IF k = 0 THEN -1 ELSE g[k - 1] + w[k]]
    BY <1>1, SumExists
  <2>2. \A k \in 0 .. n : k # 0 => k \in 1 .. n /\ w[k] = Weight(t[k])
    BY <1>1
  <2> HIDE DEF n, w
  <2>3. g = [k \in 0 .. n |-> IF k = 0 THEN -1 ELSE g[k - 1] + Weight(t[k])]
    BY <2>1, <2>2
  <2> QED BY <2>3
<1>3. IdOf(t) = f[n]
  BY DEF IdOf
<1> HIDE DEF f
<1>4. f[0] = -1 /\ \A k \in 1 .. n : f[k] = f[k - 1] + w[k]
  <2>1. \A k \in 1 .. n : k \in 0 .. n /\ k # 0 /\ w[k] = Weight(t[k])
    BY <1>1
  <2>2. 0 \in 0 .. n
    BY <1>1
  <2> HIDE DEF n, w
  <2> QED BY <1>2, <2>1, <2>2
<1> DEFINE T == {k \in Nat : k <= n => f[k] \in Int /\ f[k] >= -1}
<1>5. \A k \in Nat : k <= n => f[k] \in Int /\ f[k] >= -1
  <2>1. 0 \in T
    BY <1>4
  <2>2. ASSUME NEW k \in Nat, k \in T PROVE k + 1 \in T
    <3> SUFFICES ASSUME k + 1 <= n PROVE f[k + 1] \in Int /\ f[k + 1] >= -1
      OBVIOUS
    <3>1. f[k] \in Int /\ f[k] >= -1
      BY <1>1, <2>2
    <3>2. k + 1 \in 1 .. n /\ (k + 1) - 1 = k /\ w[k + 1] \in Nat
      BY <1>1
    <3>3. f[k + 1] = f[k] + w[k + 1]
      BY <1>4, <3>2
    <3> QED BY <3>1, <3>2, <3>3
  <2> HIDE DEF T
  <2>3. Nat \subseteq T
    BY <2>1, <2>2, SetInduction
  <2> QED BY <2>3 DEF T
<1>6. f \in [0 .. n -> Int]
  <2> HIDE DEF w
  <2> QED BY <1>1, <1>2, <1>5
<1>7. \A k \in 1 .. n : w[k] = Weight(t[k])
  OBVIOUS
<1> QED BY <1>1, <1>3, <1>4, <1>5, <1>6, <1>7

LEMMA IdInt ==
  ASSUME NEW t \in Seq(Slots \X Indexes)
  PROVE  IdOf(t) \in Int /\ IdOf(t) >= -1
<1>1. PICK f \in [0 .. Len(t) -> Int] : IdOf(t) = f[Len(t)] /\ \A k \in 0 .. Len(t) : f[k] >= -1
  BY IdSum
<1>2. Len(t) \in 0 .. Len(t)
  OBVIOUS
<1> QED BY <1>1, <1>2

-----------------------------------------------------------------------------
(* Types *)

LEMMA SomeClient == maxclients \in Nat /\ 0 < maxclients
<1>1. \A m, n \in Nat \ {0} : m * n \in Nat /\ 0 < m * n
  OBVIOUS
<1> QED BY <1>1, SequencesAssumption, Zenon DEF maxclients

LEMMA Extents ==
  ASSUME NEW q
  PROVE  Extent(q) \subseteq Positions
BY DEF Extent, Positions

LEMMA WaitingSlots ==
  ASSUME TypeOK
  PROVE  /\ Waiting \subseteq Slots
         /\ \A s : s \in Waiting <=> \E k \in DOMAIN clients : clients[k][1] = s
<1>1. \A s : s \in Waiting <=> \E k \in DOMAIN clients : clients[k][1] = s
  BY DEF Waiting, Range
<1>2. \A k \in DOMAIN clients : clients[k] \in Slots \X Indexes
  BY DEF TypeOK
<1>3. \A e \in Slots \X Indexes : e[1] \in Slots
  OBVIOUS
<1> QED BY <1>1, <1>2, <1>3, Zenon

LEMMA EnteredSeq ==
  ASSUME TypeOK, NEW s \in Slots, NEW i \in Indexes
  PROVE  Entered(s, i) \in Seq(Slots \X Indexes)
<1>1. CASE s \in Waiting
  <2> DEFINE u == [k \in DOMAIN clients |-> IF clients[k][1] = s THEN <<s, i>> ELSE clients[k]]
  <2>1. clients \in Seq(Slots \X Indexes) /\ DOMAIN clients = 1 .. Len(clients) /\ Len(clients) \in Nat
    BY DEF TypeOK
  <2>2. \A k \in 1 .. Len(clients) : u[k] \in Slots \X Indexes
    BY <2>1
  <2>3. u \in Seq(Slots \X Indexes)
    <3>1. u = [k \in 1 .. Len(clients) |-> u[k]]
      BY <2>1
    <3> HIDE DEF u
    <3> QED BY <2>1, <2>2, <3>1, IsASeq
  <2> QED BY <1>1, <2>3 DEF Entered
<1>2. CASE s \notin Waiting
  BY <1>2 DEF Entered, TypeOK
<1> QED BY <1>1, <1>2

LEMMA LongestType ==
  ASSUME TypeOK
  PROVE  /\ Longest \in {0} \cup Positions
         /\ \A s \in Waiting : \A j \in Extent(seq_buf[s]) : j <= Longest
         /\ Longest # 0 => \E s \in Waiting : Longest \in Extent(seq_buf[s])
<1> DEFINE S == {0} \cup UNION {Extent(seq_buf[s]) : s \in Waiting}
<1>1. S \subseteq {0, 1, 2} /\ 0 \in S
  BY Extents DEF Positions
<1>2. Longest = Max(S)
  BY DEF Longest
<1>3. \A s \in Waiting : Extent(seq_buf[s]) \subseteq S
  OBVIOUS
<1>4. \A x \in S : x # 0 => \E s \in Waiting : x \in Extent(seq_buf[s])
  OBVIOUS
<1> HIDE DEF S
<1>5. \E x \in S : \A y \in S : x >= y
  BY <1>1
<1>6. Max(S) \in S /\ \A y \in S : Max(S) >= y
  BY <1>5 DEF Max
<1>7. Longest \in S /\ Longest \in {0, 1, 2} /\ \A y \in S : y <= Longest
  BY <1>1, <1>2, <1>6
<1>8. Longest # 0 => \E s \in Waiting : Longest \in Extent(seq_buf[s])
  BY <1>4, <1>7, Zenon
<1>9. \A s \in Waiting : \A j \in Extent(seq_buf[s]) : j <= Longest
  BY <1>3, <1>7
<1> QED BY <1>7, <1>8, <1>9 DEF Positions

LEMMA TypeStep == TypeOK /\ [Next]_vars => TypeOK'
<1> SUFFICES ASSUME TypeOK, [Next]_vars PROVE TypeOK'
  OBVIOUS
<1> USE DEF TypeOK, server, driver
<1>1. ASSUME NEW p \in Programs, NEW s \in Slots, SET_RADAR_CHAN(p, s) PROVE TypeOK'
  BY <1>1 DEF SET_RADAR_CHAN
<1>2. ASSUME NEW p \in Programs, NEW i \in Indexes, SET_PARAMETERS(p, i) PROVE TypeOK'
  BY <1>2 DEF SET_PARAMETERS
<1>3. ASSUME NEW p \in Programs, NEW i \in Indexes, NEW q \in Seqs, REGISTER_SEQ(p, i, q)
      PROVE  TypeOK'
  BY <1>3 DEF REGISTER_SEQ, Forgotten
<1>4. ASSUME NEW p \in Programs, SET_READY_FLAG(p) PROVE TypeOK'
  <2> DEFINE s == slot[p]
  <2> DEFINE i == pulseseq_index[p]
  <2>1. s \in Slots /\ i \in Indexes
    BY <1>4 DEF SET_READY_FLAG
  <2>2. pulseseqs[s][i] \in Seqs \cup {NULL} /\ state_seqs[p][i] \in Seqs \cup {NULL}
    BY <2>1
  <2>3. Entered(s, i) \in Seq(Slots \X Indexes)
    BY <2>1, EnteredSeq
  <2>4. clients' \in Seq(Slots \X Indexes) /\ Len(clients') < maxclients
    BY <1>4, <2>3 DEF SET_READY_FLAG, READY
  <2>5. seq_buf' \in [Slots -> Seqs \cup {NULL}]
    BY <1>4, <2>1, <2>2 DEF SET_READY_FLAG, READY
  <2>6. wanted' \in [Slots -> Seqs \cup {NULL}]
    BY <1>4, <2>1, <2>2 DEF SET_READY_FLAG
  <2>7. ready' \in [Programs -> BOOLEAN]
    BY <1>4 DEF SET_READY_FLAG
  <2>8. UNCHANGED <<slot, state_seqs, pulseseq_index, refused, cycle, pulseseqs,
                    master_buf, max_seq_count, old_seq_id>>
    BY <1>4 DEF SET_READY_FLAG
  <2> QED BY <2>4, <2>5, <2>6, <2>7, <2>8
<1>5. ASSUME NEW p \in Programs, exit(p) PROVE TypeOK'
  BY <1>5 DEF exit, Forgotten, NoSeqs
<1>6. CASE PRETRIGGER
  <2>1. Merged \in [Positions -> SUBSET (Slots \X Seqs)]
    <3>1. ASSUME NEW j \in Positions, NEW t \in Waiting, j \in Extent(seq_buf[t])
          PROVE  <<t, seq_buf[t]>> \in Slots \X Seqs
      BY <3>1, WaitingSlots DEF Extent
    <3> QED BY <3>1 DEF Merged
  <2>2. Longest \in {0} \cup Positions
    BY LongestType
  <2>3. seq_id \in Int
    BY IdInt DEF seq_id
  <2>4. Remembered(seq_id) \in {-10} \cup Nat
    BY <2>3 DEF Remembered
  <2> QED BY <1>6, <2>1, <2>2, <2>4 DEF PRETRIGGER
<1>7. CASE POSTTRIGGER
  BY <1>7, SomeClient DEF POSTTRIGGER, Nothing
<1>8. CASE UNCHANGED vars
  BY <1>8 DEF vars
<1> QED BY <1>1, <1>2, <1>3, <1>4, <1>5, <1>6, <1>7, <1>8 DEF Next

(* The driver's tables, the buffers and the server's copies are well formed. *)
THEOREM TypeCorrect == Spec => []TypeOK
<1>1. Init => TypeOK
  BY SomeClient DEF Init, TypeOK, NoSeqs, Nothing
<1> QED BY <1>1, TypeStep, PTL DEF Spec

-----------------------------------------------------------------------------
(* What the cached master sequence stands for *)

(* The tables of ready clients that can come up: a slot is in one entry. *)
Tables ==
  {t \in Seq(Slots \X Indexes) :
     Len(t) < maxclients /\ \A k, l \in DOMAIN t : t[k][1] = t[l][1] => k = l}

(* The sequence id tells these tables apart. *)
Distinguished(Used) == \A t, u \in Used : IdOf(t) = IdOf(u) => Range(t) = Range(u)

(* All sequences have one length. *)
OneLength == Long = {} \/ Long = Seqs

(* The words the card is loaded with, and those of a set of entries. *)
Loaded(j) == IF j <= max_seq_count THEN master_buf[j] ELSE {}

Stored(e) == pulseseqs[e[1]][e[2]]

WordsOf(E, j) == {<<e[1], Stored(e)>> : e \in {d \in E : j \in Extent(Stored(d))}}

OwnSlots == \A p, q \in Programs : slot[p] = slot[q] /\ slot[p] # NULL => p = q

(* The driver has what its program believes to be registered. *)
Registered ==
  \A p \in Programs, i \in Indexes :
    Usable(p, i) => slot[p] # NULL /\ pulseseqs[slot[p]][i] = state_seqs[p][i]

(* What is unpacked for a waiting entry is still what is stored. *)
Unpacked ==
  /\ clients \in Tables
  /\ \A e \in Range(clients) :
       Stored(e) # NULL /\ seq_buf[e[1]] = Stored(e) /\ wanted[e[1]] = Stored(e)
  /\ \A s \in Slots : s \notin Waiting => wanted[s] = NULL

(* The id that is remembered is that of a table whose merge is loaded. *)
Cached(Used) ==
  old_seq_id # -10 =>
    \E t \in Used : IdOf(t) = old_seq_id /\ \A j \in Positions : Loaded(j) = WordsOf(Range(t), j)

Inv(Used) == OwnSlots /\ Registered /\ Unpacked /\ Cached(Used) /\ RegisteredSequenceUsed

(* A sequence fills the words of its one length. *)
LEMMA SameExtent ==
  ASSUME OneLength, NEW q \in Seqs, NEW r \in Seqs
  PROVE  Extent(q) = Extent(r) /\ 1 \in Extent(q) /\ (2 \in Extent(q) <=> Long = Seqs /\ Seqs # {})
BY Numbers DEF OneLength, Extent

(* Under one length nothing of an earlier master sequence is left, and the   *)
(* merge of the unpacked sequences is that of the stored and the wanted ones.*)
LEMMA MergeWords ==
  ASSUME TypeOK, Unpacked, OneLength, NEW j \in Positions
  PROVE  /\ (IF j <= Longest THEN Merged[j] ELSE {}) = WordsOf(Range(clients), j)
         /\ {<<s, wanted[s]>> : s \in {t \in Slots : j \in Extent(wanted[t])}}
              = WordsOf(Range(clients), j)
<1> DEFINE E == Range(clients)
<1>1. \A e \in E : /\ e[1] \in Waiting /\ e[1] \in Slots
                   /\ Stored(e) \in Seqs /\ seq_buf[e[1]] = Stored(e) /\ wanted[e[1]] = Stored(e)
  <2>1. \A e \in E : e \in Slots \X Indexes
    BY DEF TypeOK, Range
  <2>2. \A e \in E : e[1] \in Slots /\ e[2] \in Indexes
    BY <2>1
  <2>3. \A e \in E : Stored(e) \in Seqs
    BY <2>2 DEF TypeOK, Unpacked, Stored
  <2> QED BY <2>2, <2>3, Zenon DEF Unpacked, Waiting
<1>2. \A s \in Waiting : \E e \in E : e[1] = s
  BY DEF Waiting
<1>3. Extent(NULL) = {}
  BY DEF Extent
<1>4. WordsOf(E, j) = {<<s, wanted[s]>> : s \in {t \in Waiting : j \in Extent(wanted[t])}}
  BY <1>1, <1>2 DEF WordsOf
<1>5. {t \in Slots : j \in Extent(wanted[t])} = {t \in Waiting : j \in Extent(wanted[t])}
  BY <1>3, WaitingSlots DEF Unpacked
<1>6. \A s \in Waiting : seq_buf[s] = wanted[s] /\ seq_buf[s] \in Seqs
  BY <1>1, <1>2
<1>7. WordsOf(E, j) = {<<s, seq_buf[s]>> : s \in {t \in Waiting : j \in Extent(seq_buf[t])}}
  BY <1>4, <1>6
<1>8. (IF j <= Longest THEN Merged[j] ELSE {}) = WordsOf(E, j)
  <2>1. Longest \in {0, 1, 2} /\ j \in {1, 2}
    BY LongestType DEF Positions
  <2>2. CASE clients = <<>>
    <3>1. Waiting = {}
      BY <2>2, WaitingSlots
    <3>2. Longest = 0
      BY <3>1, LongestType
    <3> QED BY <1>7, <2>1, <3>1, <3>2
  <2>3. CASE clients # <<>>
    <3> DEFINE f == clients[1][1]
    <3>1. f \in Waiting
      <4>1. 1 \in DOMAIN clients
        BY <2>3 DEF TypeOK
      <4> QED BY <4>1, WaitingSlots
    <3>2. CASE j \in Extent(seq_buf[f])
      <4>1. j <= Longest
        BY <3>1, <3>2, LongestType
      <4>2. Merged[j] = {<<s, seq_buf[s]>> : s \in {t \in Waiting : j \in Extent(seq_buf[t])}}
        BY <2>3, <3>2 DEF Merged
      <4> QED BY <1>7, <4>1, <4>2
    <3>3. CASE j \notin Extent(seq_buf[f])
      <4>1. \A s \in Waiting : Extent(seq_buf[s]) = Extent(seq_buf[f]) /\ 1 \in Extent(seq_buf[s])
        BY <1>6, <3>1, SameExtent
      <4>2. j = 2
        BY <2>1, <3>1, <3>3, <4>1
      <4>3. Longest # 2
        BY <3>3, <4>1, <4>2, LongestType
      <4>4. ~(j <= Longest)
        BY <2>1, <4>2, <4>3
      <4>5. {t \in Waiting : j \in Extent(seq_buf[t])} = {}
        BY <3>3, <4>1
      <4> QED BY <1>7, <4>4, <4>5
    <3> QED BY <3>2, <3>3
  <2> QED BY <2>2, <2>3
<1> QED BY <1>4, <1>5, <1>8

(* What a step keeps that tells the driver nothing. *)
LEMMA DriverKept ==
  ASSUME NEW Used, Inv(Used), UNCHANGED <<pulseseqs, clients, seq_buf, master_buf, max_seq_count, wanted, cycle>>,
         old_seq_id' \in {old_seq_id, -10}
  PROVE  Unpacked' /\ Cached(Used)' /\ RegisteredSequenceUsed'
<1>1. \A e : Stored(e)' = Stored(e)
  BY DEF Stored
<1>2. \A E, j : WordsOf(E, j)' = WordsOf(E, j)
  BY DEF WordsOf, Stored
<1>3. \A j : Loaded(j)' = Loaded(j)
  BY DEF Loaded
<1>4. Unpacked'
  BY DEF Inv, Unpacked, Waiting, Stored
<1>5. Cached(Used)'
  BY <1>2, <1>3 DEF Inv, Cached
<1>6. RegisteredSequenceUsed'
  BY DEF Inv, RegisteredSequenceUsed
<1> QED BY <1>4, <1>5, <1>6

LEMMA CachedKept ==
  ASSUME NEW Used, Inv(Used), UNCHANGED <<pulseseqs, master_buf, max_seq_count, old_seq_id>>
  PROVE  Cached(Used)'
<1>1. \A E, j : WordsOf(E, j)' = WordsOf(E, j)
  BY DEF WordsOf, Stored
<1>2. \A j : Loaded(j)' = Loaded(j)
  BY DEF Loaded
<1> QED BY <1>1, <1>2 DEF Inv, Cached

LEMMA ChannelInv ==
  ASSUME NEW Used \in SUBSET Tables, TypeOK, Inv(Used), Habits = {}, NEW p \in Programs, NEW s \in Slots, SET_RADAR_CHAN(p, s)
  PROVE  Inv(Used)'
<1>1. slot' = [slot EXCEPT ![p] = s] /\ UNCHANGED <<state_seqs, refused>>
  BY DEF SET_RADAR_CHAN
<1>2. OwnSlots'
  BY <1>1 DEF TypeOK, Inv, OwnSlots, SET_RADAR_CHAN
<1>3. Registered'
  <2>1. \A i \in Indexes : ~Usable(p, i)
    BY DEF SET_RADAR_CHAN
  <2>2. \A q \in Programs, i \in Indexes : Usable(q, i)' <=> Usable(q, i)
    BY <1>1 DEF Usable
  <2>3. UNCHANGED pulseseqs
    BY DEF SET_RADAR_CHAN, driver
  <2> QED BY <1>1, <2>1, <2>2, <2>3 DEF TypeOK, Inv, Registered
<1>4. Unpacked' /\ Cached(Used)' /\ RegisteredSequenceUsed'
  BY DriverKept DEF SET_RADAR_CHAN, driver
<1> QED BY <1>2, <1>3, <1>4 DEF Inv

LEMMA ParametersInv ==
  ASSUME NEW Used \in SUBSET Tables, TypeOK, Inv(Used), NEW p \in Programs, NEW i \in Indexes, SET_PARAMETERS(p, i)
  PROVE  Inv(Used)'
<1>1. UNCHANGED <<slot, state_seqs, refused, pulseseqs>>
  BY DEF SET_PARAMETERS, driver
<1>2. OwnSlots' /\ Registered'
  BY <1>1 DEF Inv, OwnSlots, Registered, Usable
<1>3. Unpacked' /\ Cached(Used)' /\ RegisteredSequenceUsed'
  BY DriverKept DEF SET_PARAMETERS, driver
<1> QED BY <1>2, <1>3 DEF Inv

LEMMA RegisterInv ==
  ASSUME NEW Used \in SUBSET Tables, TypeOK, Inv(Used), Habits = {},
         NEW p \in Programs, NEW i \in Indexes, NEW q \in Seqs, REGISTER_SEQ(p, i, q)
  PROVE  Inv(Used)'
<1>1. /\ state_seqs' = [state_seqs EXCEPT ![p][i] = q] /\ cycle' = "idle"
      /\ UNCHANGED <<slot, clients, seq_buf, master_buf, max_seq_count, wanted, cycle>>
  BY DEF REGISTER_SEQ
<1>2. OwnSlots'
  BY <1>1 DEF Inv, OwnSlots
<1>3. \A r \in Programs, k \in Indexes :
         r # p \/ k # i => (Usable(r, k)' => Usable(r, k)) /\ state_seqs'[r][k] = state_seqs[r][k]
  BY <1>1 DEF TypeOK, REGISTER_SEQ, Usable
<1>4. CASE slot[p] = NULL
  <2>1. UNCHANGED <<pulseseqs, old_seq_id>>
    BY <1>4 DEF REGISTER_SEQ
  <2>2. ~Usable(p, i)'
    BY <1>4 DEF REGISTER_SEQ, Usable
  <2>3. Registered'
    BY <1>1, <1>3, <2>1, <2>2 DEF Inv, Registered
  <2>4. Unpacked' /\ Cached(Used)' /\ RegisteredSequenceUsed'
    BY <1>1, <2>1, DriverKept
  <2> QED BY <1>2, <2>3, <2>4 DEF Inv
<1>5. CASE slot[p] # NULL
  <2>1. slot[p] \in Slots /\ slot[p] \notin Waiting
    BY <1>5 DEF TypeOK, REGISTER_SEQ
  <2>2. pulseseqs' = [pulseseqs EXCEPT ![slot[p]][i] = q] /\ old_seq_id' = -10
    BY <1>5 DEF REGISTER_SEQ, Forgotten
  <2>3. /\ pulseseqs'[slot[p]][i] = q /\ state_seqs'[p][i] = q
        /\ \A t \in Slots, k \in Indexes :
              t # slot[p] \/ k # i => pulseseqs'[t][k] = pulseseqs[t][k]
    BY <1>1, <2>1, <2>2 DEF TypeOK
  <2>4. Registered'
    <3> SUFFICES ASSUME NEW r \in Programs, NEW k \in Indexes, Usable(r, k)'
                 PROVE  slot[r] # NULL /\ pulseseqs'[slot[r]][k] = state_seqs'[r][k]
      BY <1>1 DEF Registered
    <3>1. CASE r = p /\ k = i
      BY <1>5, <2>3, <3>1
    <3>2. CASE r # p \/ k # i
      <4>1. /\ slot[r] # NULL /\ pulseseqs[slot[r]][k] = state_seqs[r][k]
            /\ state_seqs'[r][k] = state_seqs[r][k]
        BY <1>3, <3>2 DEF Inv, Registered
      <4>2. slot[r] \in Slots /\ (slot[r] # slot[p] \/ k # i)
        BY <3>2, <4>1 DEF TypeOK, Inv, OwnSlots
      <4> QED BY <2>3, <4>1, <4>2
    <3> QED BY <3>1, <3>2
  <2>5. \A e \in Range(clients) : Stored(e)' = Stored(e)
    <3>1. \A e \in Range(clients) : e \in Slots \X Indexes
      BY DEF TypeOK, Range
    <3>2. \A e \in Range(clients) : e[1] \in Slots /\ e[2] \in Indexes /\ e[1] # slot[p]
      BY <2>1, <3>1 DEF Waiting
    <3> QED BY <2>3, <3>2 DEF Stored
  <2>6. Unpacked'
    BY <1>1, <2>5 DEF Inv, Unpacked, Waiting
  <2>7. Cached(Used)'
    BY <2>2 DEF Cached
  <2>8. RegisteredSequenceUsed'
    BY <1>1 DEF RegisteredSequenceUsed
  <2> QED BY <1>2, <2>4, <2>6, <2>7, <2>8 DEF Inv
<1> QED BY <1>4, <1>5

(* An entry is put in or replaced: the others stay, and no slot is twice. *)
LEMMA EnteredTable ==
  ASSUME TypeOK, clients \in Tables, NEW s \in Slots, NEW i \in Indexes,
         Len(Entered(s, i)) < maxclients
  PROVE  /\ Entered(s, i) \in Tables
         /\ <<s, i>> \in Range(Entered(s, i))
         /\ \A e \in Range(Entered(s, i)) :
               e = <<s, i>> \/ (e \in Range(clients) /\ e[1] # s)
         /\ \A e \in Range(clients) : e[1] # s => e \in Range(Entered(s, i))
<1> DEFINE u == Entered(s, i)
<1>1. u \in Seq(Slots \X Indexes)
  BY EnteredSeq
<1>2. /\ clients \in Seq(Slots \X Indexes) /\ DOMAIN clients = 1 .. Len(clients)
      /\ Len(clients) \in Nat
      /\ \A k, l \in DOMAIN clients : clients[k][1] = clients[l][1] => k = l
  BY DEF TypeOK, Tables
<1>3. CASE s \in Waiting
  <2>1. u = [k \in DOMAIN clients |-> IF clients[k][1] = s THEN <<s, i>> ELSE clients[k]]
    BY <1>3 DEF Entered
  <2>2. PICK n \in DOMAIN clients : clients[n][1] = s
    BY <1>3, WaitingSlots
  <2> HIDE DEF u
  <2>3. DOMAIN u = DOMAIN clients /\ u[n] = <<s, i>> /\ u[n][1] = s
    BY <2>1, <2>2
  <2>4. \A k \in DOMAIN clients : k # n => u[k] = clients[k] /\ u[k][1] # s
    BY <1>2, <2>1, <2>2
  <2>5. \A k, l \in DOMAIN u : u[k][1] = u[l][1] => k = l
    BY <1>2, <2>3, <2>4
  <2>6. /\ <<s, i>> \in Range(u)
        /\ \A e \in Range(u) : e = <<s, i>> \/ (e \in Range(clients) /\ e[1] # s)
        /\ \A e \in Range(clients) : e[1] # s => e \in Range(u)
    BY <2>2, <2>3, <2>4 DEF Range
  <2> QED BY <1>1, <2>5, <2>6 DEF Tables, u
<1>4. CASE s \notin Waiting
  <2>1. u = Append(clients, <<s, i>>)
    BY <1>4 DEF Entered
  <2>2. \A k \in DOMAIN clients : clients[k][1] # s
    BY <1>4, WaitingSlots
  <2> HIDE DEF u
  <2> DEFINE n == Len(clients) + 1
  <2>3. /\ DOMAIN u = 1 .. n /\ u[n] = <<s, i>>
        /\ \A k \in DOMAIN clients : u[k] = clients[k]
    BY <1>2, <2>1
  <2>4. \A k \in DOMAIN u : k = n \/ k \in DOMAIN clients
    BY <1>2, <2>3
  <2>5. n \in DOMAIN u /\ DOMAIN clients \subseteq DOMAIN u
    BY <1>2, <2>3
  <2>6. u[n][1] = s
    BY <2>3
  <2> HIDE DEF n
  <2>7. \A k, l \in DOMAIN u : u[k][1] = u[l][1] => k = l
    BY <1>2, <2>2, <2>3, <2>4, <2>6
  <2>8. /\ <<s, i>> \in Range(u)
        /\ \A e \in Range(u) : e = <<s, i>> \/ (e \in Range(clients) /\ e[1] # s)
        /\ \A e \in Range(clients) : e[1] # s => e \in Range(u)
    <3>1. <<s, i>> \in Range(u)
      BY <2>3, <2>5 DEF Range
    <3>2. ASSUME NEW k \in DOMAIN u
          PROVE  u[k] = <<s, i>> \/ (u[k] \in Range(clients) /\ u[k][1] # s)
      BY <2>2, <2>3, <2>4 DEF Range
    <3>3. ASSUME NEW k \in DOMAIN clients PROVE clients[k] \in Range(u)
      BY <2>3, <2>5 DEF Range
    <3> QED BY <3>1, <3>2, <3>3, Zenon DEF Range
  <2> QED BY <1>1, <2>7, <2>8 DEF Tables, u
<1> QED BY <1>3, <1>4

(* No slot is ever in two entries, whatever clients do. *)
Placed == clients \in Tables

LEMMA TablesPlaced == Spec => []Placed
<1>1. Init => Placed
  BY SomeClient DEF Init, Placed, Tables
<1>2. ASSUME TypeOK, Placed, [Next]_vars PROVE Placed'
  <2>1. ASSUME NEW p \in Programs, SET_READY_FLAG(p) PROVE Placed'
    <3> DEFINE s == slot[p]
    <3> DEFINE i == pulseseq_index[p]
    <3>1. s \in Slots /\ i \in Indexes
      BY <1>2, <2>1 DEF TypeOK, SET_READY_FLAG
    <3>2. \/ clients' = clients
          \/ clients' = Entered(s, i) /\ Len(Entered(s, i)) < maxclients
      BY <2>1 DEF SET_READY_FLAG, READY
    <3> QED BY <1>2, <3>1, <3>2, EnteredTable DEF Placed
  <2>2. CASE POSTTRIGGER
    BY <2>2, SomeClient DEF POSTTRIGGER, Placed, Tables
  <2>3. CASE UNCHANGED clients
    BY <1>2, <2>3 DEF Placed
  <2> QED BY <1>2, <2>1, <2>2, <2>3
          DEF Next, vars, driver, SET_RADAR_CHAN, SET_PARAMETERS, REGISTER_SEQ, exit, PRETRIGGER
<1> QED BY <1>1, <1>2, TypeCorrect, PTL DEF Spec

LEMMA ReadyInv ==
  ASSUME NEW Used \in SUBSET Tables, TypeOK, Inv(Used), NEW p \in Programs, SET_READY_FLAG(p)
  PROVE  Inv(Used)'
<1> DEFINE s == slot[p]
<1> DEFINE i == pulseseq_index[p]
<1>1. /\ cycle' = "idle" /\ s \in Slots /\ i \in Indexes /\ <<p, i>> \notin refused
      /\ UNCHANGED <<slot, state_seqs, refused, cycle, pulseseqs, master_buf, max_seq_count,
                     old_seq_id>>
  BY DEF TypeOK, SET_READY_FLAG
<1>2. OwnSlots' /\ Registered'
  BY <1>1 DEF Inv, OwnSlots, Registered, Usable
<1>3. Cached(Used)' /\ RegisteredSequenceUsed'
  BY <1>1, CachedKept DEF RegisteredSequenceUsed
<1>4. CASE state_seqs[p][i] = NULL
  <2>1. UNCHANGED <<clients, seq_buf, wanted>>
    BY <1>4 DEF SET_READY_FLAG
  <2> QED BY <1>1, <1>2, <1>3, <2>1, DriverKept DEF Inv
<1>5. CASE state_seqs[p][i] # NULL
  <2>1. pulseseqs[s][i] = state_seqs[p][i]
    BY <1>1, <1>5 DEF Inv, Registered, Usable
  <2>2. /\ clients' = Entered(s, i) /\ Len(Entered(s, i)) < maxclients
        /\ seq_buf' = [seq_buf EXCEPT ![s] = pulseseqs[s][i]]
        /\ wanted' = [wanted EXCEPT ![s] = state_seqs[p][i]]
    BY <1>5 DEF SET_READY_FLAG, READY
  <2>3. /\ clients' \in Tables /\ <<s, i>> \in Range(clients')
        /\ \A e \in Range(clients') : e = <<s, i>> \/ (e \in Range(clients) /\ e[1] # s)
        /\ \A e \in Range(clients) : e[1] # s => e \in Range(clients')
    BY <1>1, <2>2, EnteredTable DEF Inv, Unpacked
  <2>4. \A e : Stored(e)' = Stored(e)
    BY <1>1 DEF Stored
  <2>5. /\ seq_buf'[s] = pulseseqs[s][i] /\ wanted'[s] = pulseseqs[s][i]
        /\ \A t \in Slots : t # s => seq_buf'[t] = seq_buf[t] /\ wanted'[t] = wanted[t]
    BY <1>1, <2>1, <2>2 DEF TypeOK
  <2>6. ASSUME NEW e \in Range(clients')
        PROVE  Stored(e) # NULL /\ seq_buf'[e[1]] = Stored(e) /\ wanted'[e[1]] = Stored(e)
    <3>1. CASE e = <<s, i>>
      BY <1>5, <2>1, <2>5, <3>1 DEF Stored
    <3>2. CASE e \in Range(clients) /\ e[1] # s
      <4>1. e \in Slots \X Indexes
        BY <3>2 DEF TypeOK, Range
      <4> QED BY <2>5, <3>2, <4>1 DEF Inv, Unpacked
    <3> QED BY <2>3, <3>1, <3>2
  <2>7. ASSUME NEW t \in Slots, t \notin Waiting' PROVE wanted'[t] = NULL
    <3>1. \A e \in Range(clients') : e[1] # t
      BY <2>7 DEF Waiting
    <3>2. t # s
      BY <2>3, <3>1
    <3>3. t \notin Waiting
      BY <2>3, <3>1, <3>2 DEF Waiting
    <3> QED BY <2>5, <3>2, <3>3 DEF Inv, Unpacked
  <2>8. Unpacked'
    BY <2>3, <2>4, <2>6, <2>7 DEF Unpacked
  <2> QED BY <1>2, <1>3, <2>8 DEF Inv
<1> QED BY <1>4, <1>5

LEMMA PretriggerInv ==
  ASSUME NEW Used \in SUBSET Tables, TypeOK, Inv(Used), OneLength, Distinguished(Used), PRETRIGGER,
         clients \in Used
  PROVE  Inv(Used)'
<1>1. UNCHANGED <<slot, state_seqs, refused, pulseseqs, clients, seq_buf, wanted>>
  BY DEF PRETRIGGER, server
<1>2. OwnSlots' /\ Registered'
  BY <1>1 DEF Inv, OwnSlots, Registered, Usable
<1>3. Unpacked'
  BY <1>1 DEF Inv, Unpacked, Waiting, Stored
<1>4. \A E, j : WordsOf(E, j)' = WordsOf(E, j)
  BY <1>1 DEF WordsOf, Stored
<1>5. clients \in Used /\ seq_id = IdOf(clients) /\ seq_id \in Int /\ seq_id >= -1
  BY IdInt DEF Inv, Unpacked, TypeOK, seq_id
<1>6. \A j \in Positions : Loaded(j)' = WordsOf(Range(clients), j)
  <2>1. CASE seq_id # old_seq_id
    <3>1. master_buf' = Merged /\ max_seq_count' = Longest
      BY <2>1 DEF PRETRIGGER
    <3> QED BY <3>1, MergeWords DEF Inv, Loaded
  <2>2. CASE seq_id = old_seq_id
    <3>1. UNCHANGED <<master_buf, max_seq_count>>
      BY <2>2 DEF PRETRIGGER
    <3>2. old_seq_id # -10
      BY <1>5, <2>2
    <3>3. PICK t \in Used : /\ IdOf(t) = old_seq_id
                            /\ \A j \in Positions : Loaded(j) = WordsOf(Range(t), j)
      BY <3>2 DEF Inv, Cached
    <3>4. Range(t) = Range(clients)
      BY <1>5, <2>2, <3>3 DEF Distinguished
    <3> QED BY <3>1, <3>3, <3>4 DEF Loaded
  <2> QED BY <2>1, <2>2
<1>7. Cached(Used)'
  <2> SUFFICES ASSUME old_seq_id' # -10
               PROVE  \E t \in Used : /\ IdOf(t) = old_seq_id'
                                      /\ \A j \in Positions : Loaded(j)' = WordsOf(Range(t), j)'
    BY DEF Cached
  <2>1. old_seq_id' = IdOf(clients)
    BY <1>5 DEF PRETRIGGER, Remembered
  <2> QED BY <1>4, <1>5, <1>6, <2>1
<1>8. RegisteredSequenceUsed'
  <2>1. \A j \in Positions :
           {<<s, wanted[s]>> : s \in {t \in Slots : j \in Extent(wanted[t])}} = Loaded(j)'
    BY <1>6, MergeWords DEF Inv
  <2> QED BY <1>1, <2>1 DEF RegisteredSequenceUsed, Loaded
<1> QED BY <1>2, <1>3, <1>7, <1>8 DEF Inv

LEMMA PosttriggerInv ==
  ASSUME NEW Used \in SUBSET Tables, TypeOK, Inv(Used), POSTTRIGGER
  PROVE  Inv(Used)'
<1>1. /\ clients' = <<>> /\ wanted' = Nothing /\ cycle' = "idle"
      /\ UNCHANGED <<slot, state_seqs, refused, pulseseqs, master_buf, max_seq_count, old_seq_id>>
  BY DEF POSTTRIGGER
<1>2. OwnSlots' /\ Registered'
  BY <1>1 DEF Inv, OwnSlots, Registered, Usable
<1>3. Cached(Used)' /\ RegisteredSequenceUsed'
  BY <1>1, CachedKept DEF RegisteredSequenceUsed
<1>4. <<>> \in Tables /\ Range(<<>>) = {}
  BY SomeClient DEF Tables, Range
<1>5. Unpacked'
  BY <1>1, <1>4 DEF Unpacked, Nothing
<1> QED BY <1>2, <1>3, <1>5 DEF Inv

LEMMA ExitInv ==
  ASSUME NEW Used \in SUBSET Tables, TypeOK, Inv(Used), NEW p \in Programs, exit(p)
  PROVE  Inv(Used)'
<1>1. /\ slot' = [slot EXCEPT ![p] = NULL] /\ state_seqs' = [state_seqs EXCEPT ![p] = NoSeqs]
      /\ refused' = refused \ ({p} \X Indexes)
      /\ UNCHANGED <<pulseseqs, clients, seq_buf, master_buf, max_seq_count, wanted, cycle>>
      /\ old_seq_id' = -10
  BY DEF exit, Forgotten
<1>2. OwnSlots'
  BY <1>1 DEF TypeOK, Inv, OwnSlots
<1>3. \A i \in Indexes : ~Usable(p, i)'
  BY <1>1 DEF TypeOK, Usable, NoSeqs
<1>4. \A q \in Programs, i \in Indexes :
         q # p => /\ Usable(q, i)' => Usable(q, i)
                  /\ slot'[q] = slot[q] /\ state_seqs'[q] = state_seqs[q]
  BY <1>1 DEF TypeOK, Usable
<1>5. Registered'
  BY <1>1, <1>3, <1>4 DEF Inv, Registered
<1>6. Unpacked' /\ Cached(Used)' /\ RegisteredSequenceUsed'
  BY <1>1, DriverKept
<1> QED BY <1>2, <1>5, <1>6 DEF Inv

LEMMA InitInv ==
  ASSUME NEW Used
  PROVE  Init => Inv(Used)
<1> SUFFICES ASSUME Init PROVE Inv(Used)
  OBVIOUS
<1>1. <<>> \in Tables /\ Range(<<>>) = {}
  BY SomeClient DEF Tables, Range
<1>2. Unpacked
  BY <1>1 DEF Init, Unpacked, Nothing
<1>3. OwnSlots /\ Registered /\ Cached(Used) /\ RegisteredSequenceUsed
  BY DEF Init, OwnSlots, Registered, Usable, NoSeqs, Cached, RegisteredSequenceUsed
<1> QED BY <1>2, <1>3 DEF Inv

LEMMA NextInv ==
  ASSUME NEW Used \in SUBSET Tables, TypeOK, Inv(Used), Habits = {}, OneLength, Distinguished(Used),
         (cycle = "armed" => clients \in Used)', [Next]_vars
  PROVE  Inv(Used)'
<1>1. CASE UNCHANGED vars
  <2>1. OwnSlots' /\ Registered'
    BY <1>1 DEF vars, server, driver, Inv, OwnSlots, Registered, Usable
  <2>2. Unpacked' /\ Cached(Used)' /\ RegisteredSequenceUsed'
    BY <1>1, DriverKept DEF vars, driver
  <2> QED BY <2>1, <2>2 DEF Inv
<1>2. CASE PRETRIGGER
  BY <1>2, PretriggerInv DEF PRETRIGGER
<1> QED BY <1>1, <1>2, ChannelInv, ParametersInv, RegisterInv, ReadyInv, ExitInv,
           PosttriggerInv DEF Next

(***************************************************************************)
(* "registered pulse sequence to use": the timing driver loads the merge   *)
(* of what the ready programs had registered, from the cached master       *)
(* sequence too, for any number of programs, channels and sequences of one *)
(* length, as long as the sequence id of TIMING_PRETRIGGER tells apart the *)
(* tables of ready clients that are triggered, and clients keep their      *)
(* channel and register nothing on one that waits for its trigger.         *)
(***************************************************************************)
THEOREM RegisteredSequenceUsedHolds ==
  ASSUME Habits = {}, OneLength, NEW Used \in SUBSET Tables, Distinguished(Used)
  PROVE  Spec /\ [](cycle = "armed" => clients \in Used) => []RegisteredSequenceUsed
<1>1. Init => Inv(Used)
  BY InitInv
<1>2. TypeOK /\ Inv(Used) /\ (cycle = "armed" => clients \in Used)' /\ [Next]_vars => Inv(Used)'
  BY NextInv
<1>3. Inv(Used) => RegisteredSequenceUsed
  BY DEF Inv
<1> QED BY <1>1, <1>2, <1>3, TypeCorrect, PTL DEF Spec

-----------------------------------------------------------------------------
(* Where the sequence id tells the tables apart *)

LEMMA ShortTables ==
  ASSUME NEW t \in Seq(Slots \X Indexes)
  PROVE  /\ Len(t) = 0 => Range(t) = {} /\ IdOf(t) = -1
         /\ Len(t) = 1 => Range(t) = {t[1]} /\ IdOf(t) = Weight(t[1]) - 1
         /\ Len(t) = 2 => Range(t) = {t[1], t[2]} /\ IdOf(t) = Weight(t[1]) + Weight(t[2]) - 1
<1>1. PICK f \in [0 .. Len(t) -> Int] :
         /\ IdOf(t) = f[Len(t)] /\ f[0] = -1
         /\ \A k \in 1 .. Len(t) : f[k] = f[k - 1] + Weight(t[k])
  BY IdSum
<1>2. DOMAIN t = 1 .. Len(t) /\ \A k \in 1 .. Len(t) : Weight(t[k]) \in Nat
  BY WeightNat
<1>3. CASE Len(t) = 0
  BY <1>1, <1>2, <1>3 DEF Range
<1>4. CASE Len(t) = 1
  <2>1. DOMAIN t = {1}
    BY <1>2, <1>4
  <2>2. f[1] = f[0] + Weight(t[1]) /\ Weight(t[1]) \in Nat
    BY <1>1, <1>2, <1>4
  <2> QED BY <1>1, <1>4, <2>1, <2>2 DEF Range
<1>5. CASE Len(t) = 2
  <2>1. DOMAIN t = {1, 2}
    BY <1>2, <1>5
  <2>2. /\ f[1] = f[0] + Weight(t[1]) /\ Weight(t[1]) \in Nat
        /\ f[2] = f[1] + Weight(t[2]) /\ Weight(t[2]) \in Nat
    BY <1>1, <1>2, <1>5
  <2> QED BY <1>1, <1>5, <2>1, <2>2 DEF Range
<1> QED BY <1>3, <1>4, <1>5

(* The digits of a weight are the radar, the channel and the index. *)
LEMMA WeightTells ==
  ASSUME MAX_CHANNELS <= 10, NEW e \in Slots \X Indexes, NEW g \in Slots \X Indexes,
         Weight(e) = Weight(g)
  PROVE  e = g
<1> DEFINE r == e[1][1]
<1> DEFINE c == e[1][2]
<1> DEFINE i == e[2]
<1> DEFINE x == g[1][1]
<1> DEFINE y == g[1][2]
<1> DEFINE z == g[2]
<1>1. e = <<<<r, c>>, i>> /\ g = <<<<x, y>>, z>>
  BY DEF Slots
<1>2. r \in Nat /\ x \in Nat /\ c \in 0 .. 9 /\ y \in 0 .. 9
  BY SequencesAssumption DEF Slots
<1>3. i \in 0 .. 3 /\ z \in 0 .. 3
  BY SequencesAssumption, Zenon
<1>4. 1000 * r + 100 * c + i + 1 = 1000 * x + 100 * y + z + 1
  BY DEF Weight
<1> HIDE DEF r, c, i, x, y, z
<1>5. r = x /\ c = y /\ i = z
  BY <1>2, <1>3, <1>4
<1> QED BY <1>1, <1>5

OneClient == {t \in Tables : Len(t) <= 1}

LEMMA OneClientTable ==
  ASSUME NEW t \in OneClient
  PROVE  \/ Range(t) = {} /\ IdOf(t) = -1
         \/ \E e \in Slots \X Indexes : Range(t) = {e} /\ IdOf(t) = Weight(e) - 1
<1>1. t \in Seq(Slots \X Indexes) /\ Len(t) <= 1
  BY DEF OneClient, Tables
<1>2. Len(t) = 0 \/ Len(t) = 1
  <2>1. Len(t) \in Nat
    BY ONLY <1>1, LenProperties, Zenon
  <2>2. \A n \in Nat : n <= 1 => n = 0 \/ n = 1
    OBVIOUS
  <2>3. Len(t) <= 1
    BY <1>1
  <2> QED BY ONLY <2>1, <2>2, <2>3, Zenon
<1>3. CASE Len(t) = 1
  <2>1. t[1] \in Slots \X Indexes
    BY <1>1, <1>3
  <2> QED BY <1>1, <1>3, <2>1, ShortTables
<1> QED BY <1>1, <1>2, <1>3, ShortTables

LEMMA OneClientDistinguished ==
  ASSUME MAX_CHANNELS <= 10
  PROVE  Distinguished(OneClient)
<1> SUFFICES ASSUME NEW t \in OneClient, NEW u \in OneClient, IdOf(t) = IdOf(u)
             PROVE  Range(t) = Range(u)
  BY DEF Distinguished
<1>1. \A e \in Slots \X Indexes : Weight(e) \in Nat /\ Weight(e) - 1 # -1
  BY WeightNat
<1>2. CASE IdOf(t) = -1
  BY <1>1, <1>2, OneClientTable
<1>3. CASE IdOf(t) # -1
  <2>1. PICK e \in Slots \X Indexes : Range(t) = {e} /\ IdOf(t) = Weight(e) - 1
    BY <1>3, OneClientTable
  <2>2. PICK g \in Slots \X Indexes : Range(u) = {g} /\ IdOf(u) = Weight(g) - 1
    BY <1>3, OneClientTable
  <2>3. Weight(e) \in Nat /\ Weight(g) \in Nat /\ Weight(e) - 1 = Weight(g) - 1
    BY <1>1, <2>1, <2>2
  <2>4. Weight(e) = Weight(g)
    BY <2>3
  <2> QED BY <2>1, <2>2, <2>4, WeightTells
<1> QED BY <1>2, <1>3

(***************************************************************************)
(* With at most one client in a trigger, up to ten channels a radar and    *)
(* all indexes, the card is loaded with what the ready program had         *)
(* registered: this holds for the two radars of four channels of site.h.   *)
(***************************************************************************)
THEOREM OneClientUsesRegistered ==
  ASSUME Habits = {}, OneLength, MAX_CHANNELS <= 10
  PROVE  Spec /\ [](cycle = "armed" => Len(clients) <= 1) => []RegisteredSequenceUsed
<1>1. Init => Inv(OneClient)
  BY InitInv
<1>2. TypeOK /\ Inv(OneClient) /\ (cycle = "armed" => clients \in OneClient)' /\ [Next]_vars
        => Inv(OneClient)'
  <2>1. OneClient \in SUBSET Tables
    BY DEF OneClient
  <2> QED BY <2>1, OneClientDistinguished, NextInv
<1>3. Placed /\ (cycle = "armed" => Len(clients) <= 1) => (cycle = "armed" => clients \in OneClient)
  BY DEF Placed, OneClient
<1>4. Inv(OneClient) => RegisteredSequenceUsed
  BY DEF Inv
<1> QED BY <1>1, <1>2, <1>3, <1>4, TypeCorrect, TablesPlaced, PTL DEF Spec

(* The sum of the channel numbers and the number of clients tell which of    *)
(* three channels are ready.                                                 *)
LEMMA OneRadarDistinguished ==
  ASSUME MAX_RADARS = 1, MAX_CHANNELS <= 3, Indexes = {0}
  PROVE  Distinguished(Tables)
<1>1. Slots \X Indexes \subseteq {<<<<0, 0>>, 0>>, <<<<0, 1>>, 0>>, <<<<0, 2>>, 0>>}
  <2>1. MAX_CHANNELS \in {1, 2, 3}
    BY SequencesAssumption
  <2> QED BY <2>1 DEF Slots
<1>2. maxclients <= 3 /\ maxclients \in Nat
  BY SequencesAssumption DEF maxclients
<1>3. ASSUME NEW t \in Tables
      PROVE  \/ Range(t) = {} /\ IdOf(t) = -1
             \/ \E c \in {0, 1, 2} : Range(t) = {<<<<0, c>>, 0>>} /\ IdOf(t) = 100 * c
             \/ \E c, d \in {0, 1, 2} :
                  c < d /\ Range(t) = {<<<<0, c>>, 0>>, <<<<0, d>>, 0>>} /\ IdOf(t) = 100 * (c + d) + 1
  <2>1. t \in Seq(Slots \X Indexes) /\ Len(t) \in {0, 1, 2} /\ DOMAIN t = 1 .. Len(t)
    <3>1. t \in Seq(Slots \X Indexes) /\ Len(t) < maxclients
      BY Zenon DEF Tables
    <3>2. Len(t) \in Nat /\ DOMAIN t = 1 .. Len(t)
      BY <3>1
    <3> HIDE DEF maxclients
    <3> QED BY <1>2, <3>1, <3>2
  <2>2. ASSUME NEW k \in DOMAIN t
        PROVE  \E c \in {0, 1, 2} : t[k] = <<<<0, c>>, 0>> /\ t[k][1] = <<0, c>> /\ Weight(t[k]) = 100 * c + 1
    <3>1. t[k] \in {<<<<0, 0>>, 0>>, <<<<0, 1>>, 0>>, <<<<0, 2>>, 0>>}
      BY <1>1, <2>1
    <3>2. PICK c \in {0, 1, 2} : t[k] = <<<<0, c>>, 0>>
      BY <3>1
    <3>3. Weight(t[k]) = 100 * c + 1
      BY <3>2 DEF Weight
    <3> QED BY <3>2, <3>3
  <2>3. CASE Len(t) = 0
    BY <2>1, <2>3, ShortTables
  <2>4. CASE Len(t) = 1
    <3>1. PICK c \in {0, 1, 2} : t[1] = <<<<0, c>>, 0>> /\ Weight(t[1]) = 100 * c + 1
      BY <2>1, <2>2, <2>4
    <3>2. Range(t) = {t[1]} /\ IdOf(t) = Weight(t[1]) - 1
      BY <2>1, <2>4, ShortTables
    <3> QED BY <3>1, <3>2
  <2>5. CASE Len(t) = 2
    <3>1. PICK c \in {0, 1, 2} : t[1] = <<<<0, c>>, 0>> /\ t[1][1] = <<0, c>> /\ Weight(t[1]) = 100 * c + 1
      BY <2>1, <2>2, <2>5
    <3>2. PICK d \in {0, 1, 2} : t[2] = <<<<0, d>>, 0>> /\ t[2][1] = <<0, d>> /\ Weight(t[2]) = 100 * d + 1
      BY <2>1, <2>2, <2>5
    <3>3. Range(t) = {t[1], t[2]} /\ IdOf(t) = Weight(t[1]) + Weight(t[2]) - 1
      BY <2>1, <2>5, ShortTables
    <3>4. c # d
      <4>1. 1 \in DOMAIN t /\ 2 \in DOMAIN t
        BY <2>1, <2>5
      <4>2. t[1][1] # t[2][1]
        BY <4>1 DEF Tables
      <4> QED BY <3>1, <3>2, <4>2
    <3>5. CASE c < d
      BY <3>1, <3>2, <3>3, <3>5
    <3>6. CASE d < c
      <4>1. Range(t) = {<<<<0, d>>, 0>>, <<<<0, c>>, 0>>} /\ IdOf(t) = 100 * (d + c) + 1
        BY <3>1, <3>2, <3>3
      <4> QED BY <3>6, <4>1
    <3> QED BY <3>4, <3>5, <3>6
  <2> QED BY <2>1, <2>3, <2>4, <2>5
<1> SUFFICES ASSUME NEW t \in Tables, NEW u \in Tables, IdOf(t) = IdOf(u)
             PROVE  Range(t) = Range(u)
  BY DEF Distinguished
<1> DEFINE One(c) == {<<<<0, c>>, 0>>}
<1> DEFINE Two(c, d) == {<<<<0, c>>, 0>>, <<<<0, d>>, 0>>}
<1> DEFINE Known(S, n) == \/ S = {} /\ n = -1
                          \/ S = One(0) /\ n = 0
                          \/ S = One(1) /\ n = 100
                          \/ S = One(2) /\ n = 200
                          \/ S = Two(0, 1) /\ n = 101
                          \/ S = Two(0, 2) /\ n = 201
                          \/ S = Two(1, 2) /\ n = 301
<1>4. ASSUME NEW v \in Tables PROVE Known(Range(v), IdOf(v))
  <2>1. \/ Range(v) = {} /\ IdOf(v) = -1
        \/ \E c \in {0, 1, 2} : Range(v) = One(c) /\ IdOf(v) = 100 * c
        \/ \E c, d \in {0, 1, 2} : c < d /\ Range(v) = Two(c, d) /\ IdOf(v) = 100 * (c + d) + 1
    BY <1>3
  <2> HIDE DEF One, Two
  <2> QED BY <2>1
<1> HIDE DEF One, Two
<1> QED BY <1>4

(***************************************************************************)
(* One radar with up to three channels and clients that keep to the first  *)
(* index, the sizes of the run: the card is loaded with what the ready     *)
(* programs had registered.                                                *)
(***************************************************************************)
THEOREM OneRadarUsesRegistered ==
  ASSUME Habits = {}, OneLength, MAX_RADARS = 1, MAX_CHANNELS <= 3, Indexes = {0}
  PROVE  Spec => []RegisteredSequenceUsed
<1>1. Init => Inv(Tables)
  BY InitInv
<1>2. TypeOK /\ Inv(Tables) /\ Placed' /\ [Next]_vars => Inv(Tables)'
  BY OneRadarDistinguished, NextInv DEF Placed
<1>3. Inv(Tables) => RegisteredSequenceUsed
  BY DEF Inv
<1> QED BY <1>1, <1>2, <1>3, TypeCorrect, TablesPlaced, PTL DEF Spec
==============================================================================
