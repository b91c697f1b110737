------------------------- MODULE RadarChannelsProofs -------------------------
(***************************************************************************)
(* Theorems about RadarChannels, for any number of programs, radars and    *)
(* channels.                                                               *)
(***************************************************************************)
EXTENDS RadarChannels, WellFoundedInduction, TLAPS

(* What register_radar_channel's scan grants was free: the scan itself is not *)
(* looked into any further.                                                  *)
LEMMA GrantedIsFree ==
  ASSUME NEW free, NEW radar, NEW channel
  PROVE  granted(free, radar, channel) \subseteq free
BY DEF granted

(* unregister_radar_channel takes nothing from another program. *)
LEMMA Unregister ==
  ASSUME TypeOK, NEW p \in Programs
  PROVE  /\ unregister(p) \in [Slots -> Programs \cup {NULL}]
         /\ \A s \in Slots : unregister(p)[s] # p
         /\ \A s \in Slots : unregister(p)[s] # NULL => unregister(p)[s] = radar_channels[s]
         /\ \A s \in Slots : radar_channels[s] # p => unregister(p)[s] = radar_channels[s]
BY ChannelsAssumption DEF TypeOK, unregister

(* The two outcomes of SET_RADAR_CHAN. *)
LEMMA Registration ==
  ASSUME TypeOK, NEW p \in Programs, NEW radar, NEW channel, SET_RADAR_CHAN(p, radar, channel)
  PROVE  /\ p \in live /\ UNCHANGED <<live, active, priority>>
         /\ \/ \E s \in Slots :
                 /\ unregister(p)[s] = NULL
                 /\ radar_channels' = [unregister(p) EXCEPT ![s] = p]
                 /\ radarinfo' = [radarinfo EXCEPT ![p] = s]
                 /\ prm_slot' = [prm_slot EXCEPT ![p] = s]
            \/ /\ radar_channels' = unregister(p)
               /\ prm_slot' = [prm_slot EXCEPT ![p] = unregistered_pair(p)]
               /\ UNCHANGED radarinfo
<1> DEFINE table == unregister(p)
           free  == {s \in Slots : table[s] = NULL}
<1>1. granted(free, radar, channel) \subseteq free
  BY GrantedIsFree
<1> QED BY <1>1 DEF SET_RADAR_CHAN, Serving

(* Every operation keeps the types. *)
LEMMA TypeStep == TypeOK /\ [Next]_vars => TypeOK'
<1> SUFFICES ASSUME TypeOK, [Next]_vars PROVE TypeOK'
  OBVIOUS
<1> USE ChannelsAssumption
<1>1. ASSUME NEW p \in Programs, control_init(p) PROVE TypeOK'
  BY <1>1 DEF TypeOK, control_init
<1>2. ASSUME NEW p \in Programs, NEW radar, NEW channel, SET_RADAR_CHAN(p, radar, channel)
      PROVE  TypeOK'
  <2>1. /\ UNCHANGED <<live, active, priority>>
        /\ unregister(p) \in [Slots -> Programs \cup {NULL}]
        /\ unregistered_pair(p) \in Slots \cup {Unset, Cleared}
    BY <1>2, Registration, Unregister DEF TypeOK, unregistered_pair
  <2>2. ASSUME NEW s \in Slots,
               radar_channels' = [unregister(p) EXCEPT ![s] = p],
               radarinfo' = [radarinfo EXCEPT ![p] = s],
               prm_slot' = [prm_slot EXCEPT ![p] = s]
        PROVE  TypeOK'
    BY <2>1, <2>2 DEF TypeOK
  <2>3. ASSUME radar_channels' = unregister(p),
               prm_slot' = [prm_slot EXCEPT ![p] = unregistered_pair(p)],
               UNCHANGED radarinfo
        PROVE  TypeOK'
    BY <2>1, <2>3 DEF TypeOK
  <2> QED BY <1>2, <2>2, <2>3, Registration
<1>3. ASSUME NEW p \in Programs, NEW value \in Priorities, SET_PARAMETERS(p, value)
      PROVE  TypeOK'
  BY <1>3 DEF TypeOK, SET_PARAMETERS, set_parameters_slot
<1>4. ASSUME NEW p \in Programs, set_active(p, 1) \/ set_active(p, -1) PROVE TypeOK'
  BY <1>4 DEF TypeOK, set_active
<1>5. ASSUME NEW p \in Programs, exit_active(p) PROVE TypeOK'
  BY <1>5 DEF TypeOK, exit_active
<1>6. ASSUME NEW p \in Programs, exit_free(p) PROVE TypeOK'
  BY <1>6, Unregister DEF TypeOK, exit_free, exit_table, unregistered_pair
<1>7. CASE UNCHANGED vars
  BY <1>7 DEF TypeOK, vars
<1> QED BY <1>1, <1>2, <1>3, <1>4, <1>5, <1>6, <1>7 DEF Next, Program

(***************************************************************************)
(* Type correctness: the table holds programs, and the pairs that          *)
(* registration writes are slots, whatever radar and channel are asked     *)
(* for.                                                                    *)
(***************************************************************************)
THEOREM TypeCorrect == Spec => []TypeOK
<1>1. Init => TypeOK
  BY ChannelsAssumption DEF Init, TypeOK
<1> QED BY <1>1, TypeStep, PTL DEF Spec

(* Every operation keeps the table in step with the programs' own records. *)
LEMMA OwnerStep == TypeOK /\ SlotOwner /\ [Next]_vars => SlotOwner'
<1> SUFFICES ASSUME TypeOK, SlotOwner, [Next]_vars PROVE SlotOwner'
  OBVIOUS
<1> USE ChannelsAssumption
<1>1. ASSUME NEW p \in Programs, control_init(p) PROVE SlotOwner'
  BY <1>1 DEF TypeOK, SlotOwner, control_init
<1>2. ASSUME NEW p \in Programs, NEW radar, NEW channel, SET_RADAR_CHAN(p, radar, channel)
      PROVE  SlotOwner'
  <2>1. p \in live /\ UNCHANGED live
    BY <1>2, Registration
  <2>2. ASSUME NEW s \in Slots,
               radar_channels' = [unregister(p) EXCEPT ![s] = p],
               radarinfo' = [radarinfo EXCEPT ![p] = s],
               prm_slot' = [prm_slot EXCEPT ![p] = s]
        PROVE  SlotOwner'
    <3> SUFFICES ASSUME NEW t \in Slots, radar_channels'[t] # NULL
                 PROVE  /\ radar_channels'[t] \in live
                        /\ radarinfo'[radar_channels'[t]] = t
                        /\ prm_slot'[radar_channels'[t]] = t
      BY <2>1 DEF SlotOwner
    <3>1. CASE t = s
      BY <2>1, <2>2, <3>1, Unregister DEF TypeOK
    <3>2. CASE t # s
      <4>1. radar_channels'[t] = unregister(p)[t]
        BY <2>2, <3>2, Unregister
      <4>2. radar_channels'[t] = radar_channels[t] /\ radar_channels[t] # p
        BY <4>1, Unregister
      <4>3. radar_channels[t] \in Programs
        BY <4>2 DEF TypeOK
      <4> QED BY <2>2, <4>2, <4>3 DEF TypeOK, SlotOwner
    <3> QED BY <3>1, <3>2
  <2>3. ASSUME radar_channels' = unregister(p),
               prm_slot' = [prm_slot EXCEPT ![p] = unregistered_pair(p)],
               UNCHANGED radarinfo
        PROVE  SlotOwner'
    <3> SUFFICES ASSUME NEW t \in Slots, radar_channels'[t] # NULL
                 PROVE  /\ radar_channels'[t] \in live
                        /\ radarinfo[radar_channels'[t]] = t
                        /\ prm_slot'[radar_channels'[t]] = t
      BY <2>1, <2>3 DEF SlotOwner
    <3>1. radar_channels'[t] = radar_channels[t] /\ radar_channels[t] # p
      BY <2>3, Unregister
    <3>2. radar_channels[t] \in Programs
      BY <3>1 DEF TypeOK
    <3> QED BY <2>3, <3>1, <3>2 DEF TypeOK, SlotOwner
  <2> QED BY <1>2, <2>2, <2>3, Registration
<1>3. ASSUME NEW p \in Programs, NEW value \in Priorities, SET_PARAMETERS(p, value)
      PROVE  SlotOwner'
  BY <1>3 DEF TypeOK, SlotOwner, SET_PARAMETERS, set_parameters_slot
<1>4. ASSUME NEW p \in Programs, set_active(p, 1) \/ set_active(p, -1) PROVE SlotOwner'
  BY <1>4 DEF SlotOwner, set_active
<1>5. ASSUME NEW p \in Programs, exit_active(p) PROVE SlotOwner'
  BY <1>5 DEF SlotOwner, exit_active
<1>6. ASSUME NEW p \in Programs, exit_free(p) PROVE SlotOwner'
  BY <1>6, Unregister DEF TypeOK, SlotOwner, exit_free, exit_table
<1>7. CASE UNCHANGED vars
  BY <1>7 DEF SlotOwner, vars
<1> QED BY <1>1, <1>2, <1>3, <1>4, <1>5, <1>6, <1>7 DEF Next, Program

(***************************************************************************)
(* Every slot of radar_channels belongs to an allocated program whose      *)
(* radarinfo and parameters name that slot: unregister_radar_channel in    *)
(* controlprogram_exit leaves no pointer to a freed program behind.        *)
(***************************************************************************)
THEOREM SlotsAreOwned == Spec => []SlotOwner
<1>1. Init => SlotOwner
  BY DEF Init, SlotOwner
<1> QED BY <1>1, OwnerStep, TypeCorrect, PTL DEF Spec

(* No program holds two slots, so that the drivers, which index by radar     *)
(* and channel, see it once.                                                 *)
COROLLARY OneSlotEach ==
  ASSUME TypeOK, SlotOwner, NEW s \in Slots, NEW t \in Slots,
         radar_channels[s] # NULL, radar_channels[s] = radar_channels[t]
  PROVE  s = t
BY DEF SlotOwner

(***************************************************************************)
(* register_radar_channel never gives a program a slot that another one    *)
(* holds: a slot changes hands only by being given up first.               *)
(***************************************************************************)
THEOREM NobodyEvicted == Spec => NoEviction
<1>1. TypeOK /\ [Next]_vars =>
        [\A s \in Slots : radar_channels[s] # NULL =>
            radar_channels'[s] \in {radar_channels[s], NULL}]_vars
  <2> SUFFICES ASSUME TypeOK, Next, NEW s \in Slots, radar_channels[s] # NULL
               PROVE  radar_channels'[s] \in {radar_channels[s], NULL}
    OBVIOUS
  <2>1. ASSUME NEW p \in Programs, NEW radar, NEW channel, SET_RADAR_CHAN(p, radar, channel)
        PROVE  radar_channels'[s] \in {radar_channels[s], NULL}
    <3>1. unregister(p)[s] \in {radar_channels[s], NULL}
      BY DEF unregister
    <3>2. ASSUME NEW u \in Slots, unregister(p)[u] = NULL,
                 radar_channels' = [unregister(p) EXCEPT ![u] = p]
          PROVE  radar_channels'[s] \in {radar_channels[s], NULL}
      <4>1. CASE u = s
        <5>1. radar_channels[s] = p
          BY <3>2, <4>1 DEF unregister
        <5> QED BY <3>2, <4>1, <5>1, Unregister
      <4>2. CASE u # s
        BY <3>1, <3>2, <4>2, Unregister
      <4> QED BY <4>1, <4>2
    <3> QED BY <2>1, <3>1, <3>2, Registration
  <2>2. ASSUME NEW p \in Programs, exit_free(p)
        PROVE  radar_channels'[s] \in {radar_channels[s], NULL}
    BY <2>2 DEF exit_free, exit_table, unregister
  <2>3. CASE UNCHANGED radar_channels
    BY <2>3
  <2> QED
    BY <2>1, <2>2, <2>3
    DEF Next, Program, control_init, SET_PARAMETERS, set_active, exit_active
<1> QED BY <1>1, TypeCorrect, PTL DEF Spec, NoEviction

(* A set of numbers that is not empty has a least element. *)
LEMMA LeastNumber ==
  ASSUME NEW T, T \subseteq Nat, T # {}
  PROVE  \E x \in T : \A y \in T : x <= y
<1>1. PICK x \in T : \A y \in T : ~ (<<y, x>> \in OpToRel(<, Nat))
  BY NatLessThanWellFounded, WFMin
<1>2. \A y \in T : ~ (y < x)
  BY <1>1 DEF OpToRel
<1> QED BY <1>2

(* The scan of controlprogram_fill_parameters finds the first of the programs *)
(* with the lowest value.                                                    *)
LEMMA BestIsLowest ==
  ASSUME TypeOK, NEW radar \in Radars, Contenders(radar) # {}
  PROVE  \E c \in Contenders(radar) :
            /\ best(radar) = radar_channels[<<radar, c>>]
            /\ \A d \in Contenders(radar) : PriorityAt(radar, c) <= PriorityAt(radar, d)
<1> DEFINE Con    == Contenders(radar)
           Val(c) == PriorityAt(radar, c)
           Wins(c) == \A d \in Con : Val(c) < Val(d) \/ (Val(c) = Val(d) /\ c <= d)
<1>1. Con \subseteq Nat /\ \A c \in Con : Val(c) \in Nat
  <2>1. Con \subseteq Channels /\ Con \subseteq Nat
    BY ChannelsAssumption DEF Contenders, Channels
  <2>2. ASSUME NEW c \in Con PROVE Val(c) \in Nat
    <3>1. <<radar, c>> \in Slots
      BY <2>1 DEF Slots
    <3>2. radar_channels[<<radar, c>>] \in Programs
      BY <3>1 DEF TypeOK, Contenders
    <3> QED BY <3>2 DEF TypeOK, PriorityAt
  <2> QED BY <2>1, <2>2
<1> HIDE DEF Con, Val
<1>2. PICK v \in {Val(c) : c \in Con} : \A w \in {Val(c) : c \in Con} : v <= w
  BY <1>1, LeastNumber DEF Con
<1>3. PICK c \in {d \in Con : Val(d) = v} : \A d \in {e \in Con : Val(e) = v} : c <= d
  <2>1. {d \in Con : Val(d) = v} # {} /\ {d \in Con : Val(d) = v} \subseteq Nat
    BY <1>1, <1>2
  <2> QED BY <2>1, LeastNumber
<1>4. c \in Con /\ Wins(c)
  BY <1>1, <1>2, <1>3
<1> DEFINE b == CHOOSE e \in Con : Wins(e)
<1>5. b \in Con /\ Wins(b)
  BY <1>4
<1>6. best(radar) = radar_channels[<<radar, b>>]
  BY DEF best, Con, Val
<1> HIDE DEF b
<1>7. \A d \in Con : Val(b) <= Val(d)
  BY <1>1, <1>5
<1> QED BY <1>5, <1>6, <1>7 DEF Con, Val

(* No priority reaches 99, where the scan begins, unless a client sets it. *)
Below99 == \A p \in Programs : priority[p] < 99

(***************************************************************************)
(* As long as clients set priorities below 99, controlprogram_fill_        *)
(* parameters finds a program for each registered program that is not      *)
(* exiting, which it dereferences without a check: one that is not exiting *)
(* itself, on the same radar by its own records, and of no higher value.   *)
(***************************************************************************)
THEOREM LowestWinsHolds ==
  ASSUME Priorities \subseteq 0 .. 98
  PROVE  Spec => []LowestWins
<1>1. Init => Below99
  <2> SUFFICES ASSUME Init, NEW p \in Programs PROVE priority[p] < 99
    BY DEF Below99
  <2>1. priority = [q \in Programs |-> 50]
    BY DEF Init
  <2>2. priority[p] = 50
    BY <2>1
  <2> QED BY <2>2
<1>2. TypeOK /\ Below99 /\ [Next]_vars => Below99'
  <2> SUFFICES ASSUME TypeOK, Below99, [Next]_vars PROVE Below99'
    OBVIOUS
  <2>1. ASSUME NEW p \in Programs, control_init(p) PROVE Below99'
    BY <2>1 DEF TypeOK, Below99, control_init
  <2>2. ASSUME NEW p \in Programs, NEW value \in Priorities, SET_PARAMETERS(p, value)
        PROVE  Below99'
    BY <2>2 DEF TypeOK, Below99, SET_PARAMETERS
  <2>3. CASE UNCHANGED priority
    BY <2>3 DEF Below99
  <2> QED
    BY <2>1, <2>2, <2>3
    DEF Next, Program, vars, SET_RADAR_CHAN, set_active, exit_active, exit_free
<1>3. TypeOK /\ SlotOwner /\ Below99 => LowestWins
  <2> SUFFICES ASSUME TypeOK, SlotOwner, Below99, NEW s \in Slots,
                      radar_channels[s] # NULL, active[radar_channels[s]] # 0
               PROVE  /\ best(s[1]) # NULL
                      /\ active[best(s[1])] # 0
                      /\ radarinfo[best(s[1])][1] = s[1]
                      /\ priority[best(s[1])] <= priority[radar_channels[s]]
    BY DEF LowestWins
  <2>1. PICK radar \in Radars, d \in Channels : s = <<radar, d>>
    BY DEF Slots
  <2>2. d \in Contenders(radar)
    BY <2>1 DEF Contenders, TypeOK, Below99
  <2>3. PICK c \in Contenders(radar) :
          /\ best(radar) = radar_channels[<<radar, c>>]
          /\ \A e \in Contenders(radar) : PriorityAt(radar, c) <= PriorityAt(radar, e)
    BY <2>2, BestIsLowest
  <2>4. <<radar, c>> \in Slots /\ best(radar) # NULL /\ active[best(radar)] # 0
    BY <2>3 DEF Contenders, Slots
  <2>5. radarinfo[best(radar)] = <<radar, c>>
    BY <2>3, <2>4 DEF SlotOwner
  <2>6. priority[best(radar)] <= priority[radar_channels[s]]
    BY <2>1, <2>2, <2>3 DEF PriorityAt
  <2> QED BY <2>1, <2>4, <2>5, <2>6
<1> QED BY <1>1, <1>2, <1>3, TypeCorrect, SlotsAreOwned, PTL DEF Spec

-----------------------------------------------------------------------------
(* The order of the array *)

(* Division with remainder by the number of channels, for any index. *)
LEMMA Division ==
  ASSUME NEW m \in Nat \ {0}, NEW i \in Nat
  PROVE  i \div m \in Nat /\ i % m \in 0 .. m - 1 /\ i = (i \div m) * m + (i % m)
<1>1. i \div m \in Int /\ i % m \in 0 .. m - 1 /\ i = m * (i \div m) + (i % m)
  OBVIOUS
<1> DEFINE q == i \div m
<1> DEFINE r == i % m
<1>2. q \in Int /\ r \in 0 .. m - 1 /\ i = m * q + r
  BY <1>1
<1> HIDE DEF q, r
<1>3. q >= 0
  <2> SUFFICES ASSUME q <= -1 PROVE FALSE
    BY <1>2
  <2>1. m * q <= -m
    BY <1>2
  <2> QED BY <1>2, <2>1
<1>4. q \in Nat /\ r \in 0 .. m - 1 /\ i = q * m + r
  BY <1>2, <1>3
<1> QED BY <1>4 DEF q, r

LEMMA Multiples ==
  ASSUME NEW m \in Nat \ {0}, NEW a \in Nat, NEW b \in Nat, a < b
  PROVE  a * m + m <= b * m
<1>1. (a + 1) * m <= b * m
  OBVIOUS
<1>2. (a + 1) * m = a * m + m
  OBVIOUS
<1> QED BY <1>1, <1>2

(* The indexes are the slots, in their order. *)
LEMMA SlotOrder ==
  /\ Count \in Nat
  /\ \A i \in 0 .. Count - 1 : SlotOf(i) \in Slots
  /\ \A s \in Slots : \E i \in 0 .. Count - 1 : SlotOf(i) = s
  /\ \A i, j \in 0 .. Count - 1 :
        i < j => Before(SlotOf(i), SlotOf(j)) /\ ~Before(SlotOf(j), SlotOf(i))
<1> DEFINE m == MAX_CHANNELS
<1> DEFINE n == MAX_RADARS
<1>0. m \in Nat \ {0} /\ n \in Nat \ {0}
  BY ChannelsAssumption
<1>1. Count \in Nat /\ Count = n * m
  BY <1>0 DEF Count
<1>2. ASSUME NEW i \in 0 .. Count - 1
      PROVE  /\ i \div m \in 0 .. n - 1 /\ i % m \in 0 .. m - 1 /\ i = (i \div m) * m + (i % m)
             /\ SlotOf(i) = <<(i \div m) + 1, (i % m) + 1>>
  <2> DEFINE q == i \div m
  <2> DEFINE r == i % m
  <2>1. i \in Nat /\ i < n * m
    BY <1>1
  <2>2. q \in Nat /\ r \in 0 .. m - 1 /\ i = q * m + r
    BY <1>0, <2>1, Division
  <2> HIDE DEF q, r
  <2>3. q < n
    <3> SUFFICES ASSUME n <= q PROVE FALSE
      BY <1>0, <2>2
    <3>1. n * m <= q * m
      BY <1>0, <2>2
    <3> QED BY <1>0, <2>1, <2>2, <3>1
  <2>4. q \in 0 .. n - 1
    BY <1>0, <2>2, <2>3
  <2> QED BY <2>2, <2>4 DEF q, r, SlotOf
<1>3. ASSUME NEW i \in 0 .. Count - 1 PROVE SlotOf(i) \in Slots
  <2> DEFINE q == i \div m
  <2> DEFINE r == i % m
  <2>1. q \in 0 .. n - 1 /\ r \in 0 .. m - 1 /\ SlotOf(i) = <<q + 1, r + 1>>
    BY <1>2
  <2> HIDE DEF q, r
  <2>2. q + 1 \in 1 .. n /\ r + 1 \in 1 .. m
    BY <1>0, <2>1
  <2> QED BY <2>1, <2>2 DEF Slots, Radars, Channels
<1>4. ASSUME NEW s \in Slots PROVE \E i \in 0 .. Count - 1 : SlotOf(i) = s
  <2>1. PICK a \in 1 .. n, b \in 1 .. m : s = <<a, b>>
    BY DEF Slots, Radars, Channels
  <2> DEFINE i == (a - 1) * m + (b - 1)
  <2>2. a - 1 \in Nat /\ b - 1 \in 0 .. m - 1 /\ a - 1 < n
    BY <1>0
  <2>3. (a - 1) * m \in Nat /\ (a - 1) * m + m <= n * m
    BY <1>0, <2>2, Multiples
  <2>4. i \in 0 .. Count - 1
    BY <1>0, <1>1, <2>2, <2>3
  <2>5. i % m = b - 1
    BY <1>0, <2>2
  <2>6. i \div m = a - 1
    BY <1>0, <2>2
  <2> HIDE DEF i
  <2>7. SlotOf(i) = <<a, b>>
    BY <1>0, <2>5, <2>6 DEF SlotOf
  <2> QED BY <2>1, <2>4, <2>7
<1>5. ASSUME NEW i \in 0 .. Count - 1, NEW j \in 0 .. Count - 1, i < j
      PROVE  Before(SlotOf(i), SlotOf(j)) /\ ~Before(SlotOf(j), SlotOf(i))
  <2> DEFINE a == i \div m
  <2> DEFINE b == i % m
  <2> DEFINE c == j \div m
  <2> DEFINE d == j % m
  <2>1. /\ a \in 0 .. n - 1 /\ b \in 0 .. m - 1 /\ i = a * m + b /\ SlotOf(i) = <<a + 1, b + 1>>
        /\ c \in 0 .. n - 1 /\ d \in 0 .. m - 1 /\ j = c * m + d /\ SlotOf(j) = <<c + 1, d + 1>>
    BY <1>2
  <2> HIDE DEF a, b, c, d
  <2>2. a \in Nat /\ b \in Nat /\ c \in Nat /\ d \in Nat /\ b < m /\ d < m
    BY <1>0, <2>1
  <2>3. ~(c < a)
    <3> SUFFICES ASSUME c < a PROVE FALSE
      OBVIOUS
    <3>1. c * m + m <= a * m
      BY <1>0, <2>2, Multiples
    <3>2. c * m \in Nat /\ a * m \in Nat
      BY <1>0, <2>2
    <3> QED BY <1>0, <1>5, <2>1, <2>2, <3>1, <3>2
  <2>4. a = c => b < d
    BY <1>0, <1>5, <2>1, <2>2
  <2>5. a < c \/ (a = c /\ b < d)
    BY <2>2, <2>3, <2>4
  <2> QED BY <2>1, <2>2, <2>5 DEF Before
<1> QED BY <1>1, <1>3, <1>4, <1>5

-----------------------------------------------------------------------------
(* The loop of register_radar_channel *)

(* Induction over the natural numbers, for a set in place of a predicate. *)
LEMMA SetInduction ==
  ASSUME NEW T, 0 \in T, \A k \in Nat : k \in T => k + 1 \in T
  PROVE  Nat \subseteq T
<1>1. ASSUME Nat \ T # {} PROVE FALSE
  <2>1. PICK x \in Nat \ T : \A y \in Nat \ T : x <= y
    BY <1>1, LeastNumber
  <2>2. x \in Nat /\ x # 0
    BY <2>1
  <2>3. x - 1 \in Nat /\ ~(x <= x - 1) /\ (x - 1) + 1 = x
    BY <2>2
  <2>4. x - 1 \in T
    BY <2>1, <2>3
  <2>5. x \in T
    BY <2>3, <2>4
  <2> QED BY <2>1, <2>5
<1> QED BY <1>1

(* The states of the loop, one after every turn. *)
LEMMA RegisterLoop ==
  ASSUME NEW free, NEW radar, NEW channel
  PROVE  \E turn : /\ turn[0] = [radar |-> radar, channel |-> channel, got |-> {}]
                   /\ \A i \in 0 .. Count - 1 :
                         turn[i + 1] = register_turn(free, SlotOf(i), turn[i])
                   /\ register_loop(free, radar, channel) = turn[Count].got
<1> DEFINE start == [radar |-> radar, channel |-> channel, got |-> {}]
<1> DEFINE Step(k, x) == register_turn(free, SlotOf(k), x)
<1> DEFINE Good(n, f) == f = [k \in 0 .. n |-> IF k = 0 THEN start ELSE Step(k - 1, f[k - 1])]
<1> DEFINE T == {n \in Nat : \E f : Good(n, f)}
<1>0. Count \in Nat
  BY SlotOrder
<1> HIDE DEF start, Step
<1>1. 0 \in T
  <2> DEFINE f0 == [k \in 0 .. 0 |-> start]
  <2>1. Good(0, f0)
    OBVIOUS
  <2> QED BY <2>1
<1>2. ASSUME NEW n \in Nat, n \in T PROVE n + 1 \in T
  <2>1. PICK g : Good(n, g)
    BY <1>2
  <2> DEFINE f1 == [k \in 0 .. n + 1 |-> IF k = n + 1 THEN Step(n, g[n]) ELSE g[k]]
  <2>2. Good(n + 1, f1)
    BY <2>1
  <2>3. n + 1 \in Nat
    OBVIOUS
  <2> HIDE DEF Good, f1
  <2> QED BY <2>2, <2>3
<1>3. \E f : Good(Count, f)
  <2> HIDE DEF T
  <2>1. Count \in T
    BY <1>0, <1>1, <1>2, SetInduction
  <2> QED BY <2>1 DEF T
<1> DEFINE turn == CHOOSE f : Good(Count, f)
<1>4. Good(Count, turn)
  BY <1>3
<1>5. register_loop(free, radar, channel) = turn[Count].got
  BY DEF register_loop, start, Step
<1> HIDE DEF turn
<1>6. turn[0] = start
  BY <1>0, <1>4
<1>7. ASSUME NEW i \in 0 .. Count - 1 PROVE turn[i + 1] = Step(i, turn[i])
  <2>1. i + 1 \in 0 .. Count /\ i + 1 # 0 /\ (i + 1) - 1 = i
    BY <1>0
  <2> QED BY <1>4, <2>1
<1> QED BY <1>5, <1>6, <1>7 DEF start, Step

(* The first free slot is the one the scan meets first. *)
LEMMA FirstMet ==
  ASSUME NEW free \in SUBSET Slots, NEW i \in 0 .. Count - 1, SlotOf(i) \in free,
         \A k \in 0 .. i - 1 : SlotOf(k) \notin free
  PROVE  First(free) = SlotOf(i)
<1> DEFINE s == SlotOf(i)
<1>0. Count \in Nat
  BY SlotOrder
<1>1. ASSUME NEW t \in free PROVE Before(s, t) /\ (Before(t, s) => t = s)
  <2>1. PICK j \in 0 .. Count - 1 : SlotOf(j) = t
    BY SlotOrder
  <2>2. ~(j < i)
    BY <1>0, <1>1, <2>1
  <2>3. CASE j = i
    <3>1. s \in Slots
      BY SlotOrder
    <3>2. s[1] \in Int /\ s[2] \in Int
      BY <3>1, ChannelsAssumption DEF Slots, Radars, Channels
    <3> QED BY <2>1, <2>3, <3>2 DEF Before
  <2>4. CASE i < j
    BY <2>1, <2>4, SlotOrder
  <2> QED BY <1>0, <2>2, <2>3, <2>4
<1> HIDE DEF s
<1>2. s \in free
  BY DEF s
<1> QED BY <1>1, <1>2 DEF First, s

(***************************************************************************)
(* After i turns the loop has settled what was left open by the first free *)
(* slot it has met, and has got the settled slot if it has passed it.      *)
(***************************************************************************)
LEMMA RegisterAgrees ==
  ASSUME NEW free \in SUBSET Slots, NEW radar \in Int, NEW channel \in Int
  PROVE  register_loop(free, radar, channel) = granted(free, radar, channel)
<1>0. Count \in Nat
  BY SlotOrder
<1>1. PICK turn : /\ turn[0] = [radar |-> radar, channel |-> channel, got |-> {}]
                  /\ \A i \in 0 .. Count - 1 :
                        turn[i + 1] = register_turn(free, SlotOf(i), turn[i])
                  /\ register_loop(free, radar, channel) = turn[Count].got
  BY RegisterLoop
<1> DEFINE Met(i) == {SlotOf(k) : k \in 0 .. i - 1} \cap free
<1> DEFINE set == Settled(free, radar, channel)
<1> DEFINE Loop(i) ==
      IF Met(i) = {} THEN turn[i] = [radar |-> radar, channel |-> channel, got |-> {}]
      ELSE turn[i] = [radar |-> set[1], channel |-> set[2], got |-> {set} \cap Met(i)]
<1> DEFINE T == {i \in Nat : i <= Count => Loop(i)}
<1>2. 0 \in T
  <2>1. 0 .. 0 - 1 = {}
    OBVIOUS
  <2>2. Met(0) = {}
    BY <2>1
  <2> QED BY <1>1, <2>2
<1>3. ASSUME NEW i \in Nat, i \in T PROVE i + 1 \in T
  <2> SUFFICES ASSUME i + 1 <= Count PROVE Loop(i + 1)
    OBVIOUS
  <2> DEFINE s == SlotOf(i)
  <2>1. i \in 0 .. Count - 1 /\ Loop(i)
    BY <1>0, <1>3
  <2>2. turn[i + 1] = register_turn(free, s, turn[i])
    BY <1>1, <2>1
  <2>3. s \in Slots /\ s = <<s[1], s[2]>> /\ s[1] \in Int /\ s[2] \in Int /\ s[1] > 0 /\ s[2] > 0
    <3>1. s \in Slots
      BY <2>1, SlotOrder
    <3> QED BY <3>1, ChannelsAssumption DEF Slots, Radars, Channels
  <2>4. Met(i + 1) = Met(i) \cup ({s} \cap free)
    <3>1. 0 .. (i + 1) - 1 = (0 .. i - 1) \cup {i}
      OBVIOUS
    <3> QED BY <3>1
  <2>5. CASE s \notin free
    <3>1. turn[i + 1] = turn[i]
      BY <2>2, <2>5 DEF register_turn
    <3>2. Met(i + 1) = Met(i)
      BY <2>4, <2>5
    <3> HIDE DEF Met, set
    <3> QED BY <2>1, <3>1, <3>2
  <2>6. CASE s \in free /\ Met(i) = {}
    <3>1. First(free) = s
      <4>1. \A k \in 0 .. i - 1 : SlotOf(k) \notin free
        BY <2>6
      <4> QED BY <2>1, <2>6, <4>1, FirstMet
    <3>2. set = <<IF radar <= 0 THEN s[1] ELSE radar, IF channel <= 0 THEN s[2] ELSE channel>>
      BY <3>1 DEF Settled
    <3>3. turn[i] = [radar |-> radar, channel |-> channel, got |-> {}]
      BY <2>1, <2>6
    <3>4. Met(i + 1) = {s}
      BY <2>4, <2>6
    <3> HIDE DEF Met, set, s
    <3>5. turn[i + 1] = [radar |-> set[1], channel |-> set[2], got |-> {s} \cap {set}]
      BY <2>2, <2>6, <3>2, <3>3 DEF register_turn
    <3>6. {s} \cap {set} = {set} \cap {s}
      OBVIOUS
    <3> QED BY <3>4, <3>5, <3>6
  <2>7. CASE s \in free /\ Met(i) # {}
    <3>1. turn[i] = [radar |-> set[1], channel |-> set[2], got |-> {set} \cap Met(i)]
      BY <2>1, <2>7
    <3>2. set[1] \in Int /\ set[1] > 0 /\ set[2] \in Int /\ set[2] > 0 /\ set = <<set[1], set[2]>>
      <4>1. \E k \in 0 .. Count - 1 : SlotOf(k) \in free /\ \A l \in 0 .. k - 1 : SlotOf(l) \notin free
        <5> DEFINE K == {k \in 0 .. Count - 1 : SlotOf(k) \in free}
        <5>1. K # {} /\ K \subseteq Nat
          BY <1>0, <2>1, <2>7
        <5>2. PICK k \in K : \A l \in K : k <= l
          BY <5>1, LeastNumber
        <5>3. \A l \in 0 .. k - 1 : l \in 0 .. Count - 1 /\ ~(k <= l)
          BY <1>0, <5>2
        <5> QED BY <5>2, <5>3
      <4>2. First(free) \in Slots
        BY <4>1, FirstMet, SlotOrder
      <4>3. First(free)[1] \in Int /\ First(free)[1] > 0 /\ First(free)[2] \in Int /\ First(free)[2] > 0
        BY <4>2, ChannelsAssumption DEF Slots, Radars, Channels
      <4> QED BY <4>3 DEF Settled
    <3> HIDE DEF set, Met, s
    <3>3. CASE {set} \cap Met(i) # {}
      <4>1. turn[i + 1] = turn[i]
        BY <2>2, <3>1, <3>3 DEF register_turn
      <4>2. {set} \cap Met(i + 1) = {set} \cap Met(i) /\ Met(i + 1) # {}
        BY <2>4, <2>7, <3>3
      <4> QED BY <3>1, <4>1, <4>2
    <3>4. CASE {set} \cap Met(i) = {}
      <4>1. turn[i + 1] = [radar |-> set[1], channel |-> set[2], got |-> {s} \cap {set}]
        BY <2>2, <2>7, <3>1, <3>2, <3>4 DEF register_turn
      <4>2. {set} \cap Met(i + 1) = {s} \cap {set} /\ Met(i + 1) # {}
        BY <2>4, <2>7, <3>4
      <4> QED BY <4>1, <4>2
    <3> QED BY <3>3, <3>4
  <2> QED BY <2>5, <2>6, <2>7
<1>4. Loop(Count)
  <2> HIDE DEF T, Loop
  <2>1. Count \in T
    BY <1>0, <1>2, <1>3, SetInduction
  <2> QED BY <1>0, <2>1 DEF T
<1>5. Met(Count) = free
  BY SlotOrder
<1> HIDE DEF Met
<1>6. turn[Count].got = IF free = {} THEN {} ELSE {set} \cap free
  BY <1>4, <1>5
<1> QED BY <1>1, <1>6 DEF granted

-----------------------------------------------------------------------------
(* The loop of controlprogram_fill_parameters *)

LEMMA BestLoop ==
  ASSUME NEW radar
  PROVE  \E turn : /\ turn[0] = [best |-> NULL, priority |-> 99]
                   /\ \A c \in 0 .. MAX_CHANNELS - 1 :
                         turn[c + 1] = best_turn(radar, c + 1, turn[c])
                   /\ best_loop(radar) = turn[MAX_CHANNELS].best
<1> DEFINE start == [best |-> NULL, priority |-> 99]
<1> DEFINE Step(k, x) == best_turn(radar, k, x)
<1> DEFINE Good(n, f) == f = [k \in 0 .. n |-> IF k = 0 THEN start ELSE Step(k, f[k - 1])]
<1> DEFINE T == {n \in Nat : \E f : Good(n, f)}
<1>0. MAX_CHANNELS \in Nat
  BY ChannelsAssumption
<1> HIDE DEF start, Step
<1>1. 0 \in T
  <2> DEFINE f0 == [k \in 0 .. 0 |-> start]
  <2>1. Good(0, f0)
    OBVIOUS
  <2> QED BY <2>1
<1>2. ASSUME NEW n \in Nat, n \in T PROVE n + 1 \in T
  <2>1. PICK g : Good(n, g)
    BY <1>2
  <2> DEFINE f1 == [k \in 0 .. n + 1 |-> IF k = n + 1 THEN Step(n + 1, g[n]) ELSE g[k]]
  <2>2. Good(n + 1, f1)
    BY <2>1
  <2>3. n + 1 \in Nat
    OBVIOUS
  <2> HIDE DEF Good, f1
  <2> QED BY <2>2, <2>3
<1>3. \E f : Good(MAX_CHANNELS, f)
  <2> HIDE DEF T
  <2>1. MAX_CHANNELS \in T
    BY <1>0, <1>1, <1>2, SetInduction
  <2> QED BY <2>1 DEF T
<1> DEFINE turn == CHOOSE f : Good(MAX_CHANNELS, f)
<1>4. Good(MAX_CHANNELS, turn)
  BY <1>3
<1>5. best_loop(radar) = turn[MAX_CHANNELS].best
  BY DEF best_loop, start, Step
<1> HIDE DEF turn
<1>6. turn[0] = start
  BY <1>0, <1>4
<1>7. ASSUME NEW c \in 0 .. MAX_CHANNELS - 1 PROVE turn[c + 1] = Step(c + 1, turn[c])
  <2>1. c + 1 \in 0 .. MAX_CHANNELS /\ c + 1 # 0 /\ (c + 1) - 1 = c
    BY <1>0
  <2> QED BY <1>4, <2>1
<1> QED BY <1>5, <1>6, <1>7 DEF start, Step

(***************************************************************************)
(* After c turns the loop names the contender of lowest priority value     *)
(* among the first c channels, the first of those of the same value.       *)
(***************************************************************************)
LEMMA BestAgrees ==
  ASSUME TypeOK, NEW radar \in Radars
  PROVE  best_loop(radar) = best(radar)
<1> DEFINE n == MAX_CHANNELS
<1> DEFINE At(c) == radar_channels[<<radar, c>>]
<1> DEFINE Val(c) == PriorityAt(radar, c)
<1> DEFINE Con == Contenders(radar)
<1>0. n \in Nat /\ Channels = 1 .. n
  BY ChannelsAssumption DEF Channels
<1>1. PICK turn : /\ turn[0] = [best |-> NULL, priority |-> 99]
                  /\ \A c \in 0 .. n - 1 : turn[c + 1] = best_turn(radar, c + 1, turn[c])
                  /\ best_loop(radar) = turn[n].best
  BY BestLoop
<1>2. \A c \in Channels : c \in Con => Val(c) \in Nat /\ Val(c) < 99
  <2> SUFFICES ASSUME NEW c \in Channels, c \in Con PROVE Val(c) \in Nat /\ Val(c) < 99
    OBVIOUS
  <2>1. <<radar, c>> \in Slots
    BY DEF Slots
  <2>2. At(c) \in Programs
    BY <2>1 DEF TypeOK, Contenders
  <2> QED BY <2>2 DEF TypeOK, PriorityAt, Contenders
<1>3. \A c \in Channels : \A at :
         best_turn(radar, c, at)
           = IF At(c) # NULL /\ active[At(c)] # 0 /\ Val(c) < at.priority
             THEN [best |-> At(c), priority |-> Val(c)] ELSE at
  BY DEF best_turn, PriorityAt
<1>4. \A c \in Channels : c \in Con <=> At(c) # NULL /\ active[At(c)] # 0 /\ Val(c) < 99
  BY DEF Contenders, PriorityAt
<1>5. \A c \in Channels : At(c) # NULL => Val(c) \in Nat
  <2> SUFFICES ASSUME NEW c \in Channels, At(c) # NULL PROVE Val(c) \in Nat
    OBVIOUS
  <2>1. <<radar, c>> \in Slots
    BY DEF Slots
  <2>2. At(c) \in Programs
    BY <2>1 DEF TypeOK
  <2> QED BY <2>2 DEF TypeOK, PriorityAt
<1>6. Con \subseteq Channels
  BY DEF Contenders
<1> DEFINE Wins(b, c) == /\ b \in Con /\ b <= c
                         /\ \A d \in Con : d <= c =>
                              Val(b) < Val(d) \/ (Val(b) = Val(d) /\ b <= d)
<1> DEFINE Loop(c) ==
      \/ /\ \A d \in Con : ~(d <= c)
         /\ turn[c] = [best |-> NULL, priority |-> 99]
      \/ \E b \in Channels : Wins(b, c) /\ turn[c] = [best |-> At(b), priority |-> Val(b)]
<1> DEFINE T == {c \in Nat : c <= n => Loop(c)}
<1> HIDE DEF Con, Val, At
<1>7. 0 \in T
  BY <1>0, <1>1, <1>6
<1>8. ASSUME NEW c \in Nat, c \in T PROVE c + 1 \in T
  <2> SUFFICES ASSUME c + 1 <= n PROVE Loop(c + 1)
    OBVIOUS
  <2> DEFINE e == c + 1
  <2>1. c \in 0 .. n - 1 /\ e \in Channels /\ Loop(c)
    BY <1>0, <1>8
  <2>2. turn[e] = IF At(e) # NULL /\ active[At(e)] # 0 /\ Val(e) < turn[c].priority
                  THEN [best |-> At(e), priority |-> Val(e)] ELSE turn[c]
    BY <1>1, <1>3, <2>1
  <2>3. \A d \in Con : d \in Nat /\ (d <= e <=> d <= c \/ d = e) /\ ~(e <= c) /\ e <= e
    BY <1>0, <1>6, <2>1
  <2>9. e \in Nat /\ c < e
    OBVIOUS
  <2> HIDE DEF e
  <2>4. CASE /\ \A d \in Con : ~(d <= c)
             /\ turn[c] = [best |-> NULL, priority |-> 99]
    <3>1. CASE e \in Con
      <4>1. turn[e] = [best |-> At(e), priority |-> Val(e)]
        BY <1>4, <2>1, <2>2, <2>4, <3>1
      <4>2. Wins(e, e)
        BY <1>2, <2>1, <2>3, <2>4, <3>1
      <4> QED BY <2>1, <4>1, <4>2 DEF e
    <3>2. CASE e \notin Con
      <4>1. turn[e] = turn[c]
        BY <1>4, <2>1, <2>2, <2>4, <3>2
      <4>2. \A d \in Con : ~(d <= e)
        BY <2>3, <2>4, <3>2
      <4> QED BY <2>4, <4>1, <4>2 DEF e
    <3> QED BY <3>1, <3>2
  <2>5. ASSUME NEW b \in Channels, Wins(b, c), turn[c] = [best |-> At(b), priority |-> Val(b)]
        PROVE  Loop(e)
    <3>1. b \in Nat /\ b <= c /\ b <= e /\ Val(b) \in Nat /\ Val(b) < 99
      BY <1>0, <1>2, <2>5, <2>9
    <3>2. CASE At(e) # NULL /\ active[At(e)] # 0 /\ Val(e) < Val(b)
      <4>1. turn[e] = [best |-> At(e), priority |-> Val(e)]
        BY <2>2, <2>5, <3>2
      <4>2. e \in Con /\ Val(e) \in Nat
        BY <1>4, <1>5, <2>1, <3>1, <3>2
      <4>3. ASSUME NEW d \in Con, d <= e
            PROVE  Val(e) < Val(d) \/ (Val(e) = Val(d) /\ e <= d)
        <5>1. CASE d = e
          BY <2>9, <5>1
        <5>2. CASE d <= c
          <6>1. Val(d) \in Nat /\ Val(b) <= Val(d)
            <7>1. Val(d) \in Nat
              BY <1>2, <1>6
            <7>2. Val(b) < Val(d) \/ Val(b) = Val(d)
              BY <2>5, <5>2, Zenon
            <7> QED BY <3>1, <7>1, <7>2
          <6> QED BY <3>1, <3>2, <4>2, <6>1
        <5> QED BY <2>3, <4>3, <5>1, <5>2
      <4>4. Wins(e, e)
        BY <2>9, <4>2, <4>3
      <4> QED BY <2>1, <4>1, <4>4
    <3>3. CASE ~(At(e) # NULL /\ active[At(e)] # 0 /\ Val(e) < Val(b))
      <4>1. turn[e] = turn[c]
        BY <2>2, <2>5, <3>3
      <4>2. ASSUME NEW d \in Con, d <= e
            PROVE  Val(b) < Val(d) \/ (Val(b) = Val(d) /\ b <= d)
        <5>1. CASE d = e
          <6>1. Val(e) \in Nat /\ ~(Val(e) < Val(b))
            BY <1>2, <1>4, <2>1, <3>3, <5>1
          <6> QED BY <3>1, <5>1, <6>1
        <5>2. CASE d <= c
          BY <2>5, <5>2
        <5> QED BY <2>3, <4>2, <5>1, <5>2
      <4>3. Wins(b, e)
        BY <2>5, <3>1, <4>2
      <4> QED BY <2>5, <4>1, <4>3
    <3> QED BY <3>2, <3>3
  <2> QED BY <2>1, <2>4, <2>5 DEF e
<1>9. Loop(n)
  <2> HIDE DEF T, Loop
  <2>1. n \in T
    BY <1>0, <1>7, <1>8, SetInduction
  <2> QED BY <1>0, <2>1 DEF T
<1>10. CASE Con = {}
  <2>1. turn[n].best = NULL
    BY <1>9, <1>10
  <2> QED BY <1>1, <1>10, <2>1 DEF best, Con
<1>11. CASE Con # {}
  <2>1. \A d \in Con : d \in Nat /\ d <= n /\ Val(d) \in Nat
    BY <1>0, <1>2, <1>6
  <2>2. PICK b \in Con : /\ turn[n].best = At(b)
                         /\ \A d \in Con : Val(b) < Val(d) \/ (Val(b) = Val(d) /\ b <= d)
    <3>1. PICK b \in Channels : Wins(b, n) /\ turn[n] = [best |-> At(b), priority |-> Val(b)]
      BY <1>9, <1>11, <2>1, Zenon
    <3>2. turn[n].best = At(b)
      BY <3>1
    <3> QED BY <2>1, <3>1, <3>2, Zenon
  <2> DEFINE Lowest(x) == \A d \in Con : Val(x) < Val(d) \/ (Val(x) = Val(d) /\ x <= d)
  <2>3. \A x \in Con : Lowest(x) => x = b
    BY <2>1, <2>2
  <2>4. best(radar) = At(CHOOSE x \in Con : Lowest(x))
    BY <1>11 DEF best, Con, Val, At
  <2>5. (CHOOSE x \in Con : Lowest(x)) = b
    BY <2>2, <2>3
  <2> QED BY <1>1, <2>2, <2>4, <2>5
<1> QED BY <1>10, <1>11

(***************************************************************************)
(* The scans of register_radar_channel and controlprogram_fill_parameters, *)
(* turn by turn as the code runs them, compute the closed forms that the   *)
(* operations of the model use, for tables of any size.                    *)
(***************************************************************************)
THEOREM LoopsAgreeHolds == Spec => []LoopsAgree
<1>1. TypeOK => LoopsAgree
  <2> SUFFICES ASSUME TypeOK PROVE LoopsAgree
    OBVIOUS
  <2> DEFINE free == {s \in Slots : radar_channels[s] = NULL}
  <2>1. \A radar \in 0 .. MAX_RADARS + 1, channel \in 0 .. MAX_CHANNELS + 1 :
           register_loop(free, radar, channel) = granted(free, radar, channel)
    BY RegisterAgrees
  <2>2. \A radar \in Radars : best_loop(radar) = best(radar)
    BY BestAgrees
  <2> QED BY <2>1, <2>2 DEF LoopsAgree
<1> QED BY <1>1, TypeCorrect, PTL
==============================================================================
