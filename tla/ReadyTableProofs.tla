-------------------------- MODULE ReadyTableProofs ---------------------------
(***************************************************************************)
(* That the drivers' ready table implements ReadySet, for any number of    *)
(* channels.                                                               *)
(***************************************************************************)
EXTENDS ReadyTable, FiniteSetTheorems, TLAPS

Indexed == {s \in Slots : ready_index[s] # -1}

(* The count is that of the indexed slots, but for the wrap of a full table. *)
CountExact ==
  \/ numclients = Cardinality(Indexed)
  \/ numclients = 0 /\ Cardinality(Indexed) = maxclients

(* The indexed slots fill the table from its beginning, without a hole. *)
Dense ==
  /\ \A s \in Indexed : ready_index[s] < Cardinality(Indexed)
  /\ \A i \in Places : i < Cardinality(Indexed) =>
       /\ clients[i] # NotReady
       /\ ready_index[clients[i][1]] = i

Inv == IndexExact /\ CountExact /\ Dense

LEMMA MaxClients == maxclients \in Nat /\ maxclients > 0
BY TableAssumption, FS_CardinalityType, FS_EmptySet DEF maxclients

LEMMA IndexedFinite ==
  /\ IsFiniteSet(Indexed)
  /\ Cardinality(Indexed) \in Nat
  /\ Cardinality(Indexed) <= maxclients
  /\ Cardinality(Indexed) = maxclients => Indexed = Slots
<1>1. Indexed \in SUBSET Slots
  BY DEF Indexed
<1> QED
  BY <1>1, TableAssumption, FS_Subset, FS_CardinalityType DEF maxclients

(* numclients%maxclients. *)
LEMMA WrappedIs ==
  ASSUME NEW n \in Nat
  PROVE  /\ n < maxclients => Wrapped(n) = n
         /\ n = maxclients => Wrapped(n) = 0
BY MaxClients DEF Wrapped

LEMMA InitInv == Init => Inv
<1> SUFFICES ASSUME Init PROVE Inv
  OBVIOUS
<1>1. TypeOK
  BY MaxClients DEF Init, TypeOK, Places, NoIndex
<1>2. Indexed = {}
  BY DEF Init, NoIndex, Indexed
<1>3. Cardinality(Indexed) = 0
  BY <1>2, FS_EmptySet
<1>4. IndexExact
  BY <1>1, <1>2 DEF IndexExact, Indexed
<1>5. CountExact
  BY <1>3 DEF CountExact, Init
<1>6. Dense
  BY <1>2, <1>3 DEF Dense, Places
<1> QED BY <1>4, <1>5, <1>6 DEF Inv

(* READY of a slot that has a place already. *)
LEMMA ReadyAgain ==
  ASSUME Inv, NEW s \in Slots, NEW v \in Values, READY(s, v), Listed(s)
  PROVE  Inv'
<1> DEFINE place == ready_index[s]
<1>1. TypeOK /\ place \in Places /\ s \in Indexed
  BY DEF Inv, IndexExact, TypeOK, Listed, Indexed
<1>2. /\ clients' = [clients EXCEPT ![place] = <<s, v>>]
      /\ ready_index' = ready_index
      /\ numclients' = Wrapped(numclients)
      /\ UNCHANGED <<served, cleared_by>>
  BY <1>1 DEF READY, TypeOK
<1>3. numclients' = numclients
  BY <1>1, <1>2, WrappedIs, MaxClients DEF TypeOK, Places
<1>4. Indexed' = Indexed
  BY <1>2 DEF Indexed
<1>5. TypeOK'
  BY <1>1, <1>2, <1>3 DEF TypeOK
<1>6. IndexExact'
  <2> SUFFICES ASSUME NEW t \in Slots, ready_index'[t] # -1
               PROVE  /\ clients'[ready_index'[t]] # NotReady
                      /\ clients'[ready_index'[t]][1] = t
    BY <1>5 DEF IndexExact
  <2>1. /\ ready_index[t] \in Places
        /\ clients[ready_index[t]] # NotReady /\ clients[ready_index[t]][1] = t
    BY <1>1, <1>2 DEF Inv, IndexExact, TypeOK
  <2>2. clients[place][1] = s
    BY <1>1 DEF Inv, IndexExact, Indexed
  <2>3. CASE t = s
    <3>1. clients'[place] = <<s, v>> /\ clients'[place] \in Slots \X Values
      BY <1>1, <1>2 DEF TypeOK
    <3> QED BY <2>3, <3>1, <1>2, TableAssumption
  <2>4. CASE t # s
    <3>1. ready_index[t] # place
      BY <2>1, <2>2, <2>4
    <3> QED BY <2>1, <3>1, <1>1, <1>2 DEF TypeOK
  <2> QED BY <2>3, <2>4
<1>7. CountExact'
  BY <1>3, <1>4 DEF Inv, CountExact
<1>8. Dense'
  <2>1. \A t \in Indexed' : ready_index'[t] < Cardinality(Indexed')
    BY <1>2, <1>4 DEF Inv, Dense
  <2> SUFFICES ASSUME NEW i \in Places, i < Cardinality(Indexed)
               PROVE  clients'[i] # NotReady /\ ready_index'[clients'[i][1]] = i
    BY <1>4, <2>1 DEF Dense, Places
  <2>2. clients[i] # NotReady /\ ready_index[clients[i][1]] = i
    BY DEF Inv, Dense
  <2>3. CASE i = place
    <3>1. clients'[i] = <<s, v>>
      BY <1>1, <1>2, <2>3 DEF TypeOK
    <3> QED BY <1>2, <2>3, <3>1, TableAssumption
  <2>4. CASE i # place
    BY <1>1, <1>2, <2>2, <2>4 DEF TypeOK
  <2> QED BY <2>3, <2>4
<1> QED BY <1>6, <1>7, <1>8 DEF Inv

(* READY of a slot that has none: it gets the next place. *)
LEMMA ReadyAnew ==
  ASSUME Inv, NEW s \in Slots, NEW v \in Values, READY(s, v), ~Listed(s)
  PROVE  Inv'
<1> DEFINE n == Cardinality(Indexed)
<1>1. TypeOK /\ s \notin Indexed /\ ready_index[s] = -1
  BY MaxClients DEF Inv, IndexExact, TypeOK, Listed, Indexed, Places
<1>2. n \in Nat /\ n < maxclients /\ numclients = n /\ n \in Places
  BY <1>1, IndexedFinite, MaxClients DEF Inv, CountExact, Places
<1>3. /\ clients' = [clients EXCEPT ![n] = <<s, v>>]
      /\ ready_index' = [ready_index EXCEPT ![s] = n]
      /\ numclients' = Wrapped(n + 1)
      /\ UNCHANGED <<served, cleared_by>>
  BY <1>2 DEF READY
<1>4. Indexed' = Indexed \cup {s}
  BY <1>1, <1>2, <1>3 DEF Indexed, TypeOK
<1>5. Cardinality(Indexed') = n + 1
  BY <1>1, <1>4, IndexedFinite, FS_AddElement
<1>6. \/ n + 1 < maxclients /\ numclients' = n + 1
      \/ n + 1 = maxclients /\ numclients' = 0
  BY <1>2, <1>3, WrappedIs, MaxClients
<1>7. TypeOK'
  <2>1. numclients' \in Places
    BY <1>2, <1>6, MaxClients DEF Places
  <2> QED BY <1>1, <1>2, <1>3, <2>1 DEF TypeOK
<1>8. \A t \in Indexed : /\ t # s /\ ready_index'[t] = ready_index[t]
                         /\ ready_index[t] \in Places /\ ready_index[t] < n
                         /\ clients'[ready_index[t]] = clients[ready_index[t]]
  <2> TAKE t \in Indexed
  <2>1. t \in Slots /\ t # s /\ ready_index[t] \in Places /\ ready_index[t] < n
    BY <1>1 DEF Indexed, TypeOK, Inv, Dense
  <2>2. ready_index[t] # n
    BY <1>2, <2>1 DEF Places
  <2> QED BY <1>1, <1>3, <2>1, <2>2 DEF TypeOK
<1>9. ready_index'[s] = n /\ clients'[n] = <<s, v>> /\ <<s, v>> # NotReady
  BY <1>1, <1>2, <1>3, TableAssumption DEF TypeOK
<1>10. IndexExact'
  <2> SUFFICES ASSUME NEW t \in Indexed \cup {s}
               PROVE  /\ clients'[ready_index'[t]] # NotReady
                      /\ clients'[ready_index'[t]][1] = t
    BY <1>4, <1>7 DEF IndexExact, Indexed
  <2>1. CASE t = s
    BY <1>9, <2>1
  <2>2. CASE t \in Indexed
    BY <1>8, <2>2 DEF Inv, IndexExact, Indexed
  <2> QED BY <2>1, <2>2
<1>11. CountExact'
  BY <1>5, <1>6 DEF CountExact
<1>12. Dense'
  <2>1. \A t \in Indexed' : ready_index'[t] < n + 1
    BY <1>2, <1>4, <1>8, <1>9 DEF Places
  <2> SUFFICES ASSUME NEW i \in Places, i < n + 1
               PROVE  clients'[i] # NotReady /\ ready_index'[clients'[i][1]] = i
    BY <1>5, <2>1 DEF Dense, Places
  <2>2. CASE i = n
    BY <1>9, <2>2
  <2>3. CASE i # n
    <3>1. i < n
      BY <1>2, <2>3 DEF Places
    <3>2. clients[i] # NotReady /\ ready_index[clients[i][1]] = i
      BY <3>1 DEF Inv, Dense
    <3>3. clients'[i] = clients[i] /\ clients[i][1] \in Slots
      BY <1>1, <1>3, <2>3, <3>2 DEF TypeOK
    <3>4. clients[i][1] # s
      BY <1>1, <3>2 DEF Places
    <3> QED BY <1>1, <1>3, <3>2, <3>3, <3>4 DEF TypeOK
  <2> QED BY <2>2, <2>3
<1> QED BY <1>10, <1>11, <1>12 DEF Inv

(* Both kinds of driver forget everything at once. *)
LEMMA EmptiedInv ==
  ASSUME Inv, Emptied, TypeOK'
  PROVE  Inv'
<1>1. Indexed' = {} /\ numclients' = 0
  BY DEF Emptied, NoIndex, Indexed
<1>2. Cardinality(Indexed') = 0
  BY <1>1, FS_EmptySet
<1>3. IndexExact'
  BY <1>1 DEF IndexExact, Indexed
<1>4. CountExact'
  BY <1>1, <1>2 DEF CountExact
<1>5. Dense'
  BY <1>1, <1>2 DEF Dense, Places
<1> QED BY <1>3, <1>4, <1>5 DEF Inv

(***************************************************************************)
(* What PRETRIGGER goes through are the indexed slots with what they were  *)
(* last declared with, or nothing if the count of a full table has wrapped.*)
(***************************************************************************)
LEMMA Through ==
  ASSUME Inv
  PROVE  {clients[i] : i \in 0 .. numclients - 1} =
           IF Indexed = Slots THEN {}
           ELSE {<<s, clients[ready_index[s]][2]>> : s \in Indexed}
<1> DEFINE n == Cardinality(Indexed)
<1>1. TypeOK /\ n \in Nat /\ n <= maxclients
  BY IndexedFinite DEF Inv, IndexExact
<1>2. CASE n = maxclients
  <2>1. numclients = 0
    BY <1>1, <1>2, MaxClients DEF Inv, CountExact, TypeOK, Places
  <2> QED BY <1>2, <2>1, IndexedFinite
<1>3. CASE n # maxclients
  <2>1. numclients = n
    BY <1>3 DEF Inv, CountExact
  <2>2. ASSUME NEW i \in 0 .. n - 1
        PROVE  \E s \in Indexed : clients[i] = <<s, clients[ready_index[s]][2]>>
    <3>1. i \in Places /\ i < n
      BY <1>1, MaxClients DEF Places
    <3>2. clients[i] # NotReady /\ ready_index[clients[i][1]] = i
      BY <3>1 DEF Inv, Dense
    <3>3. clients[i] \in Slots \X Values
      BY <1>1, <3>1, <3>2 DEF TypeOK
    <3>4. clients[i][1] \in Indexed
      BY <3>1, <3>2, <3>3 DEF Indexed, Places
    <3> QED BY <3>2, <3>3, <3>4
  <2>3. ASSUME NEW s \in Indexed
        PROVE  \E i \in 0 .. n - 1 : <<s, clients[ready_index[s]][2]>> = clients[i]
    <3>1. ready_index[s] \in 0 .. n - 1 /\ ready_index[s] \in Places
      BY <1>1 DEF Inv, Dense, TypeOK, Indexed, Places
    <3>2. clients[ready_index[s]] # NotReady /\ clients[ready_index[s]][1] = s
      BY DEF Inv, IndexExact, Indexed
    <3>3. clients[ready_index[s]] \in Slots \X Values
      BY <1>1, <3>1, <3>2 DEF TypeOK
    <3> QED BY <3>1, <3>2, <3>3
  <2>4. Indexed # Slots
    BY <1>3 DEF maxclients
  <2> QED BY <2>1, <2>2, <2>3, <2>4
<1> QED BY <1>2, <1>3

LEMMA ServedType ==
  ASSUME Inv
  PROVE  {clients[i] : i \in 0 .. numclients - 1} \subseteq Slots \X Values
<1>1. ASSUME NEW s \in Indexed
      PROVE  <<s, clients[ready_index[s]][2]>> \in Slots \X Values
  <2>1. ready_index[s] \in Places /\ clients[ready_index[s]] # NotReady
    BY DEF Inv, IndexExact, TypeOK, Indexed
  <2>2. clients[ready_index[s]] \in Slots \X Values
    BY <2>1 DEF Inv, IndexExact, TypeOK
  <2> QED BY <2>2 DEF Indexed
<1> QED BY <1>1, Through

LEMMA NextInv == Inv /\ [Next]_vars => Inv'
<1> SUFFICES ASSUME Inv, [Next]_vars PROVE Inv'
  OBVIOUS
<1>0. TypeOK
  BY DEF Inv, IndexExact
<1>1. ASSUME NEW s \in Slots, NEW v \in Values, READY(s, v) PROVE Inv'
  BY <1>1, ReadyAgain, ReadyAnew
<1>2. CASE PRETRIGGER
  <2>1. served' \subseteq Slots \X Values /\ UNCHANGED <<clients, cleared_by>>
    BY <1>2, ServedType DEF PRETRIGGER
  <2>2. CASE Emptied
    <3>1. TypeOK'
      BY <1>0, <2>1, <2>2, MaxClients DEF TypeOK, Emptied, NoIndex, Places
    <3> QED BY <2>2, <3>1, EmptiedInv
  <2>3. CASE UNCHANGED <<numclients, ready_index>>
    <3>1. TypeOK'
      BY <1>0, <2>1, <2>3 DEF TypeOK
    <3>2. Indexed' = Indexed
      BY <2>3 DEF Indexed
    <3> QED BY <2>1, <2>3, <3>1, <3>2 DEF Inv, IndexExact, CountExact, Dense
  <2> QED BY <1>2, <2>2, <2>3 DEF PRETRIGGER
<1>3. CASE POSTTRIGGER
  <2>1. TypeOK'
    BY <1>0, <1>3, MaxClients DEF TypeOK, POSTTRIGGER, Emptied, NoIndex, Places
  <2> QED BY <1>3, <2>1, EmptiedInv DEF POSTTRIGGER
<1>4. CASE UNCHANGED vars
  <2>1. Indexed' = Indexed
    BY <1>4 DEF vars, Indexed
  <2> QED BY <1>4, <2>1 DEF vars, Inv, IndexExact, TypeOK, CountExact, Dense
<1> QED BY <1>1, <1>2, <1>3, <1>4 DEF Next

-----------------------------------------------------------------------------
(***************************************************************************)
(* The table and its index agree in every reachable state of a driver,     *)
(* whatever the number of channels and the order of messages.              *)
(***************************************************************************)
THEOREM IndexIsExact == Spec => []IndexExact
<1>1. Inv => IndexExact
  BY DEF Inv
<1> QED BY InitInv, NextInv, <1>1, PTL DEF Spec

(* The refinement mapping: the value at a slot's place. *)
ReadyOf == [s \in Slots |-> IF ready_index[s] = -1 THEN NotReady
                            ELSE clients[ready_index[s]][2]]

(* READY replaces the value of its own slot only. *)
LEMMA ReadyMapped ==
  ASSUME Inv, NEW s \in Slots, NEW v \in Values, READY(s, v)
  PROVE  ReadyOf' = [ReadyOf EXCEPT ![s] = v]
<1>1. TypeOK
  BY DEF Inv, IndexExact
<1> DEFINE place == IF Listed(s) THEN ready_index[s] ELSE numclients
<1>2. place \in Places /\ clients' = [clients EXCEPT ![place] = <<s, v>>]
      /\ ready_index' = [ready_index EXCEPT ![s] = place]
  BY <1>1, MaxClients DEF READY, TypeOK, Listed, Places
<1>3. ReadyOf'[s] = v
  BY <1>1, <1>2 DEF TypeOK, ReadyOf, Places
<1>4. ASSUME NEW t \in Slots, t # s PROVE ReadyOf'[t] = ReadyOf[t]
  <2>1. ready_index'[t] = ready_index[t]
    BY <1>1, <1>2, <1>4 DEF TypeOK
  <2>2. CASE ready_index[t] = -1
    BY <2>1, <2>2 DEF ReadyOf
  <2>3. CASE ready_index[t] # -1
    <3>1. ready_index[t] \in Places /\ clients[ready_index[t]][1] = t
      BY <1>1, <2>3 DEF Inv, IndexExact, TypeOK
    <3>2. ready_index[t] # place
      <4>1. CASE Listed(s)
        <5>1. ready_index[s] # -1
          BY <4>1 DEF Listed
        <5> QED BY <1>4, <3>1, <4>1, <5>1 DEF Inv, IndexExact
      <4>2. CASE ~Listed(s)
        <5>1. s \notin Indexed
          BY <1>1, <4>2, MaxClients DEF TypeOK, Listed, Indexed, Places
        <5>2. numclients = Cardinality(Indexed)
          BY <5>1, IndexedFinite DEF Inv, CountExact
        <5>3. ready_index[t] < Cardinality(Indexed)
          BY <2>3 DEF Inv, Dense, Indexed
        <5> QED BY <3>1, <4>2, <5>2, <5>3, IndexedFinite DEF Places
      <4> QED BY <4>1, <4>2
    <3> QED BY <1>1, <1>2, <2>1, <2>3, <3>1, <3>2 DEF ReadyOf, TypeOK
  <2> QED BY <2>2, <2>3
<1> QED BY <1>3, <1>4 DEF ReadyOf

LEMMA AbstractReadySlots ==
  ASSUME Inv
  PROVE  {s \in Slots : ReadyOf[s] # NotReady} = Indexed
<1>1. ASSUME NEW s \in Indexed PROVE clients[ready_index[s]][2] \in Values
  <2>1. ready_index[s] \in Places /\ clients[ready_index[s]] # NotReady
    BY DEF Inv, IndexExact, TypeOK, Indexed
  <2>2. clients[ready_index[s]] \in Slots \X Values
    BY <2>1 DEF Inv, IndexExact, TypeOK
  <2> QED BY <2>2
<1> QED BY <1>1, TableAssumption DEF Indexed, ReadyOf

(***************************************************************************)
(* The drivers' tables implement the set of ready channels that the server *)
(* relies on, for any number of channels and any parameters.               *)
(***************************************************************************)
THEOREM TableImplementsSet == Spec => ImplementsReadySet
<1>1. Init => Abstract!Init
  BY DEF Init, NoIndex, Abstract!Init, Abstract!Nobody
<1>2. Inv /\ [Next]_vars => [Abstract!Next]_Abstract!vars
  <2> SUFFICES ASSUME Inv, [Next]_vars PROVE [Abstract!Next]_Abstract!vars
    OBVIOUS
  <2>1. ASSUME NEW s \in Slots, NEW v \in Values, READY(s, v)
        PROVE  Abstract!READY(s, v)
    <3>1. ReadyOf' = [ReadyOf EXCEPT ![s] = v]
      BY <2>1, ReadyMapped
    <3> QED BY <2>1, <3>1 DEF Abstract!READY, ReadyOf, READY
  <2>2. ASSUME Emptied PROVE ReadyOf' = Abstract!Nobody
    BY <2>2 DEF ReadyOf, Emptied, NoIndex, Abstract!Nobody
  <2>3. CASE PRETRIGGER
    <3>1. Abstract!ReadySlots = Indexed
      BY AbstractReadySlots DEF Abstract!ReadySlots, ReadyOf
    <3>2. {<<s, ReadyOf[s]>> : s \in Indexed}
            = {<<s, clients[ready_index[s]][2]>> : s \in Indexed}
      BY DEF ReadyOf, Indexed
    <3>3. served' = IF Abstract!ReadySlots = Slots THEN {}
                    ELSE {<<s, ReadyOf[s]>> : s \in Abstract!ReadySlots}
      BY <2>3, <3>1, <3>2, Through DEF PRETRIGGER
    <3>4. ReadyOf' = IF cleared_by = "pretrigger" THEN Abstract!Nobody ELSE ReadyOf
      <4>1. CASE cleared_by = "pretrigger"
        BY <2>2, <2>3, <4>1 DEF PRETRIGGER
      <4>2. CASE cleared_by # "pretrigger"
        BY <2>3, <4>2 DEF PRETRIGGER, ReadyOf
      <4> QED BY <4>1, <4>2
    <3>5. cleared_by' = cleared_by
      BY <2>3 DEF PRETRIGGER
    <3>6. Abstract!PRETRIGGER
      BY <3>3, <3>4, <3>5 DEF Abstract!PRETRIGGER, ReadyOf
    <3> QED BY <3>6 DEF Abstract!Next
  <2>4. CASE POSTTRIGGER
    BY <2>2, <2>4 DEF POSTTRIGGER, Abstract!POSTTRIGGER, Abstract!Next, ReadyOf
  <2>5. CASE UNCHANGED vars
    BY <2>5 DEF vars, Abstract!vars
  <2> QED BY <2>1, <2>3, <2>4, <2>5 DEF Next, Abstract!Next
<1> QED BY InitInv, NextInv, <1>1, <1>2, PTL DEF Spec, ImplementsReadySet, Abstract!Spec
==============================================================================
