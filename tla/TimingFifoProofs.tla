-------------------------- MODULE TimingFifoProofs ---------------------------
(***************************************************************************)
(* That the timing card sends the master sequence in order, that its FIFO  *)
(* neither overruns nor runs dry under its two threads, and that WAIT      *)
(* tells whether it has, for every size of the FIFO and of its level, every*)
(* length of sequences and every interleaving of main and int_handler.     *)
(***************************************************************************)
EXTENDS TimingFifo, SequenceTheorems, TLAPS

(* int_handler leaves its loop's beginning only while writingFIFO is set. *)
Handler == thread # "top" => writingFIFO

(* Outputs are enabled from TRIGGER to the end of the WAIT after it. *)
Enabled == /\ stage = "armed" => ~enabled
           /\ stage = "running" => enabled

(* What a refill adds fits into the sequence, also into a new one. *)
Fits ==
  thread = "refill" =>
    /\ totransfer \in 0 .. FIFOLVL
    /\ xfercount < max_seq_count => xfercount + totransfer <= max_seq_count

(* The words in the FIFO are the next ones, up to xfercount. *)
Loaded ==
  stage = "armed" \/ enabled =>
    /\ Len(out) <= xfercount
    /\ fifo = Words(Len(out), xfercount - Len(out))

(* Between PRETRIGGER and TRIGGER int_handler has nothing to do. *)
Quiet == (stage = "armed" /\ writingFIFO) => ~event /\ thread \in {"top", "poll"}

(* What is known once the FIFO was written, and once a WAIT was answered. *)
Waited ==
  /\ stage = "wait_empty" => ~writingFIFO
  /\ stage \notin {"armed", "running"} /\ ~enabled =>
       /\ ~writingFIFO
       /\ xfercount = max_seq_count => Len(out) = max_seq_count
  /\ stage = "rest" => ~enabled /\ status = Underflow

Inv ==
  /\ TypeOK /\ Handler /\ Enabled /\ Fits
  /\ InOrder /\ Loaded
  /\ ~torn => Quiet
  /\ ~torn /\ ~given_up => Waited

-----------------------------------------------------------------------------
(* Facts about words *)

LEMMA WordsSeq ==
  ASSUME NEW a \in Nat, NEW n \in Nat
  PROVE  /\ Words(a, n) \in Seq(Nat)
         /\ Len(Words(a, n)) = n
         /\ \A k \in 1 .. n : Words(a, n)[k] = a + k - 1
<1>1. Words(a, n) \in [1 .. n -> Nat]
  BY DEF Words
<1>2. Words(a, n) \in Seq(Nat)
  BY <1>1, SeqDef
<1>3. DOMAIN Words(a, n) = 1 .. n
  BY DEF Words
<1>4. Len(Words(a, n)) = n
  BY <1>2, <1>3, LenProperties
<1> QED BY <1>2, <1>4 DEF Words

LEMMA IsWords ==
  ASSUME NEW a \in Nat, NEW n \in Nat, NEW s \in Seq(Nat), Len(s) = n,
         \A k \in 1 .. n : s[k] = a + k - 1
  PROVE  s = Words(a, n)
<1>1. s \in [1 .. n -> Nat]
  BY LenProperties
<1> QED BY <1>1 DEF Words

LEMMA WordsEmpty ==
  ASSUME NEW a \in Nat, NEW n \in Nat
  PROVE  Words(a, n) = <<>> <=> n = 0
<1>1. Words(a, 0) = <<>>
  BY WordsSeq, EmptySeq
<1> QED BY <1>1, WordsSeq, EmptySeq

(* A refill that begins where the FIFO ends. *)
LEMMA WordsConcat ==
  ASSUME NEW a \in Nat, NEW m \in Nat, NEW n \in Nat
  PROVE  Words(a, m) \o Words(a + m, n) = Words(a, m + n)
<1> DEFINE s == Words(a, m) \o Words(a + m, n)
<1>1. /\ Words(a, m) \in Seq(Nat) /\ Len(Words(a, m)) = m
      /\ \A k \in 1 .. m : Words(a, m)[k] = a + k - 1
  BY WordsSeq
<1>2. /\ Words(a + m, n) \in Seq(Nat) /\ Len(Words(a + m, n)) = n
      /\ \A k \in 1 .. n : Words(a + m, n)[k] = a + m + k - 1
  BY a + m \in Nat, WordsSeq
<1>3. /\ s \in Seq(Nat) /\ Len(s) = m + n
      /\ \A k \in 1 .. m + n : s[k] = IF k <= m THEN Words(a, m)[k]
                                      ELSE Words(a + m, n)[k - m]
  <2>1. ASSUME NEW t \in Seq(Nat), Len(t) = m, NEW u \in Seq(Nat), Len(u) = n
        PROVE  /\ t \o u \in Seq(Nat) /\ Len(t \o u) = m + n
               /\ \A k \in 1 .. m + n : (t \o u)[k] = IF k <= m THEN t[k] ELSE u[k - m]
    BY <2>1, ConcatProperties
  <2> QED BY <1>1, <1>2, <2>1
<1> HIDE DEF s
<1>4. ASSUME NEW k \in 1 .. m + n PROVE s[k] = a + k - 1
  <2>1. CASE k <= m
    BY <1>1, <1>3, <2>1
  <2>2. CASE k > m
    <3>1. k - m \in 1 .. n
      BY <2>2
    <3>2. s[k] = Words(a + m, n)[k - m]
      BY <1>3, <2>2
    <3>3. Words(a + m, n)[k - m] = a + m + (k - m) - 1
      BY <1>2, <3>1
    <3> QED BY <3>2, <3>3
  <2> QED BY <2>1, <2>2
<1>5. s = Words(a, m + n)
  BY m + n \in Nat, <1>3, <1>4, IsWords
<1> QED BY <1>5 DEF s

(* The card sends the first word. *)
LEMMA WordsSent ==
  ASSUME NEW a \in Nat, NEW n \in Nat, n > 0
  PROVE  Head(Words(a, n)) = a /\ Tail(Words(a, n)) = Words(a + 1, n - 1)
<1> DEFINE s == Words(a, n)
<1>1. s \in Seq(Nat) /\ Len(s) = n /\ s # <<>> /\ \A k \in 1 .. n : s[k] = a + k - 1
  BY WordsSeq, WordsEmpty
<1>2. Head(s) = a
  BY <1>1
<1>3. Tail(s) \in Seq(Nat) /\ Len(Tail(s)) = n - 1 /\ \A k \in 1 .. n - 1 : Tail(s)[k] = s[k + 1]
  BY <1>1, HeadTailProperties
<1>4. ASSUME NEW k \in 1 .. n - 1 PROVE Tail(s)[k] = a + 1 + k - 1
  BY <1>1, <1>3
<1>5. Tail(s) = Words(a + 1, n - 1)
  BY a + 1 \in Nat, n - 1 \in Nat, <1>3, <1>4, IsWords
<1> QED BY <1>2, <1>5

LEMMA WordsAppend ==
  ASSUME NEW n \in Nat
  PROVE  Append(Words(0, n), n) = Words(0, n + 1)
<1> DEFINE s == Append(Words(0, n), n)
<1>1. Words(0, n) \in Seq(Nat) /\ Len(Words(0, n)) = n /\ \A k \in 1 .. n : Words(0, n)[k] = k - 1
  BY WordsSeq
<1>2. s \in Seq(Nat) /\ Len(s) = n + 1
  BY <1>1
<1>3. ASSUME NEW k \in 1 .. n + 1 PROVE s[k] = 0 + k - 1
  BY <1>1
<1> QED BY n + 1 \in Nat, <1>2, <1>3, IsWords

-----------------------------------------------------------------------------
(* The invariant *)

LEMMA Levels ==
  /\ FIFOLVL \in Nat /\ FifoSize \in Nat
  /\ \A n \in Lengths : /\ n \in Nat /\ FirstTransfer(n) \in 0 .. n
                        /\ FirstTransfer(n) < n => FirstTransfer(n) + FIFOLVL <= n
BY FifoAssumption DEF FirstTransfer

LEMMA Counts ==
  ASSUME TypeOK
  PROVE  /\ max_seq_count \in Nat /\ xfercount \in Nat /\ xfercount <= max_seq_count
         /\ Len(out) \in Nat /\ totransfer \in Int
BY Levels, LenProperties DEF TypeOK

LEMMA InitInv == Init => Inv
<1> SUFFICES ASSUME Init PROVE Inv
  OBVIOUS
<1>1. Words(0, 0) = <<>> /\ Len(<<>>) = 0
  BY WordsEmpty
<1>2. TypeOK
  <2>1. fifo \in Seq(Nat) /\ out \in Seq(Nat)
    BY EmptySeq DEF Init
  <2>2. xfercount \in 0 .. max_seq_count /\ max_seq_count \in Lengths \cup {0}
    BY DEF Init
  <2>3. status \in {0, -1, -2, -3} /\ totransfer \in Int
    BY DEF Init
  <2> QED BY <2>1, <2>2, <2>3, Zenon DEF Init, TypeOK
<1> QED
  BY <1>1, <1>2 DEF Init, Inv, Handler, Enabled, Fits, InOrder, Loaded, Quiet, Waited,
                    Underflow

LEMMA PretriggerInv ==
  ASSUME Inv, NEW n \in Lengths, PRETRIGGER(n)
  PROVE  Inv'
<1>1. n \in Nat /\ FirstTransfer(n) \in Nat /\ FirstTransfer(n) <= n
  BY Levels
<1>2. Words(0, FirstTransfer(n)) \in Seq(Nat) /\ <<>> \in Seq(Nat) /\ Len(<<>>) = 0
  BY <1>1, WordsSeq, EmptySeq
<1>3. TypeOK'
  BY <1>1, <1>2, Levels DEF Inv, TypeOK, PRETRIGGER
<1>4. Handler' /\ Enabled'
  BY DEF Inv, Handler, PRETRIGGER, Enabled
<1>5. Fits'
  BY Levels, <1>1 DEF Inv, Fits, PRETRIGGER
<1>6. InOrder'
  BY <1>2, WordsEmpty DEF PRETRIGGER, InOrder
<1>7. Loaded'
  BY <1>1, <1>2 DEF PRETRIGGER, Loaded
<1>8. ASSUME ~torn' PROVE Quiet'
  BY <1>8 DEF PRETRIGGER, Quiet, Inv, TypeOK
<1>9. Waited'
  BY DEF PRETRIGGER, Waited
<1> QED BY <1>3, <1>4, <1>5, <1>6, <1>7, <1>8, <1>9 DEF Inv

LEMMA TriggerInv ==
  ASSUME Inv, TRIGGER
  PROVE  Inv'
<1>1. TypeOK'
  BY DEF Inv, TypeOK, TRIGGER, history
<1>2. Handler' /\ Enabled' /\ Fits' /\ InOrder' /\ Quiet' /\ Waited'
  BY DEF Inv, Handler, Enabled, Fits, InOrder, Quiet, Waited, TRIGGER, history
<1>3. Loaded'
  BY DEF Inv, Loaded, TRIGGER, history
<1> QED BY <1>1, <1>2, <1>3 DEF Inv

LEMMA WaitInv ==
  ASSUME Inv, WAIT \/ WAIT_written
  PROVE  Inv'
<1>1. TypeOK' /\ Handler' /\ Fits' /\ InOrder'
  BY DEF Inv, TypeOK, Handler, Fits, InOrder, WAIT, WAIT_written, card, history
<1>2. Enabled' /\ Quiet'
  BY DEF Inv, Enabled, Quiet, WAIT, WAIT_written, card, history
<1>3. Loaded'
  BY DEF Inv, Loaded, WAIT, WAIT_written, card, history, Enabled
<1>4. ASSUME ~torn', ~given_up' PROVE Waited'
  BY <1>4 DEF Inv, Waited, WAIT, WAIT_written, card, history, Enabled
<1> QED BY <1>1, <1>2, <1>3, <1>4 DEF Inv

LEMMA AnswerInv ==
  ASSUME Inv, WAIT_empty \/ WAIT_dead
  PROVE  Inv'
<1>1. PICK dead \in {0, -1} : Answer(dead)
  BY DEF WAIT_empty, WAIT_dead
<1>2. TypeOK'
  <2>1. status' \in {0, -1, -2, -3}
    BY <1>1, Counts DEF Inv, Answer, Underflow
  <2> QED BY <1>1, <2>1, EmptySeq DEF Inv, TypeOK, Answer
<1>3. Handler' /\ Enabled' /\ Fits' /\ InOrder' /\ Quiet'
  BY <1>1 DEF Inv, Handler, Enabled, Fits, InOrder, Quiet, Answer
<1>4. Loaded'
  BY <1>1 DEF Loaded, Answer
<1>5. ASSUME ~torn', ~given_up' PROVE Waited'
  <2>1. WAIT_empty
    BY <1>5, -1 # 0 DEF WAIT_dead, Answer
  <2>2. ~torn /\ ~given_up /\ Waited /\ Loaded
    BY <1>1, <1>5 DEF Inv, Answer, TypeOK
  <2>3. stage = "wait_empty" /\ fifo = <<>> /\ Answer(0)
    BY <2>1 DEF WAIT_empty
  <2>4. ~writingFIFO
    BY <2>2, <2>3 DEF Waited
  <2>5. xfercount = max_seq_count => Len(out) = max_seq_count
    <3>1. CASE enabled
      <4>1. Len(out) \in Nat /\ xfercount \in Nat
        BY Counts DEF Inv
      <4>2. Len(out) <= xfercount /\ Words(Len(out), xfercount - Len(out)) = <<>>
        BY <2>2, <2>3, <3>1 DEF Loaded
      <4>3. xfercount - Len(out) = 0
        BY <4>1, <4>2, xfercount - Len(out) \in Nat, WordsEmpty
      <4> QED BY <4>1, <4>3
    <3>2. CASE ~enabled
      BY <2>2, <2>3, <3>2 DEF Waited
    <3> QED BY <3>1, <3>2
  <2> QED BY <2>3, <2>4, <2>5 DEF Waited, Answer, Underflow
<1> QED BY <1>2, <1>3, <1>4, <1>5 DEF Inv

LEMMA TopInv ==
  ASSUME Inv, top
  PROVE  Inv'
<1> USE DEF main_vars, card, history
<1>1. TypeOK' /\ Handler' /\ Enabled' /\ Fits' /\ InOrder'
  BY DEF Inv, TypeOK, Handler, Enabled, Fits, InOrder, top
<1>2. Loaded' /\ (~torn' => Quiet')
  BY DEF Inv, Loaded, Quiet, top
<1>3. ASSUME ~torn', ~given_up' PROVE Waited'
  BY <1>3 DEF Inv, Waited, Underflow, top
<1> QED BY <1>1, <1>2, <1>3 DEF Inv

LEMMA PollInv ==
  ASSUME Inv, poll
  PROVE  Inv'
<1> USE DEF main_vars, card, history
<1>1. TypeOK' /\ Handler' /\ Enabled' /\ Fits' /\ InOrder'
  BY DEF Inv, TypeOK, Handler, Enabled, Fits, InOrder, poll
<1>2. Loaded' /\ (~torn' => Quiet')
  BY DEF Inv, Handler, Loaded, Quiet, poll
<1>3. ASSUME ~torn', ~given_up' PROVE Waited'
  BY <1>3 DEF Inv, Waited, Underflow, poll
<1> QED BY <1>1, <1>2, <1>3 DEF Inv

LEMMA ClearInv ==
  ASSUME Inv, clear
  PROVE  Inv'
<1> USE DEF main_vars, history
<1>0. Chunk \in 0 .. FIFOLVL /\ xfercount + Chunk <= max_seq_count
  BY Counts, Levels DEF Inv, Chunk
<1>1. Handler' /\ Enabled' /\ InOrder'
  BY DEF Inv, Handler, Enabled, InOrder, clear
<1>5. TypeOK'
  <2>1. totransfer' \in Int
    BY <1>0, Levels DEF clear
  <2> QED BY <2>1 DEF Inv, TypeOK, clear
<1>2. Fits'
  BY <1>0 DEF Fits, clear
<1>3. Loaded' /\ (~torn' => Quiet')
  BY DEF Inv, Handler, Loaded, Quiet, clear
<1>4. ASSUME ~torn', ~given_up' PROVE Waited'
  BY <1>4 DEF Inv, Waited, Underflow, clear
<1> QED BY <1>1, <1>2, <1>3, <1>4, <1>5 DEF Inv

LEMMA RefillInv ==
  ASSUME Inv, refill
  PROVE  Inv'
<1> USE DEF main_vars, history
<1>0. /\ TypeOK /\ thread = "refill" /\ writingFIFO
      /\ totransfer \in 0 .. FIFOLVL /\ totransfer \in Nat
      /\ xfercount < max_seq_count => xfercount + totransfer <= max_seq_count
  BY Levels DEF Inv, refill, Fits, Handler
<1>1. \/ /\ xfercount < max_seq_count
         /\ fifo' = fifo \o Words(xfercount, totransfer)
         /\ xfercount' = xfercount + totransfer
      \/ fifo' = fifo /\ xfercount' = xfercount
  BY DEF refill, Transferred
<1>2. /\ thread' = "top" /\ max_seq_count' = max_seq_count /\ stage' = stage
      /\ enabled' = enabled /\ out' = out /\ torn' = torn /\ given_up' = given_up
      /\ writingFIFO' \in BOOLEAN
      /\ UNCHANGED <<conditions, status, totransfer, event, under>>
  BY DEF refill
<1>3. TypeOK'
  <2>1. xfercount' \in 0 .. max_seq_count'
    BY <1>0, <1>1, <1>2, Counts
  <2>2. fifo' \in Seq(Nat)
    <3>1. fifo \in Seq(Nat) /\ Words(xfercount, totransfer) \in Seq(Nat)
      BY <1>0, Counts, WordsSeq DEF TypeOK
    <3> QED BY <1>1, <3>1, ConcatProperties
  <2> QED BY <1>0, <1>2, <2>1, <2>2 DEF TypeOK
<1>4. Handler' /\ Enabled' /\ Fits' /\ InOrder'
  BY <1>2 DEF Inv, Handler, Enabled, Fits, InOrder
<1>5. Loaded'
  <2>1. ASSUME stage' = "armed" \/ enabled'
        PROVE  Len(out') <= xfercount' /\ fifo' = Words(Len(out'), xfercount' - Len(out'))
    <3> DEFINE a == Len(out)
    <3> DEFINE m == xfercount - a
    <3>1. a \in Nat /\ xfercount \in Nat /\ a <= xfercount /\ fifo = Words(a, m)
      BY <1>0, <1>2, <2>1, Counts DEF Inv, Loaded
    <3>2. m \in Nat /\ a + m = xfercount
      BY <3>1
    <3>3. CASE fifo' = fifo \o Words(xfercount, totransfer) /\ xfercount' = xfercount + totransfer
      <4>1. fifo' = Words(a, m) \o Words(a + m, totransfer)
        BY <3>1, <3>2, <3>3
      <4>2. fifo' = Words(a, m + totransfer)
        BY <1>0, <3>1, <3>2, <4>1, WordsConcat
      <4>3. m + totransfer = xfercount' - a /\ a <= xfercount'
        BY <1>0, <3>1, <3>3
      <4> QED BY <1>2, <4>2, <4>3
    <3>4. CASE fifo' = fifo /\ xfercount' = xfercount
      BY <1>2, <3>1, <3>4
    <3> QED BY <1>1, <3>3, <3>4
  <2> QED BY <2>1 DEF Loaded
<1>7. ASSUME ~torn' PROVE Quiet'
  BY <1>0, <1>2, <1>7 DEF Inv, Quiet
<1>6. ASSUME ~torn', ~given_up' PROVE Waited'
  BY <1>0, <1>2, <1>6 DEF Inv, Waited
<1> QED BY <1>3, <1>4, <1>5, <1>6, <1>7 DEF Inv

LEMMA SendInv ==
  ASSUME Inv, send
  PROVE  Inv'
<1> USE DEF main_vars, history
<1>0. TypeOK /\ enabled /\ fifo # <<>> /\ Len(out) \in Nat /\ xfercount \in Nat
  BY Counts DEF Inv, send
<1>1. TypeOK'
  <2>1. fifo' \in Seq(Nat) /\ Head(fifo) \in Nat
    BY <1>0, HeadTailProperties DEF TypeOK, send
  <2>2. out' \in Seq(Nat)
    BY <1>0, <2>1 DEF TypeOK, send
  <2>3. event' \in BOOLEAN
    BY <1>0 DEF TypeOK, send
  <2> QED BY <1>0, <2>1, <2>2, <2>3 DEF TypeOK, send
<1>2. Handler' /\ Enabled' /\ Fits'
  BY DEF Inv, Handler, Enabled, Fits, send
<1>3. Loaded' /\ (~torn' => InOrder' /\ Quiet')
  <2> DEFINE a == Len(out)
  <2> DEFINE m == xfercount - a
  <2>1. a <= xfercount /\ fifo = Words(a, m)
    BY <1>0 DEF Inv, Loaded
  <2>2. m \in Nat /\ m > 0
    <3>1. m \in Nat
      BY <1>0, <2>1
    <3> QED BY <1>0, <2>1, <3>1, WordsEmpty
  <2>3. Head(fifo) = a /\ Tail(fifo) = Words(a + 1, m - 1)
    BY <1>0, <2>1, <2>2, WordsSent
  <2>4. Len(out') = a + 1
    BY <1>0, <2>3 DEF send, TypeOK
  <2>5. fifo' = Words(a + 1, xfercount - (a + 1))
    BY <1>0, <2>3, m - 1 = xfercount - (a + 1) DEF send
  <2>6. Loaded'
    BY <1>0, <2>2, <2>4, <2>5 DEF Loaded, send
  <2>7. ASSUME ~torn' PROVE InOrder'
    <3>1. out = Words(0, a)
      BY <2>7 DEF Inv, InOrder, send
    <3>2. out' = Words(0, a + 1)
      BY <1>0, <2>3, <3>1, WordsAppend DEF send
    <3> QED BY <2>4, <3>2 DEF InOrder
  <2>8. Quiet'
    BY <1>0 DEF Inv, Enabled, Quiet, send
  <2> QED BY <2>6, <2>7, <2>8
<1>4. ASSUME torn' PROVE InOrder'
  BY <1>4 DEF InOrder
<1>5. ASSUME ~torn', ~given_up' PROVE Waited'
  BY <1>0, <1>5 DEF Inv, Waited, send
<1> QED BY <1>1, <1>2, <1>3, <1>4, <1>5 DEF Inv

LEMMA RunDryInv ==
  ASSUME Inv, run_dry
  PROVE  Inv'
<1> USE DEF main_vars, history
<1>1. TypeOK' /\ Handler' /\ Enabled' /\ Fits' /\ InOrder'
  BY DEF Inv, TypeOK, Handler, Enabled, Fits, InOrder, run_dry
<1>2. Loaded' /\ (~torn' => Quiet')
  BY DEF Inv, Loaded, Quiet, run_dry
<1>3. ASSUME ~torn', ~given_up' PROVE Waited'
  BY <1>3 DEF Inv, Waited, Underflow, run_dry
<1> QED BY <1>1, <1>2, <1>3 DEF Inv

LEMMA NextInv == Inv /\ [Next]_vars => Inv'
<1> SUFFICES ASSUME Inv, [Next]_vars PROVE Inv'
  OBVIOUS
<1>1. ASSUME NEW n \in Lengths, PRETRIGGER(n) PROVE Inv'
  BY <1>1, PretriggerInv
<1>2. CASE TRIGGER
  BY <1>2, TriggerInv
<1>3. CASE WAIT \/ Main
  BY <1>3, WaitInv, AnswerInv DEF Main
<1>4. CASE IntHandler
  BY <1>4, TopInv, PollInv, ClearInv, RefillInv DEF IntHandler
<1>5. CASE send \/ run_dry
  BY <1>5, SendInv, RunDryInv
<1>6. CASE UNCHANGED vars
  BY <1>6 DEF vars, main_vars, card, history, Inv, TypeOK, Handler, Enabled, Fits, InOrder,
              Loaded, Quiet, Waited, Underflow
<1> QED BY <1>1, <1>2, <1>3, <1>4, <1>5, <1>6 DEF Next

-----------------------------------------------------------------------------
(* The pace of the refills *)

Level(pending) == IF pending THEN FIFOLVL ELSE 0

(* The words that the events of the first a words bring: one level a stamp. *)
Brought(a) == a - (a % FIFOLVL) + Level(a % FIFOLVL # 0)

(* A stamped word that int_handler has not served yet. *)
Pending == event \/ thread \in {"clear", "refill"}

(* A sequence begins with its first transfer, and nothing is taken back. *)
Begun ==
  /\ stage = "armed" => out = <<>>
  /\ stage = "armed" \/ enabled => xfercount >= FirstTransfer(max_seq_count)

(* Nothing is written but what an event has brought. *)
Paced ==
  /\ thread = "clear" => event
  /\ stage = "armed" => xfercount = FirstTransfer(max_seq_count)
  /\ enabled /\ max_seq_count > FifoSize =>
       xfercount + Level(event) + Level(thread = "refill")
         <= FirstTransfer(max_seq_count) + Brought(Len(out))
  /\ ~enabled /\ stage # "armed" =>
       fifo = <<>> \/ (Len(fifo) <= FIFOLVL /\ ~writingFIFO)

(***************************************************************************)
(* What the events have brought is written, but for the last one; a refill *)
(* of another size than the sequence needs, left from the one before it,   *)
(* comes before the first word is sent.                                    *)
(***************************************************************************)
Ahead ==
  /\ ~under
  /\ stage = "armed" \/ enabled =>
       (thread = "refill" /\ totransfer < FIFOLVL /\ xfercount + totransfer < max_seq_count
          => out = <<>>)
  /\ enabled /\ xfercount < max_seq_count =>
       /\ writingFIFO
       /\ xfercount + Level(Pending) >= FirstTransfer(max_seq_count) + Brought(Len(out))

Pace ==
  /\ Begun
  /\ ~torn => Paced
  /\ "late" \notin conditions => Ahead

LEMMA ModOf ==
  ASSUME NEW l \in Nat \ {0}, NEW q \in Int, NEW r \in 0 .. l - 1
  PROVE  (q * l + r) % l = r
OBVIOUS

LEMMA ModStep ==
  ASSUME NEW l \in Nat \ {0}, NEW a \in Nat
  PROVE  /\ a % l \in 0 .. l - 1
         /\ (a + 1) % l = IF a % l = l - 1 THEN 0 ELSE (a % l) + 1
<1> DEFINE q == a \div l
<1> DEFINE r == a % l
<1>1. q \in Int /\ r \in 0 .. l - 1 /\ a = q * l + r
  <2>1. q \in Int /\ r \in 0 .. l - 1
    OBVIOUS
  <2>2. a = l * q + r
    OBVIOUS
  <2> QED BY <2>1, <2>2
<1> HIDE DEF q
<1>2. CASE r = l - 1
  <2>1. a + 1 = (q + 1) * l + 0
    BY <1>1, <1>2
  <2>2. ((q + 1) * l + 0) % l = 0
    BY <1>1, q + 1 \in Int, 0 \in 0 .. l - 1, ModOf
  <2> QED BY <1>1, <1>2, <2>1, <2>2
<1>3. CASE r # l - 1
  <2> HIDE DEF r
  <2>1. a + 1 = q * l + (r + 1) /\ r + 1 \in 0 .. l - 1
    BY <1>1, <1>3
  <2>2. (q * l + (r + 1)) % l = r + 1
    BY <1>1, <2>1, ModOf
  <2> QED BY <1>1, <1>3, <2>1, <2>2 DEF r
<1> QED BY <1>2, <1>3

LEMMA ZeroMod == 0 % FIFOLVL = 0
BY FifoAssumption, 0 * FIFOLVL + 0 = 0, 0 \in 0 .. FIFOLVL - 1, ModOf

(* A stamp is as wide as FIFOWIDTH; its first word raises the event. *)
LEMMA RisesAtLevel ==
  ASSUME NEW i \in Nat
  PROVE  Rises(i) <=> i % FIFOLVL = 0
<1>1. FIFOLVL \in Nat \ {0} /\ FIFOWIDTH \in Nat \ {0} /\ FIFOWIDTH < FIFOLVL
  BY FifoAssumption
<1>2. i % FIFOLVL \in 0 .. FIFOLVL - 1
  BY <1>1, ModStep
<1>3. CASE i = 0
  BY <1>1, <1>3, ZeroMod DEF Rises, Stamped
<1>4. CASE i # 0
  <2> DEFINE j == i - 1
  <2>1. j \in Nat /\ i = j + 1
    BY <1>4
  <2>2. /\ j % FIFOLVL \in 0 .. FIFOLVL - 1
        /\ (j + 1) % FIFOLVL = IF j % FIFOLVL = FIFOLVL - 1 THEN 0 ELSE (j % FIFOLVL) + 1
    BY <1>1, <2>1, ModStep
  <2>3. Rises(i) <=> i % FIFOLVL < FIFOWIDTH /\ ~(j % FIFOLVL < FIFOWIDTH)
    BY <1>4 DEF Rises, Stamped
  <2> HIDE DEF j
  <2> QED BY <1>1, <2>1, <2>2, <2>3
<1> QED BY <1>3, <1>4

LEMMA BroughtStep ==
  /\ Brought(0) = 0
  /\ \A a \in Nat : /\ Brought(a) \in a .. a + FIFOLVL - 1
                    /\ Brought(a + 1) = Brought(a) + Level(Rises(a))
<1>1. FIFOLVL \in Nat \ {0}
  BY FifoAssumption
<1>2. ASSUME NEW a \in Nat
      PROVE  /\ Brought(a) \in a .. a + FIFOLVL - 1
             /\ Brought(a + 1) = Brought(a) + Level(Rises(a))
  <2>1. /\ a % FIFOLVL \in 0 .. FIFOLVL - 1
        /\ (a + 1) % FIFOLVL = IF a % FIFOLVL = FIFOLVL - 1 THEN 0 ELSE (a % FIFOLVL) + 1
    BY <1>1, ModStep
  <2>2. Rises(a) <=> a % FIFOLVL = 0
    BY RisesAtLevel
  <2> DEFINE r == a % FIFOLVL
  <2> DEFINE s == (a + 1) % FIFOLVL
  <2>3. /\ Brought(a) = a - r + Level(r # 0)
        /\ Brought(a + 1) = (a + 1) - s + Level(s # 0)
    BY DEF Brought, Level
  <2> HIDE DEF r, s
  <2>4. r \in 0 .. FIFOLVL - 1 /\ s = (IF r = FIFOLVL - 1 THEN 0 ELSE r + 1)
    BY <2>1 DEF r, s
  <2>5. Rises(a) <=> r = 0
    BY <2>2 DEF r
  <2>6. Brought(a) \in a .. a + FIFOLVL - 1
    BY <1>1, <2>3, <2>4 DEF Level
  <2>7. Brought(a + 1) = Brought(a) + Level(Rises(a))
    <3>1. CASE r = 0
      BY <1>1, <2>3, <2>4, <2>5, <3>1 DEF Level
    <3>2. CASE r # 0
      BY <1>1, <2>3, <2>4, <2>5, <3>2 DEF Level
    <3> QED BY <3>1, <3>2
  <2> QED BY <2>6, <2>7
<1>3. Brought(0) = 0
  BY ZeroMod DEF Brought, Level
<1> QED BY <1>2, <1>3

LEMMA Sizes ==
  /\ FIFOLVL \in Nat /\ FIFOLVL > 0 /\ FIFOWIDTH \in Nat /\ FifoSize \in Nat
  /\ FIFOLVL <= FifoSize
  /\ \A n \in Lengths \cup {0} :
       /\ n \in Nat /\ FirstTransfer(n) \in Nat /\ FirstTransfer(n) <= FifoSize
       /\ n > FifoSize => FirstTransfer(n) = FIFOLVL + FIFOWIDTH + 2
       /\ n <= FifoSize => FirstTransfer(n) = n
       /\ n > FifoSize => FirstTransfer(n) + FIFOLVL - 1 <= FifoSize
BY FifoAssumption DEF FirstTransfer

(* Between a stamp and the next the card never comes to the FIFO's end. *)
LEMMA NeverDry ==
  ASSUME Inv, Begun, Ahead, enabled, xfercount < max_seq_count
  PROVE  Len(out) < xfercount /\ fifo # <<>>
<1> DEFINE a == Len(out)
<1>1. /\ a \in Nat /\ xfercount \in Nat /\ max_seq_count \in Nat
      /\ max_seq_count \in Lengths \cup {0}
  BY Counts DEF Inv, TypeOK
<1>2. xfercount >= FirstTransfer(max_seq_count)
  BY DEF Begun
<1>3. FirstTransfer(max_seq_count) = FIFOLVL + FIFOWIDTH + 2
  BY <1>1, <1>2, Sizes
<1>4. Brought(a) \in Nat /\ Brought(a) >= a
  BY <1>1, BroughtStep, Sizes
<1>5. xfercount + Level(Pending) >= FirstTransfer(max_seq_count) + Brought(a)
  BY DEF Ahead
<1>6. Level(Pending) \in Nat /\ Level(Pending) <= FIFOLVL
  BY Sizes DEF Level
<1>7. a < xfercount
  BY <1>1, <1>3, <1>4, <1>5, <1>6, Sizes
<1>8. fifo = Words(a, xfercount - a)
  BY DEF Inv, Loaded
<1>9. fifo # <<>>
  BY <1>1, <1>7, <1>8, xfercount - a \in Nat, WordsEmpty
<1> QED BY <1>7, <1>9

LEMMA PaceInit == Init => Pace
BY Sizes, EmptySeq DEF Init, Pace, Begun, Paced, Ahead

LEMMA PacePretrigger ==
  ASSUME Inv, Pace, NEW n \in Lengths, PRETRIGGER(n)
  PROVE  Pace'
<1>1. FirstTransfer(n) \in Nat
  BY Sizes
<1>2. Begun'
  BY <1>1 DEF Begun, PRETRIGGER
<1>3. ASSUME ~torn' PROVE Paced'
  <2>1. thread # "clear"
    BY <1>3 DEF PRETRIGGER, Inv, Handler
  <2> QED BY <2>1 DEF Paced, PRETRIGGER
<1>4. Ahead'
  BY DEF Ahead, PRETRIGGER
<1> QED BY <1>2, <1>3, <1>4 DEF Pace

LEMMA PaceTrigger ==
  ASSUME Inv, Pace, TRIGGER
  PROVE  Pace'
<1> USE DEF history
<1>1. /\ stage = "armed" /\ stage' = "running" /\ enabled' /\ writingFIFO' /\ ~event'
      /\ UNCHANGED <<conditions, max_seq_count, thread, xfercount, totransfer, fifo, under,
                     out, torn>>
  BY DEF TRIGGER
<1>2. /\ max_seq_count \in Lengths \cup {0} /\ xfercount \in Nat
      /\ FirstTransfer(max_seq_count) \in Nat
  BY Counts, Sizes DEF Inv, TypeOK
<1>3. out = <<>> /\ Brought(Len(out)) = 0 /\ xfercount >= FirstTransfer(max_seq_count)
  BY <1>1, BroughtStep DEF Pace, Begun
<1>4. Begun'
  BY <1>1, <1>3 DEF Begun
<1>5. ASSUME ~torn' PROVE Paced'
  <2>1. Paced /\ Quiet /\ Handler
    BY <1>1, <1>5 DEF Pace, Inv
  <2>2. thread \notin {"clear", "refill"} /\ xfercount = FirstTransfer(max_seq_count)
    BY <1>1, <2>1 DEF Paced, Quiet, Handler
  <2> QED BY <1>1, <1>2, <1>3, <2>2, Sizes DEF Paced, Level
<1>6. ASSUME "late" \notin conditions PROVE Ahead'
  <2>1. Ahead
    BY <1>6 DEF Pace
  <2>2. xfercount + Level(Pending') >= FirstTransfer(max_seq_count)
    BY <1>2, <1>3, Sizes DEF Level
  <2> QED BY <1>1, <1>2, <1>3, <2>1, <2>2 DEF Ahead
<1> QED BY <1>1, <1>4, <1>5, <1>6 DEF Pace

LEMMA PaceWait ==
  ASSUME Inv, Pace, WAIT \/ WAIT_written
  PROVE  Pace'
<1> USE DEF card, history
<1>1. Begun' /\ (~torn' => Paced')
  BY DEF Pace, Begun, Paced, Inv, Enabled, WAIT, WAIT_written
<1>2. ASSUME "late" \notin conditions PROVE Ahead'
  BY <1>2 DEF Pace, Ahead, Pending, WAIT, WAIT_written
<1> QED BY <1>1, <1>2 DEF Pace, WAIT, WAIT_written

LEMMA PaceAnswer ==
  ASSUME Inv, Pace, WAIT_empty \/ WAIT_dead
  PROVE  Pace'
<1>1. PICK dead \in {0, -1} : Answer(dead)
  BY DEF WAIT_empty, WAIT_dead
<1>2. Begun' /\ (~torn' => Paced')
  BY <1>1 DEF Pace, Begun, Paced, Answer
<1>3. Ahead'
  BY <1>1 DEF Ahead, Answer
<1> QED BY <1>2, <1>3 DEF Pace

LEMMA PaceTop ==
  ASSUME Inv, Pace, top
  PROVE  Pace'
<1> USE DEF main_vars, card, history
<1>1. Begun' /\ (~torn' => Paced')
  BY DEF Pace, Begun, Paced, top
<1>2. ASSUME "late" \notin conditions PROVE Ahead'
  <2>1. Ahead /\ xfercount \in Nat /\ max_seq_count \in Nat
    BY <1>2, Counts DEF Pace, Inv
  <2>2. Level(Pending') = Level(Pending)
    BY DEF Level, Pending, top
  <2>3. thread' # "refill" /\ (xfercount < max_seq_count => writingFIFO')
    <3>1. xfercount < max_seq_count => ~(xfercount >= max_seq_count)
      BY <2>1
    <3> QED BY <3>1, Zenon DEF top
  <2>4. UNCHANGED <<stage, max_seq_count, xfercount, enabled, under, out>>
    BY DEF top
  <2> QED BY <2>1, <2>2, <2>3, <2>4 DEF Ahead
<1> QED BY <1>1, <1>2 DEF Pace, top

LEMMA PacePoll ==
  ASSUME Inv, Pace, poll
  PROVE  Pace'
<1> USE DEF main_vars, card, history
<1>1. Begun' /\ (~torn' => Paced')
  BY DEF Pace, Begun, Paced, poll
<1>2. ASSUME "late" \notin conditions PROVE Ahead'
  <2>1. Ahead /\ (Pending' <=> Pending)
    BY <1>2 DEF Pace, Pending, poll
  <2> QED BY <2>1 DEF Ahead, Level, poll
<1> QED BY <1>1, <1>2 DEF Pace, poll

(* The event is taken for a refill of the sequence's next words. *)
LEMMA PaceClear ==
  ASSUME Inv, Pace, clear
  PROVE  Pace'
<1> USE DEF main_vars, history
<1>1. Begun'
  BY DEF Pace, Begun, clear
<1>2. ASSUME ~torn' PROVE Paced'
  <2>1. Paced /\ event
    BY <1>2 DEF Pace, Paced, clear
  <2>2. /\ Level(event) = FIFOLVL /\ Level(thread = "refill") = 0
        /\ Level(event') = 0 /\ Level(thread' = "refill") = FIFOLVL
    BY <2>1 DEF Level, clear
  <2>3. /\ thread' = "refill"
        /\ UNCHANGED <<stage, max_seq_count, xfercount, writingFIFO, fifo, enabled, out>>
    BY DEF clear
  <2>4. xfercount \in Nat
    BY Counts DEF Inv
  <2>5. xfercount + FIFOLVL + 0 = xfercount + 0 + FIFOLVL
    BY <2>4, Sizes
  <2> QED BY <2>1, <2>2, <2>3, <2>5, Zenon DEF Paced
<1>3. ASSUME "late" \notin conditions PROVE Ahead'
  <2>1. Ahead /\ Pending /\ Pending'
    BY <1>3 DEF Pace, Pending, clear
  <2>2. ~(totransfer' < FIFOLVL /\ xfercount + totransfer' < max_seq_count)
    BY Counts, Sizes DEF Inv, Chunk, clear
  <2> QED BY <2>1, <2>2 DEF Ahead, Level, clear
<1> QED BY <1>1, <1>2, <1>3 DEF Pace, clear

LEMMA PaceRefill ==
  ASSUME Inv, Pace, refill
  PROVE  Pace'
<1> USE DEF main_vars, history
<1>0. /\ TypeOK /\ thread = "refill" /\ writingFIFO
      /\ totransfer \in Nat /\ totransfer <= FIFOLVL
      /\ xfercount < max_seq_count => xfercount + totransfer <= max_seq_count
      /\ xfercount \in Nat /\ max_seq_count \in Nat /\ Len(out) \in Nat
      /\ max_seq_count \in Lengths \cup {0} /\ FirstTransfer(max_seq_count) \in Nat
  BY Levels, Counts, Sizes DEF Inv, refill, Fits, Handler, TypeOK
<1>1. \/ /\ xfercount < max_seq_count
         /\ fifo' = fifo \o Words(xfercount, totransfer)
         /\ xfercount' = xfercount + totransfer
      \/ fifo' = fifo /\ xfercount' = xfercount /\ ~(xfercount < max_seq_count)
  BY <1>0 DEF refill, Transferred
<1>2. /\ thread' = "top"
      /\ UNCHANGED <<conditions, stage, max_seq_count, totransfer, enabled, event, under,
                     out, torn>>
  BY DEF refill
<1>3. xfercount' \in Nat /\ xfercount' >= xfercount /\ xfercount' <= xfercount + FIFOLVL
  BY <1>0, <1>1, Sizes
<1>4. Begun'
  BY <1>0, <1>2, <1>3 DEF Pace, Begun
<1>5. Brought(Len(out)) \in Nat
  <2> DEFINE a == Len(out)
  <2>1. a \in Nat /\ FIFOLVL \in Nat
    BY <1>0, Sizes
  <2>2. Brought(a) \in a .. a + FIFOLVL - 1
    BY <2>1, BroughtStep
  <2> HIDE DEF a
  <2>3. Brought(a) \in Nat
    BY ONLY <2>1, <2>2
  <2> QED BY <2>3 DEF a
<1>6. ASSUME ~torn' PROVE Paced'
  <2>1. Paced /\ stage # "armed"
    BY <1>0, <1>2, <1>6 DEF Pace, Inv, Quiet
  <2>2. enabled /\ max_seq_count > FifoSize =>
          xfercount' + Level(event') + Level(thread' = "refill")
            <= FirstTransfer(max_seq_count) + Brought(Len(out))
    <3>1. Level(event) \in Nat /\ Level(thread' = "refill") = 0
      BY <1>2, Sizes DEF Level
    <3>2. enabled /\ max_seq_count > FifoSize =>
            xfercount + Level(event) + FIFOLVL <= FirstTransfer(max_seq_count) + Brought(Len(out))
      BY <1>0, <2>1 DEF Paced, Level
    <3>3. event' = event /\ FIFOLVL \in Nat /\ FirstTransfer(max_seq_count) \in Nat
      BY <1>0, <1>2, Sizes
    <3> QED BY ONLY <1>0, <1>3, <1>5, <3>1, <3>2, <3>3
  <2>3. ~enabled => fifo' = <<>> \/ (Len(fifo') <= FIFOLVL /\ ~writingFIFO')
    <3> SUFFICES ASSUME ~enabled PROVE fifo' = <<>> \/ (Len(fifo') <= FIFOLVL /\ ~writingFIFO')
      OBVIOUS
    <3>1. fifo = <<>>
      BY <1>0, <2>1 DEF Paced
    <3>2. CASE xfercount < max_seq_count
      <4>1. Words(xfercount, totransfer) \in Seq(Nat) /\ Len(Words(xfercount, totransfer)) = totransfer
        BY <1>0, WordsSeq
      <4>2. fifo' = Words(xfercount, totransfer)
        BY <1>1, <3>1, <3>2, <4>1, ConcatEmptySeq
      <4>3. ~writingFIFO'
        BY <3>1, <3>2 DEF refill
      <4> QED BY <1>0, <4>1, <4>2, <4>3
    <3>3. CASE ~(xfercount < max_seq_count)
      BY <1>1, <3>1, <3>3
    <3> QED BY <3>2, <3>3
  <2> QED BY <1>2, <2>1, <2>2, <2>3 DEF Paced
<1>7. ASSUME "late" \notin conditions PROVE Ahead'
  <2>1. Ahead /\ Begun
    BY <1>7 DEF Pace
  <2>2. ASSUME enabled, xfercount' < max_seq_count
        PROVE  /\ writingFIFO'
               /\ xfercount' + Level(Pending') >= FirstTransfer(max_seq_count) + Brought(Len(out))
    <3>1. xfercount < max_seq_count /\ xfercount' = xfercount + totransfer
      BY <1>0, <1>1, <1>3, <2>2
    <3>2. fifo # <<>> /\ ~under
      BY <2>1, <2>2, <3>1, NeverDry DEF Ahead
    <3>3. writingFIFO'
      BY <1>0, <1>2, <2>2, <3>1, <3>2 DEF refill
    <3>4. Level(Pending') \in Nat /\ Level(Pending) = FIFOLVL
      BY <1>0, Sizes DEF Level, Pending
    <3>5. xfercount + FIFOLVL >= FirstTransfer(max_seq_count) + Brought(Len(out))
      BY <2>1, <2>2, <3>1, <3>4 DEF Ahead
    <3>6. CASE totransfer < FIFOLVL
      <4>1. out = <<>>
        BY <1>0, <2>1, <2>2, <3>1, <3>6 DEF Ahead
      <4>2. Brought(Len(out)) = 0 /\ xfercount >= FirstTransfer(max_seq_count)
        BY <2>1, <2>2, <4>1, BroughtStep DEF Begun
      <4> QED BY <1>0, <3>1, <3>3, <3>4, <4>2
    <3>7. CASE totransfer = FIFOLVL
      BY <1>0, <1>5, <3>1, <3>3, <3>4, <3>5, <3>7, Sizes
    <3> QED BY <1>0, <3>6, <3>7, Sizes
  <2> QED BY <1>2, <2>1, <2>2 DEF Ahead
<1> QED BY <1>2, <1>4, <1>6, <1>7 DEF Pace

(* A stamped word brings one level more, and its event. *)
LEMMA PaceSend ==
  ASSUME Inv, Pace, send
  PROVE  Pace'
<1> USE DEF main_vars, history
<1> DEFINE a == Len(out)
<1>0. /\ TypeOK /\ Enabled /\ enabled /\ fifo # <<>>
      /\ a \in Nat /\ xfercount \in Nat /\ max_seq_count \in Nat
      /\ max_seq_count \in Lengths \cup {0} /\ FirstTransfer(max_seq_count) \in Nat
  BY Counts, Sizes DEF Inv, TypeOK, send
<1>1. Head(fifo) = a
  <2>1. a <= xfercount /\ fifo = Words(a, xfercount - a)
    BY <1>0 DEF Inv, Loaded
  <2>2. xfercount - a \in Nat /\ xfercount - a > 0
    <3>1. xfercount - a \in Nat
      BY <1>0, <2>1
    <3> QED BY <1>0, <2>1, <3>1, WordsEmpty
  <2> QED BY <1>0, <2>1, <2>2, WordsSent
<1>2. /\ Len(out') = a + 1 /\ out' # <<>>
      /\ event' <=> event \/ Rises(a)
      /\ Rises(a) => Served \/ "late" \in conditions
      /\ UNCHANGED <<conditions, stage, max_seq_count, thread, xfercount, totransfer,
                     writingFIFO, enabled, under, torn>>
  <2>1. out \in Seq(Nat) /\ out' = Append(out, a)
    BY <1>0, <1>1 DEF send, TypeOK
  <2>2. Len(out') = a + 1 /\ out' # <<>>
    BY <1>0, <2>1
  <2>3. /\ event' <=> event \/ Rises(a)
        /\ Rises(a) => Served \/ "late" \in conditions
    BY <1>0, <1>1, Zenon DEF send, TypeOK
  <2>4. UNCHANGED <<conditions, stage, max_seq_count, thread, xfercount, totransfer,
                    writingFIFO, enabled, under, torn>>
    BY DEF send
  <2> QED BY <2>2, <2>3, <2>4
<1>3. /\ Brought(a) \in Nat /\ Brought(a + 1) = Brought(a) + Level(Rises(a))
      /\ stage # "armed"
  <2>1. /\ Brought(a) \in a .. a + FIFOLVL - 1
        /\ Brought(a + 1) = Brought(a) + Level(Rises(a))
    BY <1>0, BroughtStep, Zenon
  <2>2. Brought(a) \in Nat
    BY <1>0, <2>1, Sizes
  <2> QED BY <1>0, <2>1, <2>2 DEF Enabled
<1> HIDE DEF a
<1>4. Begun'
  BY <1>0, <1>2, <1>3 DEF Pace, Begun
<1>5. ASSUME ~torn' PROVE Paced'
  <2>1. Paced
    BY <1>2, <1>5 DEF Pace
  <2>2. Level(event') <= Level(event) + Level(Rises(a))
    BY <1>2, Sizes DEF Level
  <2>3. Level(event) \in Nat /\ Level(event') \in Nat /\ Level(Rises(a)) \in Nat
        /\ Level(thread = "refill") \in Nat
    BY Sizes DEF Level
  <2>4. max_seq_count > FifoSize =>
          xfercount + Level(event) + Level(thread = "refill")
            <= FirstTransfer(max_seq_count) + Brought(a)
    BY <1>0, <2>1 DEF Paced, a
  <2>5. max_seq_count > FifoSize =>
          xfercount + Level(event') + Level(thread = "refill")
            <= FirstTransfer(max_seq_count) + Brought(a + 1)
    BY <1>0, <1>3, <2>2, <2>3, <2>4
  <2>6. thread = "clear" => event'
    BY <1>2, <2>1 DEF Paced
  <2> QED BY <1>0, <1>2, <1>3, <2>5, <2>6 DEF Paced
<1>6. ASSUME "late" \notin conditions PROVE Ahead'
  <2>1. Ahead
    BY <1>6 DEF Pace
  <2>2. ASSUME thread = "refill", totransfer < FIFOLVL, xfercount + totransfer < max_seq_count
        PROVE  FALSE
    <3>1. a = 0
      BY <1>0, <2>1, <2>2 DEF Ahead, a
    <3>2. Rises(a)
      BY <3>1, ZeroMod, RisesAtLevel
    <3>3. writingFIFO
      BY <2>2 DEF Inv, Handler
    <3> QED BY <1>2, <1>6, <2>2, <3>2, <3>3 DEF Served
  <2>3. ASSUME xfercount < max_seq_count
        PROVE  /\ writingFIFO
               /\ xfercount + Level(Pending') >= FirstTransfer(max_seq_count) + Brought(a + 1)
    <3>1. writingFIFO /\ xfercount + Level(Pending) >= FirstTransfer(max_seq_count) + Brought(a)
      BY <1>0, <2>1, <2>3 DEF Ahead, a
    <3>2. CASE Rises(a)
      <4>1. ~Pending /\ Pending'
        BY <1>2, <1>6, <3>1, <3>2 DEF Served, Pending
      <4>2. Level(Pending) = 0 /\ Level(Pending') = FIFOLVL /\ Level(Rises(a)) = FIFOLVL
        BY <3>2, <4>1 DEF Level
      <4> QED BY <1>0, <1>3, <3>1, <4>2, Sizes
    <3>3. CASE ~Rises(a)
      <4>1. Pending' <=> Pending
        BY <1>2, <3>3 DEF Pending
      <4>2. Level(Rises(a)) = 0 /\ Level(Pending') = Level(Pending)
        BY <3>3, <4>1 DEF Level
      <4> QED BY <1>3, <3>1, <4>2
    <3> QED BY <3>2, <3>3
  <2> QED BY <1>2, <2>1, <2>2, <2>3 DEF Ahead
<1> QED BY <1>2, <1>4, <1>5, <1>6 DEF Pace

LEMMA PaceRunDry ==
  ASSUME Inv, Pace, run_dry
  PROVE  Pace'
<1> USE DEF main_vars, history
<1>1. Begun' /\ (~torn' => Paced')
  BY DEF Pace, Begun, Paced, run_dry
<1>2. "late" \in conditions
  <2> SUFFICES ASSUME "late" \notin conditions PROVE FALSE
    OBVIOUS
  <2>1. /\ Begun /\ Ahead /\ enabled /\ fifo = <<>> /\ Len(out) < max_seq_count
        /\ xfercount \in Nat /\ max_seq_count \in Nat /\ xfercount <= max_seq_count
        /\ Len(out) \in Nat
    BY Counts DEF Pace, Inv, run_dry
  <2>2. xfercount = max_seq_count
    BY <2>1, NeverDry
  <2>3. Words(Len(out), xfercount - Len(out)) = <<>>
    BY <2>1 DEF Inv, Loaded
  <2>4. xfercount - Len(out) \in Nat /\ xfercount - Len(out) # 0
    BY <2>1, <2>2
  <2> QED BY <2>1, <2>3, <2>4, WordsEmpty
<1> QED BY <1>1, <1>2 DEF Pace, run_dry

LEMMA NextPace == Inv /\ Pace /\ [Next]_vars => Pace'
<1> SUFFICES ASSUME Inv, Pace, [Next]_vars PROVE Pace'
  OBVIOUS
<1>1. ASSUME NEW n \in Lengths, PRETRIGGER(n) PROVE Pace'
  BY <1>1, PacePretrigger
<1>2. CASE TRIGGER
  BY <1>2, PaceTrigger
<1>3. CASE WAIT \/ Main
  BY <1>3, PaceWait, PaceAnswer DEF Main
<1>4. CASE IntHandler
  BY <1>4, PaceTop, PacePoll, PaceClear, PaceRefill DEF IntHandler
<1>5. CASE send \/ run_dry
  BY <1>5, PaceSend, PaceRunDry
<1>6. CASE UNCHANGED vars
  BY <1>6 DEF vars, main_vars, card, history, Pace, Begun, Paced, Ahead, Pending
<1> QED BY <1>1, <1>2, <1>3, <1>4, <1>5, <1>6 DEF Next

-----------------------------------------------------------------------------
(***************************************************************************)
(* The counters of the two threads stay in range: no refill goes beyond    *)
(* the end of master_buf, not even one that PRETRIGGER has overtaken.      *)
(***************************************************************************)
THEOREM TypeCorrect == Spec => []TypeOK
<1>1. Inv => TypeOK
  BY DEF Inv
<1> QED BY InitInv, NextInv, <1>1, PTL DEF Spec

(***************************************************************************)
(* The card sends the words of the master sequence in order, each once.    *)
(***************************************************************************)
THEOREM InOrderHolds == Spec => []InOrder
<1>1. Inv => InOrder
  BY DEF Inv
<1> QED BY InitInv, NextInv, <1>1, PTL DEF Spec

(***************************************************************************)
(* An answer 0 to WAIT means that the whole sequence has been sent.        *)
(***************************************************************************)
THEOREM WaitMeansSentHolds == Spec => []WaitMeansSent
<1>1. Inv => WaitMeansSent
  <2> SUFFICES ASSUME Inv, stage = "rest", status = 0, ~given_up, ~torn
               PROVE  out = Words(0, max_seq_count)
    BY DEF WaitMeansSent
  <2>1. /\ max_seq_count \in Nat /\ xfercount \in Nat /\ xfercount <= max_seq_count
        /\ ~enabled /\ Underflow = 0
    BY Counts DEF Inv, Waited
  <2>2. xfercount = max_seq_count
    BY <2>1 DEF Underflow
  <2>3. Len(out) = max_seq_count
    BY <2>1, <2>2 DEF Inv, Waited
  <2> QED BY <2>3 DEF Inv, InOrder
<1> QED BY InitInv, NextInv, <1>1, PTL DEF Spec

(***************************************************************************)
(* The refills never overrun the FIFO: what has been written is at most    *)
(* the first transfer and one level for each stamp that was sent.          *)
(***************************************************************************)
THEOREM NoOverflowHolds == Spec => []NoOverflow
<1>1. Inv /\ Pace => NoOverflow
  <2> SUFFICES ASSUME Inv, Pace, ~torn PROVE Len(fifo) <= FifoSize
    BY DEF NoOverflow
  <2> DEFINE a == Len(out)
  <2>1. /\ Paced /\ Loaded /\ fifo \in Seq(Nat) /\ a \in Nat
        /\ xfercount \in Nat /\ max_seq_count \in Nat /\ xfercount <= max_seq_count
        /\ max_seq_count \in Lengths \cup {0}
    BY Counts DEF Inv, Pace, TypeOK
  <2>2. CASE stage = "armed" \/ enabled
    <3>1. a <= xfercount /\ fifo = Words(a, xfercount - a)
      BY <2>1, <2>2 DEF Loaded
    <3>2. Len(fifo) = xfercount - a
      BY <2>1, <3>1, xfercount - a \in Nat, WordsSeq
    <3>3. CASE max_seq_count <= FifoSize
      BY <2>1, <3>2, <3>3, Sizes
    <3>4. CASE max_seq_count > FifoSize /\ stage = "armed"
      <4>1. xfercount <= FifoSize
        BY <2>1, <3>4, Sizes DEF Paced
      <4> QED BY <2>1, <3>2, <4>1, Sizes
    <3>5. CASE max_seq_count > FifoSize /\ enabled
      <4>1. Level(event) \in Nat /\ Level(thread = "refill") \in Nat
        BY Sizes DEF Level
      <4>2. Brought(a) \in a .. a + FIFOLVL - 1
        BY <2>1, BroughtStep, Zenon
      <4>3. /\ FirstTransfer(max_seq_count) \in Nat
            /\ FirstTransfer(max_seq_count) + FIFOLVL - 1 <= FifoSize
        BY <2>1, <3>5, Sizes
      <4>4. xfercount + Level(event) + Level(thread = "refill")
              <= FirstTransfer(max_seq_count) + Brought(a)
        BY <2>1, <3>5 DEF Paced
      <4>5. xfercount <= FirstTransfer(max_seq_count) + Brought(a)
        BY <2>1, <4>1, <4>2, <4>4, <4>3, Sizes
      <4> HIDE DEF a
      <4> QED BY <2>1, <3>2, <4>2, <4>3, <4>5, Sizes
    <3> QED BY <2>1, <2>2, <3>3, <3>4, <3>5, Sizes
  <2>3. CASE stage # "armed" /\ ~enabled
    <3>1. fifo = <<>> \/ Len(fifo) <= FIFOLVL
      BY <2>1, <2>3 DEF Paced
    <3> QED BY <2>1, <3>1, Sizes
  <2> QED BY <2>2, <2>3
<1> QED BY InitInv, NextInv, PaceInit, NextPace, <1>1, PTL DEF Spec

(***************************************************************************)
(* The card never runs dry under an int_handler that serves each event     *)
(* before the next stamped word: not even after a WAIT that broke off      *)
(* before a refill of the sequence before.                                 *)
(***************************************************************************)
THEOREM NoUnderrunHolds == Spec => []NoUnderrun
<1>1. Pace => NoUnderrun
  BY DEF Pace, Ahead, NoUnderrun
<1> QED BY InitInv, NextInv, PaceInit, NextPace, <1>1, PTL DEF Spec
==============================================================================
