--------------------------- MODULE FrequencyProofs ---------------------------
(***************************************************************************)
(* Spacing and ToldIsKept of FrequencyAssignment, for any programs, bands, *)
(* sidebands and restrictions.  Both are inductive once the numbers are    *)
(* known to be numbers and new programs to have none: a frequency changes  *)
(* only in assign, which has just gone through the frequencies of all      *)
(* others, and a sideband changes only together with its program's own     *)
(* frequency.  TypeOK needs the ends of what a search forms to be numbers, *)
(* NoneIfCovered is about a single assignment.                             *)
(***************************************************************************)
EXTENDS FrequencyAssignment, FiniteSetTheorems, TLAPS

Numbers ==
  /\ connected \subseteq Programs
  /\ best \in [Programs -> Int] /\ current \in [Programs -> Int]
  /\ rx_sideband \in [Programs -> Int]

(* A new program begins without a frequency. *)
NewHaveNone == \A p \in Programs \ connected : best[p] = 0 /\ current[p] = 0

Inv == Numbers /\ NewHaveNone /\ Spacing /\ ToldIsKept

(* The frequencies that receiver_assign_frequency chooses from are numbers   *)
(* and outside every band of the blacklist.                                  *)
LEMMA LowestClean ==
  ASSUME NEW p, NEW sideband, NEW bands
  PROVE  \A f \in Lowest(p, sideband, bands) : f \in Int /\ Clean(f, bands)
<1>1. Candidates(p) \subseteq Int
  BY DEF Candidates, Bins
<1> QED BY <1>1 DEF Lowest

(* Outside the bands of the others means further from each of them than its  *)
(* sideband, and outside the bands of restrict.dat.                          *)
LEMMA CleanIsApart ==
  ASSUME Numbers, NEW p \in connected, NEW f \in Int, Clean(f, blacklist(p))
  PROVE  /\ Clean(f, Restricted)
         /\ \A q \in connected \ {p} : Distance(f, best[q]) > rx_sideband[q]
<1>1. Clean(f, Restricted)
  BY DEF Clean, blacklist
<1>2. ASSUME NEW q \in connected \ {p}
      PROVE  Distance(f, best[q]) > rx_sideband[q]
  <2>1. Taken(q) \in blacklist(p)
    BY DEF blacklist
  <2>2. ~Within(f, Taken(q))
    BY <2>1 DEF Clean
  <2>3. best[q] \in Int /\ rx_sideband[q] \in Int
    BY DEF Numbers
  <2> QED BY <2>2, <2>3 DEF Within, Taken, Distance
<1> QED BY <1>1, <1>2

LEMMA InitInv == Init => Inv
<1> SUFFICES ASSUME Init PROVE Inv
  OBVIOUS
<1>1. Numbers
  <2>1. Garbage \subseteq Int
    BY FrequencyAssumption
  <2>2. rx_sideband \in [Programs -> Int]
    BY <2>1 DEF Init
  <2>3. best \in [Programs -> Int] /\ current \in [Programs -> Int]
    BY DEF Init
  <2> QED BY <2>2, <2>3 DEF Init, Numbers
<1> QED BY <1>1 DEF Init, Inv, NewHaveNone, Spacing, ToldIsKept

(* The step in which a program gets a frequency, or none. *)
LEMMA AssignInv ==
  ASSUME Inv, NEW p \in Programs, NEW sideband \in Sidebands, assign(p, sideband)
  PROVE  Inv'
<1> USE DEF Inv
<1>1. p \in connected /\ connected' = connected /\ sideband \in Int
  BY FrequencyAssumption DEF assign
<1>2. CASE Lowest(p, sideband, blacklist(p)) # {} /\ rx_sideband' = [rx_sideband EXCEPT ![p] = sideband]
  <2>1. PICK f \in Lowest(p, sideband, blacklist(p)) :
          best' = [best EXCEPT ![p] = f] /\ current' = [current EXCEPT ![p] = f]
    BY <1>2 DEF assign, Assigned
  <2>2. f \in Int /\ Clean(f, blacklist(p))
    BY LowestClean
  <2>3. /\ Clean(f, Restricted)
        /\ \A q \in connected \ {p} : Distance(f, best[q]) > rx_sideband[q]
    BY <1>1, <2>2, CleanIsApart
  <2>4. Numbers' /\ NewHaveNone'
    BY <1>1, <1>2, <2>1, <2>2 DEF Numbers, NewHaveNone
  <2>5. Spacing'
    <3>1. \A q \in connected \ {p} : Distance(best[q], f) = Distance(f, best[q])
      BY <2>2 DEF Distance, Numbers
    <3> QED BY <1>1, <1>2, <2>1, <2>3, <3>1 DEF Spacing, Numbers
  <2>6. ToldIsKept'
    BY <1>1, <2>1, <2>3 DEF ToldIsKept, Numbers, Clean, Within
  <2> QED BY <2>4, <2>5, <2>6
<1>3. CASE /\ best' = [best EXCEPT ![p] = 0] /\ current' = [current EXCEPT ![p] = 0]
           /\ UNCHANGED rx_sideband
  <2>1. Numbers' /\ NewHaveNone'
    BY <1>1, <1>3 DEF Numbers, NewHaveNone
  <2>2. Spacing'
    BY <1>1, <1>3 DEF Spacing, Numbers, Distance
  <2>3. ToldIsKept'
    BY <1>1, <1>3 DEF ToldIsKept, Numbers, Clean, Within
  <2> QED BY <2>1, <2>2, <2>3
<1> QED BY <1>2, <1>3 DEF assign, Assigned

LEMMA NextInv == Inv /\ [Next]_vars => Inv'
<1> SUFFICES ASSUME Inv, [Next]_vars PROVE Inv'
  OBVIOUS
<1> USE DEF Inv
<1>1. ASSUME NEW p \in Programs, connect(p) PROVE Inv'
  <2>1. best' = best /\ current' = current /\ rx_sideband' = rx_sideband
    BY <1>1 DEF connect
  <2>2. connected' = connected \cup {p} /\ best[p] = 0 /\ current[p] = 0
    BY <1>1 DEF connect, NewHaveNone
  <2>3. Numbers' /\ NewHaveNone'
    BY <2>1, <2>2 DEF Numbers, NewHaveNone
  <2>4. Spacing'
    BY <2>1, <2>2 DEF Spacing, Distance
  <2>5. ToldIsKept'
    BY <2>1, <2>2 DEF ToldIsKept, Clean, Within
  <2> QED BY <2>3, <2>4, <2>5
<1>2. ASSUME NEW p \in Programs, exit(p) PROVE Inv'
  <2>1. Numbers' /\ NewHaveNone'
    BY <1>2, FrequencyAssumption DEF exit, Numbers, NewHaveNone
  <2>2. Spacing' /\ ToldIsKept'
    BY <1>2 DEF exit, Numbers, Spacing, ToldIsKept, Distance, Clean, Within
  <2> QED BY <2>1, <2>2
<1>3. ASSUME NEW p \in Programs, assign_refused(p) PROVE Inv'
  <2>1. Numbers' /\ NewHaveNone' /\ Spacing'
    BY <1>3 DEF assign_refused, Numbers, NewHaveNone, Spacing, Distance
  <2>2. ToldIsKept'
    BY <1>3 DEF assign_refused, Numbers, ToldIsKept, Clean, Within
  <2> QED BY <2>1, <2>2
<1>4. ASSUME UNCHANGED <<connected, best, current, rx_sideband>> PROVE Inv'
  BY <1>4 DEF Numbers, NewHaveNone, Spacing, ToldIsKept, Distance, Clean, Within
<1>5. ASSUME NEW p \in Programs, NEW band \in Requests, search(p, band) \/ search_refused(p, band)
      PROVE  Inv'
  BY <1>4, <1>5 DEF search, search_refused
<1>6. ASSUME NEW p \in Programs, assign_unsearched(p) PROVE Inv'
  BY <1>4, <1>6 DEF assign_unsearched
<1>7. CASE UNCHANGED vars
  BY <1>4, <1>7 DEF vars
<1> QED BY <1>1, <1>2, <1>3, <1>5, <1>6, <1>7, AssignInv DEF Next

(* Only assign gives a program a frequency other than 0. *)
LEMMA NextMeasured ==
  Inv /\ [Next]_vars =>
    [\A p \in Programs : best'[p] # best[p] /\ best'[p] # 0 =>
       best'[p] \in Bins(p) /\ Within(best'[p], clrfreqsearch[p])]_vars
<1> SUFFICES ASSUME Inv, [Next]_vars, NEW p \in Programs, best'[p] # best[p], best'[p] # 0
             PROVE  best'[p] \in Bins(p) /\ Within(best'[p], clrfreqsearch[p])
  OBVIOUS
<1>1. best \in [Programs -> Int]
  BY DEF Inv, Numbers
<1>2. PICK q \in Programs :
        exit(q) \/ \E sideband \in Sidebands : assign(q, sideband)
  BY DEF Next, vars, connect, search, search_refused, assign_unsearched, assign_refused
<1>3. ~exit(q)
  BY <1>1 DEF exit
<1>4. PICK sideband \in Sidebands : assign(q, sideband)
  BY <1>2, <1>3
<1>5. PICK f \in Lowest(q, sideband, blacklist(q)) : best' = [best EXCEPT ![q] = f]
  BY <1>1, <1>4 DEF assign, Assigned
<1>6. f \in Bins(q) /\ Within(f, clrfreqsearch[q])
  BY DEF Lowest, Candidates
<1> QED BY <1>1, <1>5, <1>6

-----------------------------------------------------------------------------
(* Spectra *)

LEMMA LeastNat ==
  ASSUME NEW T, T \subseteq Nat, T # {}
  PROVE  Min(T) \in T /\ \A y \in T : Min(T) <= y
<1> DEFINE R == OpToRel(<, Nat)
<1>1. \A x, y \in Nat : <<y, x>> \in R <=> y < x
  BY DEF OpToRel
<1>2. IsWellFoundedOn(R, Nat)
  BY NatLessThanWellFounded
<1> HIDE DEF R
<1>3. PICK x \in T : \A y \in T : ~(<<y, x>> \in R)
  BY <1>2, WFMin, Zenon
<1>4. ASSUME NEW y \in T PROVE x <= y
  <2>1. x \in Nat /\ y \in Nat
    OBVIOUS
  <2>2. ~(y < x)
    BY <1>1, <1>3, <2>1
  <2> QED BY <2>1, <2>2
<1> QED BY <1>4, Zenon DEF Min

(* An FFT is never longer than MaxPoints. *)
LEMMA PointsBound ==
  ASSUME NEW band \in Requests
  PROVE  Points(band) \in Nat /\ Points(band) <= MaxPoints
<1> DEFINE width == 2 * ((band[2] - band[1]) \div 2)
<1> DEFINE T == {n \in Powers : 4 * n >= 5 * width}
<1>1. MaxPoints \in Powers /\ Powers \subseteq Nat
  BY FrequencyAssumption DEF Powers
<1>2. width \in Nat
  <2>1. band \in Nat \X Nat /\ band[2] - band[1] >= 2
    BY FrequencyAssumption
  <2> QED BY <2>1
<1>3. Points(band) = IF 5 * width > 4 * MaxPoints THEN MaxPoints \div 2 ELSE Min(T)
  BY DEF Points
<1> HIDE DEF width
<1>4. CASE 5 * width > 4 * MaxPoints
  BY <1>1, <1>3, <1>4
<1>5. CASE ~(5 * width > 4 * MaxPoints)
  <2>3. 4 * MaxPoints >= 5 * width /\ MaxPoints \in Nat
    BY <1>1, <1>2, <1>5
  <2>1. MaxPoints \in T /\ T \subseteq Nat
    BY <1>1, <2>3, Zenon
  <2> HIDE DEF T
  <2>2. Min(T) \in T /\ Min(T) <= MaxPoints
    BY <2>1, LeastNat
  <2> QED BY <1>3, <1>5, <2>1, <2>2
<1> QED BY <1>4, <1>5

(* What a search leaves behind lies in the positive frequencies. *)
LEMMA SearchedAndSpectrum ==
  ASSUME NEW band \in Requests
  PROVE  Searched(band) \in Nat \X Nat /\ Spectrum(band) \in Nat \X Nat /\ Spectrum(band)[1] > 0
<1> DEFINE n == Points(band)
<1> DEFINE c == Centre(band)
<1>1. n \in Nat /\ n <= MaxPoints /\ MaxPoints \in Nat
  BY PointsBound, FrequencyAssumption DEF Powers
<1>2. c \in Nat /\ c > MaxPoints
  <2>1. band \in Nat \X Nat /\ band[2] - band[1] >= 2 /\ band[1] > MaxPoints
    BY FrequencyAssumption
  <2> QED BY <1>1, <2>1 DEF Centre
<1>3. /\ Searched(band) = <<c - n \div 2, c + n \div 2>>
      /\ Spectrum(band) = <<c - ((10 * n) \div 13) \div 2, (10 * n) \div 13>>
  BY DEF Searched, Spectrum
<1> HIDE DEF n, c
<1>4. n \div 2 \in 0 .. n /\ (10 * n) \div 13 \in 0 .. n
  BY <1>1
<1>5. ((10 * n) \div 13) \div 2 \in 0 .. n
  BY <1>1, <1>4
<1> QED BY <1>1, <1>2, <1>3, <1>4, <1>5

(* A program that has searched has a spectrum, of positive frequencies. *)
Spectra == \A p \in Programs : fft[p] # NoFFT => fft[p][1] > 0

LEMMA TypeInit == Init => TypeOK /\ Spectra
<1> SUFFICES ASSUME Init PROVE TypeOK /\ Spectra
  OBVIOUS
<1>1. <<0, 0>> \in Nat \X Nat
  OBVIOUS
<1> QED BY <1>1 DEF Init, TypeOK, Spectra, NoFFT

LEMMA TypeStep == TypeOK /\ Spectra /\ [Next]_vars => TypeOK' /\ Spectra'
<1> SUFFICES ASSUME TypeOK, Spectra, [Next]_vars PROVE TypeOK' /\ Spectra'
  OBVIOUS
<1>1. ASSUME NEW p \in Programs, connect(p) PROVE TypeOK' /\ Spectra'
  BY <1>1 DEF connect, TypeOK, Spectra
<1>2. ASSUME NEW p \in Programs, exit(p) PROVE TypeOK' /\ Spectra'
  <2>1. NoFFT \in Nat \X Nat /\ <<0, 0>> \in Nat \X Nat /\ 0 \in Nat
    BY DEF NoFFT
  <2>2. PICK g \in Garbage : rx_sideband' = [rx_sideband EXCEPT ![p] = g]
    BY <1>2 DEF exit
  <2> QED BY <1>2, <2>1, <2>2 DEF exit, TypeOK, Spectra
<1>3. ASSUME NEW p \in Programs, NEW band \in Requests, search(p, band)
      PROVE  TypeOK' /\ Spectra'
  BY <1>3, SearchedAndSpectrum DEF search, TypeOK, Spectra
<1>4. ASSUME NEW p \in Programs, NEW band \in Requests, search_refused(p, band)
      PROVE  TypeOK' /\ Spectra'
  BY <1>4, FrequencyAssumption DEF search_refused, TypeOK, Spectra
<1>5. ASSUME NEW p \in Programs, NEW sideband \in Sidebands, assign(p, sideband)
      PROVE  TypeOK' /\ Spectra'
  <2>1. ASSUME NEW f \in Lowest(p, sideband, blacklist(p)) PROVE f \in Nat
    <3>1. f \in Bins(p)
      BY DEF Lowest, Candidates
    <3>2. fft[p] \in Nat \X Nat
      BY DEF TypeOK
    <3> QED BY <3>1, <3>2 DEF Bins
  <2>2. best' \in [Programs -> Nat] /\ current' \in [Programs -> Nat]
    BY <1>5, <2>1 DEF assign, Assigned, TypeOK
  <2>3. rx_sideband' \in [Programs -> Sidebands \cup Garbage]
    BY <1>5 DEF assign, Assigned, TypeOK
  <2> QED BY <1>5, <2>2, <2>3 DEF assign, TypeOK, Spectra
<1>6. ASSUME NEW p \in Programs, assign_unsearched(p) \/ assign_refused(p)
      PROVE  TypeOK' /\ Spectra'
  <2>1. 0 \in Nat /\ TRUE \in BOOLEAN
    OBVIOUS
  <2> QED BY <1>6, <2>1, Zenon DEF assign_unsearched, assign_refused, TypeOK, Spectra
<1>7. CASE UNCHANGED vars
  BY <1>7 DEF vars, TypeOK, Spectra
<1> QED BY <1>1, <1>2, <1>3, <1>4, <1>5, <1>6, <1>7 DEF Next

-----------------------------------------------------------------------------
(* The frequencies that are looked at *)

LEMMA IntervalEnds ==
  ASSUME NEW lo \in Int, NEW hi \in Int, lo <= hi
  PROVE  Min(lo .. hi) = lo /\ Max(lo .. hi) = hi /\ Cardinality(lo .. hi) = hi - lo + 1
<1>1. \A x \in lo .. hi : (\A y \in lo .. hi : x <= y) <=> x = lo
  OBVIOUS
<1>2. \A x \in lo .. hi : (\A y \in lo .. hi : x >= y) <=> x = hi
  OBVIOUS
<1>3. Min(lo .. hi) = lo
  BY <1>1, lo \in lo .. hi DEF Min
<1>4. Max(lo .. hi) = hi
  BY <1>2, hi \in lo .. hi DEF Max
<1> QED BY <1>3, <1>4, FS_Interval

(* Of the searched bins only the last two may be left out. *)
LEMMA CandidatesAllButTwo ==
  ASSUME TypeOK, NEW p \in Programs
  PROVE  LET searched == {f \in Bins(p) : Within(f, clrfreqsearch[p])}
         IN  \A f \in searched : f \in Candidates(p) \/ f > Max(searched) - 2
<1> DEFINE band == clrfreqsearch[p]
<1> DEFINE s == {f \in Bins(p) : Within(f, band)}
<1>1. band \in Nat \X Nat /\ fft[p] \in Nat \X Nat
  BY DEF TypeOK
<1> DEFINE lo == IF band[1] > fft[p][1] THEN band[1] ELSE fft[p][1]
<1> DEFINE hi == IF band[2] < fft[p][1] + fft[p][2] - 1 THEN band[2] ELSE fft[p][1] + fft[p][2] - 1
<1>2. s = lo .. hi /\ lo \in Int /\ hi \in Int
  BY <1>1 DEF Bins, Within
<1>3. hi - lo <= band[2] - band[1] /\ band[1] \in Int /\ band[2] \in Int
  BY <1>1
<1> SUFFICES ASSUME NEW f \in s, f \notin Candidates(p) PROVE f > Max(s) - 2
  OBVIOUS
<1>4. ~(f < Min(s) + Min({Cardinality(s), band[2] - band[1]}) - 1)
  BY DEF Candidates
<1> HIDE DEF s, lo, hi, band
<1>5. f \in lo .. hi /\ lo <= hi
  BY <1>2
<1>6. Min(s) = lo /\ Max(s) = hi /\ Cardinality(s) = hi - lo + 1
  BY <1>2, <1>5, IntervalEnds
<1>7. Min({Cardinality(s), band[2] - band[1]}) \in {Cardinality(s), band[2] - band[1]}
  <2>1. ASSUME NEW x \in Int, NEW y \in Int PROVE Min({x, y}) \in {x, y}
    <3>1. \E z \in {x, y} : \A u \in {x, y} : z <= u
      OBVIOUS
    <3> QED BY <3>1, Zenon DEF Min
  <2> QED BY <1>2, <1>3, <1>6, <2>1
<1> QED BY <1>2, <1>3, <1>4, <1>5, <1>6, <1>7

(* A program is left without a frequency only by assign finding no clean one. *)
LEMMA NoneStep ==
  ASSUME TypeOK, Spectra, NEW p \in Programs, NEW sideband \in Sidebands,
         assign(p, sideband), best'[p] = 0
  PROVE  LET searched == {f \in Bins(p) : Within(f, clrfreqsearch[p])}
         IN  \A f \in searched : \/ ~Clean(f, Restricted)
                                 \/ \E q \in connected \ {p} : Within(f, Taken(q))
                                 \/ f > Max(searched) - 2
<1>1. fft[p] \in Nat \X Nat /\ fft[p][1] > 0 /\ best \in [Programs -> Nat]
  BY DEF TypeOK, Spectra, assign
<1>2. 0 \notin Lowest(p, sideband, blacklist(p))
  <2>1. 0 \notin Bins(p)
    BY <1>1 DEF Bins
  <2> QED BY <2>1 DEF Lowest, Candidates
<1>3. Lowest(p, sideband, blacklist(p)) = {}
  BY <1>1, <1>2 DEF assign, Assigned
<1>4. \A f \in Candidates(p) : ~Clean(f, blacklist(p))
  BY <1>3 DEF Lowest
<1>5. ASSUME NEW f, ~Clean(f, blacklist(p))
      PROVE  ~Clean(f, Restricted) \/ \E q \in connected \ {p} : Within(f, Taken(q))
  BY <1>5, Zenon DEF Clean, blacklist
<1> QED BY <1>4, <1>5, CandidatesAllButTwo

-----------------------------------------------------------------------------
(***************************************************************************)
(* Search bands, spectra and frequencies are natural numbers: with the     *)
(* bands that clients ask for, no search reaches below 0 kHz.              *)
(***************************************************************************)
THEOREM TypeCorrect == Spec => []TypeOK
BY TypeInit, TypeStep, PTL DEF Spec

(***************************************************************************)
(* Two frequencies in use are further apart than one of the two sidebands, *)
(* for any programs, requests, sample rates and restricted bands.          *)
(***************************************************************************)
THEOREM SpacingHolds == Spec => []Spacing
<1>1. Inv => Spacing
  BY DEF Inv
<1> QED BY InitInv, NextInv, <1>1, PTL DEF Spec

(***************************************************************************)
(* The frequency a client was told is the one that the assignments of      *)
(* others keep clear of, and is not a restricted one.                      *)
(***************************************************************************)
THEOREM ToldIsKeptHolds == Spec => []ToldIsKept
<1>1. Inv => ToldIsKept
  BY DEF Inv
<1> QED BY InitInv, NextInv, <1>1, PTL DEF Spec

(***************************************************************************)
(* A program gets no frequency but one of its own spectrum, measured in    *)
(* the last search that took place, inside the band last asked for.        *)
(***************************************************************************)
THEOREM MeasuredHolds == Spec => Measured
BY InitInv, NextInv, NextMeasured, PTL DEF Spec, Measured

(***************************************************************************)
(* A program is left without a frequency only if its present neighbours    *)
(* and the restricted bands cover what it has searched, up to the last two *)
(* bins: the array that is one element short loses no more than that.      *)
(***************************************************************************)
THEOREM NoneIfCoveredHolds == Spec => NoneIfCovered
<1>1. TypeOK /\ Spectra /\ [Next]_vars =>
        [\A p \in Programs, sideband \in Sidebands :
           assign(p, sideband) /\ best'[p] = 0
           => LET searched == {f \in Bins(p) : Within(f, clrfreqsearch[p])}
              IN  \A f \in searched :
                     \/ ~Clean(f, Restricted)
                     \/ \E q \in connected \ {p} : Within(f, Taken(q))
                     \/ f > Max(searched) - 2]_vars
  BY NoneStep
<1> QED BY TypeInit, TypeStep, <1>1, PTL DEF Spec, NoneIfCovered
==============================================================================
