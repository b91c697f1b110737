------------------------- MODULE FrequencyAssignment -------------------------
(***************************************************************************)
(* Which frequencies the control programs get: REQUEST_CLEAR_FREQ_SEARCH   *)
(* and REQUEST_ASSIGNED_FREQ (ros6/server/client_handler.c) with           *)
(* receiver_clrfreq and receiver_assign_frequency (reciever_handler.c) and *)
(* the search band of the receiver driver (ros6/gc316_tcp_driver/main.c).  *)
(* Frequencies are in kHz, the bins of all spectra 1 kHz wide.             *)
(*                                                                         *)
(* Each command runs under controlprogram_list_lock and is one step.  What *)
(* SET_RADAR_CHAN and SET_PARAMETERS have left behind, a channel or none   *)
(* and the sideband of the sample rate, a program may change before any of *)
(* its commands, so they are inputs here.  Measured powers can be anything *)
(* and only decide which of the equally admissible frequencies is taken.   *)
(***************************************************************************)
EXTENDS Integers, FiniteSets, FiniteSetsExt

CONSTANTS
  Programs,
  Requests,    \* the bands <<start, end>> that clients ask for
  Sidebands,   \* MAX(2*ceil(baseband_samplerate/1000), 0)
  Restricted,  \* the bands <<start, end>> of restrict.dat
  MaxPoints,   \* the greatest FFT, 1024
  Garbage      \* what malloc may leave in state->rx_sideband

(* The powers of two up to 1024, the lengths of FFTs. *)
Powers == {2, 4, 8, 16, 32, 64, 128, 256, 512, 1024}

ASSUME FrequencyAssumption ==
  /\ Requests \subseteq Nat \X Nat
  /\ MaxPoints \in Powers
  /\ \A b \in Requests : b[1] > MaxPoints /\ b[2] - b[1] >= 2
  /\ Sidebands \subseteq Nat
  /\ Restricted \subseteq Nat \X Nat
  /\ Garbage \subseteq Int /\ Garbage \cap Sidebands = {}

VARIABLES
  connected,      \* the programs on the list with active # 0
  clrfreqsearch,  \* clrfreqsearch[p]: the band asked for or searched
  fft,            \* fft[p]: first frequency and length of the spectrum, or NoFFT
  best, current,  \* best_assigned_freq, current_assigned_freq; 0: none
  rx_sideband,
  crashed

vars == <<connected, clrfreqsearch, fft, best, current, rx_sideband, crashed>>

NoFFT == <<0, 0>>

TypeOK ==
  /\ connected \subseteq Programs
  /\ clrfreqsearch \in [Programs -> Nat \X Nat]
  /\ fft \in [Programs -> Nat \X Nat]
  /\ best \in [Programs -> Nat] /\ current \in [Programs -> Nat]
  /\ rx_sideband \in [Programs -> Sidebands \cup Garbage]
  /\ crashed \in BOOLEAN

Init ==
  /\ connected = {}
  /\ clrfreqsearch = [p \in Programs |-> <<0, 0>>]
  /\ fft = [p \in Programs |-> NoFFT]
  /\ best = [p \in Programs |-> 0] /\ current = [p \in Programs |-> 0]
  /\ rx_sideband \in [Programs -> Garbage]
  /\ crashed = FALSE

connect(p) ==
  /\ ~crashed /\ p \notin connected
  /\ connected' = connected \cup {p}
  /\ UNCHANGED <<clrfreqsearch, fft, best, current, rx_sideband, crashed>>

(* The next client that is called p starts with new structures. *)
exit(p) ==
  /\ ~crashed /\ p \in connected
  /\ connected' = connected \ {p}
  /\ clrfreqsearch' = [clrfreqsearch EXCEPT ![p] = <<0, 0>>]
  /\ fft' = [fft EXCEPT ![p] = NoFFT]
  /\ best' = [best EXCEPT ![p] = 0] /\ current' = [current EXCEPT ![p] = 0]
  /\ \E g \in Garbage : rx_sideband' = [rx_sideband EXCEPT ![p] = g]
  /\ UNCHANGED crashed

-----------------------------------------------------------------------------
(* REQUEST_CLEAR_FREQ_SEARCH *)

Centre(band) == (band[1] + band[2]) \div 2

(* The least power of two with a quarter more points than kHz, if not too great. *)
Points(band) ==
  LET width == 2 * ((band[2] - band[1]) \div 2)
      N == Min({n \in Powers : 4 * n >= 5 * width})
  IN  IF 5 * width > 4 * MaxPoints THEN MaxPoints \div 2 ELSE N

Searched(band) == <<Centre(band) - Points(band) \div 2, Centre(band) + Points(band) \div 2>>

(* N/1.3 points around the centre come back. *)
Spectrum(band) ==
  LET usable == (10 * Points(band)) \div 13
  IN  <<Centre(band) - usable \div 2, usable>>

search(p, band) ==
  /\ ~crashed /\ p \in connected
  /\ clrfreqsearch' = [clrfreqsearch EXCEPT ![p] = Searched(band)]
  /\ fft' = [fft EXCEPT ![p] = Spectrum(band)]
  /\ UNCHANGED <<connected, best, current, rx_sideband, crashed>>

(* Without a channel the request is stored and nothing is searched. *)
search_refused(p, band) ==
  /\ ~crashed /\ p \in connected
  /\ clrfreqsearch' = [clrfreqsearch EXCEPT ![p] = band]
  /\ UNCHANGED <<connected, fft, best, current, rx_sideband, crashed>>

-----------------------------------------------------------------------------
(* REQUEST_ASSIGNED_FREQ: receiver_assign_frequency *)

Within(f, band) == band[1] <= f /\ f <= band[2]

Bins(p) == fft[p][1] .. fft[p][1] + fft[p][2] - 1

(***************************************************************************)
(* sub_fft_array has room for end-start bins, one less than the band has;  *)
(* what is too much goes into the last place, and the last place is never  *)
(* looked at.                                                              *)
(***************************************************************************)
Candidates_spectrum(p) == Bins(p)
Candidates(p) ==
  LET band  == clrfreqsearch[p]
      inner == {f \in Bins(p) : Within(f, band)}
  IN  {f \in inner : f < Min(inner) + Min({Cardinality(inner), band[2] - band[1]}) - 1}

(* The count is set back to restrict.dat's bands each time; then come the others *)
(* on the list, with their own sidebands and not p's.                            *)
Taken(q) == <<best[q] - rx_sideband[q], best[q] + rx_sideband[q]>>

blacklist_own(p) == Restricted \cup {Taken(q) : q \in connected}
blacklist_told(p) ==
  Restricted \cup {<<current[q] - rx_sideband[q], current[q] + rx_sideband[q]>> :
                   q \in connected \ {p}}
blacklist(p) == Restricted \cup {Taken(q) : q \in connected \ {p}}

Clean(f, bands) == \A b \in bands : ~Within(f, b)

(* The running average at f has all its points; at the edge it is set to 1E10. *)
Inner(p, sideband, f) == {f - sideband, f + sideband} \subseteq Bins(p)

(* The first ones of the array sorted by power, over all powers. *)
Lowest(p, sideband, bands) ==
  LET clean == {f \in Candidates(p) : Clean(f, bands)}
      inner == {f \in clean : Inner(p, sideband, f)}
  IN  IF inner # {} THEN inner ELSE clean

Assigned_untold(p, lowest, sideband) ==
  \/ /\ \E f \in lowest : best' = [best EXCEPT ![p] = f] /\ current' = [current EXCEPT ![p] = f]
     /\ rx_sideband' = [rx_sideband EXCEPT ![p] = sideband]
  \/ /\ lowest = {}
     /\ best' = [best EXCEPT ![p] = 0]
     /\ UNCHANGED <<current, rx_sideband>>

Assigned_padded(p, lowest, sideband) ==
  \/ /\ \E f \in lowest : best' = [best EXCEPT ![p] = f] /\ current' = [current EXCEPT ![p] = f]
     /\ rx_sideband' = [rx_sideband EXCEPT ![p] = 2 * sideband]
  \/ /\ lowest = {}
     /\ best' = [best EXCEPT ![p] = 0] /\ current' = [current EXCEPT ![p] = 0]
     /\ UNCHANGED rx_sideband

Assigned(p, lowest, sideband) ==
  \/ /\ \E f \in lowest : best' = [best EXCEPT ![p] = f] /\ current' = [current EXCEPT ![p] = f]
     /\ rx_sideband' = [rx_sideband EXCEPT ![p] = sideband]
  \/ /\ lowest = {}
     /\ best' = [best EXCEPT ![p] = 0] /\ current' = [current EXCEPT ![p] = 0]
     /\ UNCHANGED rx_sideband

assign(p, sideband) ==
  /\ ~crashed /\ p \in connected /\ fft[p] # NoFFT
  /\ Assigned(p, Lowest(p, sideband, blacklist(p)), sideband)
  /\ UNCHANGED <<connected, clrfreqsearch, fft, crashed>>

(* fft_array[0] is logged before fft_array is compared with NULL. *)
assign_unsearched(p) ==
  /\ ~crashed /\ p \in connected /\ fft[p] = NoFFT
  /\ crashed' = TRUE
  /\ UNCHANGED <<connected, clrfreqsearch, fft, best, current, rx_sideband>>

(* Without a channel the answer is 0; what others keep clear of stays. *)
assign_refused(p) ==
  /\ ~crashed /\ p \in connected
  /\ current' = [current EXCEPT ![p] = 0]
  /\ UNCHANGED <<connected, clrfreqsearch, fft, best, rx_sideband, crashed>>

-----------------------------------------------------------------------------
Next ==
  \E p \in Programs :
    \/ connect(p) \/ exit(p)
    \/ \E band \in Requests : search(p, band) \/ search_refused(p, band)
    \/ \E sideband \in Sidebands : assign(p, sideband)
    \/ assign_unsearched(p) \/ assign_refused(p)

Spec == Init /\ [][Next]_vars

-----------------------------------------------------------------------------
(* Properties *)

Distance(f, g) == IF f < g THEN g - f ELSE f - g

(***************************************************************************)
(* "impose adequate spacing for frequency assignment in multiple           *)
(* controlprogram operation scenarios": whatever programs come, go, change *)
(* their sample rates, lose their channels and ask again, two frequencies  *)
(* in use are further apart than one of the two sidebands.  (Not the wider *)
(* one: the program that asks later does not count its own sideband.)      *)
(***************************************************************************)
Spacing ==
  \A p, q \in connected :
     p # q /\ best[p] # 0 /\ best[q] # 0 =>
       \/ Distance(best[p], best[q]) > rx_sideband[p]
       \/ Distance(best[p], best[q]) > rx_sideband[q]

(***************************************************************************)
(* A program that was told a frequency has it to itself: it is the one the *)
(* others keep clear of, and no band of restrict.dat contains it.          *)
(***************************************************************************)
ToldIsKept ==
  \A p \in connected : current[p] # 0 => current[p] = best[p] /\ Clean(current[p], Restricted)

(***************************************************************************)
(* The frequency is one whose power was measured in the last search that   *)
(* took place, and also inside a band that was only asked for since.       *)
(***************************************************************************)
Measured ==
  [][\A p \in Programs : best'[p] # best[p] /\ best'[p] # 0 =>
       best'[p] \in Bins(p) /\ Within(best'[p], clrfreqsearch[p])]_vars

(***************************************************************************)
(* A program is left without a frequency only if its neighbours of now and *)
(* the restricted bands cover the spectrum, up to its last two bins: those *)
(* who have left, and what they once had, block nothing.  (A neighbour     *)
(* that never got a frequency blocks what its uninitialised sideband says.)*)
(***************************************************************************)
NoneIfCovered ==
  [][\A p \in Programs, sideband \in Sidebands :
       assign(p, sideband) /\ best'[p] = 0
       => LET searched == {f \in Bins(p) : Within(f, clrfreqsearch[p])}
          IN  \A f \in searched :
                 \/ ~Clean(f, Restricted)
                 \/ \E q \in connected \ {p} : Within(f, Taken(q))
                 \/ f > Max(searched) - 2]_vars
==============================================================================
