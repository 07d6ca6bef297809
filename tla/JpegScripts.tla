----------------------------- MODULE JpegScripts -----------------------------
(***************************************************************************)
(* Scripts of scans of progressive JPEG in libjpeg-turbo-1.3.0: which ones *)
(* the compressor accepts (jcmaster.c), which it makes itself (jcparam.c), *)
(* and what the decoder thinks of their scans (jdphuff.c).                 *)
(*                                                                         *)
(* A scan sends, of the components comps, the coefficients Ss to Se, which *)
(* were known down to bit Ah, down to bit Al.                              *)
(***************************************************************************)
EXTENDS Integers, Sequences

CONSTANTS PhuffSize2,  \* coefficients of a block, 64 in the code
          LowEnd,      \* where the low band of the library's scripts ends, 5 in the code
          ScanChoices, \* for a number of components, the scans a script is made of
          MaxScans     \* scans in a script made of them

ASSUME CoefsAssumption == PhuffSize2 \in Nat /\ LowEnd \in 1..PhuffSize2 - 2
\* An application may ask for any numbers whatever.
ASSUME ChoicesAssumption ==
  \A n \in DOMAIN ScanChoices :
    /\ n \in Nat \ {0}
    /\ ScanChoices[n] \subseteq [comps : Seq(Int), Ss : Int, Se : Int, Ah : Int, Al : Int]
ASSUME MaxScansAssumption == MaxScans \in Nat

VARIABLES num_components, scan_info \* what is to be compressed, and the script so far

scriptVars == <<num_components, scan_info>>

MAX_COMPS_IN_SCAN == 4
MAX_AH_AL == 10

Coefs == 0..PhuffSize2 - 1
Band(s) == s.Ss..s.Se
InScan(s) == {s.comps[i] : i \in DOMAIN s.comps}

(***************************************************************************)
(* validate_script of jcmaster.c.                                          *)
(***************************************************************************)
Progressive(script) == script[1].Ss # 0 \/ script[1].Se # PhuffSize2 - 1

ComponentsFit(s, n) ==
  /\ Len(s.comps) \in 1..MAX_COMPS_IN_SCAN
  /\ \A i \in DOMAIN s.comps : s.comps[i] \in 1..n /\ (i > 1 => s.comps[i] > s.comps[i - 1])

\* mutant: a scan may leave out a bit.
ContinuesSkipping(s, last) == IF last < 0 THEN s.Ah = 0 ELSE s.Ah = last
\* Whether the scan may follow when the last bit sent of a coefficient was this one.
Continues(s, last) == IF last < 0 THEN s.Ah = 0 ELSE s.Ah = last /\ s.Al = s.Ah - 1

ProgressionFits(s, last_bitpos) ==
  /\ s.Ss \in Coefs /\ s.Se \in s.Ss..PhuffSize2 - 1 /\ s.Ah \in 0..MAX_AH_AL /\ s.Al \in 0..MAX_AH_AL
  /\ IF s.Ss = 0 THEN s.Se = 0 ELSE Len(s.comps) = 1
  /\ \A c \in InScan(s) : (s.Ss # 0 => last_bitpos[c][0] >= 0)
                          /\ \A k \in Band(s) : Continues(s, last_bitpos[c][k])

\* Which of the first i scans send a coefficient, and down to which bit the last of them does.
Senders(script, i, c, k) == {j \in 1..i : c \in InScan(script[j]) /\ k \in Band(script[j])}
LastOf(S) == CHOOSE m \in S : \A j \in S : j <= m
last_bitpos(n, script, i) ==
  [c \in 1..n |-> [k \in Coefs |->
     IF Senders(script, i, c, k) = {} THEN -1 ELSE script[LastOf(Senders(script, i, c, k))].Al]]

ScanFits(n, script, i) ==
  LET s == script[i] IN
  /\ ComponentsFit(s, n)
  /\ IF Progressive(script) THEN ProgressionFits(s, last_bitpos(n, script, i - 1))
     ELSE /\ <<s.Ss, s.Se, s.Ah, s.Al>> = <<0, PhuffSize2 - 1, 0, 0>>
          /\ \A j \in 1..i - 1 : InScan(script[j]) \cap InScan(s) = {}

validate_script(n, script) ==
  /\ script # <<>>
  /\ \A i \in DOMAIN script : ScanFits(n, script, i)
  /\ \A c \in 1..n : IF Progressive(script) THEN last_bitpos(n, script, Len(script))[c][0] >= 0
                     ELSE \E i \in DOMAIN script : c \in InScan(script[i])

(***************************************************************************)
(* jpeg_simple_progression of jcparam.c: the library's own scripts.        *)
(***************************************************************************)
Scan(comps, Ss, Se, Ah, Al) == [comps |-> comps, Ss |-> Ss, Se |-> Se, Ah |-> Ah, Al |-> Al]
fill_scans(n, Ss, Se, Ah, Al) == [c \in 1..n |-> Scan(<<c>>, Ss, Se, Ah, Al)]

fill_dc_scans(n, Ah, Al) ==
  IF n <= MAX_COMPS_IN_SCAN THEN <<Scan([c \in 1..n |-> c], 0, 0, Ah, Al)>> ELSE fill_scans(n, 0, 0, Ah, Al)

LastCoef == PhuffSize2 - 1
jpeg_simple_progression(n, ycc) ==
  IF n = 3 /\ ycc
  THEN fill_dc_scans(3, 0, 1)
       \o <<Scan(<<1>>, 1, LowEnd, 0, 2), Scan(<<3>>, 1, LastCoef, 0, 1), Scan(<<2>>, 1, LastCoef, 0, 1),
            Scan(<<1>>, LowEnd + 1, LastCoef, 0, 2), Scan(<<1>>, 1, LastCoef, 2, 1)>>
       \o fill_dc_scans(3, 1, 0)
       \o <<Scan(<<3>>, 1, LastCoef, 1, 0), Scan(<<2>>, 1, LastCoef, 1, 0), Scan(<<1>>, 1, LastCoef, 1, 0)>>
  ELSE fill_dc_scans(n, 0, 1) \o fill_scans(n, 1, LowEnd, 0, 2) \o fill_scans(n, LowEnd + 1, LastCoef, 0, 2)
       \o fill_scans(n, 1, LastCoef, 2, 1) \o fill_dc_scans(n, 1, 0) \o fill_scans(n, 1, LastCoef, 1, 0)

script_space_size(n, ycc) ==
  IF n = 3 /\ ycc THEN 10 ELSE IF n > MAX_COMPS_IN_SCAN THEN 6 * n ELSE 2 + 4 * n

(***************************************************************************)
(* start_pass_phuff_decoder of jdphuff.c: what is wrong with a scan, and   *)
(* what only earns a warning.                                              *)
(***************************************************************************)
BadScan(s) ==
  \/ s.Ss = 0 /\ s.Se # 0
  \/ s.Ss # 0 /\ (s.Ss > s.Se \/ s.Se >= PhuffSize2 \/ Len(s.comps) # 1)
  \/ s.Ah # 0 /\ s.Al # s.Ah - 1
  \/ s.Al > 13
BogusScan(coef_bits, s) ==
  \E c \in InScan(s) :
    \/ s.Ss # 0 /\ coef_bits[c][0] < 0
    \/ \E k \in Band(s) : s.Ah # (IF coef_bits[c][k] < 0 THEN 0 ELSE coef_bits[c][k])

(***************************************************************************)
(* A script is made scan by scan, or by the library.                       *)
(***************************************************************************)
ScriptInit == num_components \in DOMAIN ScanChoices /\ scan_info = <<>>

\* What begins improperly remains improper: it is not continued.
AddScan ==
  /\ Len(scan_info) < MaxScans
  /\ \A i \in DOMAIN scan_info : ScanFits(num_components, scan_info, i)
  /\ \E s \in ScanChoices[num_components] : scan_info' = Append(scan_info, s)
  /\ UNCHANGED num_components

SimpleProgression ==
  /\ \E ycc \in BOOLEAN : scan_info' = jpeg_simple_progression(num_components, ycc)
  /\ UNCHANGED num_components

ScriptNext == AddScan \/ SimpleProgression
ScriptSpec == ScriptInit /\ [][ScriptNext]_scriptVars

------------------------------------------------------------------------------
(***************************************************************************)
(* No scan of a script that was accepted is refused by the decoder or      *)
(* earns a warning there.                                                  *)
(***************************************************************************)
AcceptedIsClean ==
  validate_script(num_components, scan_info) /\ Progressive(scan_info) =>
    \A i \in DOMAIN scan_info :
      /\ ~BadScan(scan_info[i])
      /\ ~BogusScan(last_bitpos(num_components, scan_info, i - 1), scan_info[i])

(***************************************************************************)
(* The scripts that the compressor makes itself are accepted, have the     *)
(* length that was allocated for them and send every bit.                  *)
(***************************************************************************)
SimpleIsComplete ==
  \A ycc \in BOOLEAN : scan_info = jpeg_simple_progression(num_components, ycc) =>
    /\ validate_script(num_components, scan_info) /\ Progressive(scan_info)
    /\ Len(scan_info) = script_space_size(num_components, ycc)
    /\ last_bitpos(num_components, scan_info, Len(scan_info)) = [c \in 1..num_components |-> [k \in Coefs |-> 0]]

(* Encoder and decoder agree on which scripts of scans are proper, and the *)
(* library's own scripts are (jcmaster.c:170-330, jdphuff.c:90-170).       *)
ScriptsAgree ==
  /\ AcceptedIsClean
  /\ SimpleIsComplete
=============================================================================
