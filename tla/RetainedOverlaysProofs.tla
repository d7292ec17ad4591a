----------------------- MODULE RetainedOverlaysProofs -----------------------
(***************************************************************************)
(* For every number of units, every set of baselines and every contents:   *)
(* what is compiled is one baseline, and what was prepared is accepted.    *)
(*                                                                         *)
(* The invariant adds to the properties what holds while prepare() runs:   *)
(* the files it has passed are those of the baseline, unless somebody has  *)
(* changed one since.  The gate counts the units it finds; with every file *)
(* of the receipt there, the count leaves room for no other.               *)
(***************************************************************************)
EXTENDS RetainedOverlays, FiniteSetTheorems, TLAPS

PassedIsWritten ==
    (pc = "files" /\ ~disturbed) =>
        \A f \in Files \ todo : out[f] = PayloadOf[source][f]

PreparedIsWhole ==
    pc = "prepared" =>
        /\ receipt = [state |-> "whole", files |-> PayloadOf[source]]
        /\ ~disturbed => \A f \in Files : out[f] = PayloadOf[source][f]

Inv == /\ TypeOK
       /\ CompiledIsOneBaseline
       /\ PassedIsWritten
       /\ PreparedIsWhole
       /\ disturbed \in BOOLEAN

\* What is to be written is never "none" (PayloadsAssumption).
LEMMA PayloadIsContent ==
    ASSUME NEW b \in Baselines, NEW f \in Files
    PROVE  PayloadOf[b][f] \in Contents /\ PayloadOf[b][f] # "none"
BY PayloadsAssumption

\* With every unit there, as many found as there are units are the units: this
\* is what the count after file(GLOB) is for (CMakeLists.txt:89).
LEMMA CountLeavesNoRoom ==
    ASSUME Units \subseteq Globbed
    PROVE  CountAgrees <=> Globbed = Units
<1>1. IsFiniteSet(Units \cup Strays)
  BY FS_Union, NamesAssumption
<1>2. IsFiniteSet(Globbed)
  BY <1>1, FS_Subset DEF Globbed
<1> QED
  BY <1>2, FS_Subset DEF CountAgrees

\* An accepted directory holds exactly the files of one baseline.
LEMMA AcceptedIsOneBaseline ==
    ASSUME TypeOK, Accepts
    PROVE  /\ Globbed = Units
           /\ \E b \in Baselines : \A f \in Files : out[f] = PayloadOf[b][f]
<1>1. PICK b \in Baselines : receipt.files = PayloadOf[b]
  BY DEF TypeOK, Accepts
<1>2. \A f \in Files : out[f] = PayloadOf[b][f]
  BY <1>1 DEF Accepts, HashesAgree
<1>3. Units \subseteq Globbed
  BY <1>2, PayloadIsContent DEF Globbed, Files
<1> QED
  BY <1>2, <1>3, CountLeavesNoRoom DEF Accepts

\* The directory is empty when the first preparation begins.
LEMMA InitInv == Init => Inv
<1> SUFFICES ASSUME Init PROVE Inv
  OBVIOUS
<1>1. NoReceipt \in Receipt /\ NoReceipt.state # "whole"
  BY DEF NoReceipt, Receipt, Found
<1>2. TypeOK
  BY <1>1 DEF Init, TypeOK, Found
<1>3. CompiledIsOneBaseline
  BY DEF Init, CompiledIsOneBaseline
<1> QED
  BY <1>2, <1>3 DEF Init, Inv, PassedIsWritten, PreparedIsWhole

\* Every step keeps the invariant.
LEMMA StepInv == Inv /\ [Next]_vars => Inv'
<1> SUFFICES ASSUME Inv, [Next]_vars PROVE Inv'
  OBVIOUS
<1> USE DEF Inv
<1>1. ASSUME NEW b \in Baselines, Begin(b) PROVE Inv'
  BY <1>1 DEF Begin, TypeOK, CompiledIsOneBaseline, PassedIsWritten,
              PreparedIsWhole, Whole
<1>2. ASSUME NEW f \in Files, WriteFile(f) PROVE Inv'
  <2>1. TypeOK'
    BY <1>2, PayloadIsContent DEF WriteFile, TypeOK, Found, Names
  <2>2. PassedIsWritten'
    BY <1>2 DEF WriteFile, PassedIsWritten, MustWrite, TypeOK, Names
  <2> QED
    BY <1>2, <2>1, <2>2 DEF WriteFile, CompiledIsOneBaseline, PreparedIsWhole, Whole
<1>3. ASSUME WriteReceipt PROVE Inv'
  <2>1. PayloadOf[source] \in [Files -> Found]
    BY PayloadsAssumption DEF TypeOK, Found
  <2>2. TypeOK'
    BY <1>3, <2>1 DEF WriteReceipt, TypeOK, Receipt
  <2> QED
    BY <1>3, <2>2 DEF WriteReceipt, CompiledIsOneBaseline, PassedIsWritten,
                      PreparedIsWhole, Whole
<1>4. ASSUME Stop PROVE Inv'
  <2>1. /\ out' \in [Names -> Found]
        /\ receipt' \in Receipt
        /\ receipt'.state = "whole" => receipt' = receipt
    BY <1>4 DEF Stop, TypeOK, Receipt, Found, Names
  <2>2. TypeOK'
    BY <1>4, <2>1 DEF Stop, TypeOK
  <2> QED
    BY <1>4, <2>2 DEF Stop, CompiledIsOneBaseline, PassedIsWritten,
                      PreparedIsWhole, Whole
<1>5. ASSUME Configure PROVE Inv'
  <2>1. TypeOK'
    BY <1>5 DEF Configure, TypeOK, Found
  <2>2. CompiledIsOneBaseline'
    <3>1. PICK b \in Baselines : \A f \in Files : out[f] = PayloadOf[b][f]
      BY <1>5, AcceptedIsOneBaseline DEF Configure
    <3>2. Globbed = Units
      BY <1>5, AcceptedIsOneBaseline DEF Configure
    <3>3. compiled' = Whole(b)
      BY <1>5, <3>1, <3>2 DEF Configure, Whole, Files
    <3> QED
      BY <3>3 DEF CompiledIsOneBaseline, Whole
  <2> QED
    BY <1>5, <2>1, <2>2 DEF Configure, PassedIsWritten, PreparedIsWhole
<1>6. ASSUME NEW n \in Names, NEW c \in {"none", "edited"}, Edit(n, c) PROVE Inv'
  BY <1>6 DEF Edit, TypeOK, Found, CompiledIsOneBaseline, PassedIsWritten,
              PreparedIsWhole, Whole
<1>7. CASE UNCHANGED vars
  BY <1>7 DEF vars, TypeOK, CompiledIsOneBaseline, PassedIsWritten,
              PreparedIsWhole, Whole
<1> QED
  BY <1>1, <1>2, <1>3, <1>4, <1>5, <1>6, <1>7 DEF Next

LEMMA Invariant == Spec => []Inv
BY InitInv, StepInv, PTL DEF Spec

\* Types and receipts of one baseline, for every set of baselines.
THEOREM RetainedTyped == Spec => []TypeOK
BY Invariant, PTL DEF Inv

\* What is compiled is what one preparation of one baseline writes, for every
\* number of units and whatever was done to the directory.
THEOREM CompiledIsAlwaysOneBaseline == Spec => []CompiledIsOneBaseline
BY Invariant, PTL DEF Inv

\* A preparation that ends undisturbed is accepted, for every number of units.
THEOREM PreparedIsAlwaysAccepted == Spec => []PreparedIsAccepted
<1>1. Inv => PreparedIsAccepted
  <2> SUFFICES ASSUME Inv, pc = "prepared", ~disturbed
               PROVE  /\ \A f \in Files : out[f] = PayloadOf[source][f]
                      /\ (\A n \in Strays : out[n] = "none") => Accepts
    BY DEF PreparedIsAccepted
  <2>1. \A f \in Files : out[f] = PayloadOf[source][f]
    BY DEF Inv, PreparedIsWhole
  <2>2. Units \subseteq Globbed
    BY <2>1, PayloadIsContent DEF Inv, TypeOK, Globbed, Files
  <2>3. ASSUME \A n \in Strays : out[n] = "none" PROVE Accepts
    <3>1. Globbed = Units
      BY <2>2, <2>3 DEF Globbed
    <3> QED
      BY <2>1, <2>2, <3>1, CountLeavesNoRoom
         DEF Inv, PreparedIsWhole, Accepts, HashesAgree
  <2> QED
    BY <2>1, <2>3
<1> QED
  BY <1>1, Invariant, PTL
=============================================================================
