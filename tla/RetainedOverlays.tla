-------------------------- MODULE RetainedOverlays --------------------------
(***************************************************************************)
(* tools/prepare_retained_overlays.py writes retained overlay sources into *)
(* a directory, with a receipt of their hashes; the configuration in       *)
(* CMakeLists.txt compiles what it finds there only if it agrees with the  *)
(* receipt.  The two run one after the other in tools/build_online.ps1,    *)
(* but a preparation may stop anywhere, files may be changed in between,   *)
(* and the configuration may be run by hand at any time.                   *)
(*                                                                         *)
(* A baseline, together with the version of the framework that emits the   *)
(* dispatcher, is identified by what is to be written for it.  SHA-256 is  *)
(* taken to tell contents apart, so a hash is the content it was made of.  *)
(***************************************************************************)
EXTENDS FiniteSets

CONSTANTS Units,       \* overlays_static_0000.c and so on
          Dispatcher,  \* overlays_static.c
          Strays,      \* other names the configuration's pattern matches
          Contents,    \* file contents a baseline may give
          Baselines,   \* baseline directories that pass the validation
          PayloadOf    \* what is to be written for each

Files == Units \cup {Dispatcher}
Names == Files \cup Strays

ASSUME NamesAssumption == /\ Units # {} /\ IsFiniteSet(Units) /\ IsFiniteSet(Strays)
                          /\ Dispatcher \notin Units /\ Strays \cap Files = {}
ASSUME PayloadsAssumption ==
    PayloadOf \in [Baselines -> [Files -> Contents \ {"none", "cut", "edited"}]]

VARIABLES
    out,       \* the files of the output directory
    receipt,   \* retained_coverage.json
    pc,        \* where prepare() is
    source,    \* the baseline of the running or last preparation
    todo,      \* its files not looked at yet
    compiled,  \* what the last accepted configuration compiles
    disturbed  \* history: has somebody else changed a file since it began?

vars == <<out, receipt, pc, source, todo, compiled, disturbed>>

Found == Contents \cup {"none", "cut", "edited"}
NoReceipt == [state |-> "none", files |-> [f \in Files |-> "none"]]
Receipt == [state : {"none", "cut", "whole"}, files : [Files -> Found]]

Init == /\ out = [n \in Names |-> "none"]
        /\ receipt = NoReceipt
        /\ pc = "idle"
        /\ source \in Baselines
        /\ todo = {}
        /\ compiled = [f \in Names |-> "none"]
        /\ disturbed = FALSE

-----------------------------------------------------------------------------
(***************************************************************************)
(* prepare().  A baseline that does not pass the validation is refused     *)
(* before anything is written, and changes nothing here.                   *)
(***************************************************************************)
Begin(b) == /\ pc \in {"idle", "prepared"}
            /\ source' = b
            /\ todo' = Files
            /\ pc' = "files"
            /\ disturbed' = FALSE
            /\ UNCHANGED <<out, receipt, compiled>>

\* Bug: a file that is there is not compared.
MustWriteIfAbsent(f) == out[f] = "none"

\* A file is written if it is absent or differs ...
MustWrite(f) == out[f] # PayloadOf[source][f]

WriteFile(f) == /\ pc = "files" /\ f \in todo
                /\ out' = IF MustWrite(f) THEN [out EXCEPT ![f] = PayloadOf[source][f]]
                                          ELSE out
                /\ todo' = todo \ {f}
                /\ UNCHANGED <<receipt, pc, source, compiled, disturbed>>

\* Bug: the hashes of what is in the directory now.
WriteReceiptOfOutput == /\ pc = "files" /\ todo = {}
                        /\ receipt' = [state |-> "whole", files |-> [f \in Files |-> out[f]]]
                        /\ pc' = "prepared"
                        /\ UNCHANGED <<out, source, todo, compiled, disturbed>>

\* ... and so is the receipt, after them.
WriteReceipt == /\ pc = "files" /\ todo = {}
                /\ receipt' = [state |-> "whole", files |-> PayloadOf[source]]
                /\ pc' = "prepared"
                /\ UNCHANGED <<out, source, todo, compiled, disturbed>>

\* The preparation stops, maybe in the middle of a file or of the receipt.
Stop == /\ pc = "files"
        /\ \/ UNCHANGED <<out, receipt>>
           \/ /\ \E f \in todo : MustWrite(f) /\ out' = [out EXCEPT ![f] = "cut"]
              /\ UNCHANGED receipt
           \/ /\ todo = {} /\ receipt # [state |-> "whole", files |-> PayloadOf[source]]
              /\ receipt' = [receipt EXCEPT !.state = "cut"]
              /\ UNCHANGED out
        /\ pc' = "idle"
        /\ UNCHANGED <<source, todo, compiled, disturbed>>

\* Somebody edits, removes or adds a source, at any time.
Edit(n, c) == /\ out' = [out EXCEPT ![n] = c]
              /\ disturbed' = TRUE
              /\ UNCHANGED <<receipt, pc, source, todo, compiled>>

-----------------------------------------------------------------------------
(***************************************************************************)
(* The configuration.                                                      *)
(***************************************************************************)

\* Bug: the loop over the receipt's files misses one.
HashesAgreeButLast == \E f \in Files : \A g \in Files \ {f} : out[g] = receipt.files[g]

\* file(SHA256) of every file the receipt names.
HashesAgree == \A f \in Files : out[f] = receipt.files[f]

\* The units the pattern finds, which are what is compiled.
Globbed == {n \in Units \cup Strays : out[n] # "none"}

CountAgrees == Cardinality(Globbed) = Cardinality(Units)

\* The conditions up to "Retained static coverage verified".
Accepts == receipt.state = "whole" /\ HashesAgree /\ CountAgrees

Configure == /\ pc \in {"idle", "prepared"}
             /\ Accepts
             /\ compiled' = [n \in Names |-> IF n \in Globbed \cup {Dispatcher}
                                             THEN out[n] ELSE "none"]
             /\ UNCHANGED <<out, receipt, pc, source, todo, disturbed>>

Next == \/ \E b \in Baselines : Begin(b)
        \/ \E f \in Files : WriteFile(f)
        \/ WriteReceipt \/ Stop \/ Configure
        \/ \E n \in Names, c \in {"none", "edited"} : Edit(n, c)

Spec == Init /\ [][Next]_vars

-----------------------------------------------------------------------------
\* Types; a receipt that is whole is that of one baseline.
TypeOK == /\ out \in [Names -> Found]
          /\ receipt \in Receipt
          /\ pc \in {"idle", "files", "prepared"}
          /\ source \in Baselines
          /\ todo \in SUBSET Files
          /\ compiled \in [Names -> Found]
          /\ receipt.state = "whole" => \E b \in Baselines : receipt.files = PayloadOf[b]

Whole(b) == [n \in Names |-> IF n \in Files THEN PayloadOf[b][n] ELSE "none"]

\* What is compiled is what one preparation of one baseline writes, no file of
\* another baseline, none cut short, edited, missing or added: however many
\* preparations stopped half-way and whatever was done to the directory
\* (receipt, hashes and count in CMakeLists.txt).
CompiledIsOneBaseline ==
    (\E n \in Names : compiled[n] # "none") =>
        \E b \in Baselines : compiled = Whole(b)

\* A preparation that ends leaves a directory the configuration accepts, from
\* whatever state it found it in, unless somebody meddled meanwhile; only an
\* added file, which prepare() does not remove, is in the way.
PreparedIsAccepted ==
    (pc = "prepared" /\ ~disturbed) =>
        /\ \A f \in Files : out[f] = PayloadOf[source][f]
        /\ (\A n \in Strays : out[n] = "none") => Accepts

=============================================================================
