------------------------ MODULE PackageReleaseProofs ------------------------
(***************************************************************************)
(* For any number of runs, folders and files: runs do not write into each  *)
(* other's folders and zips, an unmarked folder is whole, and what is      *)
(* published is what was built.                                            *)
(*                                                                         *)
(* The invariant says, for each operation a run is about to do, what its   *)
(* folder and the partial zip hold (InFolder, InZip).  Two runs cannot     *)
(* hold the same folder or the partial zip because what the first has made *)
(* is what the second's mkdir() or mode "x" refuses.                       *)
(***************************************************************************)
EXTENDS PackageRelease, TLAPS

Built == [n \in Names |-> IF n \in Payload THEN "built" ELSE "none"]
WholeManifest == [state |-> "whole", files |-> Built]
Empty == [there |-> TRUE, marked |-> FALSE, files |-> Nothing, manifest |-> NoManifest]

Marked(f) == folder[f].there /\ folder[f].marked
Finished(f) == folder[f].there /\ ~folder[f].marked /\ folder[f].manifest = WholeManifest

\* What a folder may be, whoever works in it.
InAnyFolder(f) ==
    /\ ~folder[f].there => folder[f] = NoFolder
    /\ touched[f] => Finished(f)
    /\ folder[f].manifest.state = "whole" => folder[f].manifest.files = Built
    /\ (folder[f].there /\ ~folder[f].marked) =>
          \/ folder[f] = Empty
          \/ Finished(f) /\ (~touched[f] => folder[f].files = Built)

\* What a run's folder is at each operation.
InFolder(r) ==
    /\ pc[r] = "mark" => folder[at[r]] = Empty
    /\ pc[r] \in {"copy", "hash", "list"} =>
          Marked(at[r]) /\ folder[at[r]].manifest = NoManifest
    /\ pc[r] = "copy" => \A n \in Names : folder[at[r]].files[n] \in {"none", Built[n]}
    /\ pc[r] \in {"hash", "list", "unmark"} => folder[at[r]].files = Built
    /\ pc[r] = "list" => list[r] = Built
    /\ pc[r] = "unmark" => Marked(at[r]) /\ folder[at[r]].manifest = WholeManifest
    /\ pc[r] \in {"inspect", "open", "checksum", "done"} \cup Zipping => Finished(at[r])

\* What the partial zip and the archive are at each operation.
InZip(r) ==
    /\ pc[r] \in {"open"} \cup Zipping => actual[r] = Payload
    /\ pc[r] \in {"open"} \cup Zipping =>
          (~TamperWhileZipping => folder[at[r]].files = Built)
    /\ pc[r] \in {"inspect", "open", "checksum"} \cup Zipping => zip[r]
    /\ pc[r] \in Zipping => partial.root = at[r]
    /\ pc[r] = "zip" =>
          /\ partial.state = "cut"
          /\ \A n \in Extra : partial.files[n] = "none"
          /\ ~TamperWhileZipping => \A n \in Names : partial.files[n] \in {"none", Built[n]}
    /\ pc[r] \in {"verify", "free", "rename"} =>
          /\ partial.state = "whole" /\ partial.manifest = WholeManifest
          /\ ~TamperWhileZipping => partial.files = Built
    /\ pc[r] = "checksum" => archive.state = "whole" /\ archive.root = at[r]
    /\ (pc[r] = "done" /\ zip[r]) => archive.root = at[r] /\ checksum.state = "whole"

Published ==
    archive.state # "none" =>
        /\ archive.state = "whole" /\ archive.manifest = WholeManifest
        /\ ~TamperWhileZipping => archive.files = Built

Types == /\ folder \in [Folders -> Folder]
         /\ archive \in Zip /\ partial \in Zip /\ checksum \in Checksum
         /\ pc \in [Runs -> Steps]
         /\ at \in [Runs -> Folders] /\ zip \in [Runs -> BOOLEAN]
         /\ list \in [Runs -> Listing] /\ actual \in [Runs -> SUBSET Names]
         /\ touched \in [Folders -> BOOLEAN]

Inv == /\ Types
       /\ OneWriter
       /\ \A f \in Folders : InAnyFolder(f)
       /\ \A r \in Runs : InFolder(r)
       /\ \A r \in Runs : InZip(r)
       /\ Published
       /\ ChecksumDescribesArchive

-----------------------------------------------------------------------------
LEMMA Constants ==
    /\ Nothing \in Listing /\ Built \in Listing
    /\ NoManifest \in Manifest /\ WholeManifest \in Manifest
    /\ NoFolder \in Folder /\ Empty \in Folder
    /\ NoZip \in Zip /\ NoChecksum \in Checksum
    /\ \A f \in Folders : NewZip(f) \in Zip
<1>1. Nothing \in Listing /\ Built \in Listing
  BY DEF Nothing, Built, Listing, Content
<1>2. NoManifest \in Manifest /\ WholeManifest \in Manifest
  BY <1>1 DEF NoManifest, WholeManifest, Manifest, State
<1>3. NoFolder \in Folder /\ Empty \in Folder
  BY <1>1, <1>2 DEF NoFolder, Empty, Folder
<1>4. NoZip \in Zip
  BY <1>1, <1>2 DEF NoZip, Zip, State
<1>5. NoChecksum \in Checksum
  BY <1>4 DEF NoChecksum, Checksum, State
<1>6. \A f \in Folders : NewZip(f) \in Zip
  BY <1>4 DEF NewZip, Zip, State
<1> QED
  BY <1>1, <1>2, <1>3, <1>4, <1>5, <1>6

\* Before the first run nothing is on the disk.
LEMMA InitInv == Init => Inv
<1> SUFFICES ASSUME Init PROVE Inv
  OBVIOUS
<1>1. Types
  BY Constants DEF Init, Types, Steps
<1>2. \A f \in Folders : InAnyFolder(f)
  BY DEF Init, InAnyFolder, NoFolder, NoManifest
<1>3. \A r \in Runs : InFolder(r) /\ InZip(r)
  BY DEF Init, InFolder, InZip, Zipping
<1> QED
  BY <1>1, <1>2, <1>3
     DEF Init, Inv, OneWriter, Staging, Zipping, Published,
         ChecksumDescribesArchive, NoZip, NoChecksum
-----------------------------------------------------------------------------
\* Steps that write no file: other runs see nothing of them.
LEMMA QuietStep ==
    ASSUME Inv, NEW r \in Runs, NEW s \in Steps, Types',
           UNCHANGED <<files, touched>>, pc' = [pc EXCEPT ![r] = s],
           s \in Staging => pc[r] \in Staging /\ at'[r] = at[r],
           s \in Zipping => pc[r] \in Zipping,
           \A q \in Runs \ {r} : /\ at'[q] = at[q] /\ zip'[q] = zip[q]
                                 /\ list'[q] = list[q] /\ actual'[q] = actual[q],
           InFolder(r)', InZip(r)'
    PROVE  Inv'
<1>1. \A q \in Runs \ {r} : pc'[q] = pc[q]
  BY DEF Inv, Types
<1>2. pc'[r] = s
  BY DEF Inv, Types
<1>3. OneWriter'
  BY <1>1, <1>2 DEF Inv, OneWriter
<1>4. \A f \in Folders : InAnyFolder(f)'
  BY DEF Inv, InAnyFolder, Finished, files
<1>5. \A q \in Runs \ {r} : InFolder(q)'
  BY <1>1 DEF Inv, InFolder, Marked, Finished, files
<1>6. \A q \in Runs \ {r} : InZip(q)'
  BY <1>1 DEF Inv, InZip, files
<1> QED
  BY <1>3, <1>4, <1>5, <1>6 DEF Inv, Published, ChecksumDescribesArchive, files

\* Steps that write in a folder which is not finished: the folder is this
\* run's alone.
LEMMA FolderStep ==
    ASSUME Inv, NEW r \in Runs, NEW s \in Steps, NEW new \in Folder,
           pc[r] \in Staging \/ (pc[r] = "mkdir" /\ ~folder[at[r]].there),
           Set(at[r], new), Go(r, s),
           UNCHANGED <<archive, partial, checksum, locals, touched>>,
           s \notin Zipping,
           InAnyFolder(at[r])', InFolder(r)', InZip(r)'
    PROVE  Inv'
<1> USE DEF Set, Go, locals
<1>1. /\ at[r] \in Folders
      /\ folder'[at[r]] = new
      /\ \A f \in Folders \ {at[r]} : folder'[f] = folder[f]
  BY DEF Inv, Types
<1>2. pc'[r] = s /\ \A q \in Runs \ {r} : pc'[q] = pc[q]
  BY DEF Inv, Types
<1>3. Types'
  BY DEF Inv, Types
<1>4. ~Finished(at[r])
  BY DEF Inv, InFolder, Staging, Finished, Marked, Empty, NoManifest, WholeManifest
<1>5. \A q \in Runs \ {r} : at[q] = at[r] =>
          pc[q] \notin Staging \cup {"inspect", "open", "checksum", "done"} \cup Zipping
  <2> SUFFICES ASSUME NEW q \in Runs \ {r}, at[q] = at[r]
               PROVE  pc[q] \notin Staging \cup {"inspect", "open", "checksum", "done"} \cup Zipping
    OBVIOUS
  <2>1. InFolder(q)
    BY DEF Inv
  <2>2. pc[q] \notin Staging
    <3>1. CASE pc[r] \in Staging
      BY <3>1 DEF Inv, OneWriter
    <3>2. CASE pc[r] = "mkdir" /\ ~folder[at[r]].there
      <4>1. pc[q] \in Staging => folder[at[q]].there
        BY <2>1 DEF InFolder, Staging, Marked, Empty
      <4> QED
        BY <3>2, <4>1
    <3> QED
      BY <3>1, <3>2
  <2> QED
    BY <1>4, <2>1, <2>2 DEF InFolder
<1>6. OneWriter'
  <2>1. ASSUME NEW q \in Runs \ {r} PROVE pc'[q] \in Staging => at[q] # at[r]
    BY <1>2, <1>5, <2>1
  <2>2. \A q \in Runs \ {r} : pc'[q] \in Staging => at[q] # at[r]
    BY <2>1
  <2> QED
    BY <1>2, <2>2 DEF Inv, OneWriter
<1>7. \A f \in Folders : InAnyFolder(f)'
  <2>1. ASSUME NEW f \in Folders \ {at[r]} PROVE InAnyFolder(f)'
    BY <1>1, <2>1 DEF Inv, InAnyFolder, Finished
  <2> QED
    BY <2>1
<1>8. ASSUME NEW q \in Runs \ {r} PROVE InFolder(q)' /\ InZip(q)'
  <2>0. InFolder(q) /\ InZip(q) /\ at[q] \in Folders
    BY DEF Inv, Types
  <2>1. CASE at[q] = at[r]
    BY <1>2, <1>5, <2>0, <2>1 DEF InFolder, InZip, Staging
  <2>2. CASE at[q] # at[r]
    <3>1. folder'[at[q]] = folder[at[q]]
      BY <1>1, <2>0, <2>2
    <3>2. InFolder(q)'
      BY <1>2, <2>0, <3>1 DEF InFolder, Marked, Finished
    <3>3. InZip(q)'
      BY <1>2, <2>0, <3>1 DEF InZip
    <3> QED
      BY <3>2, <3>3
  <2> QED
    BY <2>1, <2>2
<1> QED
  BY <1>3, <1>6, <1>7, <1>8 DEF Inv, Published, ChecksumDescribesArchive

\* Steps that write the partial zip: no other run does.
LEMMA ZipStep ==
    ASSUME Inv, NEW r \in Runs, NEW s \in Zipping, NEW new \in Zip,
           partial' = new, pc' = [pc EXCEPT ![r] = s],
           \A q \in Runs \ {r} : pc[q] \notin Zipping,
           UNCHANGED <<folder, archive, checksum, locals, touched>>,
           InFolder(r)', InZip(r)'
    PROVE  Inv'
<1> USE DEF locals
<1>1. pc'[r] = s /\ \A q \in Runs \ {r} : pc'[q] = pc[q]
  BY DEF Inv, Types
<1>2. Types'
  BY DEF Inv, Types, Steps
<1>3. OneWriter'
  BY <1>1 DEF Inv, OneWriter, Zipping, Staging
<1>4. \A f \in Folders : InAnyFolder(f)'
  BY DEF Inv, InAnyFolder, Finished
<1>5. ASSUME NEW q \in Runs \ {r} PROVE InFolder(q)' /\ InZip(q)'
  <2>0. InFolder(q) /\ InZip(q) /\ pc[q] \notin Zipping
    BY DEF Inv
  <2>1. InFolder(q)'
    BY <1>1, <2>0 DEF InFolder, Marked, Finished
  <2>2. InZip(q)'
    BY <1>1, <2>0 DEF InZip, Zipping
  <2> QED
    BY <2>1, <2>2
<1> QED
  BY <1>2, <1>3, <1>4, <1>5 DEF Inv, Published, ChecksumDescribesArchive

-----------------------------------------------------------------------------
\* package() as far as the manifest, and its marker.
LEMMA PackageStep == ASSUME Inv, NEW r \in Runs, Package(r) PROVE Inv'
<1>0. at[r] \in Folders /\ pc \in [Runs -> Steps] /\ InFolder(r) /\ InZip(r) /\ InAnyFolder(at[r])
  BY DEF Inv, Types
<1>1. ASSUME NEW f \in Folders, NEW z \in BOOLEAN, Begin(r, f, z) PROVE Inv'
  <2>1. Types'
    BY <1>1 DEF Begin, Go, files, Inv, Types, Steps
  <2>2. InFolder(r)' /\ InZip(r)'
    BY <1>0, <1>1 DEF Begin, Go, InFolder, InZip, Zipping
  <2> QED
    BY <1>1, <2>1, <2>2, QuietStep DEF Begin, Go, Staging, Zipping, Steps, Inv, Types
<1>2. ASSUME NEW f \in Folders, NEW z \in BOOLEAN, Decline(r, f, z) PROVE Inv'
  <2>1. Types'
    BY <1>2 DEF Decline, Go, files, locals, Inv, Types, Steps, Ended
  <2>2. InFolder(r)' /\ InZip(r)'
    BY <1>0, <1>2 DEF Decline, Go, InFolder, InZip, Zipping
  <2> QED
    BY <1>2, <2>1, <2>2, QuietStep DEF Decline, Go, locals, Staging, Zipping, Steps, Ended
<1>3. ASSUME MakeFolder(r) PROVE Inv'
  <2> DEFINE new == [folder[at[r]] EXCEPT !.there = TRUE]
  <2>1. new = Empty
    <3>1. folder[at[r]] = NoFolder
      BY <1>0, <1>3 DEF MakeFolder, InAnyFolder
    <3>2. /\ NoFolder.marked = FALSE /\ NoFolder.files = Nothing
          /\ NoFolder.manifest = NoManifest
      BY DEF NoFolder
    <3>3. /\ new \in Folder /\ new.there = TRUE /\ new.marked = FALSE
          /\ new.files = Nothing /\ new.manifest = NoManifest
      BY <3>1, <3>2, Constants DEF Folder
    <3> HIDE DEF new
    <3> QED
      BY <3>3 DEF Folder, Empty
  <2>2. Set(at[r], Empty)
    BY <1>3, <2>1 DEF MakeFolder
  <2>3. folder'[at[r]] = Empty
    BY <1>0, <2>2 DEF Set, Inv, Types
  <2>4. ~touched[at[r]]
    BY <1>0, <1>3 DEF MakeFolder, InAnyFolder, Finished
  <2>5. InAnyFolder(at[r])'
    BY <1>3, <2>3, <2>4 DEF MakeFolder, locals, InAnyFolder, Finished, Empty, NoManifest
  <2>6. InFolder(r)' /\ InZip(r)'
    BY <1>0, <1>3, <2>3 DEF MakeFolder, Go, locals, InFolder, InZip, Zipping
  <2> QED
    BY <1>3, <2>2, <2>5, <2>6, Constants, FolderStep
       DEF MakeFolder, Steps, Staging, Zipping
<1>4. ASSUME Mark(r) PROVE Inv'
  <2> DEFINE new == [folder[at[r]] EXCEPT !.marked = TRUE]
  <2>1. folder[at[r]] = Empty
    BY <1>0, <1>4 DEF Mark, InFolder
  <2>2. new \in Folder /\ new.there /\ new.marked /\ new.manifest = NoManifest
        /\ new.files = Nothing
    <3>1. Empty.there = TRUE /\ Empty.files = Nothing /\ Empty.manifest = NoManifest
      BY DEF Empty
    <3> QED
      BY <2>1, <3>1, Constants DEF Folder
  <2>3. folder'[at[r]] = new
    BY <1>0, <1>4 DEF Mark, Set, Inv, Types
  <2>4. ~touched[at[r]]
    BY <1>0, <2>1 DEF InAnyFolder, Finished, Empty, NoManifest, WholeManifest
  <2> HIDE DEF new
  <2>5. InAnyFolder(at[r])'
    BY <1>4, <2>2, <2>3, <2>4 DEF Mark, locals, InAnyFolder, Finished, NoManifest
  <2>6. InFolder(r)' /\ InZip(r)'
    BY <1>0, <1>4, <2>2, <2>3
       DEF Mark, Go, locals, InFolder, InZip, Zipping, Marked, Nothing
  <2>7. Set(at[r], new)
    BY <1>4 DEF Mark, new
  <2> QED
    BY <1>4, <2>2, <2>5, <2>6, <2>7, FolderStep DEF Mark, Steps, Staging, Zipping
<1>5. ASSUME NEW n \in Payload, Copy(r, n) PROVE Inv'
  <2> DEFINE new == [folder[at[r]] EXCEPT !.files[n] = "built"]
  <2>1. folder[at[r]] \in Folder /\ n \in Names
    BY <1>0 DEF Inv, Types, Names
  <2>2. /\ new \in Folder /\ new.there = folder[at[r]].there
        /\ new.marked = folder[at[r]].marked /\ new.manifest = folder[at[r]].manifest
        /\ \A k \in Names : new.files[k] \in {folder[at[r]].files[k], Built[k]}
    BY <2>1 DEF Folder, Listing, Content, Built
  <2>3. folder'[at[r]] = new
    BY <1>0, <1>5 DEF Copy, Set, Inv, Types
  <2>4. Marked(at[r]) /\ folder[at[r]].manifest = NoManifest
    BY <1>0, <1>5 DEF Copy, InFolder
  <2>5. Set(at[r], new) /\ Go(r, "copy")
    BY <1>0, <1>5 DEF Copy, Go
  <2> HIDE DEF new
  <2>6. ~touched[at[r]]
    BY <1>0, <2>4 DEF InAnyFolder, Finished, NoManifest, WholeManifest
  <2>7. InAnyFolder(at[r])'
    <3>1. new.there /\ new.marked /\ new.manifest.state = "none"
      BY <2>2, <2>4 DEF Marked, NoManifest
    <3> QED
      BY <1>5, <2>3, <2>6, <3>1 DEF Copy, locals, InAnyFolder
  <2>8. InFolder(r)' /\ InZip(r)'
    BY <1>0, <1>5, <2>2, <2>3, <2>4
       DEF Copy, locals, InFolder, InZip, Zipping, Marked
  <2> QED
    BY <1>5, <2>2, <2>5, <2>7, <2>8, FolderStep DEF Copy, Steps, Staging, Zipping
<1>6. ASSUME Staged(r) PROVE Inv'
  <2>1. Types'
    BY <1>6 DEF Staged, Go, files, locals, Inv, Types, Steps, Staging
  <2>2. folder[at[r]].files = Built
    <3>1. folder[at[r]].files \in Listing
      BY <1>0 DEF Inv, Types, Folder
    <3>2. \A n \in Names : folder[at[r]].files[n] = Built[n]
      BY <1>0, <1>6 DEF Staged, InFolder, Built
    <3> QED
      BY <3>1, <3>2, Constants DEF Listing
  <2>3. InFolder(r)' /\ InZip(r)'
    BY <1>0, <1>6, <2>2 DEF Staged, Go, files, locals, InFolder, InZip, Zipping, Marked
  <2> QED
    BY <1>6, <2>1, <2>3, QuietStep DEF Staged, Go, locals, Staging, Zipping, Steps
<1>7. ASSUME HashFolder(r) PROVE Inv'
  <2>1. Types'
    BY <1>0, <1>7 DEF HashFolder, Go, files, Inv, Types, Steps, Staging, Folder
  <2>2. InFolder(r)' /\ InZip(r)'
    BY <1>0, <1>7 DEF HashFolder, Go, files, InFolder, InZip, Zipping, Marked, Inv, Types
  <2> QED
    BY <1>7, <2>1, <2>2, QuietStep DEF HashFolder, Go, Staging, Zipping, Steps, Inv, Types
<1>8. ASSUME WriteManifest(r) PROVE Inv'
  <2> DEFINE new == [folder[at[r]] EXCEPT !.manifest = WholeManifest]
  <2>1. folder[at[r]] \in Folder
    BY <1>0 DEF Inv, Types
  <2>2. /\ new \in Folder /\ new.there = folder[at[r]].there /\ new.files = folder[at[r]].files
        /\ new.marked = folder[at[r]].marked /\ new.manifest = WholeManifest
    BY <2>1, Constants DEF Folder
  <2>3. Set(at[r], new)
    BY <1>0, <1>8 DEF WriteManifest, InFolder, WholeManifest
  <2>4. folder'[at[r]] = new
    BY <1>0, <2>3 DEF Set, Inv, Types
  <2>5. Marked(at[r]) /\ folder[at[r]].manifest = NoManifest /\ folder[at[r]].files = Built
    BY <1>0, <1>8 DEF WriteManifest, InFolder
  <2> HIDE DEF new
  <2>6. ~touched[at[r]]
    BY <1>0, <2>5 DEF InAnyFolder, Finished, NoManifest, WholeManifest
  <2>7. InAnyFolder(at[r])'
    <3>1. new.there /\ new.marked /\ new.manifest.files = Built
      BY <2>2, <2>5 DEF Marked, WholeManifest
    <3> QED
      BY <1>8, <2>4, <2>6, <3>1 DEF WriteManifest, locals, InAnyFolder
  <2>8. InFolder(r)' /\ InZip(r)'
    BY <1>0, <1>8, <2>2, <2>4, <2>5
       DEF WriteManifest, Go, locals, InFolder, InZip, Zipping, Marked
  <2> QED
    BY <1>8, <2>2, <2>3, <2>7, <2>8, FolderStep DEF WriteManifest, Steps, Staging, Zipping
<1>9. ASSUME Unmark(r) PROVE Inv'
  <2> DEFINE new == [folder[at[r]] EXCEPT !.marked = FALSE]
             s == IF zip[r] THEN "inspect" ELSE "done"
  <2>1. folder[at[r]] \in Folder
    BY <1>0 DEF Inv, Types
  <2>2. /\ new \in Folder /\ new.there = folder[at[r]].there /\ new.files = folder[at[r]].files
        /\ new.marked = FALSE /\ new.manifest = folder[at[r]].manifest
    BY <2>1 DEF Folder
  <2>3. Set(at[r], new) /\ Go(r, s)
    BY <1>9 DEF Unmark
  <2>4. folder'[at[r]] = new
    BY <1>0, <2>3 DEF Set, Inv, Types
  <2>5. Marked(at[r]) /\ folder[at[r]].manifest = WholeManifest /\ folder[at[r]].files = Built
    BY <1>0, <1>9 DEF Unmark, InFolder
  <2> HIDE DEF new
  <2>6. InAnyFolder(at[r])'
    <3>1. /\ new.there /\ ~new.marked /\ new.manifest = WholeManifest
          /\ new.manifest.files = Built /\ new.files = Built
      BY <2>2, <2>5 DEF Marked, WholeManifest
    <3> QED
      BY <1>9, <2>4, <3>1 DEF Unmark, locals, InAnyFolder, Finished
  <2>7. InFolder(r)' /\ InZip(r)'
    BY <1>0, <1>9, <2>2, <2>4, <2>5
       DEF Unmark, Go, locals, InFolder, InZip, Zipping, Marked, Finished
  <2>8. s \in Steps /\ s \notin Zipping
    BY DEF Steps, Ended, Zipping
  <2> HIDE DEF s
  <2> QED
    BY <1>9, <2>2, <2>3, <2>6, <2>7, <2>8, FolderStep DEF Unmark, Staging
<1> QED
  BY <1>1, <1>2, <1>3, <1>4, <1>5, <1>6, <1>7, <1>8, <1>9 DEF Package

\* create_archive().
LEMMA ArchiveStep == ASSUME Inv, NEW r \in Runs, Archive(r) PROVE Inv'
<1>0. at[r] \in Folders /\ pc \in [Runs -> Steps] /\ InFolder(r) /\ InZip(r) /\ InAnyFolder(at[r])
      /\ zip[r] \in BOOLEAN /\ folder[at[r]] \in Folder /\ partial \in Zip
  BY DEF Inv, Types
<1> USE DEF files, locals
<1>1. ASSUME Inspect(r) PROVE Inv'
  <2>1. folder[at[r]].files = Built /\ Finished(at[r]) /\ zip[r]
    BY <1>0, <1>1 DEF Inspect, Intact, InFolder, InZip, Finished, WholeManifest
  <2>2. Found(at[r]) = Payload
    BY <2>1 DEF Found, Built, Names
  <2>3. Types'
    BY <1>1, <2>2 DEF Inspect, Go, Inv, Types, Steps, Names
  <2>4. InFolder(r)' /\ InZip(r)'
    BY <1>0, <1>1, <2>1, <2>2
       DEF Inspect, Go, InFolder, InZip, Zipping, Finished, Inv, Types
  <2> QED
    BY <1>1, <2>3, <2>4, QuietStep DEF Inspect, Go, Staging, Zipping, Steps, Inv, Types
<1>2. ASSUME OpenPartial(r) PROVE Inv'
  <2>1. NewZip(at[r]) \in Zip
    BY <1>0, Constants
  <2>2. /\ NewZip(at[r]).root = at[r] /\ NewZip(at[r]).state = "cut"
        /\ NewZip(at[r]).files = Nothing
    BY DEF NewZip, NoZip
  <2>3. \A q \in Runs \ {r} : pc[q] \notin Zipping
    BY <1>2 DEF OpenPartial, Inv, InZip, Zipping
  <2>4. InFolder(r)' /\ InZip(r)'
    BY <1>0, <1>2, <2>2
       DEF OpenPartial, Go, InFolder, InZip, Zipping, Finished, Nothing, Names
  <2> QED
    BY <1>2, <2>1, <2>3, <2>4, ZipStep DEF OpenPartial, Go, Zipping
<1>3. ASSUME NEW n \in Names, AddEntry(r, n) PROVE Inv'
  <2> DEFINE new == [partial EXCEPT !.files[n] = folder[at[r]].files[n]]
  <2>1. /\ new \in Zip /\ new.root = partial.root /\ new.state = partial.state
        /\ \A k \in Names \ {n} : new.files[k] = partial.files[k]
        /\ new.files[n] = folder[at[r]].files[n]
    BY <1>0 DEF Zip, Folder, Listing
  <2>2. partial' = new /\ pc' = [pc EXCEPT ![r] = "zip"]
    BY <1>0, <1>3 DEF AddEntry
  <2> HIDE DEF new
  <2>3. \A q \in Runs \ {r} : pc[q] \notin Zipping
    BY <1>3 DEF AddEntry, Inv, OneWriter, Zipping
  <2>4. n \in Payload
    BY <1>0, <1>3 DEF AddEntry, InZip, Zipping
  <2>5. InFolder(r)'
    BY <1>0, <1>3 DEF AddEntry, InFolder, Zipping, Finished
  <2>6. InZip(r)'
    BY <1>0, <1>3, <2>1, <2>2, <2>4, PayloadAssumption
       DEF AddEntry, InZip, Zipping, Names
  <2> QED
    BY <1>3, <2>1, <2>2, <2>3, <2>5, <2>6, ZipStep DEF AddEntry, Zipping
<1>4. ASSUME CloseZip(r) PROVE Inv'
  <2> DEFINE new == [partial EXCEPT !.state = "whole", !.manifest = folder[at[r]].manifest]
  <2>1. folder[at[r]].manifest = WholeManifest /\ WholeManifest \in Manifest
    BY <1>0, <1>4, Constants DEF CloseZip, InFolder, Zipping, Finished
  <2>2. /\ new \in Zip /\ new.root = partial.root /\ new.state = "whole"
        /\ new.files = partial.files /\ new.manifest = WholeManifest
    BY <1>0, <2>1 DEF Zip, State
  <2>3. partial' = new
    BY <1>4 DEF CloseZip
  <2> HIDE DEF new
  <2>4. \A q \in Runs \ {r} : pc[q] \notin Zipping
    BY <1>4 DEF CloseZip, Inv, OneWriter, Zipping
  <2>5. ~TamperWhileZipping => partial.files = Built
    <3> SUFFICES ASSUME ~TamperWhileZipping PROVE partial.files = Built
      OBVIOUS
    <3>1. \A n \in Names : partial.files[n] = Built[n]
      BY <1>0, <1>4, PayloadAssumption DEF CloseZip, InZip, Zipping, Names, Built
    <3>2. partial.files \in Listing /\ Built \in Listing
      BY <1>0, Constants DEF Zip
    <3> QED
      BY <3>1, <3>2 DEF Listing
  <2>6. InFolder(r)'
    BY <1>0, <1>4 DEF CloseZip, Go, InFolder, Zipping, Finished
  <2>7. InZip(r)'
    BY <1>0, <1>4, <2>2, <2>3, <2>5 DEF CloseZip, Go, InZip, Zipping
  <2> QED
    BY <1>4, <2>2, <2>3, <2>4, <2>6, <2>7, ZipStep DEF CloseZip, Go, Zipping
<1>5. ASSUME Verify(r) PROVE Inv'
  <2>1. Types'
    BY <1>5 DEF Verify, Go, Inv, Types, Steps, Zipping
  <2>2. InFolder(r)' /\ InZip(r)'
    BY <1>0, <1>5 DEF Verify, Go, InFolder, InZip, Zipping, Finished
  <2> QED
    BY <1>5, <2>1, <2>2, QuietStep DEF Verify, Go, Staging, Zipping, Steps
<1>6. ASSUME SeeFree(r) PROVE Inv'
  <2>1. Types'
    BY <1>6 DEF SeeFree, Go, Inv, Types, Steps, Zipping
  <2>2. InFolder(r)' /\ InZip(r)'
    BY <1>0, <1>6 DEF SeeFree, Go, InFolder, InZip, Zipping, Finished
  <2> QED
    BY <1>6, <2>1, <2>2, QuietStep DEF SeeFree, Go, Staging, Zipping, Steps
<1>7. ASSUME Rename(r) PROVE Inv'
  <2>1. /\ partial.state = "whole" /\ partial.manifest = WholeManifest /\ partial.root = at[r]
        /\ ~TamperWhileZipping => partial.files = Built
        /\ Finished(at[r]) /\ zip[r]
    BY <1>0, <1>7 DEF Rename, InZip, InFolder, Zipping
  <2>2. Types'
    BY <1>0, <1>7, Constants DEF Rename, Go, Inv, Types, Steps
  <2>3. pc'[r] = "checksum" /\ \A q \in Runs \ {r} : pc'[q] = pc[q]
    BY <1>0, <1>7 DEF Rename, Go
  <2>4. OneWriter'
    BY <1>7, <2>3 DEF Rename, Inv, OneWriter, Staging, Zipping
  <2>5. \A f \in Folders : InAnyFolder(f)'
    BY <1>7 DEF Rename, Inv, InAnyFolder, Finished
  <2>6. InFolder(r)' /\ InZip(r)'
    BY <1>7, <2>1, <2>3 DEF Rename, InFolder, InZip, Zipping, Finished
  <2>7. checksum.state # "whole"
    BY <1>7 DEF Rename, Inv, ChecksumDescribesArchive
  <2>8. ASSUME NEW q \in Runs \ {r} PROVE InFolder(q)' /\ InZip(q)'
    <3>0. InFolder(q) /\ InZip(q)
      BY DEF Inv
    <3>1. pc[q] \notin Zipping
      BY <1>7 DEF Rename, Inv, OneWriter, Zipping
    <3>2. pc[q] # "checksum"
      BY <1>7, <3>0 DEF Rename, InZip
    <3>3. InFolder(q)'
      BY <1>7, <2>3, <3>0 DEF Rename, InFolder, Marked, Finished
    <3>4. InZip(q)'
      BY <1>7, <2>3, <2>7, <3>0, <3>1, <3>2 DEF Rename, InZip, Zipping
    <3> QED
      BY <3>3, <3>4
  <2> QED
    BY <1>7, <2>1, <2>2, <2>4, <2>5, <2>6, <2>7, <2>8
       DEF Rename, Inv, Published, ChecksumDescribesArchive
<1>8. ASSUME WriteChecksum(r) PROVE Inv'
  <2>1. archive.state = "whole" /\ archive.root = at[r] /\ archive \in Zip /\ Finished(at[r])
    BY <1>0, <1>8 DEF WriteChecksum, InZip, InFolder, Inv, Types
  <2>2. checksum' \in Checksum /\ checksum'.state = "whole" /\ checksum'.of = archive
    BY <1>8, <2>1 DEF WriteChecksum, Checksum, State
  <2>3. Types'
    BY <1>0, <1>8, <2>2 DEF WriteChecksum, Go, Inv, Types, Steps, Ended
  <2>4. pc'[r] = "done" /\ \A q \in Runs \ {r} : pc'[q] = pc[q]
    BY <1>0, <1>8 DEF WriteChecksum, Go
  <2>5. OneWriter'
    BY <1>8, <2>4 DEF WriteChecksum, Inv, OneWriter, Staging, Zipping
  <2>6. \A f \in Folders : InAnyFolder(f)'
    BY <1>8 DEF WriteChecksum, Inv, InAnyFolder, Finished
  <2>7. InFolder(r)' /\ InZip(r)'
    BY <1>8, <2>1, <2>2, <2>4 DEF WriteChecksum, InFolder, InZip, Zipping, Finished
  <2>8. ASSUME NEW q \in Runs \ {r} PROVE InFolder(q)' /\ InZip(q)'
    <3>0. InFolder(q) /\ InZip(q)
      BY DEF Inv
    <3>1. InFolder(q)'
      BY <1>8, <2>4, <3>0 DEF WriteChecksum, InFolder, Marked, Finished
    <3>2. InZip(q)'
      BY <1>8, <2>2, <2>4, <3>0 DEF WriteChecksum, InZip, Zipping
    <3> QED
      BY <3>1, <3>2
  <2> QED
    BY <1>8, <2>1, <2>2, <2>3, <2>5, <2>6, <2>7, <2>8
       DEF WriteChecksum, Inv, Published, ChecksumDescribesArchive
<1> QED
  BY <1>1, <1>2, <1>3, <1>4, <1>5, <1>6, <1>7, <1>8 DEF Archive

\* Refusals and stops: what was being written is left under its marker, or
\* under a name nothing is published from.
LEMMA EndStep == ASSUME Inv, NEW r \in Runs, Ends(r) PROVE Inv'
<1>0. at[r] \in Folders /\ pc \in [Runs -> Steps] /\ InFolder(r) /\ InZip(r) /\ InAnyFolder(at[r])
      /\ folder[at[r]] \in Folder /\ checksum \in Checksum
  BY DEF Inv, Types
<1>1. ASSUME NEW s \in {"refused", "stopped", "idle"}, Go(r, s),
             UNCHANGED <<files, locals, touched>>
      PROVE  Inv'
  <2>1. Types'
    BY <1>1 DEF Go, files, locals, Inv, Types, Steps, Ended
  <2>2. InFolder(r)' /\ InZip(r)'
    BY <1>0, <1>1 DEF Go, InFolder, InZip, Zipping
  <2> QED
    BY <1>1, <2>1, <2>2, QuietStep DEF Go, locals, Staging, Zipping, Steps, Ended
<1>2. ASSUME NEW n \in Payload, pc[r] = "copy",
             Set(at[r], [folder[at[r]] EXCEPT !.files[n] = "cut"]),
             Go(r, "stopped"), UNCHANGED <<archive, partial, checksum, locals, touched>>
      PROVE  Inv'
  <2> DEFINE new == [folder[at[r]] EXCEPT !.files[n] = "cut"]
  <2>1. /\ new \in Folder /\ new.there = folder[at[r]].there
        /\ new.marked = folder[at[r]].marked /\ new.manifest = folder[at[r]].manifest
    BY <1>0 DEF Folder, Listing, Content
  <2>2. Marked(at[r]) /\ folder[at[r]].manifest = NoManifest
    BY <1>0, <1>2 DEF InFolder
  <2>3. folder'[at[r]] = new
    BY <1>0, <1>2 DEF Set, Inv, Types
  <2>4. Set(at[r], new)
    BY <1>2
  <2> HIDE DEF new
  <2>5. ~touched[at[r]]
    BY <1>0, <2>2 DEF InAnyFolder, Finished, NoManifest, WholeManifest
  <2>6. InAnyFolder(at[r])'
    <3>1. new.there /\ new.marked /\ new.manifest.state = "none"
      BY <2>1, <2>2 DEF Marked, NoManifest
    <3> QED
      BY <1>2, <2>3, <2>5, <3>1 DEF locals, InAnyFolder
  <2>7. InFolder(r)' /\ InZip(r)'
    BY <1>0, <1>2 DEF Go, InFolder, InZip, Zipping
  <2> QED
    BY <1>2, <2>1, <2>4, <2>6, <2>7, FolderStep DEF Steps, Ended, Staging, Zipping
<1>3. ASSUME pc[r] = "list", Set(at[r], [folder[at[r]] EXCEPT !.manifest.state = "cut"]),
             Go(r, "stopped"), UNCHANGED <<archive, partial, checksum, locals, touched>>
      PROVE  Inv'
  <2> DEFINE new == [folder[at[r]] EXCEPT !.manifest.state = "cut"]
  <2>1. /\ new \in Folder /\ new.there = folder[at[r]].there
        /\ new.marked = folder[at[r]].marked /\ new.manifest.state = "cut"
    BY <1>0 DEF Folder, Manifest, State
  <2>2. Marked(at[r]) /\ folder[at[r]].manifest = NoManifest
    BY <1>0, <1>3 DEF InFolder
  <2>3. folder'[at[r]] = new
    BY <1>0, <1>3 DEF Set, Inv, Types
  <2>4. Set(at[r], new)
    BY <1>3
  <2> HIDE DEF new
  <2>5. ~touched[at[r]]
    BY <1>0, <2>2 DEF InAnyFolder, Finished, NoManifest, WholeManifest
  <2>6. InAnyFolder(at[r])'
    <3>1. new.there /\ new.marked /\ new.manifest.state = "cut"
      BY <2>1, <2>2 DEF Marked
    <3> QED
      BY <1>3, <2>3, <2>5, <3>1 DEF locals, InAnyFolder
  <2>7. InFolder(r)' /\ InZip(r)'
    BY <1>0, <1>3 DEF Go, InFolder, InZip, Zipping
  <2> QED
    BY <1>3, <2>1, <2>4, <2>6, <2>7, FolderStep DEF Steps, Ended, Staging, Zipping
<1>4. ASSUME pc[r] = "checksum", checksum.state = "none",
             checksum' = [checksum EXCEPT !.state = "cut"], UNCHANGED folder,
             Go(r, "stopped"), UNCHANGED <<archive, partial, locals, touched>>
      PROVE  Inv'
  <2>1. checksum' \in Checksum /\ checksum'.state = "cut"
    BY <1>0, <1>4 DEF Checksum, State
  <2>2. Types'
    BY <1>4, <2>1 DEF Go, locals, Inv, Types, Steps, Ended
  <2>3. pc'[r] = "stopped" /\ \A q \in Runs \ {r} : pc'[q] = pc[q]
    BY <1>0, <1>4 DEF Go
  <2>4. OneWriter'
    BY <1>4, <2>3 DEF locals, Inv, OneWriter, Staging, Zipping
  <2>5. \A f \in Folders : InAnyFolder(f)'
    BY <1>4 DEF Inv, InAnyFolder, Finished
  <2>6. InFolder(r)' /\ InZip(r)'
    BY <2>3 DEF InFolder, InZip, Zipping
  <2>7. ASSUME NEW q \in Runs \ {r} PROVE InFolder(q)' /\ InZip(q)'
    <3>0. InFolder(q) /\ InZip(q)
      BY DEF Inv
    <3>1. InFolder(q)'
      BY <1>4, <2>3, <3>0 DEF locals, InFolder, Marked, Finished
    <3>2. InZip(q)'
      BY <1>4, <2>3, <3>0 DEF locals, InZip, Zipping
    <3> QED
      BY <3>1, <3>2
  <2> QED
    BY <1>4, <2>1, <2>2, <2>4, <2>5, <2>6, <2>7
       DEF Inv, Published, ChecksumDescribesArchive
<1>5. CASE Refuse(r) \/ Stop(r) \/ Again(r)
  BY <1>1, <1>5 DEF Refuse, Stop, Again
<1>6. CASE StopShort(r)
  BY <1>2, <1>3, <1>4, <1>6 DEF StopShort
<1> QED
  BY <1>5, <1>6 DEF Ends

\* What others do to the files: they change a finished folder, or take a
\* partial zip away that no run is writing.
LEMMA OthersStep == ASSUME Inv, Others PROVE Inv'
<1>1. ASSUME RemovePartial PROVE Inv'
  <2> USE <1>1 DEF RemovePartial, locals
  <2>1. Types' /\ OneWriter'
    BY Constants DEF Inv, Types, OneWriter
  <2>2. \A f \in Folders : InAnyFolder(f)'
    BY DEF Inv, InAnyFolder, Finished
  <2>3. ASSUME NEW q \in Runs PROVE InFolder(q)' /\ InZip(q)'
    BY DEF Inv, InFolder, InZip, Marked, Finished, Zipping
  <2> QED
    BY <2>1, <2>2, <2>3 DEF Inv, Published, ChecksumDescribesArchive
<1>2. ASSUME NEW f \in Folders, NEW n \in Names, NEW c \in {"none", "other"},
             Tamper(f, n), Set(f, [folder[f] EXCEPT !.files[n] = c])
      PROVE  Inv'
  <2> USE <1>2 DEF Tamper, locals
  <2> DEFINE new == [folder[f] EXCEPT !.files[n] = c]
  <2>1. /\ new \in Folder /\ new.there = folder[f].there
        /\ new.marked = folder[f].marked /\ new.manifest = folder[f].manifest
    BY DEF Inv, Types, Folder, Listing, Content
  <2>2. Finished(f)
    BY DEF Inv, InAnyFolder, Finished, NoFolder, NoManifest, Empty
  <2>3. folder'[f] = new /\ touched'[f] /\ \A g \in Folders \ {f} :
            folder'[g] = folder[g] /\ touched'[g] = touched[g]
    BY DEF Set, Inv, Types
  <2>4. Types'
    BY <2>1 DEF Set, Inv, Types
  <2> HIDE DEF new
  <2>5. Finished(f)'
    <3>1. new.there /\ ~new.marked /\ new.manifest = WholeManifest
      BY <2>1, <2>2 DEF Finished
    <3> QED
      BY <2>3, <3>1 DEF Finished
  <2>6. ASSUME NEW g \in Folders PROVE InAnyFolder(g)'
    <3>1. CASE g = f
      BY <2>3, <2>5, <3>1 DEF InAnyFolder, Finished, WholeManifest
    <3>2. CASE g # f
      BY <2>3, <3>2 DEF Inv, InAnyFolder, Finished
    <3> QED
      BY <3>1, <3>2
  <2>7. ASSUME NEW q \in Runs PROVE InFolder(q)' /\ InZip(q)'
    <3>0. InFolder(q) /\ InZip(q) /\ at[q] \in Folders
      BY DEF Inv, Types
    <3>1. CASE at[q] = f
      <4>1. pc[q] \notin Staging
        BY <2>2, <3>0, <3>1
           DEF InFolder, Staging, Finished, Marked, Empty, NoManifest, WholeManifest
      <4>2. InFolder(q)'
        BY <2>5, <3>0, <3>1, <4>1 DEF InFolder, Staging
      <4>3. InZip(q)'
        BY <3>0, <3>1, TamperAssumption DEF InZip, Zipping
      <4> QED
        BY <4>2, <4>3
    <3>2. CASE at[q] # f
      <4>1. folder'[at[q]] = folder[at[q]]
        BY <2>3, <3>0, <3>2
      <4> QED
        BY <3>0, <4>1 DEF InFolder, InZip, Marked, Finished
    <3> QED
      BY <3>1, <3>2
  <2>8. OneWriter'
    BY DEF Inv, OneWriter
  <2> QED
    BY <2>4, <2>6, <2>7, <2>8 DEF Inv, Published, ChecksumDescribesArchive
<1> QED
  BY <1>1, <1>2 DEF Others, Tamper

LEMMA StepInv == Inv /\ [Next]_vars => Inv'
<1> SUFFICES ASSUME Inv, [Next]_vars PROVE Inv'
  OBVIOUS
<1>1. CASE UNCHANGED vars
  <2> USE <1>1 DEF vars, files, locals
  <2>1. Types' /\ OneWriter'
    BY DEF Inv, Types, OneWriter
  <2>2. \A f \in Folders : InAnyFolder(f)'
    BY DEF Inv, InAnyFolder, Finished
  <2>3. \A r \in Runs : InFolder(r)' /\ InZip(r)'
    BY DEF Inv, InFolder, InZip, Marked, Finished
  <2> QED
    BY <2>1, <2>2, <2>3 DEF Inv, Published, ChecksumDescribesArchive
<1> QED
  BY <1>1, PackageStep, ArchiveStep, EndStep, OthersStep DEF Next

LEMMA Invariant == Spec => []Inv
BY InitInv, StepInv, PTL DEF Spec

-----------------------------------------------------------------------------
\* Types, and no zip under its final name before it is closed.
THEOREM ReleaseTyped == Spec => []TypeOK
<1>1. Inv => TypeOK
  BY DEF Inv, Types, TypeOK, InAnyFolder, Published
<1> QED
  BY <1>1, Invariant, PTL

\* Runs started side by side never write into each other's folder or zip.
THEOREM AlwaysOneWriter == Spec => []OneWriter
<1>1. Inv => OneWriter
  BY DEF Inv
<1> QED
  BY <1>1, Invariant, PTL

\* An unmarked folder is whole, whatever stopped the runs before.
THEOREM UnmarkedIsAlwaysWhole == Spec => []UnmarkedIsWhole
<1>1. Inv => UnmarkedIsWhole
  <2> SUFFICES ASSUME Inv, NEW f \in Folders,
                      folder[f].there, ~folder[f].marked, ~touched[f],
                      folder[f] # [NoFolder EXCEPT !.there = TRUE]
               PROVE  /\ folder[f].manifest = [state |-> "whole", files |-> folder[f].files]
                      /\ \A n \in Names : folder[f].files[n] =
                                             (IF n \in Payload THEN "built" ELSE "none")
    BY DEF UnmarkedIsWhole
  <2>1. [NoFolder EXCEPT !.there = TRUE] = Empty
    <3> DEFINE new == [NoFolder EXCEPT !.there = TRUE]
    <3>1. /\ NoFolder.marked = FALSE /\ NoFolder.files = Nothing
          /\ NoFolder.manifest = NoManifest
      BY DEF NoFolder
    <3>2. /\ new \in Folder /\ new.there = TRUE /\ new.marked = FALSE
          /\ new.files = Nothing /\ new.manifest = NoManifest
      BY <3>1, Constants DEF Folder
    <3> HIDE DEF new
    <3>3. new = Empty
      BY <3>2 DEF Folder, Empty
    <3> QED
      BY <3>3 DEF new
  <2>2. folder[f].files = Built /\ folder[f].manifest = WholeManifest
    BY <2>1 DEF Inv, InAnyFolder, Finished
  <2> QED
    BY <2>2 DEF Built, WholeManifest
<1> QED
  BY <1>1, Invariant, PTL

\* The checksum beside a published zip is that zip's.
THEOREM ChecksumAlwaysDescribes == Spec => []ChecksumDescribesArchive
<1>1. Inv => ChecksumDescribesArchive
  BY DEF Inv
<1> QED
  BY <1>1, Invariant, PTL

\* A run that is done has published what it was asked for.
THEOREM DoneIsAlwaysPublished == Spec => []DoneIsPublished
<1>1. Inv => DoneIsPublished
  <2> SUFFICES ASSUME Inv, NEW r \in Runs, pc[r] = "done"
               PROVE  /\ folder[at[r]].there /\ ~folder[at[r]].marked
                      /\ zip[r] => archive.root = at[r] /\ checksum.state = "whole"
    BY DEF DoneIsPublished
  <2>1. InFolder(r) /\ InZip(r)
    BY DEF Inv
  <2> QED
    BY <2>1 DEF InFolder, InZip, Finished
<1> QED
  BY <1>1, Invariant, PTL

\* If nobody changes a folder while it is zipped, what is published is what
\* was built and what its manifest lists.
THEOREM PublishedAlwaysMatches ==
    ASSUME ~TamperWhileZipping
    PROVE  Spec => []PublishedMatchesManifest
<1>1. Inv => PublishedMatchesManifest
  BY DEF Inv, Published, PublishedMatchesManifest, WholeManifest, Built
<1> QED
  BY <1>1, Invariant, PTL

-----------------------------------------------------------------------------
\* Finished to anybody who looks at it.
Looks(f) == folder[f].manifest.state = "whole" /\ ~folder[f].marked

\* The parts of NothingIsReplaced.
KeepsZip == /\ archive.state # "none" => archive' = archive
            /\ checksum.state # "none" => checksum' = checksum

KeepsFolders == \A f \in Folders : Looks(f) /\ folder'[f] # folder[f] => touched'[f]

\* No run replaces what was published, nor changes a folder that looks finished.
THEOREM NothingIsEverReplaced == Spec => NothingIsReplaced
<1>1. ASSUME Inv, [Next]_vars PROVE KeepsZip
  BY <1>1 DEF Next, Package, Archive, Ends, Others, Begin, Decline, MakeFolder, Mark, Copy,
       Staged, HashFolder, WriteManifest, Unmark, Inspect, OpenPartial, AddEntry,
       CloseZip, Verify, SeeFree, Rename, WriteChecksum, Refuse, Stop, StopShort,
       Again, RemovePartial, Tamper, vars, files, KeepsZip
<1>2. ASSUME Inv, [Next]_vars PROVE KeepsFolders
  <2> USE <1>2
  <2>1. ASSUME NEW r \in Runs, NEW new, ~Looks(at[r]), Set(at[r], new) PROVE KeepsFolders
    BY <2>1 DEF Set, KeepsFolders, Inv, Types
  <2>2. ASSUME UNCHANGED folder PROVE KeepsFolders
    BY <2>2 DEF KeepsFolders
  <2>3. ASSUME NEW r \in Runs, Package(r) PROVE KeepsFolders
    <3>0. InFolder(r) /\ InAnyFolder(at[r])
      BY DEF Inv, Types
    <3>1. CASE MakeFolder(r)
      <4>1. ~Looks(at[r])
        BY <3>0, <3>1 DEF MakeFolder, InAnyFolder, Looks, NoFolder, NoManifest
      <4> QED
        BY <2>1, <3>1, <4>1 DEF MakeFolder
    <3>2. CASE Mark(r)
      <4>1. ~Looks(at[r])
        BY <3>0, <3>2 DEF Mark, InFolder, Looks, Empty, NoManifest
      <4> QED
        BY <2>1, <3>2, <4>1 DEF Mark
    <3>3. ASSUME NEW n \in Payload, Copy(r, n) PROVE KeepsFolders
      <4>1. ~Looks(at[r])
        BY <3>0, <3>3 DEF Copy, InFolder, Looks, Marked
      <4> QED
        BY <2>1, <3>3, <4>1 DEF Copy
    <3>4. CASE WriteManifest(r)
      <4>1. ~Looks(at[r])
        BY <3>0, <3>4 DEF WriteManifest, InFolder, Looks, Marked
      <4> QED
        BY <2>1, <3>4, <4>1 DEF WriteManifest
    <3>5. CASE Unmark(r)
      <4>1. ~Looks(at[r])
        BY <3>0, <3>5 DEF Unmark, InFolder, Looks, Marked
      <4> QED
        BY <2>1, <3>5, <4>1 DEF Unmark
    <3>6. CASE \/ \E f \in Folders, z \in BOOLEAN : Begin(r, f, z) \/ Decline(r, f, z)
               \/ Staged(r) \/ HashFolder(r)
      BY <2>2, <3>6 DEF Begin, Decline, Staged, HashFolder, files
    <3> QED
      BY <2>3, <3>1, <3>2, <3>3, <3>4, <3>5, <3>6 DEF Package
  <2>4. ASSUME NEW r \in Runs, Archive(r) PROVE KeepsFolders
    BY <2>2, <2>4 DEF Archive, Inspect, OpenPartial, AddEntry, CloseZip, Verify,
                      SeeFree, Rename, WriteChecksum, files
  <2>5. ASSUME NEW r \in Runs, Ends(r) PROVE KeepsFolders
    <3>0. InFolder(r)
      BY DEF Inv
    <3>1. CASE StopShort(r)
      <4>1. pc[r] \in {"copy", "list"} => ~Looks(at[r])
        BY <3>0 DEF InFolder, Looks, Marked
      <4> QED
        BY <2>1, <2>2, <3>1, <4>1 DEF StopShort
    <3>2. CASE Refuse(r) \/ Stop(r) \/ Again(r)
      BY <2>2, <3>2 DEF Refuse, Stop, Again, files
    <3> QED
      BY <2>5, <3>1, <3>2 DEF Ends
  <2>6. ASSUME NEW f \in Folders, NEW n \in Names, Tamper(f, n) PROVE KeepsFolders
    BY <2>6 DEF Tamper, Set, KeepsFolders, Inv, Types
  <2>7. CASE RemovePartial
    BY <2>2, <2>7 DEF RemovePartial
  <2>8. CASE UNCHANGED vars
    BY <2>2, <2>8 DEF vars, files
  <2> QED
    BY <2>3, <2>4, <2>5, <2>6, <2>7, <2>8 DEF Next, Others
<1>3. Inv /\ [Next]_vars =>
         [ /\ archive.state # "none" => archive' = archive
           /\ checksum.state # "none" => checksum' = checksum
           /\ \A f \in Folders :
                 (folder[f].manifest.state = "whole" /\ ~folder[f].marked
                    /\ folder'[f] # folder[f]) => touched'[f] ]_vars
  BY <1>1, <1>2 DEF KeepsZip, KeepsFolders, Looks
<1> QED
  BY <1>3, Invariant, PTL DEF Spec, NothingIsReplaced
=============================================================================
