--------------------------- MODULE PackageRelease ---------------------------
(***************************************************************************)
(* tools/package_release.py: a release build is staged into a new folder,  *)
(* the folder is hashed into a manifest, and the manifest's files are      *)
(* zipped, verified and published beside their checksum.                   *)
(*                                                                         *)
(* One action is one file operation, or one pass over the files.  Runs may *)
(* be started side by side, may stop after any operation and leave what    *)
(* they were writing cut short, and may be started again.  SHA-256 is      *)
(* taken to tell contents apart, so a hash is the content it was made of.  *)
(***************************************************************************)
CONSTANTS Runs,                \* invocations of the script
          Folders,             \* output folders they may be given
          Payload,             \* files package() stages
          Extra,               \* names of files it does not
          TamperWhileZipping   \* may a staged file change while it is zipped?

ASSUME PayloadAssumption == Payload # {} /\ Payload \cap Extra = {}
ASSUME TamperAssumption  == TamperWhileZipping \in BOOLEAN

VARIABLES
    folder,    \* the output folders
    archive,   \* the zip; all runs are given the same path
    partial,   \* the zip under its name ending in .partial
    checksum,  \* the file ending in .sha256
    pc,        \* the operation a run does next
    at,        \* the folder of a run
    zip,       \* was the run given --zip-path?
    list,      \* package()'s files: the hashes that go into the manifest
    actual,    \* create_archive()'s actual: the names found in the folder
    touched    \* history: folders changed by somebody else

files == <<folder, archive, partial, checksum>>
locals == <<at, zip, list, actual>>
vars == <<files, pc, locals, touched>>

Names == Payload \cup Extra
Content == {"none", "cut", "built", "other"}
Listing == [Names -> Content]
State == {"none", "cut", "whole"}
Manifest == [state : State, files : Listing]
Folder == [there : BOOLEAN, marked : BOOLEAN, files : Listing, manifest : Manifest]
Zip == [root : Folders \cup {"none"}, state : State, files : Listing, manifest : Manifest]
Checksum == [state : State, of : Zip]

Nothing == [n \in Names |-> "none"]
NoManifest == [state |-> "none", files |-> Nothing]
NoFolder == [there |-> FALSE, marked |-> FALSE, files |-> Nothing, manifest |-> NoManifest]
NoZip == [root |-> "none", state |-> "none", files |-> Nothing, manifest |-> NoManifest]
NoChecksum == [state |-> "none", of |-> NoZip]

Staging  == {"mark", "copy", "hash", "list", "unmark"}
Zipping  == {"zip", "verify", "free", "rename"}
Ended    == {"done", "refused", "stopped"}
Steps    == {"idle", "mkdir", "inspect", "open", "checksum"}
              \cup Staging \cup Zipping \cup Ended

Init == /\ folder = [f \in Folders |-> NoFolder]
        /\ archive = NoZip /\ partial = NoZip /\ checksum = NoChecksum
        /\ pc = [r \in Runs |-> "idle"]
        /\ at \in [Runs -> Folders]
        /\ zip = [r \in Runs |-> FALSE]
        /\ list = [r \in Runs |-> Nothing]
        /\ actual = [r \in Runs |-> {}]
        /\ touched = [f \in Folders |-> FALSE]

-----------------------------------------------------------------------------
Go(r, step) == pc' = [pc EXCEPT ![r] = step]
Set(f, new) == folder' = [folder EXCEPT ![f] = new]

\* archive_paths(): none of the three files is there.
PathsFree == /\ archive.state = "none"
             /\ partial.state = "none"
             /\ checksum.state = "none"

\* package(), as far as its refusals before anything is written.
Begin(r, f, z) ==
    /\ pc[r] = "idle"
    /\ z => PathsFree
    /\ ~folder[f].there
    /\ at' = [at EXCEPT ![r] = f]
    /\ zip' = [zip EXCEPT ![r] = z]
    /\ Go(r, "mkdir")
    /\ UNCHANGED <<files, list, actual, touched>>

\* The arguments are refused.
Decline(r, f, z) ==
    /\ pc[r] = "idle"
    /\ (z /\ ~PathsFree) \/ folder[f].there
    /\ Go(r, "refused")
    /\ UNCHANGED <<files, locals, touched>>

\* Bug: the folder is not made.
MakeNoFolder(r) ==
    /\ pc[r] = "mkdir"
    /\ ~folder[at[r]].there
    /\ Go(r, "mark")
    /\ UNCHANGED <<files, locals, touched>>

\* output.mkdir(): only a folder that is not there.
MakeFolder(r) ==
    /\ pc[r] = "mkdir"
    /\ ~folder[at[r]].there
    /\ Set(at[r], [folder[at[r]] EXCEPT !.there = TRUE])
    /\ Go(r, "mark")
    /\ UNCHANGED <<archive, partial, checksum, locals, touched>>

\* Bug: no marker.
MarkNothing(r) ==
    /\ pc[r] = "mark"
    /\ Go(r, "copy")
    /\ UNCHANGED <<files, locals, touched>>

\* PACKAGE_INCOMPLETE.txt.
Mark(r) ==
    /\ pc[r] = "mark"
    /\ Set(at[r], [folder[at[r]] EXCEPT !.marked = TRUE])
    /\ Go(r, "copy")
    /\ UNCHANGED <<archive, partial, checksum, locals, touched>>

\* One of the copies, of the licences, or of the files written in place.
Copy(r, n) ==
    /\ pc[r] = "copy"
    /\ n \in Payload
    /\ folder[at[r]].files[n] # "built"
    /\ Set(at[r], [folder[at[r]] EXCEPT !.files[n] = "built"])
    /\ UNCHANGED <<archive, partial, checksum, pc, locals, touched>>

Staged(r) ==
    /\ pc[r] = "copy"
    /\ \A n \in Payload : folder[at[r]].files[n] = "built"
    /\ Go(r, "hash")
    /\ UNCHANGED <<files, locals, touched>>

\* The hash of every file of the folder but the marker ...
HashFolder(r) ==
    /\ pc[r] = "hash"
    /\ list' = [list EXCEPT ![r] = folder[at[r]].files]
    /\ Go(r, "list")
    /\ UNCHANGED <<files, at, zip, actual, touched>>

\* ... into release-manifest.json.
WriteManifest(r) ==
    /\ pc[r] = "list"
    /\ Set(at[r], [folder[at[r]] EXCEPT !.manifest = [state |-> "whole", files |-> list[r]]])
    /\ Go(r, "unmark")
    /\ UNCHANGED <<archive, partial, checksum, locals, touched>>

\* Bug: the zip is forgotten.
UnmarkAndEnd(r) ==
    /\ pc[r] = "unmark"
    /\ Set(at[r], [folder[at[r]] EXCEPT !.marked = FALSE])
    /\ Go(r, "done")
    /\ UNCHANGED <<archive, partial, checksum, locals, touched>>

Unmark(r) ==
    /\ pc[r] = "unmark"
    /\ Set(at[r], [folder[at[r]] EXCEPT !.marked = FALSE])
    /\ Go(r, IF zip[r] THEN "inspect" ELSE "done")
    /\ UNCHANGED <<archive, partial, checksum, locals, touched>>

-----------------------------------------------------------------------------
(***************************************************************************)
(* create_archive().                                                       *)
(***************************************************************************)
Found(f) == {n \in Names : folder[f].files[n] # "none"}

\* Bug: the hashes are not compared.
IntactByName(f) ==
    /\ folder[f].manifest.state = "whole"
    /\ Found(f) = {n \in Names : folder[f].manifest.files[n] # "none"}

\* The folder holds exactly the manifest's files, with the manifest's hashes.
Intact(f) == /\ folder[f].manifest.state = "whole"
             /\ folder[f].files = folder[f].manifest.files

Inspect(r) ==
    /\ pc[r] = "inspect"
    /\ PathsFree
    /\ Intact(at[r])
    /\ actual' = [actual EXCEPT ![r] = Found(at[r])]
    /\ Go(r, "open")
    /\ UNCHANGED <<files, at, zip, list, touched>>

\* The entries' names start with the folder's.
NewZip(f) == [NoZip EXCEPT !.root = f, !.state = "cut"]

\* zipfile.ZipFile(partial, "x").
OpenPartial(r) ==
    /\ pc[r] = "open"
    /\ partial.state = "none"
    /\ partial' = NewZip(at[r])
    /\ Go(r, "zip")
    /\ UNCHANGED <<folder, archive, checksum, locals, touched>>

\* zipped.write(), one file after the other, as the file is now.
AddEntry(r, n) ==
    /\ pc[r] = "zip"
    /\ n \in actual[r]
    /\ partial.files[n] = "none"
    /\ folder[at[r]].files[n] # "none"
    /\ partial' = [partial EXCEPT !.files[n] = folder[at[r]].files[n]]
    /\ UNCHANGED <<folder, archive, checksum, pc, locals, touched>>

\* The manifest, whose name sorts last, and the directory of the zip.
CloseZip(r) ==
    /\ pc[r] = "zip"
    /\ \A n \in actual[r] : partial.files[n] # "none"
    /\ partial' = [partial EXCEPT !.state = "whole", !.manifest = folder[at[r]].manifest]
    /\ Go(r, "verify")
    /\ UNCHANGED <<folder, archive, checksum, locals, touched>>

\* The digest of each entry against that of the file as it is now.
Verified(r) ==
    /\ partial.state = "whole"
    /\ \A n \in actual[r] : partial.files[n] = folder[at[r]].files[n]
    /\ partial.manifest = folder[at[r]].manifest

Verify(r) ==
    /\ pc[r] = "verify"
    /\ Verified(r)
    /\ Go(r, "free")
    /\ UNCHANGED <<files, locals, touched>>

\* Bug: os.replace() instead of exists() and rename().
ReplaceArchive(r) ==
    /\ pc[r] = "free"
    /\ archive' = partial
    /\ partial' = NoZip
    /\ Go(r, "checksum")
    /\ UNCHANGED <<folder, checksum, locals, touched>>

\* archive.exists() ...
SeeFree(r) ==
    /\ pc[r] = "free"
    /\ archive.state = "none"
    /\ Go(r, "rename")
    /\ UNCHANGED <<files, locals, touched>>

\* ... and rename(), which on Windows refuses a destination that is there.
Rename(r) ==
    /\ pc[r] = "rename"
    /\ archive.state = "none"
    /\ archive' = partial
    /\ partial' = NoZip
    /\ Go(r, "checksum")
    /\ UNCHANGED <<folder, checksum, locals, touched>>

\* Bug: the hash of the partial file, which has just been renamed.
WriteChecksumOfPartial(r) ==
    /\ pc[r] = "checksum"
    /\ checksum.state = "none"
    /\ checksum' = [state |-> "whole", of |-> partial]
    /\ Go(r, "done")
    /\ UNCHANGED <<folder, archive, partial, locals, touched>>

WriteChecksum(r) ==
    /\ pc[r] = "checksum"
    /\ checksum.state = "none"
    /\ checksum' = [state |-> "whole", of |-> archive]
    /\ Go(r, "done")
    /\ UNCHANGED <<folder, archive, partial, locals, touched>>

-----------------------------------------------------------------------------
(***************************************************************************)
(* Refusals, stops and what others do to the files.                        *)
(***************************************************************************)

\* The ValueErrors, and the operations that do not replace a file.  While
\* copying, a missing file, a link or a different mod catalogue.
Refuses(r) ==
    \/ pc[r] = "mkdir" /\ folder[at[r]].there
    \/ pc[r] = "copy"
    \/ pc[r] = "inspect" /\ ~(PathsFree /\ Intact(at[r]))
    \/ pc[r] = "open" /\ partial.state # "none"
    \/ pc[r] = "verify" /\ ~Verified(r)
    \/ pc[r] \in {"free", "rename"} /\ archive.state # "none"
    \/ pc[r] = "checksum" /\ checksum.state # "none"

Refuse(r) == /\ Refuses(r)
             /\ Go(r, "refused")
             /\ UNCHANGED <<files, locals, touched>>

\* The process ends, or the disk is full, at any moment: what has been
\* written stays ...
Stop(r) == /\ pc[r] \notin Ended \cup {"idle"}
           /\ Go(r, "stopped")
           /\ UNCHANGED <<files, locals, touched>>

\* ... and a file may be left cut short.  The zip is "cut" until it is closed.
StopShort(r) ==
    /\ \/ /\ pc[r] = "copy"
          /\ \E n \in Payload :
                Set(at[r], [folder[at[r]] EXCEPT !.files[n] = "cut"])
          /\ UNCHANGED checksum
       \/ /\ pc[r] = "list"
          /\ Set(at[r], [folder[at[r]] EXCEPT !.manifest.state = "cut"])
          /\ UNCHANGED checksum
       \/ /\ pc[r] = "checksum" /\ checksum.state = "none"
          /\ checksum' = [checksum EXCEPT !.state = "cut"]
          /\ UNCHANGED folder
    /\ Go(r, "stopped")
    /\ UNCHANGED <<archive, partial, locals, touched>>

Again(r) == /\ pc[r] \in Ended
            /\ Go(r, "idle")
            /\ UNCHANGED <<files, locals, touched>>

\* Somebody starts the game in a folder that looks finished, or edits it.
Tamper(f, n) ==
    /\ folder[f].manifest.state = "whole" /\ ~folder[f].marked
    /\ TamperWhileZipping
         \/ \A r \in Runs : at[r] = f => pc[r] \notin Zipping \cup {"open"}
    /\ \E c \in {"none", "other"} : Set(f, [folder[f] EXCEPT !.files[n] = c])
    /\ touched' = [touched EXCEPT ![f] = TRUE]
    /\ UNCHANGED <<archive, partial, checksum, pc, locals>>

\* A partial file that no run is writing is removed by hand.
RemovePartial ==
    /\ partial.state # "none"
    /\ \A r \in Runs : pc[r] \notin Zipping
    /\ partial' = NoZip
    /\ UNCHANGED <<folder, archive, checksum, pc, locals, touched>>

Package(r) == \/ \E f \in Folders, z \in BOOLEAN : Begin(r, f, z) \/ Decline(r, f, z)
              \/ MakeFolder(r) \/ Mark(r)
              \/ \E n \in Payload : Copy(r, n)
              \/ Staged(r) \/ HashFolder(r) \/ WriteManifest(r) \/ Unmark(r)

Archive(r) == \/ Inspect(r) \/ OpenPartial(r)
              \/ \E n \in Names : AddEntry(r, n)
              \/ CloseZip(r) \/ Verify(r) \/ SeeFree(r)
              \/ Rename(r) \/ WriteChecksum(r)

Ends(r) == Refuse(r) \/ Stop(r) \/ StopShort(r) \/ Again(r)

Others == RemovePartial \/ \E f \in Folders, n \in Names : Tamper(f, n)

Next == (\E r \in Runs : Package(r) \/ Archive(r) \/ Ends(r)) \/ Others

Spec == Init /\ [][Next]_vars

-----------------------------------------------------------------------------
(***************************************************************************)
(* Properties.                                                             *)
(***************************************************************************)
\* Types; what is not there has no content, and no zip is published unfinished.
TypeOK == /\ folder \in [Folders -> Folder]
          /\ archive \in Zip /\ partial \in Zip /\ checksum \in Checksum
          /\ pc \in [Runs -> Steps]
          /\ at \in [Runs -> Folders] /\ zip \in [Runs -> BOOLEAN]
          /\ list \in [Runs -> Listing] /\ actual \in [Runs -> SUBSET Names]
          /\ touched \in [Folders -> BOOLEAN]
          /\ archive.state # "cut"
          /\ \A f \in Folders : ~folder[f].there => folder[f] = NoFolder

\* Two runs never write in one folder, nor in one partial zip: mkdir() and the
\* mode "x" are what keeps runs started side by side apart.
OneWriter ==
    \A r, q \in Runs : r # q =>
        /\ (at[r] = at[q] /\ pc[r] \in Staging) => pc[q] \notin Staging
        /\ pc[r] \in Zipping => pc[q] \notin Zipping

\* A folder without the marker is a whole package, as its manifest lists it,
\* or still empty; whatever stopped the run that made it.  (A folder somebody
\* else has changed is create_archive()'s to refuse.)
UnmarkedIsWhole ==
    \A f \in Folders :
        (folder[f].there /\ ~folder[f].marked /\ ~touched[f]) =>
            \/ folder[f] = [NoFolder EXCEPT !.there = TRUE]
            \/ /\ folder[f].manifest = [state |-> "whole", files |-> folder[f].files]
               /\ \A n \in Names : folder[f].files[n] =
                                      (IF n \in Payload THEN "built" ELSE "none")

\* The published zip holds exactly the files of the manifest in it, with the
\* manifest's hashes, and they are what was built: "Verify the compressed bytes
\* against the staged hashes before publishing" (package_release.py:75).
PublishedMatchesManifest ==
    archive.state # "none" =>
        /\ archive.state = "whole" /\ archive.manifest.state = "whole"
        /\ archive.files = archive.manifest.files
        /\ \A n \in Names : archive.files[n] = (IF n \in Payload THEN "built" ELSE "none")

\* The checksum beside the zip is that of the zip, or was never finished.
ChecksumDescribesArchive ==
    checksum.state = "whole" => archive.state = "whole" /\ checksum.of = archive

\* A run that says it is done has left a complete folder and, if it was asked
\* for them, the zip of that folder and its checksum.
DoneIsPublished ==
    \A r \in Runs : pc[r] = "done" =>
        /\ folder[at[r]].there /\ ~folder[at[r]].marked
        /\ zip[r] => archive.root = at[r] /\ checksum.state = "whole"

\* No run replaces a zip or a checksum, its own included, and a folder that
\* looks finished is changed by others only.
NothingIsReplaced ==
    [][ /\ archive.state # "none" => archive' = archive
        /\ checksum.state # "none" => checksum' = checksum
        /\ \A f \in Folders :
              (folder[f].manifest.state = "whole" /\ ~folder[f].marked
                 /\ folder'[f] # folder[f]) => touched'[f] ]_vars
=============================================================================
