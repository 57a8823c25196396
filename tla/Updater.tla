------------------------------ MODULE Updater ------------------------------
(***************************************************************************)
(* The updater: update_client.py on a client's machine, update_server.py   *)
(* and the release script on the publisher's. The client asks whether the  *)
(* server has a newer version, downloads the ZIP, compares its SHA-256     *)
(* with the one announced, copies the program to .update_backup, and then  *)
(* replaces the program item by item. After an exception it puts back      *)
(* whatever .update_backup holds. Any step can raise, and the process can  *)
(* die between and within steps; the next call of the client starts over.  *)
(*                                                                         *)
(* An item is a name of update_files: build_release.sh packs just these.   *)
(* It holds one version's files, some of them, or is absent. A SHA-256     *)
(* tells what it was computed from. The names a ZIP may not touch are in   *)
(* no ZIP the script builds and are left out.                              *)
(***************************************************************************)
EXTENDS Integers, FiniteSets

CONSTANTS
    Items,         \* the names of update_files
    VersionFile,   \* version.json, one of them
    Nobody,        \* no item
    MaxVersion     \* bound on the versions published

ASSUME UpdaterAssumption ==
    /\ VersionFile \in Items
    /\ Nobody \notin Items
    /\ MaxVersion \in Nat \ {0}

VARIABLES
    offered,    \* the version in the server's version.json
    dist,       \* the ZIP of each version in the server's dist/
    phase,         \* where the client stands
    announced,  \* the SHA-256 the server announced
    zip,        \* what was downloaded
    base,       \* the items of the installation
    backup,     \* the items in .update_backup
    todo,       \* items the loop at phase has still to handle
    current,    \* the item that was removed and not yet copied
    whole,      \* history: the version last installed as a whole
    died,       \* history: a client died, or could not restore, since then
    spoiled     \* history: ... and an item of that version may be lost

serverVars == <<offered, dist>>
historyVars == <<whole, died, spoiled>>
updateVars == <<serverVars, phase, announced, zip, base, backup, todo, current, historyVars>>

Absent == 0
Partial == -1
Versions == 1..MaxVersion
Contents == Versions \cup {Absent, Partial}

\* A SHA-256 is named by the ZIP and what was there of it.
Sha(v, c) == <<v, c>>
NoSha == Sha(0, Absent)

Nothing == [x \in Items |-> Absent]
Installed(v) == [x \in Items |-> v]

-----------------------------------------------------------------------------

InitUpdate ==
    /\ offered = 1
    /\ dist = [v \in Versions |-> IF v = 1 THEN 1 ELSE Absent]
    /\ phase = "idle"
    /\ announced = NoSha /\ zip = Absent
    /\ base = Installed(1)
    /\ backup = Nothing
    /\ todo = {} /\ current = Nobody
    /\ whole = 1 /\ died = FALSE /\ spoiled = FALSE

-----------------------------------------------------------------------------
\* The publisher.

\* A new version.json comes first.
NewVersion ==
    /\ offered < MaxVersion
    /\ offered' = offered + 1
    /\ UNCHANGED <<dist, phase, announced, zip, base, backup, todo, current, historyVars>>

\* build_release.sh moves the ZIP of that version to dist/, which takes its time.
BuildZip ==
    /\ dist[offered] # offered
    /\ dist' = [dist EXCEPT ![offered] = IF @ = Absent THEN Partial ELSE offered]
    /\ UNCHANGED <<offered, phase, announced, zip, base, backup, todo, current, historyVars>>

\* _get_zip_info: the names in reverse order.
Latest ==
    CHOOSE v \in Versions : dist[v] # Absent /\ \A w \in Versions : w > v => dist[w] = Absent

-----------------------------------------------------------------------------
\* The client up to the ZIP.

\* current_version: 0.0.0 without a version.json; a torn one is no JSON and raises.
CurrentVersion == base[VersionFile]

\* _compare_versions compares the numbers.
IsNewer(client, server) == server > client

\* _do_check: the version is that of version.json, the SHA-256 that of the ZIP there is.
CheckAnswer(client) ==
    [update_available |-> IsNewer(client, offered), sha256 |-> Sha(Latest, dist[Latest])]

\* check_for_update, of which auto_update takes only a newer version with its SHA-256.
CheckForUpdate ==
    /\ phase = "idle"
    /\ CurrentVersion # Partial
    /\ CheckAnswer(CurrentVersion).update_available
    /\ announced' = CheckAnswer(CurrentVersion).sha256
    /\ phase' = "confirmed"
    /\ UNCHANGED <<serverVars, zip, base, backup, todo, current, historyVars>>

\* The user declines, the download fails, or what came is not what was announced.
GiveUp ==
    /\ phase = "confirmed"
    /\ phase' = "idle"
    /\ announced' = NoSha
    /\ UNCHANGED <<serverVars, zip, base, backup, todo, current, historyVars>>

\* _handle_download looks for the ZIP again; the end of what it sends may be missing.
Sent == {dist[Latest], Partial}

\* download_update keeps what has the SHA-256 announced.
Download ==
    /\ phase = "confirmed"
    /\ \E c \in Sent :
        /\ Sha(Latest, c) = announced
        /\ zip' = c
    /\ phase' = "clearing"
    /\ announced' = NoSha
    /\ UNCHANGED <<serverVars, base, backup, todo, current, historyVars>>

-----------------------------------------------------------------------------
\* apply_update.

\* What a second attempt finds broken is no longer saved by a backup: its own backup
\* replaces the one made of the whole installation.
StartBackup ==
    /\ phase = "clearing"
    /\ backup' = Nothing
    /\ todo' = { x \in Items : base[x] # Absent }
    /\ spoiled' = (spoiled \/ died)
    /\ phase' = "saving"
    /\ UNCHANGED <<serverVars, announced, zip, base, current, whole, died>>

\* for name in update_files
SaveItem(x) ==
    /\ phase = "saving" /\ x \in todo
    /\ backup' = [backup EXCEPT ![x] = base[x]]
    /\ todo' = todo \ {x}
    /\ UNCHANGED <<serverVars, phase, announced, zip, base, current, historyVars>>

Extract_Early ==
    /\ phase = "saving" /\ VersionFile \notin todo
    /\ zip # Partial
    /\ todo' = Items
    /\ phase' = "replacing"
    /\ UNCHANGED <<serverVars, announced, zip, base, backup, current, historyVars>>

\* extractall of a readable ZIP.
Extract ==
    /\ phase = "saving" /\ todo = {}
    /\ zip # Partial
    /\ todo' = Items
    /\ phase' = "replacing"
    /\ UNCHANGED <<serverVars, announced, zip, base, backup, current, historyVars>>

\* Both loops first remove the item there is. iterdir comes in any order.
RemoveItem(x) ==
    /\ phase \in {"replacing", "restoring"} /\ x \in todo
    /\ current = Nobody
    /\ base' = [base EXCEPT ![x] = Absent]
    /\ current' = x
    /\ todo' = todo \ {x}
    /\ UNCHANGED <<serverVars, phase, announced, zip, backup, historyVars>>

\* Then they copy it from the ZIP or from the backup.
Source(x) == IF phase = "replacing" THEN zip ELSE backup[x]

CopyItem ==
    /\ current # Nobody
    /\ base' = [base EXCEPT ![current] = Source(current)]
    /\ current' = Nobody
    /\ UNCHANGED <<serverVars, phase, announced, zip, backup, todo, historyVars>>

\* The update was applied.
Succeed ==
    /\ phase = "replacing" /\ todo = {} /\ current = Nobody
    /\ phase' = "idle"
    /\ zip' = Absent
    /\ whole' = zip
    /\ died' = FALSE /\ spoiled' = FALSE
    /\ UNCHANGED <<serverVars, announced, base, backup, todo, current>>

\* An exception while the old backup is removed or the new one is made: what is left
\* of either is "restored".
SaveFails ==
    /\ phase \in {"clearing", "saving"}
    /\ backup' \in { b \in [Items -> Contents] :
           \A x \in Items : \/ b[x] = backup[x]
                            \/ phase = "clearing" /\ backup[x] # Absent /\ b[x] \in {Absent, Partial}
                            \/ phase = "saving" /\ x \in todo /\ b[x] = Partial }
    /\ todo' = { x \in Items : backup'[x] # Absent }
    /\ spoiled' = TRUE
    /\ phase' = "restoring"
    /\ UNCHANGED <<serverVars, announced, zip, base, current, whole, died>>

\* An exception from the ZIP, with the backup complete.
ExtractFails ==
    /\ phase = "saving" /\ todo = {}
    /\ todo' = { x \in Items : backup[x] # Absent }
    /\ phase' = "restoring"
    /\ UNCHANGED <<serverVars, announced, zip, base, backup, current, historyVars>>

\* Some files of the item that is removed or copied are there.
Torn ==
    \/ UNCHANGED base
    \/ \E x \in Items :
        /\ current = x \/ (current = Nobody /\ x \in todo)
        /\ base' = [base EXCEPT ![x] = Partial]

ReplaceFails_GivesUp ==
    /\ phase = "replacing"
    /\ Torn
    /\ todo' = {}
    /\ current' = Nobody
    /\ phase' = "restoring"
    /\ UNCHANGED <<serverVars, announced, zip, backup, historyVars>>

\* An exception while an item is replaced: the backup is put back.
ReplaceFails ==
    /\ phase = "replacing"
    /\ Torn
    /\ todo' = { x \in Items : backup[x] # Absent }
    /\ current' = Nobody
    /\ phase' = "restoring"
    /\ UNCHANGED <<serverVars, announced, zip, backup, historyVars>>

\* The client ends: it died, or an exception stopped the restoration.
Die ==
    /\ phase # "idle"
    /\ phase' = "idle"
    /\ IF phase \in {"replacing", "restoring"} THEN Torn ELSE UNCHANGED base
    /\ IF phase = "clearing"
       THEN \E S \in SUBSET Items :
                backup' = [x \in Items |-> IF x \in S THEN Absent ELSE backup[x]]
       ELSE UNCHANGED backup
    /\ died' = (died \/ phase \in {"replacing", "restoring"})
    /\ spoiled' = (spoiled \/ (phase = "clearing" /\ died))
    /\ announced' = NoSha /\ zip' = Absent
    /\ todo' = {} /\ current' = Nobody
    /\ UNCHANGED <<serverVars, whole>>

\* The backup was put back.
Restored ==
    /\ phase = "restoring" /\ todo = {} /\ current = Nobody
    /\ phase' = "idle"
    /\ zip' = Absent
    /\ UNCHANGED <<serverVars, announced, base, backup, todo, current, historyVars>>

-----------------------------------------------------------------------------

NextUpdate ==
    \/ NewVersion \/ BuildZip
    \/ CheckForUpdate \/ GiveUp \/ Download
    \/ StartBackup \/ Extract \/ CopyItem \/ Succeed
    \/ \E x \in Items : SaveItem(x) \/ RemoveItem(x)
    \/ SaveFails \/ ExtractFails \/ ReplaceFails \/ Die \/ Restored

SpecUpdate == InitUpdate /\ [][NextUpdate]_updateVars

-----------------------------------------------------------------------------

UpdateTypes ==
    /\ offered \in Versions
    /\ dist \in [Versions -> Contents]
    /\ phase \in {"idle", "confirmed", "clearing", "saving", "replacing", "restoring"}
    /\ announced \in (0..MaxVersion) \X Contents
    /\ zip \in Contents
    /\ base \in [Items -> Contents]
    /\ backup \in [Items -> Contents]
    /\ todo \in SUBSET Items
    /\ current \in Items \cup {Nobody}
    /\ whole \in Versions
    /\ died \in BOOLEAN /\ spoiled \in BOOLEAN

\* Between two calls of the client the installation is one version, the one its
\* version.json names: no mixture is left by updates that failed, were refused or
\* were undone. What it takes: the client was not killed while it replaced items, no
\* restoration failed, and no exception came before the backup was complete.
OneVersion ==
    phase = "idle" /\ ~died /\ ~spoiled => base = Installed(whole)

\* Even then every item of the last whole installation is still on the disk, in
\* place or in .update_backup, until a new call makes its own backup.
NothingLost ==
    ~spoiled => \A x \in Items : base[x] = whole \/ backup[x] = whole
=============================================================================
