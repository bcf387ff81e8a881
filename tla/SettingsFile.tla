---------------------------- MODULE SettingsFile ----------------------------
(***************************************************************************)
(* storage/settings.cpp and the controller's save_settings: settings.ini   *)
(* on the SD card, written through a temporary file and a rename by a      *)
(* program that may be killed, or refused by the card, at every step.      *)
(*                                                                         *)
(* A file is the set of its lines with the settings they were written      *)
(* from.  Four settings stand for all: `artwork` for those with a one-time *)
(* new default, `buttons` for those that are validated and migrated,       *)
(* `ips` for the lists that are cut to a length, `extra` for the fields of *)
(* a newer version.  Leftover temporary files of earlier processes are     *)
(* only counted: open truncates them.                                      *)
(*                                                                         *)
(* The parts of the specification are named FileInit, FileNext and so on,  *)
(* so that ScreensAndFileProofs can extend Screens beside this module.     *)
(***************************************************************************)
EXTENDS Integers, Sequences

CONSTANTS
  Ips,      \* addresses the owner may enter
  MaxIps,   \* entries that validate_settings keeps (16)
  Pids      \* process ids, one of which may come back after a crash

ASSUME MaxIpsIsNat == MaxIps \in Nat

VARIABLES
  running,  \* the program runs
  pid,      \* its process id, part of the temporary file's name
  memory,   \* Controller::settings_
  file,     \* settings.ini
  phase,    \* of SettingsStore::save
  temp,     \* its settings.ini.tmp.<pid>
  litter    \* processes that left a temporary file behind

fileVars == <<running, pid, memory, file, phase, temp, litter>>

\* "former" is one of the default layouts of earlier versions, "own" the
\* owner's, "unsafe" one from which the owner could not find back.
Mappings == {"default", "former", "own", "unsafe"}

IpLists == {s \in UNION {[1..n -> Ips] : n \in 0..MaxIps + 1} :
              \A i, j \in DOMAIN s : s[i] = s[j] => i = j}

Settings == [artwork : BOOLEAN, ips : IpLists,
             buttons : Mappings \ {"unsafe"}, extra : BOOLEAN]

Defaults == [artwork |-> TRUE, ips |-> <<>>, buttons |-> "default",
             extra |-> FALSE]

Lines == {"artwork", "ips", "buttons", "extra", "content_defaults_version"}

Contents == [artwork : BOOLEAN, ips : IpLists, buttons : Mappings,
             extra : BOOLEAN]

Files == [lines : SUBSET Lines, of : Contents]

NoFile == [lines |-> {}, of |-> Defaults]

Phases == {"idle", "creating", "writing", "closed"}

FileTypeOK ==
  /\ running \in BOOLEAN
  /\ pid \in Pids
  /\ memory \in Settings
  /\ file \in Files /\ temp \in Files
  /\ phase \in Phases
  /\ litter \subseteq Pids
-----------------------------------------------------------------------------
FirstIps(ips) == IF Len(ips) <= MaxIps THEN ips ELSE SubSeq(ips, 1, MaxIps)

\* validate_settings.
Validated(s) ==
  [s EXCEPT !.ips = FirstIps(@),
            !.buttons = IF @ = "unsafe" THEN "default" ELSE @]

\* A line that is missing reads as its fallback; an installation from before
\* content_defaults_version gets the new artwork defaults.
Read(f) ==
  [artwork |-> "artwork" \in f.lines
               /\ "content_defaults_version" \in f.lines => f.of.artwork,
   ips |-> IF "ips" \in f.lines THEN f.of.ips ELSE <<>>,
   buttons |-> IF "buttons" \in f.lines THEN f.of.buttons ELSE "default",
   extra |-> "extra" \in f.lines /\ f.of.extra]

\* A former default layout becomes the present one, whoever chose it.
Migrated(s) ==
  [s EXCEPT !.buttons = IF @ = "former" THEN "default" ELSE @]

\* Faulty variant: the file is taken at its word.
LoadUnchecked(f) == IF f.lines = {} THEN Defaults ELSE Migrated(Read(f))

Load(f) == IF f.lines = {} THEN Defaults ELSE Validated(Migrated(Read(f)))

\* The lines that save writes: the unknown fields only if there are any.
LinesOf(s) == IF s.extra THEN Lines ELSE Lines \ {"extra"}

\* What a save followed by a start makes of the settings.
Kept(s) == Validated(Migrated(s))
-----------------------------------------------------------------------------
(* Variants with a fault, for the sensitivity checks of PROJECT.json: lines *)
(* written in place, a failed rename that forgets the temporary file.       *)

WriteLineInPlace ==
  /\ phase = "writing"
  /\ \E l \in LinesOf(memory) \ temp.lines :
       temp' = [lines |-> temp.lines \cup {l}, of |-> Validated(memory)]
  /\ file' = temp'
  /\ UNCHANGED <<running, pid, memory, phase, litter>>

ReplaceFailsUntidily ==
  /\ phase = "closed"
  /\ phase' = "idle"
  /\ litter' = litter \cup {pid}
  /\ UNCHANGED <<running, pid, memory, file, temp>>
-----------------------------------------------------------------------------
\* A first start; an old installation; the file of a newer version; a file
\* edited by hand.
FileInit ==
  /\ running = FALSE /\ pid \in Pids /\ memory = Defaults
  /\ file \in {NoFile,
               [lines |-> {"artwork", "buttons"},
                of |-> [Defaults EXCEPT !.artwork = FALSE, !.buttons = "former"]],
               [lines |-> Lines, of |-> [Defaults EXCEPT !.extra = TRUE]],
               [lines |-> {"buttons", "content_defaults_version"},
                of |-> [Defaults EXCEPT !.buttons = "unsafe"]]}
  /\ phase = "idle" /\ temp = NoFile /\ litter = {}

\* Controller's constructor loads the file.
Start ==
  /\ ~running
  /\ running' = TRUE
  /\ pid' \in Pids
  /\ memory' = Load(file)
  /\ UNCHANGED <<file, phase, temp, litter>>

Idle == running /\ phase = "idle"

\* A handler has changed a setting and calls save_settings; the rest of save
\* runs before the next handler does.
SaveAs(s) ==
  /\ Idle
  /\ memory' = s
  /\ phase' = "creating"
  /\ UNCHANGED <<running, pid, file, temp, litter>>

ToggleArtwork == SaveAs([memory EXCEPT !.artwork = ~@])

\* save_button_mapping and restore_button_mapping store safe layouts only.
MapButtons ==
  \E b \in Mappings \ {"unsafe"} : SaveAs([memory EXCEPT !.buttons = b])

\* save_ip_editor appends, and tells the owner that the address is saved, also
\* when the list is as long as save keeps it.
AddIp ==
  \E ip \in Ips :
    /\ ip \notin {memory.ips[i] : i \in DOMAIN memory.ips}
    /\ Len(memory.ips) <= MaxIps
    /\ SaveAs([memory EXCEPT !.ips = Append(@, ip)])

\* X in the address editor (Action::Context).
ClearIps == SaveAs([memory EXCEPT !.ips = <<>>])

ResetSettings == SaveAs(Defaults)

\* stop() saves once more before the process ends.
SaveOnStop == SaveAs(memory)

\* The process ends, between two saves or within one.
Killed ==
  /\ running
  /\ running' = FALSE
  /\ phase' = "idle"
  /\ temp' = NoFile
  /\ litter' = IF phase \in {"writing", "closed"} THEN litter \cup {pid} ELSE litter
  /\ UNCHANGED <<pid, memory, file>>
-----------------------------------------------------------------------------
\* std::ofstream with trunc: an empty file, whatever had the name before.
OpenTemporary ==
  /\ phase = "creating"
  /\ phase' = "writing"
  /\ temp' = NoFile
  /\ litter' = litter \ {pid}
  /\ UNCHANGED <<running, pid, memory, file>>

\* The directory or the file cannot be created.
OpenFails ==
  /\ phase = "creating"
  /\ phase' = "idle"
  /\ UNCHANGED <<running, pid, memory, file, temp, litter>>

WriteLine ==
  /\ phase = "writing"
  /\ \E l \in LinesOf(memory) \ temp.lines :
       temp' = [lines |-> temp.lines \cup {l}, of |-> Validated(memory)]
  /\ UNCHANGED <<running, pid, memory, file, phase, litter>>

\* Every line is out and flush() succeeded.
FinishWriting ==
  /\ phase = "writing"
  /\ temp.lines = LinesOf(memory)
  /\ phase' = "closed"
  /\ UNCHANGED <<running, pid, memory, file, temp, litter>>

\* A full card shows at flush() or earlier; the temporary file is removed.
WritingFails ==
  /\ phase = "writing"
  /\ phase' = "idle"
  /\ temp' = NoFile
  /\ UNCHANGED <<running, pid, memory, file, litter>>

\* rename() replaces the file in one step.
Replace ==
  /\ phase = "closed"
  /\ phase' = "idle"
  /\ file' = temp
  /\ temp' = NoFile
  /\ UNCHANGED <<running, pid, memory, litter>>

ReplaceFails ==
  /\ phase = "closed"
  /\ phase' = "idle"
  /\ temp' = NoFile
  /\ UNCHANGED <<running, pid, memory, file, litter>>

Edits == ToggleArtwork \/ MapButtons \/ AddIp \/ ClearIps \/ ResetSettings \/ SaveOnStop

Saves ==
  \/ OpenTemporary \/ OpenFails
  \/ WriteLine \/ FinishWriting \/ WritingFails
  \/ Replace \/ ReplaceFails

FileNext == Start \/ Edits \/ Saves \/ Killed

FileSpec == FileInit /\ [][FileNext]_fileVars
-----------------------------------------------------------------------------
(* Properties *)

\* docs/ARCHITECTURE.md ("written through a temporary file plus atomic
\* rename"): whatever fails and wherever the program is killed, a start reads
\* the settings of the last save that succeeded, all of them, as Kept says.
Register == INSTANCE SettingsRegister WITH stored <- Load(file)
IsRegister == Register!Spec

\* A save that fails leaves no temporary file: only a process that is killed
\* inside a save does.
FailuresLeaveNoLitter ==
  [][litter' \subseteq litter \/ (running /\ ~running')]_fileVars
=============================================================================
