----------------------------- MODULE ResolvConf ------------------------------
(***************************************************************************)
(* The DNS override of src/platform/linux/dns.rs: resolv.conf is replaced  *)
(* by a single nameserver line, after a copy is kept in memory and in a    *)
(* backup file, and put back by reload() or restore(). RouteManager calls  *)
(* apply() last in its own apply(), and a failure ends the process without *)
(* restore(); a failed reload() does not. The process may be killed at any *)
(* point, and started again on what it left behind.                        *)
(*                                                                         *)
(* fs::write truncates the file and then fills it: two steps, each of      *)
(* which may fail, with a possible kill in between.                        *)
(***************************************************************************)
EXTENDS Naturals

CONSTANTS
  Servers,     \* addresses of dns_server; also the line written for them
  System,      \* the content of resolv.conf before cortado first ran
  Torn,        \* a file truncated and not, or only partly, filled
  Absent,      \* no such file
  None,        \* Option::None
  MaxStarts,   \* bound: number of processes started
  MaxReloads   \* bound: number of reload() calls

ASSUME ResolvConfAssumption ==
  /\ System \notin Servers /\ Torn \notin Servers
  /\ Absent \notin Servers /\ None \notin Servers
  /\ System # Torn /\ System # Absent /\ System # None
  /\ Torn # Absent /\ Torn # None /\ Absent # None
  /\ MaxStarts \in Nat /\ MaxReloads \in Nat

Contents == Servers \cup {System, Torn}

VARIABLES
  file,       \* /etc/resolv.conf
  backup,     \* /etc/resolv.conf.cortado.bak
  original,   \* ResolvConf.original
  current,    \* ResolvConf.current
  target,     \* the server of the call in progress
  applied,    \* RouteManager.applied
  pc,         \* "off": no process; else where the process is
  exit,       \* how the last process ended
  startFile,  \* history: resolv.conf when the process started
  disabled,   \* history: this process has switched its override off
  faulted,    \* history: a file operation of this process failed
  starts, reloads

vars == <<file, backup, original, current, target, applied, pc, exit,
          startFile, disabled, faulted, starts, reloads>>

Init ==
  /\ file \in {System, Absent}
  /\ backup = Absent
  /\ original = None /\ current = None /\ target = None
  /\ applied = FALSE
  /\ pc = "off" /\ exit = "none"
  /\ startFile = file
  /\ disabled = FALSE /\ faulted = FALSE
  /\ starts = 0 /\ reloads = 0

(* A new process, with a new ResolvConf. *)
Start ==
  /\ pc = "off"
  /\ starts < MaxStarts
  /\ starts' = starts + 1
  /\ original' = None /\ current' = None /\ target' = None
  /\ applied' = FALSE
  /\ startFile' = file
  /\ disabled' = FALSE /\ faulted' = FALSE
  /\ pc' = "ready"
  /\ exit' = "none"
  /\ UNCHANGED <<file, backup, reloads>>

(* Mutant: the copy is made again on every call. *)
NextWriteCopyAgain == IF file # Absent THEN "backup" ELSE "override"

(* Mutant: a file that is not there is copied. *)
NextWriteCopyAbsent == IF original = None THEN "backup" ELSE "override"

(* ensure_backup copies the file unless a copy was made before, or there is
   no file to copy; write_nameserver follows.                              *)
NextWrite == IF original = None /\ file # Absent THEN "backup" ELSE "override"

Apply(server) ==
  /\ pc = "ready"
  /\ IF server = None
       THEN pc' = "up" /\ applied' = TRUE /\ UNCHANGED target
       ELSE pc' = NextWrite /\ target' = server /\ UNCHANGED applied
  /\ UNCHANGED <<file, backup, original, current, exit, startFile, disabled,
                 faulted, starts, reloads>>

(* reload(): nothing to do for the server in use; None puts the original
   back if there is one, and in any case forgets the override.             *)
Reload(server) ==
  /\ pc = "up"
  /\ reloads < MaxReloads
  /\ server # current
  /\ reloads' = reloads + 1
  /\ target' = server
  /\ IF server # None
       THEN pc' = NextWrite /\ UNCHANGED current
     ELSE IF original # None
       THEN pc' = "disable" /\ UNCHANGED current
       ELSE current' = None /\ UNCHANGED pc
  /\ UNCHANGED <<file, backup, original, applied, exit, startFile, disabled,
                 faulted, starts>>

(* restore(), called by teardown; without an original the file stays as it is. *)
Restore ==
  /\ pc = "up"
  /\ applied' = FALSE
  /\ IF current # None /\ original # None
       THEN pc' = "restore" /\ UNCHANGED <<current, exit>>
       ELSE pc' = "off" /\ exit' = "clean" /\ current' = None
  /\ UNCHANGED <<file, backup, original, target, startFile, disabled,
                 faulted, starts, reloads>>

-----------------------------------------------------------------------------
(* The two halves of each fs::write *)

TruncateBackup ==
  /\ pc = "backup"
  /\ backup' = Torn
  /\ pc' = "fillBackup"
  /\ UNCHANGED <<file, original, current, target, applied, exit, startFile,
                 disabled, faulted, starts, reloads>>

FillBackup ==
  /\ pc = "fillBackup"
  /\ backup' = file
  /\ original' = file
  /\ pc' = "override"
  /\ UNCHANGED <<file, current, target, applied, exit, startFile, disabled,
                 faulted, starts, reloads>>

(* Mutant: the backup is removed before the original is back. *)
TruncateFileBackupGone ==
  /\ pc \in {"override", "disable", "restore"}
  /\ file' = Torn
  /\ backup' = IF pc = "override" THEN backup ELSE Absent
  /\ pc' = CASE pc = "override" -> "fillOverride"
             [] pc = "disable" -> "fillDisable"
             [] pc = "restore" -> "fillRestore"
  /\ UNCHANGED <<original, current, target, applied, exit, startFile,
                 disabled, faulted, starts, reloads>>

TruncateFile ==
  /\ pc \in {"override", "disable", "restore"}
  /\ file' = Torn
  /\ pc' = CASE pc = "override" -> "fillOverride"
             [] pc = "disable" -> "fillDisable"
             [] pc = "restore" -> "fillRestore"
  /\ UNCHANGED <<backup, original, current, target, applied, exit, startFile,
                 disabled, faulted, starts, reloads>>

FillOverride ==
  /\ pc = "fillOverride"
  /\ file' = target
  /\ current' = target
  /\ applied' = TRUE
  /\ pc' = "up"
  /\ UNCHANGED <<backup, original, target, exit, startFile, disabled,
                 faulted, starts, reloads>>

(* The backup is removed once the original is back; a failure to remove it
   is ignored.                                                             *)
FillDisable ==
  /\ pc = "fillDisable"
  /\ file' = original
  /\ backup' \in {Absent, backup}
  /\ current' = None
  /\ disabled' = TRUE
  /\ pc' = "up"
  /\ UNCHANGED <<original, target, applied, exit, startFile, faulted, starts,
                 reloads>>

FillRestore ==
  /\ pc = "fillRestore"
  /\ file' = original
  /\ backup' \in {Absent, backup}
  /\ current' = None
  /\ pc' = "off" /\ exit' = "clean"
  /\ UNCHANGED <<original, target, applied, startFile, disabled, faulted,
                 starts, reloads>>

(* A write fails, before or after the truncation. apply()'s error ends the
   process, reload()'s does not, restore() only warns.                     *)
WriteFails ==
  /\ pc \notin {"off", "ready", "up"}
  /\ faulted' = TRUE
  /\ IF pc \in {"restore", "fillRestore"}
       THEN current' = None /\ pc' = "off" /\ exit' = "clean"
     ELSE IF applied
       THEN pc' = "up" /\ UNCHANGED <<current, exit>>
       ELSE pc' = "off" /\ exit' = "error" /\ UNCHANGED current
  /\ UNCHANGED <<file, backup, original, target, applied, startFile,
                 disabled, starts, reloads>>

(* SIGKILL, or any end of the process without teardown. *)
Kill ==
  /\ pc # "off"
  /\ pc' = "off" /\ exit' = "killed"
  /\ UNCHANGED <<file, backup, original, current, target, applied, startFile,
                 disabled, faulted, starts, reloads>>

Next ==
  \/ Start
  \/ \E server \in Servers \cup {None} : Apply(server) \/ Reload(server)
  \/ Restore
  \/ TruncateBackup \/ FillBackup
  \/ TruncateFile \/ FillOverride \/ FillDisable \/ FillRestore
  \/ WriteFails
  \/ Kill

Spec == Init /\ [][Next]_vars

-----------------------------------------------------------------------------
(* Properties *)

WriteLabels == {"backup", "fillBackup", "override", "fillOverride",
                "disable", "fillDisable", "restore", "fillRestore"}

(* The type of the files, of the ResolvConf struct and of the process. *)
TypeOK ==
  /\ file \in Contents \cup {Absent}
  /\ backup \in Contents \cup {Absent}
  /\ original \in Contents \cup {None}
  /\ current \in Servers \cup {None}
  /\ target \in Servers \cup {None}
  /\ applied \in BOOLEAN
  /\ pc \in {"off", "ready", "up"} \cup WriteLabels
  /\ exit \in {"none", "clean", "error", "killed"}
  /\ startFile \in Contents \cup {Absent}
  /\ disabled \in BOOLEAN /\ faulted \in BOOLEAN
  /\ starts \in Nat /\ reloads \in Nat

(* A graceful exit puts back the resolv.conf the process found, through any
   sequence of reloads that redirect, disable and re-enable the override,
   provided there was a file and no write to it failed.                    *)
RestoredOnExit ==
  exit = "clean" /\ ~faulted /\ startFile # Absent => file = startFile

(* Until the override is disabled by a reload, the resolv.conf the process
   found is on disk at every point where the process can be killed or a
   write can fail: in place, or complete in the backup.                    *)
KilledLeavesACopy ==
  startFile # Absent /\ ~disabled => file = startFile \/ backup = startFile

-----------------------------------------------------------------------------
(* What the README states, and the code does not always do *)

(* README: a crash is recoverable by copying the backup. No step, of this
   process or of one started after it was killed, destroys the last copy of
   the content that resolv.conf had before cortado first ran.              *)
OriginalSurvivesRestart ==
  [][file = System \/ backup = System => file' = System \/ backup' = System]_vars

=============================================================================
