-------------------------- MODULE ResolvConfProofs ---------------------------
(* The invariants of ResolvConf, for every set of servers and any number of *)
(* processes and reloads.                                                   *)
EXTENDS ResolvConf, TLAPS

(* What each point of apply(), reload() and restore() knows of the struct
   and of the files; the two invariants of the runs follow from it.        *)
ProgramPoints ==
  /\ pc # "off" => exit = "none"
  /\ pc = "ready" => original = None
  /\ pc \in {"backup", "fillBackup"} => original = None /\ file # Absent
  /\ pc \in {"backup", "fillBackup", "override", "fillOverride"} => target \in Servers
  /\ pc \in {"disable", "fillDisable", "restore", "fillRestore"} => original # None
  /\ pc \in {"override", "fillOverride"} /\ startFile # Absent => original # None

OriginalKept ==
  startFile # Absent =>
    /\ original \in {None, startFile}
    /\ original = None => file = startFile
    /\ original # None /\ ~disabled =>
         backup = startFile \/ (pc = "off" /\ file = startFile)
    /\ pc = "up" /\ current = None /\ ~faulted => file = startFile

Flags == applied \in BOOLEAN /\ disabled \in BOOLEAN /\ faulted \in BOOLEAN

IInv == TypeOK /\ ProgramPoints /\ OriginalKept /\ RestoredOnExit

LEMMA InitIInv == Init => IInv
<1> SUFFICES ASSUME Init PROVE IInv
    OBVIOUS
<1>1. Flags
      BY DEF Init, Flags
<1> QED
    BY <1>1, ResolvConfAssumption
    DEF Flags, Init, IInv, TypeOK, ProgramPoints, OriginalKept, RestoredOnExit,
       Contents, WriteLabels

LEMMA NextIInv == IInv /\ [Next]_vars => IInv'
<1> SUFFICES ASSUME IInv, [Next]_vars PROVE IInv'
    OBVIOUS
<1> USE ResolvConfAssumption
    DEF IInv, TypeOK, ProgramPoints, OriginalKept, RestoredOnExit, Contents,
        WriteLabels
<1>1. CASE Start
  <2>1. Flags'
        BY <1>1 DEF Start, Flags
  <2> QED
      BY <1>1, <2>1 DEF Start, Flags
<1>2. ASSUME NEW server \in Servers \cup {None}, Apply(server)
      PROVE  IInv'
  <2>1. Flags'
        BY <1>2 DEF Apply, Flags
  <2> QED
      BY <1>2, <2>1 DEF Apply, NextWrite, Flags
<1>3. ASSUME NEW server \in Servers \cup {None}, Reload(server)
      PROVE  IInv'
      BY <1>3 DEF Reload, NextWrite
<1>4. CASE Restore
  <2>1. Flags'
        BY <1>4 DEF Restore, Flags
  <2> QED
      BY <1>4, <2>1 DEF Restore, Flags
<1>5. CASE TruncateBackup
      BY <1>5 DEF TruncateBackup
<1>6. CASE FillBackup
      BY <1>6 DEF FillBackup
<1>7. CASE TruncateFile
      BY <1>7 DEF TruncateFile
<1>8. CASE FillOverride
      BY <1>8 DEF FillOverride
<1>9. CASE FillDisable
      BY <1>9 DEF FillDisable
<1>10. CASE FillRestore
      BY <1>10 DEF FillRestore
<1>11. CASE WriteFails
      BY <1>11 DEF WriteFails
<1>12. CASE Kill
      BY <1>12 DEF Kill
<1>13. CASE UNCHANGED vars
      BY <1>13 DEF vars
<1> QED
    BY <1>1, <1>2, <1>3, <1>4, <1>5, <1>6, <1>7, <1>8, <1>9, <1>10, <1>11,
       <1>12, <1>13 DEF Next

LEMMA InductiveInvariant == Spec => []IInv
BY InitIInv, NextIInv, PTL DEF Spec

(* The types of the files and of the ResolvConf struct, in every behaviour. *)
THEOREM TypeCorrect == Spec => []TypeOK
<1>1. IInv => TypeOK
      BY DEF IInv
<1> QED
    BY <1>1, InductiveInvariant, PTL

(* restore() at a graceful exit puts back the resolv.conf the process found,
   whatever apply() and reload() did before, if no write failed.           *)
THEOREM ExitRestores == Spec => []RestoredOnExit
<1>1. IInv => RestoredOnExit
      BY DEF IInv
<1> QED
    BY <1>1, InductiveInvariant, PTL

(* ensure_backup comes before the first truncation: until a reload disables
   the override, a kill at any point, also inside fs::write, leaves the
   resolv.conf the process found on disk.                                  *)
THEOREM KillKeepsACopy == Spec => []KilledLeavesACopy
<1>1. IInv => KilledLeavesACopy
      BY DEF IInv, OriginalKept, KilledLeavesACopy
<1> QED
    BY <1>1, InductiveInvariant, PTL

=============================================================================
