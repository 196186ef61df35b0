---------------------------- MODULE GameStateFile ----------------------------
(***************************************************************************)
(* How game.rs replaces the state file: atomic_write_string makes a        *)
(* temporary file, writes, syncs and renames it.  Several writers, threads *)
(* or processes, may do so at once, each step may fail, a writer may be    *)
(* killed, and the machine may crash.                                      *)
(*                                                                         *)
(* A file is a number.  File 0 is what the path named at first; the others *)
(* are made as temporary files, never two of one name: the name holds the  *)
(* process and the time in nanoseconds, and create_new refuses a name in   *)
(* use.  The directory is not synced, so after a rename the path may name  *)
(* an earlier file again if the machine crashes.                           *)
(***************************************************************************)
EXTENDS Naturals

CONSTANTS
    Writers,
    States,         \* the states they write
    Absent,         \* the state that stands for no file
    Torn,           \* what a file holds that was not written to its end
    MaxFiles        \* bound: how many temporary files are ever made

ASSUME FileAssumption == /\ MaxFiles \in Nat
                         /\ Absent \notin States
                         /\ Torn \notin States \cup {Absent}

VARIABLES
    pc,             \* the step each writer is at
    temp,           \* the temporary file each writer made last
    result,         \* what its last call returned
    made,           \* how many temporary files were made
    state,          \* the state each file is to hold
    written,        \* how much of it the file holds
    synced,         \* files whose content is on the disk
    path,           \* the file the path names
    onDisk          \* the files the path may name after a crash

writerVars == <<pc, temp, result>>
fileVars == <<made, state, written, synced>>
nameVars == <<path, onDisk>>
vars == <<writerVars, fileVars, nameVars>>

Files == 0..MaxFiles

-----------------------------------------------------------------------------
(* atomic_write_string, one writer.                                        *)

\* Mutant: a temporary name of the process alone, opened without create_new.
SameFile == 1
NewFile == made + 1

CreateTemp(w, s) ==
    /\ pc[w] = "idle"
    /\ made < MaxFiles
    /\ pc' = [pc EXCEPT ![w] = "write"]
    /\ temp' = [temp EXCEPT ![w] = NewFile]
    /\ result' = [result EXCEPT ![w] = "none"]
    /\ made' = made + 1
    /\ state' = [state EXCEPT ![NewFile] = s]
    /\ written' = [written EXCEPT ![NewFile] = "empty"]
    /\ UNCHANGED <<synced, nameVars>>

\* The directory or the temporary file cannot be made.  If create_new fails, the code also
\* removes whatever has the temporary name: nothing has, as the process and the nanosecond
\* in the name are taken to make it unique (NewFile).
CreateTempFails(w) ==
    /\ pc[w] = "idle"
    /\ temp' = [temp EXCEPT ![w] = 0]
    /\ result' = [result EXCEPT ![w] = "error"]
    /\ UNCHANGED <<pc, fileVars, nameVars>>

WriteSome(w) ==
    /\ pc[w] = "write"
    /\ written[temp[w]] = "empty"
    /\ written' = [written EXCEPT ![temp[w]] = "part"]
    /\ UNCHANGED <<writerVars, made, state, synced, nameVars>>

WriteAll(w) ==
    /\ pc[w] = "write"
    /\ written' = [written EXCEPT ![temp[w]] = "whole"]
    /\ pc' = [pc EXCEPT ![w] = "sync"]
    /\ UNCHANGED <<temp, result, made, state, synced, nameVars>>

\* Mutant: sync_all is forgotten.
NotSynced(f) == synced
SyncedWith(f) == synced \cup {f}

SyncAll(w) ==
    /\ pc[w] = "sync"
    /\ synced' = SyncedWith(temp[w])
    /\ pc' = [pc EXCEPT ![w] = "rename"]
    /\ UNCHANGED <<temp, result, made, state, written, nameVars>>

\* Mutant: an error after the rename, of syncing the directory say, is returned.
OkOrError == {"ok", "error"}
Renamed == {"ok"}

Rename(w) ==
    /\ pc[w] = "rename"
    /\ path' = temp[w]
    /\ onDisk' = onDisk \cup {temp[w]}
    /\ pc' = [pc EXCEPT ![w] = "idle"]
    /\ \E r \in Renamed : result' = [result EXCEPT ![w] = r]
    /\ UNCHANGED <<temp, fileVars>>

\* The write, the sync or the rename fails, and the temporary file is removed.
Fail(w) ==
    /\ pc[w] # "idle"
    /\ pc' = [pc EXCEPT ![w] = "idle"]
    /\ result' = [result EXCEPT ![w] = "error"]
    /\ UNCHANGED <<temp, fileVars, nameVars>>

-----------------------------------------------------------------------------
(* What happens to the writers.                                            *)

\* The process is killed; its temporary file stays, under a name nobody reads.
Die(w) ==
    /\ pc[w] # "idle"
    /\ pc' = [pc EXCEPT ![w] = "idle"]
    /\ UNCHANGED <<temp, result, fileVars, nameVars>>

\* The file system writes the directory out.
Flush ==
    /\ onDisk # {path}
    /\ onDisk' = {path}
    /\ UNCHANGED <<writerVars, fileVars, path>>

\* What was not synced may be lost, and so may the last renames.
Crash ==
    /\ path' \in onDisk
    /\ onDisk' = {path'}
    /\ \E lost \in SUBSET (Files \ synced) :
          written' = [f \in Files |-> IF f \in lost THEN "part" ELSE written[f]]
    /\ pc' = [w \in Writers |-> "idle"]
    /\ result' = [w \in Writers |-> "none"]
    /\ UNCHANGED <<temp, made, state, synced>>

Init ==
    /\ pc = [w \in Writers |-> "idle"]
    /\ temp = [w \in Writers |-> 0]
    /\ result = [w \in Writers |-> "none"]
    /\ made = 0
    /\ \E s \in States \cup {Absent} : state = [f \in Files |-> s]
    /\ written = [f \in Files |-> IF f = 0 THEN "whole" ELSE "empty"]
    /\ synced = {0}
    /\ path = 0
    /\ onDisk = {0}

Next ==
    \/ \E w \in Writers :
          \/ \E s \in States : CreateTemp(w, s)
          \/ CreateTempFails(w)
          \/ WriteSome(w)
          \/ WriteAll(w)
          \/ SyncAll(w)
          \/ Rename(w)
          \/ Fail(w)
          \/ Die(w)
    \/ Flush
    \/ Crash

Spec == Init /\ [][Next]_vars

-----------------------------------------------------------------------------
(* Properties.                                                             *)

\* Types; and no two writers ever have one temporary file.
TypeOK ==
    /\ pc \in [Writers -> {"idle", "write", "sync", "rename"}]
    /\ temp \in [Writers -> Files]
    /\ result \in [Writers -> {"none", "ok", "error"}]
    /\ made \in Files
    /\ state \in [Files -> States \cup {Absent}]
    /\ written \in [Files -> {"empty", "part", "whole"}]
    /\ synced \subseteq Files
    /\ path \in onDisk
    /\ onDisk \subseteq Files
    /\ \A w \in Writers : temp[w] <= made
    /\ \A v, w \in Writers : v # w /\ temp[v] # 0 => temp[v] # temp[w]

\* A call that returned an error left no trace: neither now nor after a crash does
\* the path name the file it wrote.
ErrorLeavesNoTrace ==
    \A w \in Writers : result[w] = "error" /\ temp[w] # 0 => temp[w] \notin onDisk

\* load_managed_game_downscales: what a file holds.
Content(file) == IF written[file] = "whole" THEN state[file] ELSE Torn

\* The file is the register of GameState: whatever the writers, the failures and the
\* crashes, a load never sees a state half written, nor one that nobody wrote.
Register == INSTANCE GameState
                WITH value <- Content(path),
                     possible <- {Content(f) : f \in onDisk}

IsRegister == Register!Spec
=============================================================================
