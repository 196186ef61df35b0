------------------------- MODULE GameStateFileProofs -------------------------
(***************************************************************************)
(* The state file is a register, for any writers, states and number of     *)
(* files.  The invariant says what each step of a writer has secured by    *)
(* the time it is taken, and that the file of a writer at work is not      *)
(* among those the path names or may name after a crash; so whatever is    *)
(* done to that file cannot be seen.                                       *)
(***************************************************************************)
EXTENDS GameStateFile, TLAPS

Busy(w) == pc[w] # "idle"

\* Only files that were made have a use, and those the path may name are complete
\* and on the disk.
FilesOK ==
    /\ synced \subseteq 0..made
    /\ onDisk \subseteq synced
    /\ \A f \in onDisk : written[f] = "whole"

WritersOK ==
    \A w \in Writers :
        /\ Busy(w) => temp[w] # 0 /\ temp[w] \notin onDisk /\ state[temp[w]] \in States
        /\ pc[w] = "write" => temp[w] \notin synced
        /\ pc[w] \in {"sync", "rename"} => written[temp[w]] = "whole"
        /\ pc[w] = "rename" => temp[w] \in synced

Inv == TypeOK /\ FilesOK /\ WritersOK /\ ErrorLeavesNoTrace

-----------------------------------------------------------------------------
LEMMA InitInv == Init => Inv
BY FileAssumption DEF Init, Inv, TypeOK, FilesOK, WritersOK, ErrorLeavesNoTrace, Files, Busy

(* One lemma per step.                                                     *)

LEMMA CreateTempInv ==
    ASSUME Inv, NEW w \in Writers, NEW s \in States, CreateTemp(w, s)
    PROVE  Inv'
<1> USE FileAssumption DEF Files
<1> DEFINE n == made + 1
<1>1. /\ pc' = [pc EXCEPT ![w] = "write"]
      /\ temp' = [temp EXCEPT ![w] = n]
      /\ result' = [result EXCEPT ![w] = "none"]
      /\ made' = n
      /\ state' = [state EXCEPT ![n] = s]
      /\ written' = [written EXCEPT ![n] = "empty"]
      /\ UNCHANGED <<synced, path, onDisk>>
  BY DEF CreateTemp, NewFile, nameVars
<1>2. n \in Files /\ n \notin 0..made /\ n # 0
  BY DEF CreateTemp, Inv, TypeOK
<1>3. \A v \in Writers : temp[v] # n /\ temp[v] <= n
  <2> TAKE v \in Writers
  <2>1. temp[v] \in Nat /\ made \in Nat /\ temp[v] <= made
    BY DEF Inv, TypeOK
  <2> QED
    BY <2>1
<1> HIDE DEF n
<1>4. TypeOK'
  <2>1. pc' \in [Writers -> {"idle", "write", "sync", "rename"}] /\ temp' \in [Writers -> Files]
        /\ result' \in [Writers -> {"none", "ok", "error"}]
    BY <1>1, <1>2 DEF Inv, TypeOK
  <2>2. state' \in [Files -> States \cup {Absent}] /\ written' \in [Files -> {"empty", "part", "whole"}]
    BY <1>1, <1>2 DEF Inv, TypeOK
  <2>3. \A v \in Writers : temp'[v] <= made'
    BY <1>1, <1>2, <1>3 DEF Inv, TypeOK
  <2>4. \A v, x \in Writers : v # x /\ temp'[v] # 0 => temp'[v] # temp'[x]
    BY <1>1, <1>2, <1>3 DEF Inv, TypeOK
  <2> QED
    BY <1>1, <1>2, <2>1, <2>2, <2>3, <2>4 DEF Inv, TypeOK
<1>5. FilesOK'
  <2>1. synced \subseteq 0..n
    BY <1>2 DEF Inv, TypeOK, FilesOK, n
  <2>2. n \notin onDisk
    BY <1>2 DEF Inv, FilesOK
  <2> QED
    BY <1>1, <1>2, <2>1, <2>2 DEF Inv, TypeOK, FilesOK
<1>6. n \notin synced /\ n \notin onDisk
  BY <1>2 DEF Inv, FilesOK
<1>7. WritersOK'
  BY <1>1, <1>2, <1>3, <1>6 DEF Inv, TypeOK, WritersOK, Busy
<1>8. ErrorLeavesNoTrace'
  BY <1>1 DEF Inv, TypeOK, ErrorLeavesNoTrace
<1> QED
  BY <1>4, <1>5, <1>7, <1>8 DEF Inv

LEMMA CreateTempFailsInv ==
    ASSUME Inv, NEW w \in Writers, CreateTempFails(w)
    PROVE  Inv'
<1> USE FileAssumption DEF Files
<1>1. TypeOK'
  BY DEF Inv, TypeOK, CreateTempFails, fileVars, nameVars
<1>2. FilesOK' /\ WritersOK' /\ ErrorLeavesNoTrace'
  BY DEF Inv, TypeOK, FilesOK, WritersOK, ErrorLeavesNoTrace, Busy, CreateTempFails, fileVars, nameVars
<1> QED
  BY <1>1, <1>2 DEF Inv

\* Writing changes only the writer's own file, which nobody can see.
LEMMA WriteInv ==
    ASSUME Inv, NEW w \in Writers, WriteSome(w) \/ WriteAll(w)
    PROVE  Inv'
<1> USE FileAssumption DEF Files
<1>1. PICK amount \in {"part", "whole"} :
        /\ written' = [written EXCEPT ![temp[w]] = amount]
        /\ \/ pc' = pc /\ amount = "part"
           \/ pc' = [pc EXCEPT ![w] = "sync"] /\ amount = "whole"
  BY DEF WriteSome, WriteAll, writerVars
<1>2. UNCHANGED <<temp, result, made, state, synced, path, onDisk>> /\ pc[w] = "write"
  BY DEF WriteSome, WriteAll, writerVars, nameVars
<1>3. temp[w] \in Files /\ temp[w] \notin synced /\ temp[w] \notin onDisk /\ temp[w] # 0
  BY <1>2 DEF Inv, TypeOK, WritersOK, Busy
<1>4. TypeOK'
  BY <1>1, <1>2, <1>3 DEF Inv, TypeOK
<1>5. FilesOK'
  BY <1>1, <1>2, <1>3 DEF Inv, TypeOK, FilesOK
<1>6. \A v \in Writers : v # w => temp[v] # temp[w]
  BY <1>3 DEF Inv, TypeOK
<1>7. WritersOK'
  BY <1>1, <1>2, <1>3, <1>6 DEF Inv, TypeOK, WritersOK, Busy
<1>8. ErrorLeavesNoTrace'
  BY <1>2 DEF Inv, ErrorLeavesNoTrace
<1> QED
  BY <1>4, <1>5, <1>7, <1>8 DEF Inv

LEMMA SyncAllInv ==
    ASSUME Inv, NEW w \in Writers, SyncAll(w)
    PROVE  Inv'
<1> USE FileAssumption DEF Files
<1>1. /\ synced' = synced \cup {temp[w]}
      /\ pc' = [pc EXCEPT ![w] = "rename"]
      /\ pc[w] = "sync"
      /\ UNCHANGED <<temp, result, made, state, written, path, onDisk>>
  BY DEF SyncAll, SyncedWith, nameVars
<1>2. temp[w] \in 0..made /\ temp[w] # 0
  BY <1>1 DEF Inv, TypeOK, WritersOK, Busy
<1>3. \A v \in Writers : v # w => temp[v] # temp[w]
  BY <1>2 DEF Inv, TypeOK
<1>4. TypeOK' /\ FilesOK'
  BY <1>1, <1>2 DEF Inv, TypeOK, FilesOK
<1>5. WritersOK'
  BY <1>1, <1>3 DEF Inv, TypeOK, WritersOK, Busy
<1>6. ErrorLeavesNoTrace'
  BY <1>1 DEF Inv, ErrorLeavesNoTrace
<1> QED
  BY <1>4, <1>5, <1>6 DEF Inv

LEMMA RenameInv ==
    ASSUME Inv, NEW w \in Writers, Rename(w)
    PROVE  Inv'
<1> USE FileAssumption DEF Files
<1>1. /\ path' = temp[w]
      /\ onDisk' = onDisk \cup {temp[w]}
      /\ pc' = [pc EXCEPT ![w] = "idle"]
      /\ result' = [result EXCEPT ![w] = "ok"]
      /\ pc[w] = "rename"
      /\ UNCHANGED <<temp, made, state, written, synced>>
  BY DEF Rename, Renamed, fileVars
<1>2. /\ temp[w] \in Files /\ temp[w] # 0 /\ temp[w] \in synced
      /\ written[temp[w]] = "whole"
  BY <1>1 DEF Inv, TypeOK, WritersOK, Busy
<1>3. \A v \in Writers : v # w => temp[v] # temp[w]
  BY <1>2 DEF Inv, TypeOK
<1>4. TypeOK' /\ FilesOK'
  BY <1>1, <1>2 DEF Inv, TypeOK, FilesOK
<1>5. WritersOK'
  BY <1>1, <1>3 DEF Inv, TypeOK, WritersOK, Busy
<1>6. ErrorLeavesNoTrace'
  BY <1>1, <1>3 DEF Inv, TypeOK, ErrorLeavesNoTrace
<1> QED
  BY <1>4, <1>5, <1>6 DEF Inv

LEMMA StopInv ==
    ASSUME Inv, NEW w \in Writers, Fail(w) \/ Die(w)
    PROVE  Inv'
<1> USE FileAssumption DEF Files
<1>1. /\ pc' = [pc EXCEPT ![w] = "idle"]
      /\ result' \in {result, [result EXCEPT ![w] = "error"]}
      /\ temp[w] \notin onDisk
      /\ UNCHANGED <<temp, made, state, written, synced, path, onDisk>>
  BY DEF Fail, Die, fileVars, nameVars, Inv, WritersOK, Busy
<1>2. TypeOK' /\ FilesOK'
  BY <1>1 DEF Inv, TypeOK, FilesOK
<1>3. WritersOK'
  BY <1>1 DEF Inv, TypeOK, WritersOK, Busy
<1>4. ErrorLeavesNoTrace'
  BY <1>1 DEF Inv, TypeOK, ErrorLeavesNoTrace
<1> QED
  BY <1>2, <1>3, <1>4 DEF Inv

LEMMA FlushInv ==
    ASSUME Inv, Flush
    PROVE  Inv'
BY DEF Inv, TypeOK, FilesOK, WritersOK, ErrorLeavesNoTrace, Busy, Flush, writerVars, fileVars

\* What a crash destroys was not synced, and the path names only what was.
LEMMA CrashInv ==
    ASSUME Inv, Crash
    PROVE  Inv'
<1> USE FileAssumption DEF Files
<1>1. PICK lost \in SUBSET (Files \ synced) :
        written' = [f \in Files |-> IF f \in lost THEN "part" ELSE written[f]]
  BY DEF Crash
<1>2. /\ path' \in onDisk /\ onDisk' = {path'}
      /\ pc' = [v \in Writers |-> "idle"] /\ result' = [v \in Writers |-> "none"]
      /\ UNCHANGED <<temp, made, state, synced>>
  BY DEF Crash
<1>3. \A f \in onDisk : f \in Files /\ f \notin lost /\ written'[f] = "whole"
  BY <1>1 DEF Inv, TypeOK, FilesOK
<1>4. written' \in [Files -> {"empty", "part", "whole"}]
  BY <1>1 DEF Inv, TypeOK
<1>5. TypeOK'
  BY <1>2, <1>4 DEF Inv, TypeOK
<1>6. FilesOK'
  BY <1>2, <1>3 DEF Inv, FilesOK
<1>7. WritersOK' /\ ErrorLeavesNoTrace'
  BY <1>2 DEF WritersOK, ErrorLeavesNoTrace, Busy
<1> QED
  BY <1>5, <1>6, <1>7 DEF Inv

LEMMA StutterInv ==
    ASSUME Inv, UNCHANGED vars
    PROVE  Inv'
BY DEF Inv, TypeOK, FilesOK, WritersOK, ErrorLeavesNoTrace, Busy,
       vars, writerVars, fileVars, nameVars

LEMMA StepInv == Inv /\ [Next]_vars => Inv'
BY CreateTempInv, CreateTempFailsInv, WriteInv, SyncAllInv, RenameInv, StopInv, FlushInv,
   CrashInv, StutterInv DEF Next

LEMMA AlwaysInv == Spec => []Inv
BY InitInv, StepInv, PTL DEF Spec

-----------------------------------------------------------------------------
\* The writers' bookkeeping is of its types, and no two of them share a temporary file.
THEOREM FileTypeCorrect == Spec => []TypeOK
<1>1. Inv => TypeOK
  BY DEF Inv
<1> QED
  BY <1>1, AlwaysInv, PTL

\* A call that returned an error left the state file alone, now and after a crash.
THEOREM ErrorChangesNothing == Spec => []ErrorLeavesNoTrace
<1>1. Inv => ErrorLeavesNoTrace
  BY DEF Inv
<1> QED
  BY <1>1, AlwaysInv, PTL

-----------------------------------------------------------------------------
(* The refinement.                                                         *)

\* A step that leaves the names and the files they name alone is a stutter.
LEMMA Unseen ==
    ASSUME Inv, UNCHANGED <<path, onDisk>>,
           \A f \in onDisk : state'[f] = state[f] /\ written'[f] = written[f]
    PROVE  UNCHANGED Register!vars
<1>1. path \in onDisk
  BY DEF Inv, TypeOK
<1>2. \A f \in onDisk : Content(f)' = Content(f)
  BY DEF Content
<1>3. Content(path)' = Content(path)
  BY <1>1, <1>2
<1>4. {Content(f) : f \in onDisk}' = {Content(f) : f \in onDisk}
  BY <1>2
<1> QED
  BY <1>3, <1>4 DEF Register!vars

LEMMA InitRefines == Init => Register!Init
<1> SUFFICES ASSUME Init PROVE Register!Init
  OBVIOUS
<1>1. Content(path) \in States \cup {Absent}
  BY FileAssumption DEF Init, Content, Files
<1>2. {Content(f) : f \in onDisk} = {Content(path)}
  BY DEF Init
<1> QED
  BY <1>1, <1>2 DEF Register!Init

LEMMA RenameRefines ==
    ASSUME Inv, NEW w \in Writers, Rename(w)
    PROVE  [Register!Next]_(Register!vars)
<1>1. /\ path' = temp[w]
      /\ onDisk' = onDisk \cup {temp[w]}
      /\ UNCHANGED <<state, written>>
  BY DEF Rename, fileVars
<1>2. written[temp[w]] = "whole" /\ state[temp[w]] \in States
  BY DEF Inv, WritersOK, Rename, Busy
<1>3. Content(path)' = state[temp[w]]
  BY <1>1, <1>2 DEF Content
<1>4. {Content(f) : f \in onDisk}' = {Content(f) : f \in onDisk} \cup {state[temp[w]]}
  BY <1>1, <1>2 DEF Content
<1>5. Register!Replace(state[temp[w]])
  BY <1>3, <1>4 DEF Register!Replace
<1> QED
  BY <1>2, <1>5 DEF Register!Next

LEMMA FlushRefines ==
    ASSUME Inv, Flush
    PROVE  [Register!Next]_(Register!vars)
<1>1. Content(path)' = Content(path) /\ {Content(f) : f \in onDisk}' = {Content(path)}
  BY DEF Flush, Content, fileVars
<1>2. Register!Settle
  BY <1>1 DEF Register!Settle
<1> QED
  BY <1>2 DEF Register!Next

LEMMA CrashRefines ==
    ASSUME Inv, Crash
    PROVE  [Register!Next]_(Register!vars)
<1>1. PICK lost \in SUBSET (Files \ synced) :
        written' = [f \in Files |-> IF f \in lost THEN "part" ELSE written[f]]
  BY DEF Crash
<1>2. path' \in onDisk /\ onDisk' = {path'} /\ state' = state
  BY DEF Crash
<1>3. \A f \in onDisk : written'[f] = written[f]
  BY <1>1 DEF Inv, TypeOK, FilesOK
<1>4. Content(path)' \in {Content(f) : f \in onDisk}
  BY <1>2, <1>3 DEF Content
<1>5. {Content(f) : f \in onDisk}' = {Content(path)'}
  BY <1>2 DEF Content
<1>6. Register!Crash
  BY <1>4, <1>5 DEF Register!Crash
<1> QED
  BY <1>6 DEF Register!Next

LEMMA StepRefines ==
    ASSUME Inv, [Next]_vars
    PROVE  [Register!Next]_(Register!vars)
<1>1. ASSUME NEW w \in Writers, NEW s \in States, CreateTemp(w, s)
      PROVE  UNCHANGED Register!vars
  <2>1. made + 1 \notin onDisk
    BY FileAssumption DEF Inv, TypeOK, FilesOK, Files
  <2>2. \A f \in onDisk : state'[f] = state[f] /\ written'[f] = written[f]
    BY <1>1, <2>1 DEF CreateTemp, NewFile, Inv, TypeOK
  <2> QED
    BY <1>1, <2>2, Unseen DEF CreateTemp, nameVars
<1>2. ASSUME NEW w \in Writers, WriteSome(w) \/ WriteAll(w)
      PROVE  UNCHANGED Register!vars
  <2>1. temp[w] \notin onDisk
    BY <1>2 DEF WriteSome, WriteAll, Inv, WritersOK, Busy
  <2>2. \A f \in onDisk : state'[f] = state[f] /\ written'[f] = written[f]
    BY <1>2, <2>1 DEF WriteSome, WriteAll, Inv, TypeOK
  <2> QED
    BY <1>2, <2>2, Unseen DEF WriteSome, WriteAll, nameVars
<1>3. ASSUME NEW w \in Writers,
             CreateTempFails(w) \/ SyncAll(w) \/ Fail(w) \/ Die(w)
      PROVE  UNCHANGED Register!vars
  BY <1>3, Unseen DEF CreateTempFails, SyncAll, Fail, Die, fileVars, nameVars
<1>4. CASE UNCHANGED vars
  BY <1>4, Unseen DEF vars, fileVars, nameVars
<1> QED
  BY <1>1, <1>2, <1>3, <1>4, RenameRefines, FlushRefines, CrashRefines DEF Next

\* atomic_write_string makes the state file a register: every load, now or after a
\* crash, returns a state that was written whole, whatever failed in between.
THEOREM FileIsRegister == Spec => IsRegister
<1>1. Inv /\ [Next]_vars => [Register!Next]_(Register!vars)
  BY StepRefines
<1> QED
  BY <1>1, InitRefines, AlwaysInv, PTL DEF Spec, IsRegister, Register!Spec
=============================================================================
