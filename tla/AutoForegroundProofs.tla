------------------------- MODULE AutoForegroundProofs -------------------------
(***************************************************************************)
(* The loop's ears follow the source's choice, for every tree, every list  *)
(* and every order in which v1 comes and goes.                             *)
(*                                                                         *)
(* Listening speaks of the moments between two calls.  Within a call the   *)
(* choice may be ahead of the watches (SyncIsDue): that is so only while a *)
(* sync of the inotify watches is certain to come, which is not the case   *)
(* of a priority event, nor of a create that v2 answers.                   *)
(*                                                                         *)
(* NoLostCgroup is not inductive either.  The event in hand may be what    *)
(* leads to a directory, but only until its handling ends (Findable), and  *)
(* the removal of a directory that was made again must not be the last     *)
(* word on it (Followed): it would drop the new watch for good.            *)
(***************************************************************************)
EXTENDS AutoForeground, FiniteSetTheorems, SequenceTheorems, WellFoundedInduction, TLAPS

\* What the call in progress has in hand.
CallOK ==
    /\ pc \in {"new", "idle", "event", "reading", "sync"}
    /\ pc \in {"new", "idle"} => inq = <<>>
    /\ pc = "event" => inq # <<>>
    /\ pc \in {"new", "idle", "event"} => cur = NoPath
    /\ cur # NoPath => inq = <<>>

ChoiceOK ==
    /\ v1Available \in BOOLEAN
    /\ readable \in BOOLEAN
    /\ hints = IF v1Available THEN {} ELSE Roots
    /\ pc = "reading" => ~v1Available

SyncIsDue ==
    \/ pc = "new"
    \/ pc = "sync" /\ cur = NoPath
    \/ InHand({"modify", "overflow"})

WatchesOK == v1Available \/ wd = Roots \/ SyncIsDue

KeysOK ==
    pc = "idle" /\ ~unsynced =>
        \A p \in Paths : keys[p] = IF v1Available THEN 0 ELSE watches[p].gen

Inv == CallOK /\ ChoiceOK /\ WatchesOK /\ KeysOK

-----------------------------------------------------------------------------
LEMMA InitInv == Init => Inv
BY DEF Init, Inv, CallOK, ChoiceOK, WatchesOK, SyncIsDue, KeysOK

\* A call under way has no registrations to answer for.
LEMMA BusyKeys == pc' \in {"event", "reading", "sync"} => KeysOK'
BY DEF KeysOK

LEMMA ReturnBusy ==
    ASSUME NEW candidate, Return(candidate)
    PROVE  /\ pc' \in {"event", "sync"}
           /\ pc' = "event" => inq # <<>>
BY DEF Return

LEMMA OutsideKeepsInv ==
    ASSUME Inv, Tree \/ (\E app \in TopApps : ChangeTop(app)) \/ ToggleReadable
    PROVE  Inv'
<1>1. UNCHANGED <<programVars, wd>> /\ readable' \in BOOLEAN
  <2>1. CASE Tree
    BY <2>1 DEF Tree, MakeDir, RemoveDir, TogglePopulated, v1Vars, Inv, ChoiceOK
  <2>2. CASE \E app \in TopApps : ChangeTop(app)
    BY <2>2 DEF ChangeTop, Inv, ChoiceOK
  <2>3. CASE ToggleReadable
    BY <2>3 DEF ToggleReadable, treeVars
  <2> QED
    BY <2>1, <2>2, <2>3
<1>2. UNCHANGED <<watches, v1Available, hints, keys, pc, inq, cur, unsynced, wd>>
  BY <1>1 DEF programVars, sourceVars, autoVars, callVars
<1> QED
  BY <1>1, <1>2 DEF Inv, CallOK, ChoiceOK, WatchesOK, SyncIsDue, InHand, KeysOK

LEMMA PollingKeepsInv == ASSUME Inv, HandlePolling PROVE Inv'
<1>1. pc = "event" /\ inq # <<>> /\ cur = NoPath /\ Head(inq).kind \in {"modify", "overflow"}
  BY DEF HandlePolling, InHand, Inv, CallOK
<1>2. UNCHANGED <<wd, readable, inq, cur>>
  BY DEF HandlePolling, KeepTree, v1Vars
<1>3. pc' \in {"event", "sync"}
  BY ReturnBusy DEF HandlePolling
<1>4. v1Available' \in BOOLEAN /\ hints' = IF v1Available' THEN {} ELSE Roots
  BY DEF HandlePolling, PollSources, SetV1Available
<1>5. SyncIsDue'
  BY <1>1, <1>2, <1>3 DEF SyncIsDue, InHand
<1> QED
  BY <1>1, <1>2, <1>3, <1>4, <1>5, BusyKeys DEF Inv, CallOK, ChoiceOK, WatchesOK

\* Whatever asks v1 first and is answered by it leaves v1 in charge.
LEMMA RecoverV1Facts ==
    ASSUME Inv, RecoverV1
    PROVE  /\ v1Available' = TRUE
           /\ hints' = {}
           /\ pc' \in {"event", "sync"}
           /\ pc' = "event" => inq # <<>>
<1>1. CASE v1Available
  BY <1>1, ReturnBusy DEF RecoverV1, autoVars, Inv, ChoiceOK
<1>2. CASE ~v1Available
  BY <1>2, ReturnBusy DEF RecoverV1, SetV1Available
<1> QED
  BY <1>1, <1>2

LEMMA WithV1KeepsInv == ASSUME Inv, HandleWithV1 PROVE Inv'
<1>1. pc = "event" /\ cur = NoPath
  BY DEF HandleWithV1, InHand, Inv, CallOK
<1>2. UNCHANGED <<wd, readable, inq, cur>> /\ RecoverV1
  BY DEF HandleWithV1, KeepTree, v1Vars
<1> QED
  BY <1>1, <1>2, RecoverV1Facts, BusyKeys DEF Inv, CallOK, ChoiceOK, WatchesOK

LEMMA PriorityWithV1KeepsInv ==
    ASSUME Inv, NEW p \in Paths, HandlePriorityWithV1(p)
    PROVE  Inv'
<1>1. pc = "idle" /\ inq = <<>>
  BY DEF HandlePriorityWithV1, Broken, News, Ready, Inv, CallOK
<1>2. UNCHANGED <<wd, readable, inq>> /\ RecoverV1 /\ cur' = p
  BY DEF HandlePriorityWithV1, KeepTree, v1Vars
<1>3. pc' = "sync"
  BY <1>1, <1>2, RecoverV1Facts
<1> QED
  BY <1>1, <1>2, <1>3, RecoverV1Facts, BusyKeys DEF Inv, CallOK, ChoiceOK, WatchesOK

\* An event that v2 answers finds the roots watched, and the choice stays.
LEMMA V2KeepsInv ==
    ASSUME Inv, ~v1Available, wd = Roots,
           UNCHANGED <<v1Available, hints, readable, wd, inq>>,
           pc' \in {"event", "reading", "sync"},
           pc' = "event" => inq # <<>>,
           pc' = "event" => cur' = NoPath,
           cur' # NoPath => inq = <<>>
    PROVE  Inv'
BY BusyKeys DEF Inv, CallOK, ChoiceOK, WatchesOK

LEMMA RootEventFindsWatches ==
    ASSUME Inv, InHand({"create", "delete"}), ~v1Available
    PROVE  wd = Roots /\ inq # <<>> /\ cur = NoPath
BY DEF Inv, CallOK, WatchesOK, SyncIsDue, InHand

LEMMA RootEventKeepsInv ==
    ASSUME Inv, HandleDelete \/ HandleCreateKnown \/ HandleCreateNew
    PROVE  Inv'
<1>1. InHand({"create", "delete"}) /\ ~v1Available
  BY DEF HandleDelete, HandleCreateKnown, HandleCreateNew, InHand, V2InCharge
<1>2. UNCHANGED <<v1Available, hints, readable, wd, inq, cur>>
  BY DEF HandleDelete, HandleCreateKnown, HandleCreateNew, V2InCharge, KeepTree, autoVars, v1Vars
<1>3. pc' \in {"event", "reading", "sync"}
  BY ReturnBusy DEF HandleDelete, HandleCreateKnown, HandleCreateNew
<1> QED
  BY <1>1, <1>2, <1>3, RootEventFindsWatches, V2KeepsInv

LEMMA PriorityKeepsInv ==
    ASSUME Inv, NEW p \in Paths, HandleStalePriorityEvent(p) \/ CheckPriorityEvent(p)
    PROVE  Inv'
<1>1. pc = "idle" /\ ~v1Available
  BY DEF HandleStalePriorityEvent, CheckPriorityEvent, Broken, News, Ready, V2InCharge
<1>2. inq = <<>> /\ wd = Roots
  BY <1>1 DEF Inv, CallOK, WatchesOK, SyncIsDue, InHand
<1>3. UNCHANGED <<v1Available, hints, readable, wd, inq>> /\ pc' \in {"reading", "sync"}
  BY DEF HandleStalePriorityEvent, CheckPriorityEvent, V2InCharge, KeepTree, autoVars, v1Vars
<1> QED
  BY <1>1, <1>2, <1>3, V2KeepsInv

LEMMA ReadingKeepsInv == ASSUME Inv, ReadV2 \/ AskActivity PROVE Inv'
<1>1. pc = "reading" /\ ~v1Available /\ wd = Roots
  BY DEF ReadV2, AskActivity, Inv, ChoiceOK, WatchesOK, SyncIsDue, InHand
<1>2. UNCHANGED <<v1Available, hints, readable, wd, inq, cur>>
  BY DEF ReadV2, AskActivity, KeepTree, autoVars, v1Vars
<1>3. pc' \in {"event", "sync"} /\ (pc' = "event" => inq # <<>>)
  BY ReturnBusy DEF ReadV2, AskActivity
<1>4. pc' = "event" => cur' = NoPath
  BY <1>2, <1>3 DEF Inv, CallOK
<1> QED
  BY <1>1, <1>2, <1>3, <1>4, V2KeepsInv DEF Inv, CallOK

\* An error drops the rest of the batch and owes a sync of the registrations.
LEMMA ErrorKeepsInv == ASSUME Inv, ActivityError PROVE Inv'
<1>1. pc = "reading" /\ ~v1Available /\ wd = Roots
  BY DEF ActivityError, Inv, ChoiceOK, WatchesOK, SyncIsDue, InHand
<1>2. pc' = "idle" /\ inq' = <<>> /\ cur' = NoPath /\ unsynced' = TRUE
      /\ UNCHANGED <<v1Available, hints, readable, wd>>
  BY DEF ActivityError, KeepTree, autoVars, v1Vars
<1> QED
  BY <1>1, <1>2 DEF Inv, CallOK, ChoiceOK, WatchesOK, KeysOK

LEMMA SyncKeepsInv == ASSUME Inv, Sync PROVE Inv'
<1>1. UNCHANGED <<v1Available, hints, readable, watches>> /\ cur' = NoPath /\ keys' = PriorityHintKeys
  BY DEF Sync, autoVars, sourceVars
<1>2. pc' = IF inq' = <<>> THEN "idle" ELSE "event"
  BY DEF Sync
<1>3. v1Available \/ wd' = Roots
  <2>1. CASE cur = NoPath
    BY <2>1 DEF Sync, SyncForegroundWatchPaths, Inv, ChoiceOK
  <2>2. CASE cur # NoPath
    <3>1. ~SyncIsDue
      BY <2>2 DEF Sync, SyncIsDue, InHand, Inv, CallOK
    <3> QED
      BY <2>2, <3>1 DEF Sync, SyncForegroundWatchPaths, Inv, WatchesOK
  <2> QED
    BY <2>1, <2>2
<1>4. \A p \in Paths : keys'[p] = IF v1Available THEN 0 ELSE watches[p].gen
  BY <1>1 DEF PriorityHintKeys
<1> QED
  BY <1>1, <1>2, <1>3, <1>4 DEF Inv, CallOK, ChoiceOK, WatchesOK, KeysOK

\* A sync that fails is owed again; v1 is in charge.
LEMMA SyncErrorKeepsInv == ASSUME Inv, SyncFails PROVE Inv'
<1>1. /\ v1Available
      /\ pc' = "idle" /\ inq' = <<>> /\ cur' = NoPath /\ unsynced' = TRUE
      /\ UNCHANGED <<v1Available, hints, readable>>
  BY DEF SyncFails, Refused, autoVars
<1> QED
  BY <1>1 DEF Inv, CallOK, ChoiceOK, WatchesOK, KeysOK

LEMMA ReadInotifyKeepsInv == ASSUME Inv, ReadInotify PROVE Inv'
<1>1. /\ pc = "idle" /\ pc' = "event" /\ inq' # <<>>
      /\ UNCHANGED <<v1Available, hints, readable, wd, cur>>
  BY DEF ReadInotify, autoVars, v1Vars
<1>2. v1Available \/ wd = Roots
  BY <1>1 DEF Inv, WatchesOK, SyncIsDue, InHand
<1> QED
  BY <1>1, <1>2, BusyKeys DEF Inv, CallOK, ChoiceOK, WatchesOK

LEMMA PollKeepsInv == ASSUME Inv, PollCurrentForeground PROVE Inv'
<1>1. /\ pc = "idle" /\ pc' = "sync"
      /\ UNCHANGED <<readable, wd, inq, cur>>
  BY DEF PollCurrentForeground, KeepTree, v1Vars
<1>2. v1Available' \in BOOLEAN /\ hints' = IF v1Available' THEN {} ELSE Roots
  BY DEF PollCurrentForeground, PollSources, SetV1Available
<1>3. SyncIsDue'
  BY <1>1 DEF SyncIsDue, Inv, CallOK
<1> QED
  BY <1>1, <1>2, <1>3, BusyKeys DEF Inv, CallOK, ChoiceOK, WatchesOK

LEMMA NextKeepsInv == ASSUME Inv, [Next]_vars PROVE Inv'
<1>1. CASE Tree \/ (\E app \in TopApps : ChangeTop(app)) \/ ToggleReadable
  BY <1>1, OutsideKeepsInv
<1>2. CASE ReadInotify \/ PollCurrentForeground
  BY <1>2, ReadInotifyKeepsInv, PollKeepsInv
<1>3. CASE \E p \in Paths : HandlePriority(p)
  BY <1>3, PriorityWithV1KeepsInv, PriorityKeepsInv DEF HandlePriority
<1>4. CASE HandleInotify
  BY <1>4, PollingKeepsInv, WithV1KeepsInv, RootEventKeepsInv DEF HandleInotify
<1>5. CASE ReadV2 \/ AskActivity \/ ActivityError \/ Sync \/ SyncFails
  BY <1>5, ReadingKeepsInv, ErrorKeepsInv, SyncKeepsInv, SyncErrorKeepsInv
<1>6. CASE UNCHANGED vars
  <2>1. UNCHANGED <<v1Available, hints, readable, wd, inq, cur, pc, keys, watches, unsynced>>
    BY <1>6 DEF vars, treeVars, v1Vars, sourceVars, autoVars, callVars
  <2> QED
    BY <2>1 DEF Inv, CallOK, ChoiceOK, WatchesOK, SyncIsDue, InHand, KeysOK
<1> QED
  BY <1>1, <1>2, <1>3, <1>4, <1>5, <1>6 DEF Next, Proceed

LEMMA AutoInvariance == Spec => []Inv
BY InitInv, NextKeepsInv, PTL DEF Spec

\* Between two calls the loop listens to the source in charge, however often v1 has come
\* and gone, and whatever failed.
THEOREM AlwaysListening == Spec => []Listening
<1>1. Inv => Listening
  BY DEF Inv, WatchesOK, SyncIsDue, InHand, KeysOK, Listening
<1> QED
  BY <1>1, AutoInvariance, PTL

-----------------------------------------------------------------------------
(* Whose candidates are reported.                                          *)

ReportOfChosen ==
    lastPayload' # lastPayload => (lastPayload'.source = "v1" <=> v1Available')

LEMMA ReportedBy ==
    ASSUME NEW source, NEW app, Return(From(source, app)), source = "v1" <=> v1Available'
    PROVE  ReportOfChosen
BY DEF Return, Report, From, ReportOfChosen

LEMMA NobodyReported == ASSUME Return(Nobody) PROVE lastPayload' = lastPayload
BY DEF Return, Report, Nobody

LEMMA RecoverReports == ASSUME RecoverV1 PROVE ReportOfChosen
<1>1. CASE v1Available
  BY <1>1, NobodyReported DEF RecoverV1, ReportOfChosen
<1>2. CASE ~v1Available
  <2>1. Return(From("v1", top)) /\ v1Available' = TRUE
    BY <1>2 DEF RecoverV1, SetV1Available
  <2> QED
    BY <2>1, ReportedBy
<1> QED
  BY <1>1, <1>2

LEMMA PollingReports == ASSUME HandlePolling PROVE ReportOfChosen
<1>1. CASE readable
  <2>1. Return(From("v1", top)) /\ v1Available' = TRUE
    BY <1>1 DEF HandlePolling, Polled, PollSources, SetV1Available
  <2> QED
    BY <2>1, ReportedBy
<1>2. CASE ~readable
  <2>1. Return(From("v2", V2Current)) /\ v1Available' = FALSE
    BY <1>2 DEF HandlePolling, Polled, PollSources, SetV1Available
  <2> QED
    BY <2>1, ReportedBy
<1> QED
  BY <1>1, <1>2

LEMMA ReadingReports == ASSUME Inv, ReadV2 \/ AskActivity PROVE ReportOfChosen
<1>1. ~v1Available /\ v1Available' = v1Available
  BY DEF Inv, ChoiceOK, ReadV2, AskActivity, autoVars
<1>2. CASE ReadV2
  <2>1. Return(From("v2", CandidateAt(Target)))
    BY <1>2 DEF ReadV2
  <2> QED
    BY <1>1, <2>1, ReportedBy
<1>3. CASE AskActivity
  <2>1. PICK app : Return(From("activity", app))
    BY <1>3 DEF AskActivity
  <2> QED
    BY <1>1, <2>1, ReportedBy
<1> QED
  BY <1>2, <1>3

LEMMA StepReports == ASSUME Inv, [Next]_vars PROVE ReportOfChosen
<1>1. CASE Tree \/ (\E app \in TopApps : ChangeTop(app)) \/ ToggleReadable
  BY <1>1 DEF Tree, ChangeTop, ToggleReadable, programVars, ReportOfChosen
<1>2. CASE ReadInotify \/ PollCurrentForeground \/ ActivityError \/ Sync \/ SyncFails
  BY <1>2 DEF ReadInotify, PollCurrentForeground, ActivityError, Sync, SyncFails, ReportOfChosen
<1>3. CASE \E p \in Paths : HandlePriority(p)
  BY <1>3, RecoverReports
     DEF HandlePriority, HandlePriorityWithV1, HandleStalePriorityEvent, CheckPriorityEvent,
         ReportOfChosen
<1>4. CASE HandlePolling \/ HandleWithV1
  BY <1>4, PollingReports, RecoverReports DEF HandleWithV1
<1>5. CASE HandleDelete \/ HandleCreateKnown \/ HandleCreateNew
  BY <1>5, NobodyReported DEF HandleDelete, HandleCreateKnown, HandleCreateNew, ReportOfChosen
<1>6. CASE ReadV2 \/ AskActivity
  BY <1>6, ReadingReports
<1>7. CASE UNCHANGED vars
  BY <1>7 DEF vars, ReportOfChosen
<1> QED
  BY <1>1, <1>2, <1>3, <1>4, <1>5, <1>6, <1>7 DEF Next, Proceed, HandleInotify

\* A report comes from v1 exactly when v1 is in charge after it: in particular none comes
\* from v2 or from ActivityManager once v1 is back.
THEOREM AlwaysInOrder == Spec => SourceOrder
<1>1. Inv /\ [Next]_vars => [lastPayload' # lastPayload
                               => (lastPayload'.source = "v1" <=> v1Available')]_vars
  BY StepReports DEF ReportOfChosen
<1> QED
  BY <1>1, AutoInvariance, PTL DEF Spec, SourceOrder

-----------------------------------------------------------------------------
(* What is heard of a sequence after a sync.                               *)

\* A set of numbers that has a member has a smallest one.
LEMMA SmallestExists ==
    ASSUME NEW T, T \subseteq Nat, T # {}
    PROVE  \E m \in T : \A k \in T : m <= k
<1>1. PICK m \in T : \A k \in T : ~(<<k, m>> \in OpToRel(<, Nat))
  BY NatLessThanWellFounded, WFMin
<1>2. \A k \in T : ~(k < m)
  BY <1>1 DEF OpToRel
<1> QED
  BY <1>2

HeardUpTo(heard, seq, m) ==
    heard = [n \in 0..m |->
                IF n = 0 THEN <<>>
                ELSE IF OfLiveWatch(seq[n]) THEN Append(heard[n - 1], seq[n])
                ELSE heard[n - 1]]

\* The function that Heard defines exists.
LEMMA HeardExists ==
    ASSUME NEW seq, NEW m \in Nat
    PROVE  \E heard : HeardUpTo(heard, seq, m)
<1> DEFINE bad == {k \in Nat : ~\E heard : HeardUpTo(heard, seq, k)}
<1> SUFFICES ASSUME bad # {} PROVE FALSE
  OBVIOUS
<1>1. PICK k \in bad : \A j \in bad : k <= j
  BY SmallestExists
<1>2. k # 0
  <2>1. HeardUpTo([n \in {0} |-> <<>>], seq, 0)
    <3>1. 0..0 = {0}
      OBVIOUS
    <3> QED
      BY <3>1 DEF HeardUpTo
  <2> QED
    BY <1>1, <2>1
<1>3. k \in Nat /\ k - 1 \in Nat /\ k - 1 \notin bad
  BY <1>1, <1>2
<1>4. PICK old : HeardUpTo(old, seq, k - 1)
  BY <1>3
<1> DEFINE last == IF OfLiveWatch(seq[k]) THEN Append(old[k - 1], seq[k]) ELSE old[k - 1]
           new == [n \in 0..k |-> IF n = k THEN last ELSE old[n]]
<1>5. \A n \in 0..(k - 1) : old[n] = IF n = 0 THEN <<>>
                                       ELSE IF OfLiveWatch(seq[n])
                                       THEN Append(old[n - 1], seq[n]) ELSE old[n - 1]
  BY <1>4 DEF HeardUpTo
<1> HIDE DEF last
<1>6. \A n \in 0..k : n # k => n \in 0..(k - 1)
  BY <1>3
<1>7. \A n \in 0..k : n # 0 => n - 1 \in 0..k /\ n - 1 # k /\ new[n - 1] = old[n - 1]
  BY <1>3
<1>8. \A n \in 0..k : new[n] = IF n = 0 THEN <<>>
                                ELSE IF OfLiveWatch(seq[n])
                                THEN Append(new[n - 1], seq[n]) ELSE new[n - 1]
  <2> TAKE n \in 0..k
  <2>1. CASE n = k
    <3>1. new[n] = last /\ new[n - 1] = old[k - 1] /\ n # 0
      BY <1>2, <1>7, <2>1
    <3> QED
      BY <2>1, <3>1 DEF last
  <2>2. CASE n # k
    <3>1. new[n] = old[n] /\ (n # 0 => new[n - 1] = old[n - 1])
      BY <1>7, <2>2
    <3> QED
      BY <1>5, <1>6, <2>2, <3>1
  <2> QED
    BY <2>1, <2>2
<1>9. HeardUpTo(new, seq, k)
  <2>1. new = [n \in 0..k |-> new[n]]
    OBVIOUS
  <2> HIDE DEF new
  <2> QED
    BY <1>8, <2>1 DEF HeardUpTo
<1> QED
  BY <1>1, <1>9

\* What is heard of a sequence: events of live watches only, and all of it if they all
\* are.
LEMMA HeardFacts ==
    ASSUME NEW S, NEW seq \in Seq(S)
    PROVE  /\ Heard(seq) \in Seq(S)
           /\ \A i \in DOMAIN Heard(seq) : OfLiveWatch(Heard(seq)[i])
           /\ (\A i \in DOMAIN seq : OfLiveWatch(seq[i])) => Heard(seq) = seq
<1> DEFINE heard == CHOOSE h : HeardUpTo(h, seq, Len(seq))
           Good(n) == /\ heard[n] \in Seq(S)
                      /\ \A i \in DOMAIN heard[n] : OfLiveWatch(heard[n][i])
                      /\ (\A i \in DOMAIN seq : OfLiveWatch(seq[i]))
                         => /\ Len(heard[n]) = n
                            /\ \A i \in 1..n : heard[n][i] = seq[i]
<1>1. Len(seq) \in Nat /\ DOMAIN seq = 1..Len(seq) /\ \A n \in 1..Len(seq) : seq[n] \in S
  BY ElementOfSeq
<1>2. HeardUpTo(heard, seq, Len(seq))
  BY <1>1, HeardExists
<1>3. Heard(seq) = heard[Len(seq)]
  BY Zenon DEF Heard, HeardUpTo
<1> HIDE DEF heard
<1>4. /\ heard[0] = <<>>
      /\ \A n \in 1..Len(seq) : heard[n] = IF OfLiveWatch(seq[n])
                                           THEN Append(heard[n - 1], seq[n]) ELSE heard[n - 1]
  <2>1. \A n \in 0..Len(seq) : heard[n] = IF n = 0 THEN <<>>
                                         ELSE IF OfLiveWatch(seq[n])
                                         THEN Append(heard[n - 1], seq[n]) ELSE heard[n - 1]
    BY <1>2 DEF HeardUpTo
  <2>2. 0 \in 0..Len(seq) /\ \A n \in 1..Len(seq) : n \in 0..Len(seq) /\ n # 0
    BY <1>1
  <2> QED
    BY <2>1, <2>2
<1>5. Good(0)
  BY <1>4
<1>6. ASSUME NEW n \in 1..Len(seq), Good(n - 1) PROVE Good(n)
  <2>1. n \in Nat /\ n - 1 \in Nat /\ n \in DOMAIN seq /\ (n - 1) + 1 = n /\ seq[n] \in S
    BY <1>1
  <2>2. CASE OfLiveWatch(seq[n])
    <3> DEFINE h == heard[n - 1]
    <3>1. heard[n] = Append(h, seq[n]) /\ h \in Seq(S)
      BY <1>4, <1>6, <2>2
    <3>2. /\ heard[n] \in Seq(S)
          /\ Len(heard[n]) = Len(h) + 1
          /\ \A i \in 1..Len(h) : heard[n][i] = h[i]
          /\ heard[n][Len(h) + 1] = seq[n]
      BY <2>1, <3>1, AppendProperties
    <3>3. Len(h) \in Nat /\ DOMAIN h = 1..Len(h) /\ DOMAIN heard[n] = 1..(Len(h) + 1)
      BY <3>1, <3>2
    <3>4. \A i \in DOMAIN h : OfLiveWatch(h[i])
      BY <1>6
    <3>5. \A i \in DOMAIN heard[n] : OfLiveWatch(heard[n][i])
      BY <2>2, <3>2, <3>3, <3>4
    <3>6. ASSUME \A i \in DOMAIN seq : OfLiveWatch(seq[i])
          PROVE  Len(heard[n]) = n /\ \A i \in 1..n : heard[n][i] = seq[i]
      <4>1. Len(h) = n - 1 /\ \A i \in 1..(n - 1) : h[i] = seq[i]
        BY <1>6, <3>6
      <4> HIDE DEF h
      <4>2. Len(heard[n]) = n /\ heard[n][n] = seq[n]
        BY <2>1, <3>2, <4>1
      <4>3. \A i \in 1..(n - 1) : heard[n][i] = seq[i]
        BY <3>2, <4>1
      <4> QED
        BY <2>1, <4>2, <4>3
    <3> QED
      BY <3>2, <3>5, <3>6
  <2>3. CASE ~OfLiveWatch(seq[n])
    <3>1. heard[n] = heard[n - 1]
      BY <1>4, <2>3
    <3> QED
      BY <1>6, <2>1, <2>3, <3>1
  <2> QED
    BY <2>2, <2>3
<1>7. \A n \in 0..Len(seq) : Good(n)
  <2> DEFINE bad == {n \in 0..Len(seq) : ~Good(n)}
  <2> HIDE DEF Good
  <2> SUFFICES ASSUME bad # {} PROVE FALSE
    OBVIOUS
  <2>1. bad \subseteq Nat
    OBVIOUS
  <2>2. PICK n \in bad : \A k \in bad : n <= k
    BY <2>1, SmallestExists
  <2>3. n # 0
    BY <1>5, <2>2
  <2>4. n \in 1..Len(seq) /\ n - 1 \in 0..Len(seq) /\ n - 1 \notin bad
    BY <1>1, <2>2, <2>3
  <2> QED
    BY <1>6, <2>2, <2>4
<1>8. Good(Len(seq))
  BY <1>1, <1>7
<1>9. ASSUME \A i \in DOMAIN seq : OfLiveWatch(seq[i]) PROVE Heard(seq) = seq
  BY <1>1, <1>3, <1>8, <1>9, SeqEqual
<1> QED
  BY <1>3, <1>8, <1>9

-----------------------------------------------------------------------------
(* Types.                                                                  *)

AnyEvent == Event \cup {V1Modified}

TreeTyped ==
    /\ alive \subseteq Paths
    /\ populated \subseteq alive
    /\ unread \subseteq Paths
    /\ inc \in [Paths -> Nat]
    /\ wd \subseteq Roots
    /\ queue \in Seq(AnyEvent)
    /\ inq \in Seq(AnyEvent)

SourceTyped == SourceTypeOK /\ denied = {}

CallTyped ==
    /\ top \in TopApps
    /\ v1wd \in BOOLEAN
    /\ unsynced \in BOOLEAN
    /\ keys \in [Paths -> Nat]
    /\ attempt \in 1..Attempts
    /\ cur \in Paths \cup {NoPath}
    /\ lastPayload \in Candidate

\* What TypeOK says beyond Inv, and what a step needs to know of the types besides.
Typed == TreeTyped /\ SourceTyped /\ CallTyped /\ overlooked \subseteq alive

LEMMA TypedIsTypeOK == Inv /\ Typed => TypeOK
BY DEF Inv, CallOK, ChoiceOK, Typed, TreeTyped, SourceTyped, CallTyped, AnyEvent, TypeOK

\* The generations of a scan are numbers: the paths are finitely many.
LEMMA Countable ==
    /\ \A p, S : S \subseteq Paths => Rank(p, S) \in Nat
    /\ \A ws : Opened(ws) \subseteq Paths /\ Cardinality(Opened(ws)) \in Nat
<1>1. ASSUME NEW S, S \subseteq Paths PROVE Cardinality(S) \in Nat
  BY <1>1, PathsAssumption, FS_Subset, FS_CardinalityType
<1>2. \A ws : Opened(ws) \subseteq Paths
  BY DEF Opened
<1>3. \A p, S : S \subseteq Paths => {q \in S : q < p} \subseteq Paths
  OBVIOUS
<1> QED
  BY <1>1, <1>2, <1>3 DEF Rank

\* A scan opens what is to be watched, and closes nothing.
LEMMA ScanFinds ==
    ASSUME Typed, NEW ws \in [Paths -> Watch]
    PROVE  /\ ScanRoots(ws) \in [Paths -> Watch]
           /\ \A p \in Paths : p \in Unwatched(ws) \/ ws[p].gen # 0 => ScanRoots(ws)[p].gen # 0
<1>1. Unwatched(ws) \subseteq Paths
  BY DEF Unwatched, Admitted, Typed, TreeTyped
<1>2. nextGen \in Nat \ {0} /\ inc \in [Paths -> Nat]
  BY DEF Typed, TreeTyped, SourceTyped, SourceTypeOK
<1>3. ASSUME NEW p \in Paths
      PROVE  /\ nextGen + Rank(p, Unwatched(ws)) \in Nat \ {0}
             /\ inc[p] \in Nat
  <2>1. Rank(p, Unwatched(ws)) \in Nat
    BY <1>1, Countable
  <2> QED
    BY <1>2, <2>1
<1>4. \A p \in Paths : /\ ScanRoots(ws)[p] \in Watch
                       /\ p \in Unwatched(ws) \/ ws[p].gen # 0 => ScanRoots(ws)[p].gen # 0
  BY <1>3 DEF ScanRoots, NewWatch, Watch, Populated
<1>5. ScanRoots(ws) = [p \in Paths |-> ScanRoots(ws)[p]]
  BY DEF ScanRoots
<1> QED
  BY <1>4, <1>5

Wanted == {p \in alive : UidOf[p] \in setting.valid}

\* A rescan finds all there is to watch.
LEMMA RescanFinds ==
    ASSUME Typed, NEW ws \in [Paths -> Watch]
    PROVE  /\ RescanRoots(ws) \in [Paths -> Watch]
           /\ \A p \in Wanted : RescanRoots(ws)[p].gen # 0
<1> DEFINE kept == [p \in Paths |-> IF p \in alive THEN ws[p] ELSE NoWatch]
<1>1. kept \in [Paths -> Watch]
  BY DEF NoWatch, Watch, Populated
<1>2. alive \subseteq Paths /\ denied = {}
  BY DEF Typed, TreeTyped, SourceTyped
<1>3. \A p \in Wanted : p \in Unwatched(kept) \/ kept[p].gen # 0
  BY <1>2 DEF Unwatched, Admitted, Wanted
<1>4. ScanRoots(kept) = RescanRoots(ws)
  BY DEF RescanRoots
<1> HIDE DEF kept
<1>5. /\ ScanRoots(kept) \in [Paths -> Watch]
      /\ \A p \in Wanted : ScanRoots(kept)[p].gen # 0
  BY <1>1, <1>2, <1>3, ScanFinds DEF Wanted
<1> QED
  BY <1>4, <1>5

LEMMA PollFinds ==
    ASSUME Typed
    PROVE  /\ PollCurrentWatches(watches) \in [Paths -> Watch]
           /\ \A p \in Wanted : watches[p].gen # 0 => PollCurrentWatches(watches)[p].gen # 0
<1> DEFINE read == [p \in Paths |->
                      IF p \in (Visited(watches) \ denied) \cap alive
                      THEN [watches[p] EXCEPT !.populated = ReadPopulated(p)]
                      ELSE watches[p]]
<1>1. watches \in [Paths -> Watch] /\ Wanted \subseteq Paths
  BY DEF Typed, TreeTyped, SourceTyped, SourceTypeOK, Wanted
<1>2. \A p \in Paths : ReadPopulated(p) \in Populated
  BY DEF ReadPopulated, Populated
<1>3. \A p \in Paths : read[p] \in Watch /\ read[p].gen = watches[p].gen
  BY <1>1, <1>2 DEF Watch
<1>4. read \in [Paths -> Watch]
  BY <1>3
<1>5. /\ RescanRoots(read) \in [Paths -> Watch]
      /\ \A p \in Wanted : RescanRoots(read)[p].gen # 0
  BY <1>4, RescanFinds
<1>6. PollCurrentWatches(watches) \in {read, RescanRoots(read)}
  BY DEF PollCurrentWatches
<1> QED
  BY <1>1, <1>3, <1>4, <1>5, <1>6

LEMMA DropTyped ==
    ASSUME Typed, NEW p
    PROVE  Drop(watches, p) \in [Paths -> Watch]
BY DEF Typed, SourceTyped, SourceTypeOK, Drop, NoWatch, Watch, Populated

LEMMA AddTyped ==
    ASSUME Typed, NEW p \in Paths
    PROVE  /\ AddUidWatch(watches, p) \in [Paths -> Watch]
           /\ AddUidWatch(watches, p)[p].gen # 0
           /\ \A q \in Paths \ {p} : AddUidWatch(watches, p)[q] = watches[q]
BY DEF Typed, TreeTyped, SourceTyped, SourceTypeOK, AddUidWatch, NewWatch, Watch, Populated

\* What Replace leaves behind.
LEMMA ReplaceTyped ==
    ASSUME Typed, NEW ws \in [Paths -> Watch], Replace(ws), UNCHANGED <<setting, denied>>
    PROVE  SourceTyped' /\ unread' \subseteq Paths
<1>1. Cardinality(Opened(ws)) \in Nat /\ Opened(ws) \subseteq Paths
  BY Countable
<1>2. /\ watches' = ws
      /\ nextGen' = nextGen + Cardinality(Opened(ws))
      /\ unread' = unread \cup Opened(ws)
      /\ staleRoots' = staleRoots
  BY DEF Replace, Install
<1>3. nextGen' \in Nat \ {0}
  BY <1>1, <1>2 DEF Typed, SourceTyped, SourceTypeOK
<1> QED
  BY <1>1, <1>2, <1>3 DEF Typed, TreeTyped, SourceTyped, SourceTypeOK

LEMMA KeepTyped ==
    ASSUME Typed, KeepV2, UNCHANGED <<setting, denied>>
    PROVE  SourceTyped' /\ unread' \subseteq Paths
BY DEF Typed, TreeTyped, SourceTyped, SourceTypeOK, KeepV2

LEMMA CandidateTyped ==
    ASSUME Typed, NEW p
    PROVE  CandidateAt(p) \in Nat /\ V2Current \in Nat
<1>1. \A uid : CandidateForUid(uid) \in Nat
  BY DEF CandidateForUid, NoCandidate, Typed, SourceTyped, SourceTypeOK, Setting
<1>2. \A q : CandidateAt(q) \in Nat
  BY <1>1 DEF CandidateAt, NoCandidate
<1>3. V2Current \in Nat
  <2>1. V2Current = NoCandidate \/ \E q : V2Current = CandidateAt(q)
    BY DEF V2Current
  <2> QED
    BY <1>2, <2>1 DEF NoCandidate
<1> QED
  BY <1>2, <1>3

LEMMA ReturnTyped ==
    ASSUME Typed, NEW candidate \in Candidate, Return(candidate)
    PROVE  lastPayload' \in Candidate /\ attempt' \in 1..Attempts
BY DEF Typed, CallTyped, Return, Report, Attempts

LEMMA FromTyped ==
    ASSUME NEW source \in {"v1", "v2", "activity"}, NEW app \in Nat
    PROVE  From(source, app) \in Candidate /\ Nobody \in Candidate
BY DEF From, Candidate, Nobody, NoCandidate

LEMMA InitTyped == Init => Typed
<1> SUFFICES ASSUME Init PROVE Typed
  OBVIOUS
<1>1. alive \subseteq Paths /\ populated \subseteq alive /\ unread = alive
  BY DEF Init, TreeInit
<1>2. inc \in [Paths -> Nat]
  BY DEF Init, TreeInit
<1>3. Admitted \subseteq Paths
  BY <1>1 DEF Admitted
<1>4. Cardinality(Admitted) \in Nat
  BY <1>3, PathsAssumption, FS_Subset, FS_CardinalityType
<1>5. \A p \in Paths : 1 + Rank(p, Admitted) \in Nat
  BY <1>3, Countable
<1>6. \A p \in Paths : /\ NewWatch(1 + Rank(p, Admitted), inc[p]) \in Watch
                       /\ NoWatch \in Watch
  BY <1>2, <1>5 DEF NewWatch, NoWatch, Watch, Populated
<1>7. SourceTyped
  BY <1>4, <1>6, UidsAssumption DEF Init, SourceInit, SourceTyped, SourceTypeOK
<1>8. CallTyped
  <2>1. Nobody \in Candidate
    BY DEF Nobody, Candidate, NoCandidate
  <2>2. /\ top \in TopApps /\ v1wd \in BOOLEAN /\ unsynced \in BOOLEAN /\ attempt = 1
        /\ cur = NoPath /\ lastPayload = Nobody
        /\ keys = [p \in Paths |-> 0]
    BY Zenon DEF Init
  <2> QED
    BY <2>1, <2>2 DEF CallTyped, Attempts
<1> QED
  BY <1>1, <1>2, <1>7, <1>8 DEF Init, TreeInit, Typed, TreeTyped

\* A handler leaves the tree, the batch and the registrations alone.
LEMMA HandlerTyped ==
    ASSUME Typed, Overlook, KeepTree, UNCHANGED <<v1Vars, keys, inq>>,
           SourceTyped', unread' \subseteq Paths, attempt' \in 1..Attempts,
           cur' \in Paths \cup {NoPath}, lastPayload' \in Candidate, unsynced' \in BOOLEAN
    PROVE  Typed'
<1>1. TreeTyped'
  BY DEF Typed, TreeTyped, KeepTree
<1>2. CallTyped'
  BY DEF Typed, CallTyped, v1Vars
<1> QED
  BY <1>1, <1>2 DEF Typed, Overlook

LEMMA EnqueueTyped ==
    ASSUME Typed, NEW event \in AnyEvent
    PROVE  Enqueue(event) \in Seq(AnyEvent)
<1>1. Overflow \in AnyEvent
  BY DEF AnyEvent, Overflow, Event
<1>2. queue \in Seq(AnyEvent)
  BY DEF Typed, TreeTyped
<1> QED
  BY <1>1, <1>2, AppendProperties DEF Enqueue

LEMMA AnnounceTyped ==
    ASSUME Typed, NEW p \in Paths, NEW kind \in {"create", "delete"}, Announce(p, kind)
    PROVE  queue' \in Seq(AnyEvent)
<1>1. [kind |-> kind, at |-> p] \in AnyEvent
  BY DEF AnyEvent, Event
<1> QED
  BY <1>1, EnqueueTyped DEF Announce, Typed, TreeTyped

LEMMA OutsideTyped ==
    ASSUME Typed, Tree \/ (\E app \in TopApps : ChangeTop(app)) \/ ToggleReadable, Overlook
    PROVE  Typed'
<1>1. UNCHANGED <<programVars, setting, denied, wd, v1wd>>
  BY DEF Tree, MakeDir, RemoveDir, TogglePopulated, ChangeTop, ToggleReadable, Overlook, v1Vars,
         treeVars
<1>2. top' \in TopApps
  BY DEF Tree, ChangeTop, ToggleReadable, v1Vars, Typed, CallTyped
<1>3. SourceTyped' /\ CallTyped'
  BY <1>1, <1>2 DEF programVars, sourceVars, callVars, autoVars, Typed, SourceTyped, SourceTypeOK,
                    CallTyped
<1> DEFINE SoundTree == /\ alive \subseteq Paths
                        /\ populated \subseteq alive
                        /\ unread \subseteq Paths
                        /\ inc \in [Paths -> Nat]
                        /\ queue \in Seq(AnyEvent)
<1>4. SoundTree'
  <2>1. ASSUME NEW p \in Paths, MakeDir(p)
        PROVE  SoundTree'
    BY <2>1, AnnounceTyped DEF MakeDir, Typed, TreeTyped
  <2>2. ASSUME NEW p \in Paths, RemoveDir(p)
        PROVE  SoundTree'
    BY <2>2, AnnounceTyped DEF RemoveDir, Typed, TreeTyped
  <2>3. ASSUME NEW p \in Paths, TogglePopulated(p)
        PROVE  SoundTree'
    BY <2>3 DEF TogglePopulated, Typed, TreeTyped
  <2>4. ASSUME NEW app \in TopApps, ChangeTop(app)
        PROVE  SoundTree'
    <3>1. V1Modified \in AnyEvent
      BY DEF AnyEvent
    <3> QED
      BY <2>4, <3>1, EnqueueTyped DEF ChangeTop, Typed, TreeTyped
  <2>5. ASSUME ToggleReadable
        PROVE  SoundTree'
    BY <2>5 DEF ToggleReadable, treeVars, Typed, TreeTyped
  <2> QED
    BY <2>1, <2>2, <2>3, <2>4, <2>5 DEF Tree
<1>5. wd' \subseteq Roots /\ inq' \in Seq(AnyEvent)
  BY <1>1 DEF programVars, callVars, Typed, TreeTyped
<1> QED
  BY <1>3, <1>4, <1>5 DEF Typed, TreeTyped, Overlook

LEMMA PollTyped ==
    ASSUME Typed, PollSources, Overlook
    PROVE  SourceTyped' /\ unread' \subseteq Paths
<1>1. UNCHANGED <<setting, denied>>
  BY DEF Overlook
<1>2. CASE KeepV2
  BY <1>1, <1>2, KeepTyped
<1>3. CASE Replace(PollCurrentWatches(watches))
  BY <1>1, <1>3, PollFinds, ReplaceTyped
<1> QED
  BY <1>2, <1>3 DEF PollSources

LEMMA PollingTyped ==
    ASSUME Typed, HandlePolling, Overlook
    PROVE  Typed'
<1>1. SourceTyped' /\ unread' \subseteq Paths
  BY PollTyped DEF HandlePolling
<1>2. Polled \in Candidate
  BY CandidateTyped, FromTyped, AppsAssumption DEF Polled, Typed, CallTyped
<1>3. lastPayload' \in Candidate /\ attempt' \in 1..Attempts
  BY <1>2, ReturnTyped DEF HandlePolling
<1> QED
  BY <1>1, <1>3, HandlerTyped DEF HandlePolling, Typed, CallTyped

LEMMA RecoverTyped ==
    ASSUME Typed, RecoverV1
    PROVE  lastPayload' \in Candidate /\ attempt' \in 1..Attempts
<1>1. top \in Nat
  BY AppsAssumption DEF Typed, CallTyped
<1>2. Return(Nobody) \/ Return(From("v1", top))
  BY DEF RecoverV1
<1> QED
  BY <1>1, <1>2, FromTyped, ReturnTyped

LEMMA WithV1Typed ==
    ASSUME Typed, Overlook, HandleWithV1 \/ \E p \in Paths : HandlePriorityWithV1(p)
    PROVE  Typed'
<1>1. /\ RecoverV1
      /\ KeepV2
      /\ KeepTree
      /\ UNCHANGED <<v1Vars, keys, inq, unsynced>>
      /\ cur' \in Paths \cup {cur}
  BY DEF HandleWithV1, HandlePriorityWithV1
<1>2. SourceTyped' /\ unread' \subseteq Paths
  BY <1>1, KeepTyped DEF Overlook
<1> QED
  BY <1>1, <1>2, RecoverTyped, HandlerTyped DEF Typed, CallTyped

LEMMA RootEventTyped ==
    ASSUME Typed, Overlook, HandleDelete \/ HandleCreateKnown \/ HandleCreateNew
    PROVE  Typed'
<1>1. KeepTree /\ UNCHANGED <<v1Vars, keys, inq, cur, unsynced, setting, denied>>
  BY DEF HandleDelete, HandleCreateKnown, HandleCreateNew, Overlook
<1>2. CASE HandleDelete
  BY <1>1, <1>2, DropTyped, ReplaceTyped, FromTyped, ReturnTyped, HandlerTyped
     DEF HandleDelete, Typed, CallTyped, Nobody
<1>3. CASE HandleCreateKnown
  BY <1>1, <1>3, KeepTyped, FromTyped, ReturnTyped, HandlerTyped
     DEF HandleCreateKnown, Typed, CallTyped, Nobody
<1>4. CASE HandleCreateNew
  <2>1. Head(inq).at \in Paths
    BY <1>4 DEF HandleCreateNew, Unwatched, Admitted, Typed, TreeTyped
  <2> QED
    BY <1>1, <1>4, <2>1, AddTyped, ReplaceTyped, HandlerTyped
       DEF HandleCreateNew, Typed, CallTyped
<1> QED
  BY <1>2, <1>3, <1>4

LEMMA PriorityTyped ==
    ASSUME Typed, Overlook, NEW p \in Paths, HandleStalePriorityEvent(p) \/ CheckPriorityEvent(p)
    PROVE  Typed'
<1>1. /\ KeepTree
      /\ UNCHANGED <<v1Vars, keys, inq, unsynced, attempt, lastPayload, setting, denied>>
      /\ cur' = p
  BY DEF HandleStalePriorityEvent, CheckPriorityEvent, Overlook
<1>2. SourceTyped' /\ unread' \subseteq Paths
  <2>1. CASE HandleStalePriorityEvent(p)
    <3>1. RescanRoots(Drop(watches, p)) \in [Paths -> Watch]
      BY DropTyped, RescanFinds
    <3> QED
      BY <1>1, <2>1, <3>1, ReplaceTyped DEF HandleStalePriorityEvent, HandleStaleEventsPath
  <2>2. CASE CheckPriorityEvent(p)
    BY <1>1, <2>2, KeepTyped DEF CheckPriorityEvent
  <2> QED
    BY <2>1, <2>2
<1> QED
  BY <1>1, <1>2, HandlerTyped DEF Typed, CallTyped

LEMMA ReadingTyped ==
    ASSUME Typed, Overlook, ReadV2 \/ AskActivity
    PROVE  Typed'
<1>1. KeepTree /\ UNCHANGED <<v1Vars, keys, inq, cur, unsynced, setting, denied>>
  BY DEF ReadV2, AskActivity, Overlook
<1>2. CASE ReadV2
  <2>1. ReadPopulated(Target) \in Populated
    BY DEF ReadPopulated, Populated
  <2>2. SetPopulated(watches, Target, ReadPopulated(Target)) \in [Paths -> Watch]
    BY <2>1 DEF SetPopulated, Typed, SourceTyped, SourceTypeOK, Watch
  <2>3. SourceTyped' /\ unread' \subseteq Paths
    BY <1>1, <1>2, <2>2 DEF ReadV2, Typed, TreeTyped, SourceTyped, SourceTypeOK
  <2>4. lastPayload' \in Candidate /\ attempt' \in 1..Attempts
    BY <1>2, CandidateTyped, FromTyped, ReturnTyped DEF ReadV2
  <2> QED
    BY <1>1, <2>3, <2>4, HandlerTyped DEF Typed, CallTyped
<1>3. CASE AskActivity
  <2>1. PICK app \in ActivityApps : Return(From("activity", app))
    BY <1>3 DEF AskActivity
  <2>2. lastPayload' \in Candidate /\ attempt' \in 1..Attempts
    BY <2>1, FromTyped, ReturnTyped, AppsAssumption
  <2>3. SourceTyped' /\ unread' \subseteq Paths
    BY <1>1, <1>3, KeepTyped DEF AskActivity
  <2> QED
    BY <1>1, <2>2, <2>3, HandlerTyped DEF Typed, CallTyped
<1> QED
  BY <1>2, <1>3

LEMMA ErrorTyped ==
    ASSUME Typed, Overlook, ActivityError
    PROVE  Typed'
<1>1. SourceTyped' /\ unread' \subseteq Paths
  BY KeepTyped DEF ActivityError, Overlook
<1>2. <<>> \in Seq(AnyEvent) /\ 1 \in 1..Attempts
  BY DEF Attempts
<1>3. TreeTyped' /\ CallTyped'
  BY <1>1, <1>2 DEF ActivityError, KeepTree, Typed, TreeTyped, CallTyped, v1Vars
<1> QED
  BY <1>1, <1>3 DEF Typed, Overlook

LEMMA RestTyped == Typed => Rest \in Seq(AnyEvent)
BY HeadTailProperties DEF Rest, Typed, TreeTyped

LEMMA SyncTyped ==
    ASSUME Inv, Typed, Overlook, Sync
    PROVE  Typed'
<1>1. queue' \in Seq(AnyEvent) /\ inq' \in Seq(AnyEvent)
  BY RestTyped, HeardFacts DEF Sync, SyncForegroundWatchPaths, Typed, TreeTyped
<1>2. wd' \subseteq Roots /\ v1wd' \in BOOLEAN
  BY DEF Sync, SyncForegroundWatchPaths, Inv, ChoiceOK, Typed, TreeTyped, CallTyped
<1>3. TreeTyped'
  BY <1>1, <1>2 DEF Sync, Typed, TreeTyped
<1>4. SourceTyped'
  BY DEF Sync, Overlook, sourceVars, Typed, SourceTyped, SourceTypeOK
<1>5. keys' \in [Paths -> Nat]
  BY DEF Sync, PriorityHintKeys, Typed, SourceTyped, SourceTypeOK, Watch
<1>6. 1 \in 1..Attempts
  BY DEF Attempts
<1>7. CallTyped'
  BY <1>2, <1>5, <1>6 DEF Sync, Typed, CallTyped
<1> QED
  BY <1>3, <1>4, <1>7 DEF Typed, Overlook

LEMMA SyncErrorTyped ==
    ASSUME Inv, Typed, Overlook, SyncFails
    PROVE  Typed'
<1>1. queue' \in Seq(AnyEvent) /\ <<>> \in Seq(AnyEvent)
  BY HeardFacts DEF SyncFails, SyncForegroundWatchPaths, Typed, TreeTyped
<1>2. wd' \subseteq Roots /\ v1wd' \in BOOLEAN
  BY DEF SyncFails, SyncForegroundWatchPaths, Inv, ChoiceOK, Typed, TreeTyped, CallTyped
<1>3. TreeTyped'
  BY <1>1, <1>2 DEF SyncFails, Typed, TreeTyped
<1>4. SourceTyped'
  BY DEF SyncFails, Overlook, sourceVars, Typed, SourceTyped, SourceTypeOK
<1>5. keys' \in [Paths -> Nat]
  <2>1. PICK p \in Refused : keys' = [q \in Paths |-> IF q < p THEN 0 ELSE keys[q]]
    BY DEF SyncFails
  <2> QED
    BY <2>1 DEF Typed, CallTyped
<1>6. 1 \in 1..Attempts
  BY DEF Attempts
<1>7. CallTyped'
  BY <1>2, <1>5, <1>6 DEF SyncFails, Typed, CallTyped
<1> QED
  BY <1>3, <1>4, <1>7 DEF Typed, Overlook

LEMMA IdleTyped ==
    ASSUME Typed, Overlook, ReadInotify \/ PollCurrentForeground
    PROVE  Typed'
<1>1. CASE ReadInotify
  <2>1. TreeTyped'
    BY <1>1 DEF ReadInotify, Typed, TreeTyped
  <2>2. SourceTyped' /\ CallTyped'
    BY <1>1 DEF ReadInotify, Overlook, sourceVars, v1Vars, Typed, SourceTyped, SourceTypeOK,
                CallTyped
  <2> QED
    BY <2>1, <2>2 DEF Typed, Overlook
<1>2. CASE PollCurrentForeground
  BY <1>2, PollTyped, HandlerTyped DEF PollCurrentForeground, Typed, CallTyped
<1> QED
  BY <1>1, <1>2

LEMMA NextTyped == Inv /\ Typed /\ [Next]_vars => Typed'
<1> SUFFICES ASSUME Inv, Typed, [Next]_vars PROVE Typed'
  OBVIOUS
<1>1. CASE UNCHANGED vars
  <2>1. TreeTyped' /\ SourceTyped' /\ CallTyped'
    BY <1>1 DEF vars, treeVars, v1Vars, sourceVars, callVars, Typed, TreeTyped, SourceTyped,
                SourceTypeOK, CallTyped
  <2> QED
    BY <1>1, <2>1 DEF vars, treeVars, Typed
<1>2. CASE Next
  BY <1>2, OutsideTyped, IdleTyped, PollingTyped, WithV1Typed, RootEventTyped, PriorityTyped,
     ReadingTyped, ErrorTyped, SyncTyped, SyncErrorTyped
     DEF Next, Proceed, HandleInotify, HandlePriority
<1> QED
  BY <1>1, <1>2

LEMMA TypedInvariance == Spec => []Typed
BY InitTyped, NextTyped, AutoInvariance, PTL DEF Spec

\* The source's books, the batch, the registrations and the report keep their types, with
\* the hints those of the choice and an event in hand whenever one is handled: also over
\* errors that drop the batch and syncs that thin it out.
THEOREM TypeCorrect == Spec => []TypeOK
BY TypedIsTypeOK, TypedInvariance, AutoInvariance, PTL

-----------------------------------------------------------------------------
(* No directory is lost.                                                   *)

Creation(p) == [kind |-> "create", at |-> p]

IsRemoval(event, p) == event.kind = "delete" /\ event.at = p

CreatedAfter(seq, i, p) == \E j \in DOMAIN seq : j > i /\ seq[j] = Creation(p)

\* Behind every event of a removal of p comes one of its creation.
Followed(told, read, p) ==
    /\ \A i \in DOMAIN told : IsRemoval(told[i], p) => CreatedAfter(told, i, p)
    /\ \A i \in DOMAIN read :
          IsRemoval(read[i], p) => CreatedAfter(read, i, p) \/ Announces(told, p)

Known(p) ==
    \/ watches[p].gen # 0
    \/ Announces(queue, p)
    \/ Announces(inq, p)
    \/ p \in overlooked

\* What is still to come after the event in hand leads to p, if p is not watched.
Findable(p) ==
    \/ watches[p].gen # 0
    \/ Announces(queue, p)
    \/ Announces(Rest, p)
    \/ p \in overlooked

\* The invariant behind NoLostCgroup.
LostInv ==
    /\ \A p \in alive \ overlooked : Followed(queue, inq, p)
    /\ \A p \in Wanted : Known(p)
    /\ pc \in {"reading", "sync"} => \A p \in Wanted : Findable(p)

LEMMA AnnouncesAt ==
    \A seq, p : Announces(seq, p) <=> \E i \in DOMAIN seq : seq[i] = Creation(p)
BY DEF Announces, InSeq, Creation

\* A sequence less its first event.
LEMMA RestFacts ==
    ASSUME Typed, NEW p
    PROVE  /\ Announces(inq, p) => Announces(Rest, p) \/ (inq # <<>> /\ Head(inq) = Creation(p))
           /\ Announces(Rest, p) => Announces(inq, p)
           /\ Followed(queue, inq, p) => Followed(queue, Rest, p)
           /\ Followed(queue, inq, p) /\ inq # <<>> /\ IsRemoval(Head(inq), p)
              => Announces(queue, p) \/ Announces(Rest, p)
<1>0. inq \in Seq(AnyEvent)
  BY DEF Typed, TreeTyped
<1>1. CASE inq = <<>>
  <2>1. Rest = inq
    BY <1>1 DEF Rest
  <2> QED
    BY <1>1, <2>1
<1>2. CASE inq # <<>>
  <2>1. /\ Rest = Tail(inq)
        /\ Len(Rest) = Len(inq) - 1
        /\ Len(inq) \in Nat \ {0}
        /\ Head(inq) = inq[1]
        /\ \A i \in 1..Len(Rest) : Rest[i] = inq[i + 1]
    BY <1>0, <1>2, HeadTailProperties DEF Rest
  <2>2. DOMAIN inq = 1..Len(inq) /\ DOMAIN Rest = 1..(Len(inq) - 1)
    <3>1. Rest \in Seq(AnyEvent)
      BY <1>0, <1>2, <2>1, HeadTailProperties
    <3> QED
      BY <1>0, <2>1, <3>1
  <2>3. \A i \in DOMAIN Rest : i + 1 \in DOMAIN inq /\ Rest[i] = inq[i + 1]
    BY <2>1, <2>2
  <2>4. \A j \in DOMAIN inq : j > 1 => j - 1 \in DOMAIN Rest /\ Rest[j - 1] = inq[j]
    <3> TAKE j \in DOMAIN inq
    <3>1. CASE j > 1
      <4>1. j - 1 \in DOMAIN Rest
        BY <2>1, <2>2, <3>1
      <4>2. (j - 1) + 1 = j
        BY <2>2
      <4> QED
        BY <2>3, <4>1, <4>2
    <3> QED
      BY <3>1
  <2>5. \A j \in DOMAIN inq : j = 1 \/ j > 1
    BY <2>2
  <2>6. Announces(inq, p) => Announces(Rest, p) \/ Head(inq) = Creation(p)
    BY <2>1, <2>4, <2>5, AnnouncesAt
  <2>7. Announces(Rest, p) => Announces(inq, p)
    BY <2>3, AnnouncesAt
  <2>8. \A i \in DOMAIN Rest : CreatedAfter(inq, i + 1, p) => CreatedAfter(Rest, i, p)
    <3> SUFFICES ASSUME NEW i \in DOMAIN Rest, NEW j \in DOMAIN inq, j > i + 1,
                        inq[j] = Creation(p)
                 PROVE  CreatedAfter(Rest, i, p)
      BY DEF CreatedAfter
    <3>1. j > 1 /\ j - 1 > i
      BY <2>2
    <3> QED
      BY <2>4, <3>1 DEF CreatedAfter
  <2>9. ASSUME Followed(queue, inq, p) PROVE Followed(queue, Rest, p)
    BY <2>3, <2>8, <2>9 DEF Followed
  <2>10. ASSUME Followed(queue, inq, p), IsRemoval(Head(inq), p)
         PROVE  Announces(queue, p) \/ Announces(Rest, p)
    <3>1. CreatedAfter(inq, 1, p) \/ Announces(queue, p)
      BY <2>1, <2>2, <2>10 DEF Followed
    <3> QED
      BY <2>4, <3>1, AnnouncesAt DEF CreatedAfter
  <2> QED
    BY <1>2, <2>6, <2>7, <2>9, <2>10
<1> QED
  BY <1>1, <1>2

LEMMA FindableIsKnown ==
    ASSUME Typed, NEW p, Findable(p)
    PROVE  Known(p)
BY RestFacts DEF Findable, Known

\* What is known of is found, unless the event in hand alone tells of it.
LEMMA KnownIsFindable ==
    ASSUME Typed, NEW p, Known(p), inq = <<>> \/ Head(inq) # Creation(p)
    PROVE  Findable(p)
BY RestFacts DEF Findable, Known

\* Nothing leaves overlooked but with its directory.
LEMMA OverlookGrows ==
    ASSUME Overlook
    PROVE  \A p \in alive' : /\ p \in overlooked => p \in overlooked'
                             /\ v1Available' => p \in overlooked' \/ Live(watches, p)'
                             /\ p \notin alive /\ queue' # Append(queue, Creation(p))
                                => p \in overlooked'
                             /\ inq' = <<>> /\ Announces(Rest, p) => p \in overlooked'
BY Zenon DEF Overlook, Creation

\* Steps of a handler: the tree, the queue and the batch stay.
LEMMA HandlerLosesNothing ==
    ASSUME Typed, Typed', LostInv, Overlook, KeepTree, UNCHANGED inq,
           \A p \in Wanted : Known(p)',
           pc' \in {"reading", "sync"} => \A p \in Wanted : Findable(p)'
    PROVE  LostInv'
<1>1. UNCHANGED <<alive, queue, inq, setting>>
  BY DEF KeepTree, Overlook
<1>2. Wanted' = Wanted
  BY <1>1 DEF Wanted
<1>3. \A p \in alive' \ overlooked' : Followed(queue, inq, p)'
  BY <1>1, OverlookGrows DEF LostInv, Followed
<1> QED
  BY <1>2, <1>3 DEF LostInv

LEMMA InitLosesNothing == Init => LostInv
<1> SUFFICES ASSUME Init PROVE LostInv
  OBVIOUS
<1>1. Typed
  BY InitTyped
<1>2. queue = <<>> /\ inq = <<>> /\ pc = "new" /\ denied = {}
  BY DEF Init, TreeInit
<1>3. \A p \in Paths : p \in Admitted => watches[p] = NewWatch(1 + Rank(p, Admitted), inc[p])
  BY DEF Init, SourceInit
<1>4. Admitted \subseteq Paths /\ Wanted \subseteq Admitted
  BY <1>1, <1>2 DEF Typed, TreeTyped, Admitted, Wanted
<1>5. \A p \in Wanted : watches[p].gen # 0
  <2> TAKE p \in Wanted
  <2>1. Rank(p, Admitted) \in Nat /\ p \in Admitted /\ p \in Paths
    BY <1>4, Countable
  <2>2. watches[p] = NewWatch(1 + Rank(p, Admitted), inc[p])
    BY <1>3, <2>1
  <2>3. watches[p].gen = 1 + Rank(p, Admitted)
    BY <2>2 DEF NewWatch
  <2> QED
    BY <2>1, <2>3
<1>6. \A p \in alive : Followed(queue, inq, p)
  BY <1>2 DEF Followed
<1> QED
  BY <1>2, <1>5, <1>6 DEF LostInv, Known

\* With v1 in charge, a directory that is not watched is overlooked.
LEMMA V1Overlooks ==
    ASSUME Overlook, v1Available'
    PROVE  \A p \in Wanted' : Known(p)' /\ Findable(p)'
<1> SUFFICES ASSUME NEW p \in Wanted' PROVE Known(p)' /\ Findable(p)'
  OBVIOUS
<1>1. p \in overlooked' \/ Live(watches, p)'
  BY OverlookGrows DEF Wanted
<1>2. p \in overlooked' \/ watches'[p].gen # 0
  BY <1>1 DEF Live
<1> QED
  BY <1>2 DEF Known, Findable

LEMMA V1LosesNothing ==
    ASSUME Typed, Typed', LostInv, Overlook, KeepTree, UNCHANGED inq, v1Available'
    PROVE  LostInv'
<1>1. Wanted' = Wanted
  BY DEF KeepTree, Overlook, Wanted
<1> QED
  BY <1>1, V1Overlooks, HandlerLosesNothing

\* A watch that stays leaves its directory known of.
LEMMA WatchKept ==
    ASSUME Typed, Overlook, KeepTree, UNCHANGED inq, NEW p \in Wanted,
           watches[p].gen # 0 => watches'[p].gen # 0
    PROVE  /\ Known(p) => Known(p)'
           /\ Findable(p) => Findable(p)'
           /\ Findable(p)' => Known(p)'
<1>1. UNCHANGED <<alive, queue, inq, Rest>>
  BY DEF KeepTree, Rest
<1>2. p \in overlooked => p \in overlooked'
  BY <1>1, OverlookGrows DEF Wanted
<1>3. Announces(Rest, p) => Announces(inq, p)
  BY RestFacts
<1> QED
  BY <1>1, <1>2, <1>3 DEF Known, Findable

LEMMA PollLosesNothing ==
    ASSUME Typed, LostInv, Overlook, KeepTree, UNCHANGED inq, PollSources, NEW p \in Wanted
    PROVE  Known(p)' /\ (Findable(p) => Findable(p)')
<1>1. CASE v1Available'
  <2>1. p \in Wanted'
    BY DEF Wanted, KeepTree, Overlook
  <2> QED
    BY <1>1, <2>1, V1Overlooks
<1>2. CASE ~v1Available'
  <2>1. watches' = PollCurrentWatches(watches)
    BY <1>2 DEF PollSources, SetV1Available, Replace, Install
  <2>2. watches[p].gen # 0 => watches'[p].gen # 0
    BY <2>1, PollFinds
  <2> QED
    BY <2>2, WatchKept DEF LostInv
<1> QED
  BY <1>1, <1>2

LEMMA PollingLosesNothing ==
    ASSUME Typed, Typed', LostInv, Overlook, HandlePolling
    PROVE  LostInv'
<1>1. KeepTree /\ UNCHANGED inq /\ PollSources
  BY DEF HandlePolling
<1>2. \A p \in Wanted : Findable(p)
  <2> TAKE p \in Wanted
  <2>1. Head(inq) # Creation(p)
    BY DEF HandlePolling, InHand, Creation
  <2> QED
    BY <2>1, KnownIsFindable DEF LostInv
<1> QED
  BY <1>1, <1>2, PollLosesNothing, HandlerLosesNothing

LEMMA DeleteLosesNothing ==
    ASSUME Inv, Typed, Typed', LostInv, Overlook, HandleDelete
    PROVE  LostInv'
<1> DEFINE q == Head(inq).at
<1>1. KeepTree /\ UNCHANGED inq /\ watches' = Drop(watches, q) /\ inq # <<>>
  BY DEF HandleDelete, Replace, Install, InHand, Inv, CallOK
<1>2. ASSUME NEW p \in Wanted PROVE Findable(p)' /\ Known(p)'
  <2>0. p \in alive /\ p \in Paths /\ Known(p)
    BY DEF Wanted, LostInv, Typed, TreeTyped
  <2>1. CASE p # q
    <3>1. watches'[p] = watches[p]
      BY <1>1, <2>0, <2>1 DEF Drop, Typed, SourceTyped, SourceTypeOK
    <3>2. Head(inq) # Creation(p)
      BY <2>1 DEF Creation
    <3> QED
      BY <1>1, <2>0, <3>1, <3>2, KnownIsFindable, WatchKept
  <2>2. CASE p = q
    <3>1. IsRemoval(Head(inq), p)
      BY <2>0, <2>2 DEF HandleDelete, InHand, IsRemoval
    <3>2. p \in overlooked \/ Announces(queue, p) \/ Announces(Rest, p)
      BY <1>1, <2>0, <3>1, RestFacts DEF LostInv
    <3>3. UNCHANGED <<queue, Rest>>
      BY <1>1 DEF KeepTree, Rest
    <3>4. alive' = alive /\ (p \in overlooked => p \in overlooked')
      BY <1>1, <2>0, OverlookGrows DEF KeepTree
    <3>5. Announces(Rest, p) => Announces(inq, p)
      BY RestFacts
    <3> QED
      BY <1>1, <3>2, <3>3, <3>4, <3>5 DEF Findable, Known
  <2> QED
    BY <2>1, <2>2
<1> QED
  BY <1>1, <1>2, HandlerLosesNothing

LEMMA CreateLosesNothing ==
    ASSUME Typed, Typed', LostInv, Overlook, HandleCreateKnown \/ HandleCreateNew
    PROVE  LostInv'
<1> DEFINE q == Head(inq).at
<1>1. KeepTree /\ UNCHANGED inq
  BY DEF HandleCreateKnown, HandleCreateNew
<1>2. ASSUME NEW p \in Wanted PROVE watches[p].gen # 0 => watches'[p].gen # 0
  <2>0. p \in Paths
    BY DEF Wanted, Typed, TreeTyped
  <2>1. CASE HandleCreateKnown
    BY <2>1 DEF HandleCreateKnown, KeepV2
  <2>2. CASE HandleCreateNew
    <3>1. q \in Paths /\ watches' = AddUidWatch(watches, q)
      BY <2>2 DEF HandleCreateNew, Replace, Install, Unwatched, Admitted, Typed, TreeTyped
    <3> HIDE DEF q
    <3> QED
      BY <2>0, <3>1, AddTyped
  <2> QED
    BY <2>1, <2>2
<1>3. ASSUME NEW p \in Wanted, p = q PROVE watches'[p].gen # 0
  <2>0. p \in Paths
    BY DEF Wanted, Typed, TreeTyped
  <2>1. CASE HandleCreateKnown
    BY <1>3, <2>1 DEF HandleCreateKnown, KeepV2, Unwatched, Admitted, Wanted, Typed, SourceTyped
  <2>2. CASE HandleCreateNew
    <3>1. q \in Paths /\ watches' = AddUidWatch(watches, q)
      BY <2>2 DEF HandleCreateNew, Replace, Install, Unwatched, Admitted, Typed, TreeTyped
    <3> QED
      BY <1>3, <3>1, AddTyped
  <2> QED
    BY <2>1, <2>2
<1>4. ASSUME NEW p \in Wanted PROVE Known(p)' /\ Findable(p)'
  <2>1. Known(p)
    BY DEF LostInv
  <2>2. CASE p # q
    <3>1. Head(inq) # Creation(p)
      BY <2>2 DEF Creation
    <3> QED
      BY <1>1, <1>2, <2>1, <3>1, KnownIsFindable, WatchKept
  <2>3. CASE p = q
    BY <1>3, <2>3 DEF Known, Findable
  <2> QED
    BY <2>2, <2>3
<1> QED
  BY <1>1, <1>4, HandlerLosesNothing

LEMMA PriorityLosesNothing ==
    ASSUME Inv, Typed, Typed', LostInv, Overlook, NEW q \in Paths,
           HandleStalePriorityEvent(q) \/ CheckPriorityEvent(q)
    PROVE  LostInv'
<1>1. KeepTree /\ UNCHANGED inq /\ inq = <<>>
  BY DEF HandleStalePriorityEvent, CheckPriorityEvent, Broken, News, Ready, Inv, CallOK
<1>2. ASSUME NEW p \in Wanted PROVE watches[p].gen # 0 => watches'[p].gen # 0
  <2>1. CASE HandleStalePriorityEvent(q)
    <3>1. watches' = RescanRoots(Drop(watches, q))
      BY <2>1 DEF HandleStalePriorityEvent, Replace, Install, HandleStaleEventsPath
    <3> QED
      BY <3>1, DropTyped, RescanFinds
  <2>2. CASE CheckPriorityEvent(q)
    BY <2>2 DEF CheckPriorityEvent, KeepV2
  <2> QED
    BY <2>1, <2>2
<1>3. \A p \in Wanted : Known(p) /\ Findable(p)
  BY <1>1, KnownIsFindable DEF LostInv
<1> QED
  BY <1>1, <1>2, <1>3, WatchKept, HandlerLosesNothing

LEMMA ReadingLosesNothing ==
    ASSUME Typed, Typed', LostInv, Overlook, ReadV2 \/ AskActivity
    PROVE  LostInv'
<1>1. KeepTree /\ UNCHANGED inq /\ pc = "reading"
  BY DEF ReadV2, AskActivity
<1>2. ASSUME NEW p \in Wanted PROVE watches[p].gen # 0 => watches'[p].gen # 0
  <2>0. p \in Paths /\ watches \in [Paths -> Watch]
    BY DEF Wanted, Typed, TreeTyped, SourceTyped, SourceTypeOK
  <2>1. CASE ReadV2
    <3>1. watches'[p].gen = watches[p].gen
      BY <2>0, <2>1 DEF ReadV2, SetPopulated, Watch
    <3> QED
      BY <3>1
  <2>2. CASE AskActivity
    BY <2>2 DEF AskActivity, KeepV2
  <2> QED
    BY <2>1, <2>2
<1>3. \A p \in Wanted : Known(p) /\ Findable(p)
  BY <1>1 DEF LostInv
<1> QED
  BY <1>1, <1>2, <1>3, WatchKept, HandlerLosesNothing

\* An error loses what was still in hand, which is overlooked from then on.
LEMMA ErrorLosesNothing ==
    ASSUME Typed, Typed', LostInv, Overlook, ActivityError
    PROVE  LostInv'
<1>1. /\ UNCHANGED <<alive, queue, watches, setting>>
      /\ inq' = <<>> /\ pc = "reading" /\ pc' = "idle"
  BY DEF ActivityError, KeepTree, KeepV2, Overlook
<1>2. Wanted' = Wanted /\ Wanted \subseteq alive
  BY <1>1 DEF Wanted
<1>3. ASSUME NEW p \in Wanted PROVE Known(p)'
  <2>1. Findable(p) /\ p \in alive'
    BY <1>1, <1>2 DEF LostInv
  <2>2. /\ Announces(Rest, p) => p \in overlooked'
        /\ p \in overlooked => p \in overlooked'
    BY <1>1, <2>1, OverlookGrows
  <2> QED
    BY <1>1, <2>1, <2>2 DEF Findable, Known
<1>4. \A p \in alive' \ overlooked' : Followed(queue', inq', p)
  BY <1>1, OverlookGrows DEF LostInv, Followed
<1> QED
  BY <1>1, <1>2, <1>3, <1>4 DEF LostInv

LEMMA SyncLosesNothing ==
    ASSUME Inv, Typed, Typed', LostInv, Overlook, Sync
    PROVE  LostInv'
<1>1. /\ UNCHANGED <<alive, watches, setting, v1Available>>
      /\ pc \in {"new", "sync"} /\ pc' \in {"idle", "event"}
  BY DEF Sync, sourceVars, autoVars, Overlook
<1>2. Wanted' = Wanted /\ Wanted \subseteq alive /\ alive \subseteq Paths
  BY <1>1 DEF Wanted, Typed, TreeTyped
<1>3. \A p \in Wanted : Findable(p)
  <2>1. CASE pc = "new"
    <3>1. inq = <<>>
      BY <2>1 DEF Inv, CallOK
    <3> QED
      BY <3>1, KnownIsFindable DEF LostInv
  <2>2. CASE pc = "sync"
    BY <2>2 DEF LostInv
  <2> QED
    BY <1>1, <2>1, <2>2
<1>4. queue \in Seq(AnyEvent) /\ Rest \in Seq(AnyEvent)
  BY RestTyped DEF Typed, TreeTyped
<1>5. CASE cur = NoPath /\ hints = {}
  <2>1. v1Available' \/ Paths = {}
    BY <1>1, <1>5, RootsAssumption DEF Inv, ChoiceOK
  <2>2. \A p \in Wanted : Known(p)'
    BY <1>2, <2>1, V1Overlooks
  <2>3. queue' = Heard(queue) /\ inq' = Heard(Rest)
    BY <1>5 DEF Sync, SyncForegroundWatchPaths
  <2>4. /\ \A i \in DOMAIN queue' : queue'[i].at = NoPath
        /\ \A i \in DOMAIN inq' : inq'[i].at = NoPath
    BY <1>4, <1>5, <2>3, HeardFacts DEF OfLiveWatch
  <2>5. \A p \in alive : Followed(queue', inq', p)
    BY <1>2, <2>4, PathsAssumption DEF Followed, IsRemoval, NoPath
  <2> QED
    BY <1>1, <1>2, <2>2, <2>5 DEF LostInv
<1>6. CASE cur # NoPath \/ hints # {}
  <2>1. queue' = queue /\ inq' = Rest
    <3>1. hints # {} => Heard(queue) = queue /\ Heard(Rest) = Rest
      BY <1>4, HeardFacts DEF OfLiveWatch
    <3> QED
      BY <1>6, <3>1 DEF Sync, SyncForegroundWatchPaths
  <2>2. ASSUME NEW p \in Wanted PROVE Known(p)'
    <3>1. Findable(p) /\ (p \in overlooked => p \in overlooked')
      BY <1>1, <1>2, <1>3, OverlookGrows
    <3> QED
      BY <1>1, <2>1, <3>1 DEF Findable, Known
  <2>3. \A p \in alive' \ overlooked' : Followed(queue', inq', p)
    BY <1>1, <2>1, OverlookGrows, RestFacts DEF LostInv
  <2> QED
    BY <1>1, <1>2, <2>2, <2>3 DEF LostInv
<1> QED
  BY <1>5, <1>6

\* What a sync that fails drops is overlooked, for v1 is in charge.
LEMMA SyncErrorLosesNothing ==
    ASSUME Inv, Typed, Typed', LostInv, Overlook, SyncFails
    PROVE  LostInv'
<1>1. /\ UNCHANGED <<alive, watches, setting, v1Available>>
      /\ v1Available /\ hints = {}
      /\ pc' = "idle" /\ inq' = <<>>
  BY DEF SyncFails, Refused, sourceVars, autoVars, Overlook, Inv, ChoiceOK
<1>2. Wanted' = Wanted /\ Wanted \subseteq alive /\ alive \subseteq Paths
  BY <1>1 DEF Wanted, Typed, TreeTyped
<1>3. \A p \in Wanted : Known(p)'
  BY <1>1, <1>2, V1Overlooks
<1>4. ASSUME NEW p \in alive' \ overlooked' PROVE Followed(queue', inq', p)
  <2>1. p \in Paths /\ Followed(queue, inq, p)
    BY <1>1, <1>2, <1>4, OverlookGrows DEF LostInv
  <2>2. CASE cur # NoPath
    BY <1>1, <2>1, <2>2 DEF SyncFails, SyncForegroundWatchPaths, Followed
  <2>3. CASE cur = NoPath
    <3>1. queue' = Heard(queue) /\ queue \in Seq(AnyEvent)
      BY <2>3 DEF SyncFails, SyncForegroundWatchPaths, Typed, TreeTyped
    <3>2. \A i \in DOMAIN queue' : queue'[i].at = NoPath
      BY <1>1, <3>1, HeardFacts DEF OfLiveWatch
    <3> QED
      BY <1>1, <2>1, <3>2, PathsAssumption DEF Followed, IsRemoval, NoPath
  <2> QED
    BY <2>2, <2>3
<1> QED
  BY <1>1, <1>2, <1>3, <1>4 DEF LostInv

LEMMA ReadInotifyLosesNothing ==
    ASSUME Inv, Typed, Typed', LostInv, Overlook, ReadInotify
    PROVE  LostInv'
<1>1. /\ UNCHANGED <<alive, watches, setting>>
      /\ inq = <<>> /\ inq' = queue /\ queue' = <<>> /\ pc' = "event"
  BY DEF ReadInotify, sourceVars, Overlook, Inv, CallOK
<1>2. Wanted' = Wanted /\ Wanted \subseteq alive
  BY <1>1 DEF Wanted
<1>3. ASSUME NEW p \in Wanted PROVE Known(p)'
  <2>1. Known(p) /\ (p \in overlooked => p \in overlooked')
    BY <1>1, <1>2, OverlookGrows DEF LostInv
  <2>2. ~Announces(inq, p)
    BY <1>1, AnnouncesAt
  <2> QED
    BY <1>1, <2>1, <2>2 DEF Known
<1>4. \A p \in alive' \ overlooked' : Followed(queue', inq', p)
  BY <1>1, OverlookGrows DEF LostInv, Followed
<1> QED
  BY <1>1, <1>2, <1>3, <1>4 DEF LostInv

LEMMA PollForegroundLosesNothing ==
    ASSUME Inv, Typed, Typed', LostInv, Overlook, PollCurrentForeground
    PROVE  LostInv'
<1>1. KeepTree /\ UNCHANGED inq /\ inq = <<>> /\ PollSources
  BY DEF PollCurrentForeground, Inv, CallOK
<1>2. \A p \in Wanted : Findable(p)
  BY <1>1, KnownIsFindable DEF LostInv
<1> QED
  BY <1>1, <1>2, PollLosesNothing, HandlerLosesNothing

\* The queue at most grows, by what is offered to it or by the overflow.
LEMMA EnqueueGrows ==
    ASSUME Typed, NEW event
    PROVE  /\ DOMAIN queue \subseteq DOMAIN Enqueue(event)
           /\ \A i \in DOMAIN queue : Enqueue(event)[i] = queue[i]
           /\ \A i \in DOMAIN Enqueue(event) \ DOMAIN queue :
                 Enqueue(event)[i] \in {event, Overflow}
<1> DEFINE S == AnyEvent \cup {event, Overflow}
<1>1. queue \in Seq(S) /\ event \in S /\ Overflow \in S
  <2>1. queue \in Seq(AnyEvent)
    BY DEF Typed, TreeTyped
  <2> QED
    BY <2>1
<1>2. Enqueue(event) \in {queue, Append(queue, event), Append(queue, Overflow)}
  BY DEF Enqueue
<1> HIDE DEF S
<1>3. ASSUME NEW e \in {event, Overflow}, NEW new, new = Append(queue, e)
      PROVE  /\ DOMAIN queue \subseteq DOMAIN new
             /\ \A i \in DOMAIN queue : new[i] = queue[i]
             /\ \A i \in DOMAIN new \ DOMAIN queue : new[i] = e
  <2>1. /\ new \in Seq(S)
        /\ Len(new) = Len(queue) + 1
        /\ \A i \in 1..Len(queue) : new[i] = queue[i]
        /\ new[Len(queue) + 1] = e
    BY <1>1, <1>3, AppendProperties
  <2>2. DOMAIN new = 1..(Len(queue) + 1) /\ DOMAIN queue = 1..Len(queue) /\ Len(queue) \in Nat
    BY <1>1, <2>1
  <2> QED
    BY <2>1, <2>2
<1> QED
  BY <1>2, <1>3

\* What a step outside the program does to the queue: it at most grows, and of an
\* existing directory no removal is added.
Grows(p) ==
    /\ DOMAIN queue \subseteq DOMAIN queue'
    /\ \A i \in DOMAIN queue : queue'[i] = queue[i]
    /\ \A i \in DOMAIN queue' \ DOMAIN queue : ~IsRemoval(queue'[i], p)

LEMMA OutsideGrows ==
    ASSUME Typed, Tree \/ (\E app \in TopApps : ChangeTop(app)) \/ ToggleReadable
    PROVE  \A p \in alive \cap alive' : Grows(p)
<1>1. \A p : ~IsRemoval(Overflow, p) /\ ~IsRemoval(V1Modified, p)
  BY DEF IsRemoval, Overflow, V1Modified
<1>2. ASSUME queue' = queue PROVE \A p : Grows(p)
  BY <1>2 DEF Grows
<1>3. ASSUME NEW event, queue' = Enqueue(event), NEW p, ~IsRemoval(event, p)
      PROVE  Grows(p)
  BY <1>1, <1>3, EnqueueGrows DEF Grows
<1>4. ASSUME NEW q \in Paths, MakeDir(q), NEW p
      PROVE  Grows(p)
  <2>1. ~IsRemoval([kind |-> "create", at |-> q], p)
    BY DEF IsRemoval
  <2>2. queue' = queue \/ queue' = Enqueue([kind |-> "create", at |-> q])
    BY <1>4 DEF MakeDir, Announce
  <2> QED
    BY <1>2, <1>3, <2>1, <2>2
<1>5. ASSUME NEW q \in Paths, RemoveDir(q), NEW p \in alive'
      PROVE  Grows(p)
  <2>1. ~IsRemoval([kind |-> "delete", at |-> q], p)
    BY <1>5 DEF IsRemoval, RemoveDir
  <2>2. queue' = queue \/ queue' = Enqueue([kind |-> "delete", at |-> q])
    BY <1>5 DEF RemoveDir, Announce
  <2> QED
    BY <1>2, <1>3, <2>1, <2>2
<1>6. ASSUME NEW app \in TopApps, ChangeTop(app), NEW p
      PROVE  Grows(p)
  <2>1. queue' = queue \/ queue' = Enqueue(V1Modified)
    BY <1>6 DEF ChangeTop
  <2> QED
    BY <1>1, <1>2, <1>3, <2>1
<1>7. CASE ToggleReadable \/ \E q \in Paths : TogglePopulated(q)
  <2>1. queue' = queue
    BY <1>7 DEF ToggleReadable, TogglePopulated, treeVars
  <2> QED
    BY <1>2, <2>1
<1> QED
  BY <1>4, <1>5, <1>6, <1>7 DEF Tree

LEMMA GrowthKeeps ==
    ASSUME NEW p, Grows(p), inq' = inq
    PROVE  /\ Announces(queue, p) => Announces(queue', p)
           /\ Followed(queue, inq, p) => Followed(queue', inq', p)
<1>1. Announces(queue, p) => Announces(queue', p)
  BY AnnouncesAt DEF Grows
<1>2. \A i \in DOMAIN queue : CreatedAfter(queue, i, p) => CreatedAfter(queue', i, p)
  BY DEF Grows, CreatedAfter
<1>3. ASSUME Followed(queue, inq, p) PROVE Followed(queue', inq', p)
  <2>1. \A i \in DOMAIN queue' : IsRemoval(queue'[i], p) => CreatedAfter(queue', i, p)
    BY <1>2, <1>3 DEF Grows, Followed
  <2> QED
    BY <1>1, <1>3, <2>1 DEF Followed
<1> QED
  BY <1>1, <1>3

\* A creation that is queued is announced, and comes behind everything queued before.
LEMMA LastCreates ==
    ASSUME Typed, NEW p, queue' = Append(queue, Creation(p)), inq' = inq
    PROVE  Announces(queue', p) /\ Followed(queue', inq', p)
<1> DEFINE S == AnyEvent \cup {Creation(p)}
<1>1. queue \in Seq(S) /\ Creation(p) \in S
  <2>1. queue \in Seq(AnyEvent)
    BY DEF Typed, TreeTyped
  <2> QED
    BY <2>1
<1> HIDE DEF S
<1>2. /\ queue' \in Seq(S)
      /\ Len(queue') = Len(queue) + 1
      /\ queue'[Len(queue) + 1] = Creation(p)
  BY <1>1, AppendProperties
<1>3. DOMAIN queue' = 1..(Len(queue) + 1) /\ Len(queue) \in Nat
  BY <1>1, <1>2
<1>4. /\ Len(queue) + 1 \in DOMAIN queue'
      /\ \A i \in DOMAIN queue' : i < Len(queue) + 1 \/ i = Len(queue) + 1
  BY <1>3
<1>5. Announces(queue', p)
  BY <1>2, <1>4, AnnouncesAt
<1>6. ~IsRemoval(Creation(p), p)
  BY DEF IsRemoval, Creation
<1>7. \A i \in DOMAIN queue' : IsRemoval(queue'[i], p) => CreatedAfter(queue', i, p)
  BY <1>2, <1>4, <1>6 DEF CreatedAfter
<1> QED
  BY <1>5, <1>7 DEF Followed

LEMMA OutsideLosesNothing ==
    ASSUME Typed, Typed', LostInv, Overlook,
           Tree \/ (\E app \in TopApps : ChangeTop(app)) \/ ToggleReadable
    PROVE  LostInv'
<1>1. UNCHANGED <<watches, setting, pc, inq, Rest>>
  BY DEF Tree, ChangeTop, ToggleReadable, programVars, sourceVars, callVars, Overlook, Rest
<1>2. ASSUME NEW p \in alive \cap alive'
      PROVE  /\ p \in overlooked => p \in overlooked'
             /\ Announces(queue, p) => Announces(queue', p)
             /\ Followed(queue, inq, p) => Followed(queue', inq', p)
  BY <1>1, <1>2, OutsideGrows, GrowthKeeps, OverlookGrows
<1>3. ASSUME NEW p \in alive' \ alive
      PROVE  \/ p \in overlooked'
             \/ Announces(queue', p) /\ Followed(queue', inq', p)
  BY <1>1, <1>3, OverlookGrows, LastCreates
<1>4. \A p \in alive' \ overlooked' : Followed(queue', inq', p)
  BY <1>2, <1>3 DEF LostInv
<1>5. ASSUME NEW p \in Wanted'
      PROVE  Known(p)' /\ (pc' \in {"reading", "sync"} => Findable(p)')
  <2>1. CASE p \in alive
    <3>1. p \in Wanted /\ p \in alive \cap alive'
      BY <1>1, <1>5, <2>1 DEF Wanted
    <3> QED
      BY <1>1, <1>2, <3>1 DEF LostInv, Known, Findable
  <2>2. CASE p \notin alive
    <3>1. p \in alive' \ alive
      BY <1>5, <2>2 DEF Wanted
    <3> QED
      BY <1>3, <3>1 DEF Known, Findable
  <2> QED
    BY <2>1, <2>2
<1> QED
  BY <1>4, <1>5 DEF LostInv

LEMMA NextLosesNothing ==
    ASSUME Inv, Typed, Typed', LostInv, [Next]_vars
    PROVE  LostInv'
<1>1. CASE UNCHANGED vars
  <2>1. UNCHANGED <<alive, queue, watches, setting, inq, pc, overlooked, Rest>>
    BY <1>1 DEF vars, treeVars, sourceVars, callVars, Rest
  <2>2. Wanted' = Wanted
    BY <2>1 DEF Wanted
  <2> QED
    BY <2>1, <2>2 DEF LostInv, Known, Findable, Followed
<1>2. ASSUME Overlook, HandleWithV1 \/ \E p \in Paths : HandlePriorityWithV1(p)
      PROVE  LostInv'
  <2>1. KeepTree /\ UNCHANGED inq /\ RecoverV1
    BY <1>2 DEF HandleWithV1, HandlePriorityWithV1
  <2> QED
    BY <1>2, <2>1, RecoverV1Facts, V1LosesNothing
<1>3. CASE Next
  BY <1>2, <1>3, OutsideLosesNothing, ReadInotifyLosesNothing, PollForegroundLosesNothing,
     PollingLosesNothing, DeleteLosesNothing, CreateLosesNothing, PriorityLosesNothing,
     ReadingLosesNothing, ErrorLosesNothing, SyncLosesNothing, SyncErrorLosesNothing
     DEF Next, Proceed, HandleInotify, HandlePriority
<1> QED
  BY <1>1, <1>3

\* A directory that v2 is to watch is watched, announced or overlooked, whatever comes
\* between its creation and the handling of the announcement: further removals and
\* creations, a change of mind of the source, an error that drops the batch, a sync that
\* ends the watches on the roots (handle_root_path, set_v1_available,
\* sync_foreground_watch_paths).
THEOREM NothingIsLost == Spec => []NoLostCgroup
<1>1. LostInv => NoLostCgroup
  BY DEF LostInv, Known, Wanted, NoLostCgroup
<1>2. Inv /\ Typed /\ Typed' /\ LostInv /\ [Next]_vars => LostInv'
  BY NextLosesNothing
<1> QED
  BY <1>1, <1>2, InitLosesNothing, AutoInvariance, TypedInvariance, PTL DEF Spec

-----------------------------------------------------------------------------
(* What v2 watches is admitted.                                            *)

Admits(ws) == \A p \in Paths : ws[p].gen # 0 => UidOf[p] \in setting.valid

\* Watched, and about to be read, are only directories of uids that the filter admits.
AdmittedOK ==
    /\ Admits(watches)
    /\ pc = "reading" => Target \in Paths /\ UidOf[Target] \in setting.valid

LEMMA RescanAdmits ==
    ASSUME NEW ws, Admits(ws)
    PROVE  Admits(RescanRoots(ws))
<1> DEFINE kept == [p \in Paths |-> IF p \in alive THEN ws[p] ELSE NoWatch]
<1>1. Admits(kept)
  BY DEF Admits, NoWatch
<1> HIDE DEF kept
<1>2. \A p \in Paths : ScanRoots(kept)[p].gen # 0
                       => p \in Unwatched(kept) \/ kept[p].gen # 0
  BY DEF ScanRoots
<1>3. \A p \in Unwatched(kept) : UidOf[p] \in setting.valid
  BY DEF Unwatched, Admitted
<1>4. Admits(ScanRoots(kept))
  BY <1>1, <1>2, <1>3 DEF Admits
<1> QED
  BY <1>4 DEF RescanRoots, kept

LEMMA DropAdmits ==
    ASSUME Typed, Admits(watches), NEW p
    PROVE  Admits(Drop(watches, p))
<1>1. watches \in [Paths -> Watch]
  BY DEF Typed, SourceTyped, SourceTypeOK
<1> QED
  BY <1>1 DEF Admits, Drop, NoWatch

LEMMA AddAdmits ==
    ASSUME Typed, Admits(watches), NEW p \in Unwatched(watches)
    PROVE  Admits(AddUidWatch(watches, p))
<1>1. p \in Paths /\ UidOf[p] \in setting.valid
  BY DEF Unwatched, Admitted, Typed, TreeTyped
<1> QED
  BY <1>1, AddTyped DEF Admits

LEMMA PollAdmits ==
    ASSUME Typed, Admits(watches)
    PROVE  Admits(PollCurrentWatches(watches))
<1> DEFINE read == [p \in Paths |->
                      IF p \in (Visited(watches) \ denied) \cap alive
                      THEN [watches[p] EXCEPT !.populated = ReadPopulated(p)]
                      ELSE watches[p]]
<1>1. watches \in [Paths -> Watch]
  BY DEF Typed, SourceTyped, SourceTypeOK
<1>2. \A p \in Paths : read[p].gen = watches[p].gen
  BY <1>1 DEF Watch
<1>3. Admits(read)
  BY <1>2 DEF Admits
<1>4. PollCurrentWatches(watches) \in {read, RescanRoots(read)}
  BY DEF PollCurrentWatches
<1> HIDE DEF read
<1> QED
  BY <1>3, <1>4, RescanAdmits

\* The admission of a map of watches is unaffected by the step that installs it.
LEMMA AdmitsStays ==
    ASSUME NEW ws, Admits(ws), watches' = ws, UNCHANGED setting
    PROVE  Admits(watches)'
BY DEF Admits

LEMMA NextKeepsAdmitted == Inv /\ Typed /\ AdmittedOK /\ [Next]_vars => AdmittedOK'
<1> SUFFICES ASSUME Inv, Typed, AdmittedOK, [Next]_vars PROVE AdmittedOK'
  OBVIOUS
<1>1. UNCHANGED setting
  BY DEF Next, Overlook, vars
<1>2. ASSUME UNCHANGED watches, pc' = "reading" => pc = "reading" /\ UNCHANGED <<inq, cur>>
      PROVE  AdmittedOK'
  BY <1>1, <1>2 DEF AdmittedOK, Admits, Target
<1>3. ASSUME NEW ws, Admits(ws), watches' = ws, pc' # "reading"
      PROVE  AdmittedOK'
  BY <1>1, <1>3, AdmitsStays DEF AdmittedOK
<1>4. CASE Tree \/ (\E app \in TopApps : ChangeTop(app)) \/ ToggleReadable
  <2>1. UNCHANGED programVars
    BY <1>4 DEF Tree, ChangeTop, ToggleReadable
  <2> QED
    BY <1>2, <2>1 DEF programVars, sourceVars, callVars
<1>5. CASE ReadInotify \/ Sync \/ SyncFails
  <2>1. UNCHANGED watches /\ pc' # "reading"
    BY <1>5 DEF ReadInotify, Sync, SyncFails, sourceVars
  <2> QED
    BY <1>2, <2>1
<1>6. CASE ActivityError \/ AskActivity \/ HandleCreateKnown \/ HandleWithV1
           \/ \E p \in Paths : HandlePriorityWithV1(p)
  <2>1. UNCHANGED watches /\ pc' # "reading"
    BY <1>6, RecoverV1Facts, ReturnBusy
       DEF ActivityError, AskActivity, HandleCreateKnown, HandleWithV1, HandlePriorityWithV1, KeepV2
  <2> QED
    BY <1>2, <2>1
<1>7. CASE HandlePolling \/ PollCurrentForeground
  <2>1. watches' \in {watches, PollCurrentWatches(watches)} /\ pc' # "reading"
    BY <1>7, ReturnBusy
       DEF HandlePolling, PollCurrentForeground, PollSources, KeepV2, Replace, Install
  <2> QED
    BY <1>3, <2>1, PollAdmits DEF AdmittedOK
<1>8. CASE HandleDelete
  <2>1. watches' = Drop(watches, Head(inq).at) /\ pc' # "reading"
    BY <1>8, ReturnBusy DEF HandleDelete, Replace, Install
  <2> QED
    BY <1>3, <2>1, DropAdmits DEF AdmittedOK
<1>9. CASE HandleCreateNew
  <2> DEFINE q == Head(inq).at
  <2>1. /\ q \in Unwatched(watches) /\ watches' = AddUidWatch(watches, q)
        /\ cur = NoPath /\ UNCHANGED <<inq, cur>>
    BY <1>9 DEF HandleCreateNew, Replace, Install, InHand, Inv, CallOK
  <2>2. Admits(watches)'
    BY <1>1, <2>1, AddAdmits, AdmitsStays DEF AdmittedOK
  <2>3. q \in Paths /\ UidOf[q] \in setting.valid
    BY <2>1 DEF Unwatched, Admitted, Typed, TreeTyped
  <2>4. Target' = q
    BY <2>1 DEF Target
  <2> QED
    BY <1>1, <2>2, <2>3, <2>4 DEF AdmittedOK
<1>10. CASE \E p \in Paths : HandleStalePriorityEvent(p)
  <2>1. PICK p \in Paths : HandleStalePriorityEvent(p)
    BY <1>10
  <2>2. watches' = RescanRoots(Drop(watches, p)) /\ pc' # "reading"
    BY <2>1 DEF HandleStalePriorityEvent, HandleStaleEventsPath, Replace, Install
  <2> QED
    BY <1>3, <2>2, DropAdmits, RescanAdmits DEF AdmittedOK
<1>11. CASE \E p \in Paths : CheckPriorityEvent(p)
  <2>1. PICK p \in Paths : CheckPriorityEvent(p)
    BY <1>11
  <2>2. UNCHANGED watches /\ cur' = p /\ watches[p].gen # 0 /\ p # NoPath
    BY <2>1, PathsAssumption DEF CheckPriorityEvent, KeepV2, News, Ready, NoPath
  <2>3. Target' = p
    BY <2>2 DEF Target
  <2> QED
    BY <1>1, <2>2, <2>3 DEF AdmittedOK, Admits
<1>12. CASE ReadV2
  <2>1. watches' = SetPopulated(watches, Target, ReadPopulated(Target)) /\ pc' # "reading"
    BY <1>12, ReturnBusy DEF ReadV2
  <2>2. watches \in [Paths -> Watch]
    BY DEF Typed, SourceTyped, SourceTypeOK
  <2>3. \A p \in Paths : watches'[p].gen = watches[p].gen
    BY <2>1, <2>2 DEF SetPopulated, Watch
  <2>4. Admits(watches)'
    BY <1>1, <2>3 DEF AdmittedOK, Admits
  <2> QED
    BY <2>1, <2>4 DEF AdmittedOK
<1>13. CASE UNCHANGED vars
  BY <1>2, <1>13 DEF vars, sourceVars, callVars
<1> QED
  BY <1>4, <1>5, <1>6, <1>7, <1>8, <1>9, <1>10, <1>11, <1>12, <1>13
     DEF Next, Proceed, HandleInotify, HandlePriority

-----------------------------------------------------------------------------
(* What is reported is what its source says.                               *)

LEMMA ActiveIsReportable == Typed => Active \in SUBSET Reportable
BY DEF Typed, TreeTyped, CallTyped, Active, Reportable

\* A step that reports nothing is a change of what the sources would say, or of nothing.
LEMMA SilenceImplements ==
    ASSUME Typed', UNCHANGED lastPayload
    PROVE  Reports!Next
<1>1. Active' \in SUBSET Reportable
  <2>1. (Active \in SUBSET Reportable)'
    BY ActiveIsReportable, PTL
  <2> QED
    BY <2>1 DEF Reportable
<1> QED
  BY <1>1 DEF Reports!Next, Reports!Change

LEMMA ReturnImplements ==
    ASSUME Typed, Typed', NEW candidate, Return(candidate), UNCHANGED Active,
           candidate.app # NoCandidate => candidate \in Active
    PROVE  Reports!Next
<1>1. CASE lastPayload' = lastPayload
  BY <1>1, SilenceImplements
<1>2. CASE lastPayload' # lastPayload
  <2>1. lastPayload' = candidate /\ candidate \in Active
    BY <1>2 DEF Return, Report
  <2>2. candidate \in Reportable
    BY <2>1, ActiveIsReportable
  <2>3. Reports!Report(candidate)
    BY <1>2, <2>1 DEF Reports!Report
  <2> QED
    BY <2>2, <2>3 DEF Reports!Next
<1> QED
  BY <1>1, <1>2

LEMMA NobodyImplements == ASSUME Typed', Return(Nobody) PROVE Reports!Next
BY NobodyReported, SilenceImplements

\* A directory that is read as populated is one of v2's.
LEMMA ReadIsActive ==
    ASSUME NEW p \in Paths, UidOf[p] \in setting.valid, CandidateAt(p) # NoCandidate
    PROVE  From("v2", CandidateAt(p)) \in Active
<1>1. p \in populated /\ UidOf[p] \in setting.named /\ CandidateAt(p) = UidOf[p]
  BY DEF CandidateAt, CandidateForUid
<1> QED
  BY <1>1 DEF Active

LEMMA V2CurrentIsActive ==
    ASSUME Typed, AdmittedOK, V2Current # NoCandidate
    PROVE  From("v2", V2Current) \in Active
<1> DEFINE S == ActiveCandidates(watches)
           first == CHOOSE p \in S : \A q \in S : p <= q
<1>1. S # {} /\ V2Current = CandidateAt(first)
  BY DEF V2Current
<1>2. S \subseteq Paths /\ S \subseteq Nat
  BY PathsAssumption DEF ActiveCandidates, Watched
<1>3. first \in S
  BY <1>1, <1>2, SmallestExists
<1>4. first \in Paths /\ UidOf[first] \in setting.valid
  BY <1>2, <1>3 DEF ActiveCandidates, Watched, AdmittedOK, Admits
<1> HIDE DEF first
<1> QED
  BY <1>1, <1>4, ReadIsActive

LEMMA StepImplements ==
    ASSUME Inv, Typed, Typed', AdmittedOK, [Next]_vars
    PROVE  Reports!Next \/ UNCHANGED lastPayload
<1>1. CASE \/ Tree
           \/ \E app \in TopApps : ChangeTop(app)
           \/ ToggleReadable \/ ReadInotify \/ PollCurrentForeground \/ HandleCreateNew
           \/ ActivityError \/ Sync \/ SyncFails
           \/ \E p \in Paths : HandleStalePriorityEvent(p) \/ CheckPriorityEvent(p)
           \/ UNCHANGED vars
  BY <1>1 DEF Tree, ChangeTop, ToggleReadable, programVars, ReadInotify, PollCurrentForeground,
              HandleCreateNew, ActivityError, Sync, SyncFails, HandleStalePriorityEvent, CheckPriorityEvent,
              vars
<1>2. ASSUME Overlook, KeepTree, UNCHANGED v1Vars
      PROVE  UNCHANGED Active
  BY <1>2 DEF Overlook, KeepTree, v1Vars, Active
<1>3. CASE HandleDelete \/ HandleCreateKnown
  BY <1>3, NobodyImplements DEF HandleDelete, HandleCreateKnown
<1>4. CASE Overlook /\ (HandleWithV1 \/ \E p \in Paths : HandlePriorityWithV1(p))
  <2>1. RecoverV1 /\ UNCHANGED Active
    BY <1>2, <1>4 DEF HandleWithV1, HandlePriorityWithV1
  <2>2. CASE v1Available
    BY <2>1, <2>2, NobodyImplements DEF RecoverV1
  <2>3. CASE ~v1Available
    <3>1. Return(From("v1", top)) /\ From("v1", top) \in Active
      BY <2>1, <2>3 DEF RecoverV1, Active
    <3> QED
      BY <2>1, <3>1, ReturnImplements
  <2> QED
    BY <2>2, <2>3
<1>5. CASE Overlook /\ HandlePolling
  <2>1. UNCHANGED Active /\ Return(Polled)
    BY <1>2, <1>5 DEF HandlePolling
  <2>2. Polled.app # NoCandidate => Polled \in Active
    <3>1. CASE readable
      BY <3>1 DEF Polled, Active
    <3>2. CASE ~readable
      BY <3>2, V2CurrentIsActive DEF Polled, From
    <3> QED
      BY <3>1, <3>2
  <2> QED
    BY <2>1, <2>2, ReturnImplements
<1>6. CASE Overlook /\ ReadV2
  <2>1. UNCHANGED Active /\ Return(From("v2", CandidateAt(Target)))
    BY <1>2, <1>6 DEF ReadV2
  <2>2. Target \in Paths /\ UidOf[Target] \in setting.valid
    BY <1>6 DEF ReadV2, AdmittedOK
  <2>3. From("v2", CandidateAt(Target)).app = CandidateAt(Target)
    BY DEF From
  <2> QED
    BY <2>1, <2>2, <2>3, ReadIsActive, ReturnImplements
<1>7. CASE Overlook /\ AskActivity
  <2>1. UNCHANGED Active
    BY <1>2, <1>7 DEF AskActivity
  <2>2. PICK app \in ActivityApps : Return(From("activity", app))
    BY <1>7 DEF AskActivity
  <2>3. From("activity", app) \in Active
    BY DEF Active
  <2> QED
    BY <2>1, <2>2, <2>3, ReturnImplements
<1> QED
  BY <1>1, <1>3, <1>4, <1>5, <1>6, <1>7 DEF Next, Proceed, HandleInotify, HandlePriority

\* A report is what its source says at that moment, and another than the one before: also
\* of a directory that was looked at in one step and read in another, and in up to three
\* attempts at one event (handle_events_path, handle_root_path, poll_current, filter_changed).
THEOREM ReportsAreTrue == Spec => ImplementsReports
<1>1. Init => Reports!Init /\ AdmittedOK
  <2> SUFFICES ASSUME Init PROVE Reports!Init /\ AdmittedOK
    OBVIOUS
  <2>1. Typed /\ lastPayload = Nobody
    BY InitTyped DEF Init
  <2>2. Reports!Init
    BY <2>1, ActiveIsReportable DEF Reports!Init
  <2>3. /\ watches = [p \in Paths |->
                        IF p \in Admitted THEN NewWatch(1 + Rank(p, Admitted), inc[p])
                        ELSE NoWatch]
        /\ pc = "new"
    BY DEF Init, SourceInit
  <2>4. AdmittedOK
    BY <2>3 DEF AdmittedOK, Admits, Admitted, NoWatch
  <2> QED
    BY <2>2, <2>4
<1>2. Inv /\ Typed /\ Typed' /\ AdmittedOK /\ [Next]_vars => [Reports!Next]_(Reports!vars)
  <2> SUFFICES ASSUME Inv, Typed, Typed', AdmittedOK, [Next]_vars PROVE Reports!Next
    OBVIOUS
  <2> QED
    BY StepImplements, SilenceImplements
<1> QED
  BY <1>1, <1>2, NextKeepsAdmitted, AutoInvariance, TypedInvariance, PTL
     DEF Spec, ImplementsReports, Reports!Spec

=============================================================================
