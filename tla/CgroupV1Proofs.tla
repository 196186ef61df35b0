---------------------------- MODULE CgroupV1Proofs ----------------------------
(***************************************************************************)
(* The choice of resolve_payload, for every set of processes, every package *)
(* cache and any number of them in the group.                              *)
(*                                                                         *)
(* The choice is made line by line, so what a step keeps is the choice     *)
(* among the lines already looked at (ChosenSoFar); the order of the lines *)
(* has no part in it, and the last line leaves the choice among all.       *)
(***************************************************************************)
EXTENDS CgroupV1, SequenceTheorems, TLAPS

Coherent(c) ==
    c # None =>
        /\ c.uid \in ValidUids
        /\ c.package \notin BlockedPackages
        /\ c.uid >= MinAppUid /\ PackagesOf[c.uid] # {} => c.package \in PackagesOf[c.uid]

CoherentSoFar == Coherent(best) /\ Coherent(result)

\* What ChoosesTheTopApp says of all processes listed, for some of them.
PreferredOf(seen) ==
    IF WithUi \cap seen # {} THEN WithUi \cap seen ELSE Eligible \cap seen

IsChoice(c, seen) ==
    IF Eligible \cap seen = {}
    THEN c = None
    ELSE /\ c.pid \in PreferredOf(seen)
         /\ \A pid \in PreferredOf(seen) : pid <= c.pid
         /\ c.uid = proc[c.pid].uid
         /\ Represents(c.pid, c.package)
         /\ c.ui <=> WithUi \cap seen # {}

\* The lines are gone through one by one: those seen and those to come are the list.
Progress ==
    pc # "idle" => \E seen \in SUBSET ToSet(group) :
        /\ seen \cup ToSet(lines) = ToSet(group)
        /\ IsChoice(best, seen)

\* What has been read of the process in hand is still so.
ReadRight ==
    /\ pc \in {"cmdline", "fallback"} => Running(Pid) /\ Pid >= MinPid /\ uid = proc[Pid].uid
    /\ pc = "fallback" => ~CmdlineInfo

ChosenSoFar ==
    undisturbed =>
        /\ Progress
        /\ ReadRight
        /\ pc = "idle" => IsChoice(result, ToSet(group))

-----------------------------------------------------------------------------
(* Lists of pids.                                                          *)

LEMMA ReverseKeepsPids ==
    ASSUME NEW S, NEW s \in Seq(S)
    PROVE  Reverse(s) \in Seq(S) /\ ToSet(Reverse(s)) = ToSet(s)
<1>1. Len(s) \in Nat /\ DOMAIN s = 1..Len(s) /\ s \in [1..Len(s) -> S]
  BY LenProperties
<1>2. Reverse(s) \in [1..Len(s) -> S]
  BY <1>1 DEF Reverse
<1>3. Reverse(s) \in Seq(S)
  BY <1>1, <1>2, SeqDef
<1>4. \A i \in 1..Len(s) : Reverse(s)[i] = s[(Len(s) - i) + 1]
  BY DEF Reverse
<1>5. DOMAIN Reverse(s) = 1..Len(s)
  BY DEF Reverse
<1>6. \A i \in 1..Len(s) : (Len(s) - i) + 1 \in 1..Len(s) /\ (Len(s) - ((Len(s) - i) + 1)) + 1 = i
  BY <1>1
<1>7. \A i \in 1..Len(s) : s[i] = Reverse(s)[(Len(s) - i) + 1]
  BY <1>4, <1>6
<1> QED
  BY <1>1, <1>3, <1>4, <1>5, <1>6, <1>7 DEF ToSet

LEMMA HeadAndRest ==
    ASSUME NEW S, NEW s \in Seq(S), s # <<>>
    PROVE  /\ Head(s) \in S
           /\ Tail(s) \in Seq(S)
           /\ ToSet(s) = {Head(s)} \cup ToSet(Tail(s))
<1>1. Len(s) \in Nat \ {0} /\ DOMAIN s = 1..Len(s)
  BY LenProperties, EmptySeq
<1>2. /\ Head(s) \in S
      /\ Tail(s) \in Seq(S)
      /\ Len(Tail(s)) = Len(s) - 1
      /\ \A i \in 1..Len(Tail(s)) : Tail(s)[i] = s[i + 1]
  BY HeadTailProperties
<1>3. DOMAIN Tail(s) = 1..(Len(s) - 1)
  BY <1>2, LenProperties
<1>4. Head(s) = s[1]
  OBVIOUS
<1>5. \A i \in 1..Len(s) : i = 1 \/ (i - 1 \in 1..(Len(s) - 1) /\ (i - 1) + 1 = i)
  BY <1>1
<1>6. \A i \in 1..(Len(s) - 1) : i + 1 \in 1..Len(s)
  BY <1>1
<1>7. ToSet(s) \subseteq {Head(s)} \cup ToSet(Tail(s))
  <2> SUFFICES ASSUME NEW i \in 1..Len(s) PROVE s[i] \in {Head(s)} \cup ToSet(Tail(s))
    BY <1>1 DEF ToSet
  <2>1. CASE i = 1
    BY <2>1, <1>4
  <2>2. CASE i # 1
    <3>1. i - 1 \in DOMAIN Tail(s) /\ Tail(s)[i - 1] = s[i]
      BY <2>2, <1>2, <1>3, <1>5
    <3> QED
      BY <3>1 DEF ToSet
  <2> QED
    BY <2>1, <2>2
<1>8. {Head(s)} \cup ToSet(Tail(s)) \subseteq ToSet(s)
  <2>1. Head(s) \in ToSet(s)
    BY <1>1, <1>4 DEF ToSet
  <2>2. ASSUME NEW i \in 1..(Len(s) - 1) PROVE Tail(s)[i] \in ToSet(s)
    <3>1. i + 1 \in DOMAIN s /\ Tail(s)[i] = s[i + 1]
      BY <1>1, <1>2, <1>6
    <3> QED
      BY <3>1 DEF ToSet
  <2> QED
    BY <2>1, <2>2, <1>3 DEF ToSet
<1> QED
  BY <1>2, <1>7, <1>8

NoRepetition(s) == \A i, j \in DOMAIN s : s[i] = s[j] => i = j

LEMMA InsertedPid ==
    ASSUME NEW S, NEW s \in Seq(S), NEW e \in S, NoRepetition(s), e \notin ToSet(s),
           NEW i \in 1..Len(s) + 1
    PROVE  /\ InsertAt(s, i, e) \in Seq(S)
           /\ NoRepetition(InsertAt(s, i, e))
           /\ ToSet(InsertAt(s, i, e)) = ToSet(s) \cup {e}
<1> DEFINE n == Len(s)
           a == SubSeq(s, 1, i - 1)
           b == SubSeq(s, i, n)
           t == InsertAt(s, i, e)
<1>1. n \in Nat /\ DOMAIN s = 1..n /\ i \in 1..n + 1 /\ \A k \in 1..n : s[k] \in S
  BY LenProperties, ElementOfSeq
<1>2. a \in Seq(S) /\ Len(a) = i - 1 /\ \A k \in 1..i - 1 : a[k] = s[k]
  <2>1. \A k \in 1..i - 1 : s[k] \in S
    BY <1>1
  <2>2. /\ a \in Seq(S)
        /\ Len(a) = IF 1 <= i - 1 THEN (i - 1) - 1 + 1 ELSE 0
        /\ \A k \in 1..(i - 1) - 1 + 1 : a[k] = s[1 + k - 1]
    BY <2>1, <1>1, SubSeqProperties
  <2> QED
    BY <2>2, <1>1
<1>3. b \in Seq(S) /\ Len(b) = n - i + 1 /\ \A k \in 1..n - i + 1 : b[k] = s[i + k - 1]
  <2>1. \A k \in i..n : s[k] \in S
    BY <1>1
  <2>2. /\ b \in Seq(S)
        /\ Len(b) = IF i <= n THEN n - i + 1 ELSE 0
        /\ \A k \in 1..n - i + 1 : b[k] = s[i + k - 1]
    BY <2>1, <1>1, SubSeqProperties
  <2> QED
    BY <2>2, <1>1
<1>4. <<e>> \in Seq(S) /\ Len(<<e>>) = 1 /\ <<e>>[1] = e
  OBVIOUS
<1>5. /\ a \o <<e>> \in Seq(S)
      /\ Len(a \o <<e>>) = i
      /\ \A k \in 1..i : (a \o <<e>>)[k] = IF k < i THEN s[k] ELSE e
  <2>1. /\ a \o <<e>> \in Seq(S)
        /\ Len(a \o <<e>>) = Len(a) + Len(<<e>>)
        /\ \A k \in 1..Len(a) + Len(<<e>>) :
              (a \o <<e>>)[k] = IF k <= Len(a) THEN a[k] ELSE <<e>>[k - Len(a)]
    BY <1>2, <1>4, ConcatProperties
  <2> HIDE DEF a, b, n
  <2> QED
    BY <2>1, <1>1, <1>2, <1>4
<1>6. /\ t \in Seq(S)
      /\ Len(t) = n + 1
      /\ \A k \in 1..n + 1 : t[k] = IF k < i THEN s[k] ELSE IF k = i THEN e ELSE s[k - 1]
  <2> DEFINE c == a \o <<e>>
  <2>1. /\ c \o b \in Seq(S)
        /\ Len(c \o b) = Len(c) + Len(b)
        /\ \A k \in 1..Len(c) + Len(b) : (c \o b)[k] = IF k <= Len(c) THEN c[k] ELSE b[k - Len(c)]
    BY <1>3, <1>5, ConcatProperties
  <2>2. t = c \o b
    BY DEF InsertAt
  <2>3. /\ Len(c) = i
        /\ \A k \in 1..i : c[k] = IF k < i THEN s[k] ELSE e
    BY <1>5
  <2> HIDE DEF a, b, c, n, t
  <2>4. Len(t) = n + 1
    BY <2>1, <2>2, <2>3, <1>1, <1>3
  <2>5. ASSUME NEW k \in 1..n + 1
        PROVE  t[k] = IF k < i THEN s[k] ELSE IF k = i THEN e ELSE s[k - 1]
    <3>1. CASE k <= i
      BY <3>1, <2>1, <2>2, <2>3, <1>1, <1>3
    <3>2. CASE k > i
      <4>1. k - i \in 1..n - i + 1 /\ i + (k - i) - 1 = k - 1
        BY <3>2, <1>1
      <4>2. t[k] = b[k - i]
        BY <3>2, <2>1, <2>2, <2>3, <1>1, <1>3
      <4> QED
        BY <4>1, <4>2, <3>2, <1>1, <1>3
    <3> QED
      BY <3>1, <3>2, <1>1
  <2> QED
    BY <2>1, <2>2, <2>4, <2>5
<1>7. DOMAIN t = 1..n + 1
  BY <1>6, LenProperties
<1> HIDE DEF a, b, t
<1>8. \A k \in 1..n : s[k] # e
  BY <1>1 DEF ToSet
<1>9. NoRepetition(t)
  <2> SUFFICES ASSUME NEW j \in 1..n + 1, NEW k \in 1..n + 1, t[j] = t[k] PROVE j = k
    BY <1>7 DEF NoRepetition
  <2> HIDE DEF n
  <2> QED
    BY <1>1, <1>6, <1>8 DEF NoRepetition
<1>10. ToSet(t) = ToSet(s) \cup {e}
  <2>1. \A k \in 1..n + 1 : t[k] \in ToSet(s) \cup {e}
    BY <1>1, <1>6 DEF ToSet
  <2>2. t[i] = e /\ i \in DOMAIN t
    BY <1>1, <1>6, <1>7
  <2>3. ASSUME NEW k \in 1..n PROVE s[k] \in ToSet(t)
    <3>1. CASE k < i
      BY <3>1, <1>1, <1>6, <1>7 DEF ToSet
    <3>2. CASE k >= i
      <4>1. k + 1 \in 1..n + 1 /\ t[k + 1] = s[k]
        BY <3>2, <1>1, <1>6
      <4> QED
        BY <4>1, <1>7 DEF ToSet
    <3> QED
      BY <3>1, <3>2, <1>1
  <2> QED
    BY <2>1, <2>2, <2>3, <1>1, <1>7 DEF ToSet
<1> QED
  BY <1>6, <1>9, <1>10 DEF t

LEMMA RemovedPid ==
    ASSUME NEW S, NEW s \in Seq(S), NoRepetition(s), NEW i \in DOMAIN s
    PROVE  /\ RemoveAt(s, i) \in Seq(S)
           /\ NoRepetition(RemoveAt(s, i))
           /\ ToSet(RemoveAt(s, i)) = ToSet(s) \ {s[i]}
<1> DEFINE n == Len(s)
           a == SubSeq(s, 1, i - 1)
           b == SubSeq(s, i + 1, n)
           t == RemoveAt(s, i)
<1>1. n \in Nat /\ DOMAIN s = 1..n /\ i \in 1..n /\ \A k \in 1..n : s[k] \in S
  BY LenProperties, ElementOfSeq
<1>2. a \in Seq(S) /\ Len(a) = i - 1 /\ \A k \in 1..i - 1 : a[k] = s[k]
  <2>1. \A k \in 1..i - 1 : s[k] \in S
    BY <1>1
  <2>2. /\ a \in Seq(S)
        /\ Len(a) = IF 1 <= i - 1 THEN (i - 1) - 1 + 1 ELSE 0
        /\ \A k \in 1..(i - 1) - 1 + 1 : a[k] = s[1 + k - 1]
    BY <2>1, <1>1, SubSeqProperties
  <2> QED
    BY <2>2, <1>1
<1>3. b \in Seq(S) /\ Len(b) = n - i /\ \A k \in 1..n - i : b[k] = s[i + k]
  <2>1. \A k \in i + 1..n : s[k] \in S
    BY <1>1
  <2>2. /\ b \in Seq(S)
        /\ Len(b) = IF i + 1 <= n THEN n - (i + 1) + 1 ELSE 0
        /\ \A k \in 1..n - (i + 1) + 1 : b[k] = s[(i + 1) + k - 1]
    BY <2>1, <1>1, SubSeqProperties
  <2> QED
    BY <2>2, <1>1
<1>4. /\ t \in Seq(S)
      /\ Len(t) = n - 1
      /\ \A k \in 1..n - 1 : t[k] = IF k < i THEN s[k] ELSE s[k + 1]
  <2>1. /\ a \o b \in Seq(S)
        /\ Len(a \o b) = Len(a) + Len(b)
        /\ \A k \in 1..Len(a) + Len(b) : (a \o b)[k] = IF k <= Len(a) THEN a[k] ELSE b[k - Len(a)]
    BY <1>2, <1>3, ConcatProperties
  <2>2. t = a \o b
    BY DEF RemoveAt
  <2> HIDE DEF a, b, n, t
  <2>3. Len(t) = n - 1
    BY <2>1, <2>2, <1>1, <1>2, <1>3
  <2>4. ASSUME NEW k \in 1..n - 1 PROVE t[k] = IF k < i THEN s[k] ELSE s[k + 1]
    <3>1. CASE k < i
      BY <3>1, <2>1, <2>2, <1>1, <1>2, <1>3
    <3>2. CASE k >= i
      <4>1. k - (i - 1) \in 1..n - i /\ i + (k - (i - 1)) = k + 1
        BY <3>2, <1>1
      <4>2. t[k] = b[k - (i - 1)]
        BY <3>2, <2>1, <2>2, <1>1, <1>2, <1>3
      <4>3. b[k - (i - 1)] = s[k + 1]
        BY <4>1, <1>3
      <4> QED
        BY <4>2, <4>3, <3>2, <1>1
    <3> QED
      BY <3>1, <3>2, <1>1
  <2> QED
    BY <2>1, <2>2, <2>3, <2>4
<1>5. DOMAIN t = 1..n - 1
  BY <1>4, LenProperties
<1> HIDE DEF a, b, t
<1>6. NoRepetition(t)
  <2> SUFFICES ASSUME NEW j \in 1..n - 1, NEW k \in 1..n - 1, t[j] = t[k] PROVE j = k
    BY <1>5 DEF NoRepetition
  <2> DEFINE at(m) == IF m < i THEN m ELSE m + 1
  <2> HIDE DEF n
  <2>1. at(j) \in 1..n /\ at(k) \in 1..n /\ s[at(j)] = s[at(k)]
    BY <1>1, <1>4
  <2>2. at(j) = at(k)
    BY <2>1, <1>1 DEF NoRepetition
  <2> QED
    BY <2>2, <1>1
<1>7. ToSet(t) = ToSet(s) \ {s[i]}
  <2>1. ASSUME NEW k \in 1..n - 1 PROVE t[k] \in ToSet(s) \ {s[i]}
    <3>1. \E j \in 1..n : j # i /\ t[k] = s[j]
      BY <1>1, <1>4
    <3> QED
      BY <3>1, <1>1 DEF ToSet, NoRepetition
  <2>2. ASSUME NEW k \in 1..n, s[k] # s[i] PROVE s[k] \in ToSet(t)
    <3>1. CASE k < i
      BY <3>1, <1>1, <1>4, <1>5 DEF ToSet
    <3>2. CASE k > i
      <4>1. k - 1 \in 1..n - 1 /\ t[k - 1] = s[k]
        BY <3>2, <1>1, <1>4
      <4> QED
        BY <4>1, <1>5 DEF ToSet
    <3>3. k # i
      BY <2>2
    <3> QED
      BY <3>1, <3>2, <3>3, <1>1
  <2> QED
    BY <2>1, <2>2, <1>1, <1>5 DEF ToSet
<1> QED
  BY <1>4, <1>6, <1>7 DEF t

-----------------------------------------------------------------------------
(* Types.                                                                  *)

LEMMA V1Constants ==
    /\ Pids \subseteq Nat
    /\ Uids \subseteq Nat
    /\ Packages \cap {Other, Empty} = {}
    /\ ValidUids \subseteq Uids
    /\ \A p \in Processes : p.uid \in Uids /\ p.ui \in BOOLEAN
    /\ \A u \in Uids : PackagesOf[u] \subseteq Packages
BY V1Assumption DEF Process

LEMMA InitTypeOK == Init => TypeOK
<1> SUFFICES ASSUME Init PROVE TypeOK
  OBVIOUS
<1>1. group = <<>> /\ group \in Seq(Pids) /\ DOMAIN group = {} /\ lines \in Seq(Pids)
  BY EmptySeq DEF Init
<1>2. proc = <<>> /\ DOMAIN proc = {} /\ proc \in [DOMAIN proc -> Processes]
  BY DEF Init
<1>3. ToSet(group) = {}
  BY <1>1 DEF ToSet
<1> QED
  BY <1>1, <1>2, <1>3 DEF Init, TypeOK

\* Where the lines go.
LEMMA PidInHand ==
    ASSUME TypeOK, lines # <<>>
    PROVE  /\ Pid \in Pids
           /\ Tail(lines) \in Seq(Pids)
           /\ ToSet(lines) = {Pid} \cup ToSet(Tail(lines))
BY HeadAndRest DEF TypeOK, Pid

\* What Consider may take up.
LEMMA ConsiderKeepsType ==
    ASSUME TypeOK, lines # <<>>, uid \in Uids, NEW package \in Packages, NEW ui \in BOOLEAN,
           Consider(package, ui)
    PROVE  best' \in Candidate \cup {None}
<1> DEFINE c == [pid |-> Pid, uid |-> uid, package |-> package, ui |-> ui]
<1>1. c \in Candidate
  BY PidInHand DEF Candidate
<1>2. best' = c \/ best' = best
  BY DEF Consider
<1> QED
  BY <1>1, <1>2 DEF TypeOK

LEMMA ReadPayloadTypeOK == ASSUME TypeOK, ReadPayload PROVE TypeOK'
<1>1. lines' \in Seq(Pids)
  BY ReverseKeepsPids DEF TypeOK, ReadPayload
<1>2. {best, result}' \subseteq Candidate \cup {None}
  BY DEF TypeOK, ReadPayload
<1> QED
  BY <1>1, <1>2 DEF TypeOK, ReadPayload, envVars

LEMMA NextLineTypes ==
    ASSUME TypeOK, lines # <<>>, NextLine, UNCHANGED <<envVars, result, undisturbed>>,
           best' \in Candidate \cup {None}
    PROVE  TypeOK'
<1>1. lines' \in Seq(Pids) /\ pc' = "line" /\ uid' = 0
  BY PidInHand DEF NextLine
<1>2. {best, result}' \subseteq Candidate \cup {None}
  BY DEF TypeOK
<1> QED
  BY <1>1, <1>2 DEF TypeOK, envVars

LEMMA SkipLineTypeOK == ASSUME TypeOK, SkipLine PROVE TypeOK'
<1>1. best' \in Candidate \cup {None}
  BY DEF TypeOK, SkipLine
<1> QED
  BY <1>1, NextLineTypes DEF SkipLine

LEMMA UidForPidTypeOK == ASSUME TypeOK, UidForPid PROVE TypeOK'
<1>1. uid' \in Uids
  BY V1Constants DEF TypeOK, UidForPid, Running
<1>2. {best, result}' \subseteq Candidate \cup {None}
  BY DEF TypeOK, UidForPid
<1> QED
  BY <1>1, <1>2 DEF TypeOK, UidForPid, envVars

LEMMA ReadCmdlineTypeOK == ASSUME TypeOK, ReadCmdline PROVE TypeOK'
<1>1. lines # <<>> /\ uid \in Uids
  BY DEF TypeOK, ReadCmdline
<1>2. CASE CmdlineInfo
  <2>1. proc[Pid].package \in Packages /\ proc[Pid].ui \in BOOLEAN
    BY <1>2, V1Constants DEF CmdlineInfo, TypeOK, Running
  <2>2. NextLine /\ Consider(proc[Pid].package, proc[Pid].ui)
    BY <1>2 DEF ReadCmdline
  <2>3. best' \in Candidate \cup {None}
    BY <1>1, <2>1, <2>2, ConsiderKeepsType
  <2> QED
    BY <1>1, <2>2, <2>3, NextLineTypes DEF ReadCmdline
<1>3. CASE ~CmdlineInfo
  <2>1. {best, result}' \subseteq Candidate \cup {None}
    BY <1>3 DEF TypeOK, ReadCmdline
  <2> QED
    BY <1>1, <1>3, <2>1 DEF TypeOK, ReadCmdline, envVars
<1> QED
  BY <1>2, <1>3

LEMMA FallbackTypeOK == ASSUME TypeOK, Fallback PROVE TypeOK'
<1>1. lines # <<>> /\ uid \in Uids
  BY DEF TypeOK, Fallback
<1>2. best' \in Candidate \cup {None}
  <2>1. CASE \E package \in StoodFor : Consider(package, FALSE)
    BY <2>1, <1>1, ConsiderKeepsType DEF StoodFor
  <2>2. CASE UNCHANGED best
    BY <2>2 DEF TypeOK
  <2> QED
    BY <2>1, <2>2 DEF Fallback
<1> QED
  BY <1>1, <1>2, NextLineTypes DEF Fallback

LEMMA ReturnTypeOK == ASSUME TypeOK, Return PROVE TypeOK'
<1>1. {best, result}' \subseteq Candidate \cup {None}
  BY DEF TypeOK, Return
<1> QED
  BY <1>1 DEF TypeOK, Return, envVars

GroupTypeOK ==
    /\ DOMAIN proc \subseteq Pids
    /\ proc \in [DOMAIN proc -> Processes]
    /\ group \in Seq(Pids)
    /\ NoRepetition(group)
    /\ ToSet(group) = DOMAIN proc

LEMMA GroupIsTyped == TypeOK => GroupTypeOK
BY DEF TypeOK, GroupTypeOK, NoRepetition

LEMMA StartGroup ==
    ASSUME GroupTypeOK, NEW pid \in Pids, NEW p \in Processes, Start(pid, p)
    PROVE  GroupTypeOK'
<1>1. PICK i \in 1..Len(group) + 1 : group' = InsertAt(group, i, pid)
  BY DEF Start
<1>2. pid \notin ToSet(group)
  BY DEF Start, Running, GroupTypeOK
<1>3. group' \in Seq(Pids) /\ NoRepetition(group') /\ ToSet(group') = ToSet(group) \cup {pid}
  BY <1>1, <1>2, InsertedPid DEF GroupTypeOK
<1>4. DOMAIN proc' = DOMAIN proc \cup {pid} /\ proc' \in [DOMAIN proc' -> Processes]
  BY DEF Start, GroupTypeOK
<1>5. (NoRepetition(group))' <=> NoRepetition(group')
  BY DEF NoRepetition
<1> QED
  BY <1>3, <1>4, <1>5 DEF GroupTypeOK, ToSet

LEMMA TurnGroup ==
    ASSUME GroupTypeOK, NEW pid \in Pids, NEW p \in Processes, Turn(pid, p)
    PROVE  GroupTypeOK'
BY DEF GroupTypeOK, Turn, Running, NoRepetition, ToSet

LEMMA ExitGroup ==
    ASSUME GroupTypeOK, NEW pid \in Pids, Exit(pid)
    PROVE  GroupTypeOK'
<1>1. PICK i \in DOMAIN group : group[i] = pid /\ group' = RemoveAt(group, i)
  BY DEF Exit
<1>2. group' \in Seq(Pids) /\ NoRepetition(group') /\ ToSet(group') = ToSet(group) \ {pid}
  BY <1>1, RemovedPid DEF GroupTypeOK
<1>3. DOMAIN proc' = DOMAIN proc \ {pid} /\ proc' \in [DOMAIN proc' -> Processes]
  BY DEF Exit, GroupTypeOK
<1>4. (NoRepetition(group))' <=> NoRepetition(group')
  BY DEF NoRepetition
<1> QED
  BY <1>2, <1>3, <1>4 DEF GroupTypeOK, ToSet

LEMMA EnvironmentTypeOK == ASSUME TypeOK, Environment PROVE TypeOK'
<1>1. GroupTypeOK'
  BY GroupIsTyped, StartGroup, TurnGroup, ExitGroup DEF Environment
<1>2. {best, result}' \subseteq Candidate \cup {None}
  BY DEF TypeOK, Environment
<1> QED
  BY <1>1, <1>2 DEF TypeOK, Environment, GroupTypeOK, NoRepetition

\* The state of resolve_payload is of its types, and it has a uid in hand exactly when
\* it has a line in hand.
THEOREM V1TypeCorrect == Spec => []TypeOK
<1>1. Init => TypeOK
  BY InitTypeOK
<1>2. TypeOK /\ [Next]_vars => TypeOK'
  <2> SUFFICES ASSUME TypeOK, [Next]_vars PROVE TypeOK'
    OBVIOUS
  <2>1. CASE Environment
    BY <2>1, EnvironmentTypeOK
  <2>2. CASE ReadPayload
    BY <2>2, ReadPayloadTypeOK
  <2>3. CASE SkipLine
    BY <2>3, SkipLineTypeOK
  <2>4. CASE UidForPid
    BY <2>4, UidForPidTypeOK
  <2>5. CASE ReadCmdline
    BY <2>5, ReadCmdlineTypeOK
  <2>6. CASE Fallback
    BY <2>6, FallbackTypeOK
  <2>7. CASE Return
    BY <2>7, ReturnTypeOK
  <2>8. CASE UNCHANGED vars
    BY <2>8 DEF vars, envVars, TypeOK
  <2> QED
    BY <2>1, <2>2, <2>3, <2>4, <2>5, <2>6, <2>7, <2>8 DEF Next, ResolvePayload
<1> QED
  BY <1>1, <1>2, PTL DEF Spec

-----------------------------------------------------------------------------
(* The candidate's uid and package.                                        *)

LEMMA ConsiderIsCoherent ==
    ASSUME Coherent(best), NEW package, NEW ui, Consider(package, ui),
           uid \in ValidUids, package \notin BlockedPackages,
           uid >= MinAppUid /\ PackagesOf[uid] # {} => package \in PackagesOf[uid]
    PROVE  Coherent(best')
BY DEF Consider, Coherent

LEMMA CoherentStep == ASSUME CoherentSoFar, [Next]_vars PROVE CoherentSoFar'
<1> SUFFICES Coherent(best') /\ Coherent(result')
  BY DEF CoherentSoFar, Coherent
<1> USE DEF CoherentSoFar
<1>1. CASE Environment
  BY <1>1 DEF Environment
<1>2. CASE ReadPayload
  BY <1>2 DEF ReadPayload, Coherent
<1>3. CASE SkipLine \/ UidForPid
  BY <1>3 DEF SkipLine, UidForPid
<1>4. CASE ReadCmdline
  <2>1. CASE CmdlineInfo
    <3>1. Consider(proc[Pid].package, proc[Pid].ui) /\ UNCHANGED result
      BY <1>4, <2>1 DEF ReadCmdline
    <3> QED
      BY <2>1, <3>1, ConsiderIsCoherent DEF CmdlineInfo
  <2>2. CASE ~CmdlineInfo
    BY <1>4, <2>2 DEF ReadCmdline
  <2> QED
    BY <2>1, <2>2
<1>5. CASE Fallback
  <2>1. CASE \E package \in StoodFor : Consider(package, FALSE)
    <3>1. PICK package \in StoodFor : Consider(package, FALSE)
      BY <2>1
    <3>2. uid \in ValidUids /\ package \notin BlockedPackages /\ package \in PackagesOf[uid]
      BY DEF StoodFor, ForUid, Exact
    <3> QED
      BY <1>5, <3>1, <3>2, ConsiderIsCoherent DEF Fallback
  <2>2. CASE UNCHANGED best
    BY <1>5, <2>2 DEF Fallback
  <2> QED
    BY <1>5, <2>1, <2>2 DEF Fallback
<1>6. CASE Return
  BY <1>6 DEF Return, Coherent
<1>7. CASE UNCHANGED vars
  BY <1>7 DEF vars
<1> QED
  BY <1>1, <1>2, <1>3, <1>4, <1>5, <1>6, <1>7 DEF Next, ResolvePayload

\* Whatever the processes turn into between the reads of their uid and of their command
\* line, a candidate's package is one of its uid, and the filter admits both.
THEOREM CandidateAlwaysCoherent == Spec => []CandidateIsCoherent
<1>1. Init => CoherentSoFar
  BY DEF Init, CoherentSoFar, Coherent
<1>2. CoherentSoFar /\ [Next]_vars => CoherentSoFar'
  BY CoherentStep
<1>3. CoherentSoFar => CandidateIsCoherent
  BY DEF CoherentSoFar, Coherent, CandidateIsCoherent
<1> QED
  BY <1>1, <1>2, <1>3, PTL DEF Spec

-----------------------------------------------------------------------------
(* The choice.                                                             *)

LEMMA SameProcesses ==
    ASSUME UNCHANGED envVars
    PROVE  /\ Eligible' = Eligible
           /\ WithUi' = WithUi
           /\ \A seen : PreferredOf(seen)' = PreferredOf(seen)
<1>1. group' = group /\ proc' = proc
  BY DEF envVars
<1>2. Eligible' = Eligible
  BY <1>1 DEF Eligible, Represents, Named
<1>3. WithUi' = WithUi
  BY <1>1, <1>2 DEF WithUi, Named
<1> QED
  BY <1>2, <1>3 DEF PreferredOf

LEMMA SameChoice ==
    ASSUME UNCHANGED envVars, NEW seen
    PROVE  /\ IsChoice(best', seen) => IsChoice(best, seen)'
           /\ IsChoice(result', seen) => IsChoice(result, seen)'
BY SameProcesses DEF envVars, IsChoice, Represents, Named

LEMMA EligibleRuns ==
    ASSUME TypeOK
    PROVE  \A pid \in Eligible : Running(pid) /\ pid >= MinPid /\ pid \in Nat /\ pid # 0
<1>1. \A pid \in Eligible : Running(pid) /\ pid >= MinPid /\ pid \in Pids
  BY DEF TypeOK, Eligible, Running
<1>2. \A pid \in Eligible : pid \in Nat
  BY <1>1, V1Constants
<1>3. \A n \in Nat : n >= MinPid => n # 0
  BY DEF MinPid
<1> QED
  BY <1>1, <1>2, <1>3

\* A process that stands for nobody makes no difference.
LEMMA NobodySeen ==
    ASSUME NEW c, NEW seen, IsChoice(c, seen), NEW pid, pid \notin Eligible
    PROVE  IsChoice(c, seen \cup {pid})
<1>1. pid \notin WithUi
  BY DEF WithUi
<1>2. Eligible \cap (seen \cup {pid}) = Eligible \cap seen
  OBVIOUS
<1>3. WithUi \cap (seen \cup {pid}) = WithUi \cap seen
  BY <1>1
<1> QED
  BY <1>2, <1>3 DEF IsChoice, PreferredOf

\* One that stands for a package is weighed against the best before it.
LEMMA SomebodySeen ==
    ASSUME TypeOK, NEW seen, IsChoice(best, seen), lines # <<>>, Pid \in Eligible,
           uid = proc[Pid].uid, NEW package, Represents(Pid, package),
           NEW ui \in BOOLEAN, ui <=> Pid \in WithUi, Consider(package, ui)
    PROVE  IsChoice(best', seen \cup {Pid})
<1> DEFINE pid == Pid
           c == [pid |-> pid, uid |-> uid, package |-> package, ui |-> ui]
           all == seen \cup {pid}
<1>1. best' = IF IsBetter(c) THEN c ELSE best
  BY DEF Consider
<1>2. c.pid = pid /\ c.uid = uid /\ c.package = package /\ c.ui = ui
  OBVIOUS
<1>3. Eligible \cap all # {}
  OBVIOUS
<1>4. WithUi \subseteq Eligible
  BY DEF WithUi
<1>5. \A q \in Eligible : q \in Nat /\ q # 0
  BY EligibleRuns
<1> HIDE DEF c, pid
<1> SUFFICES /\ best'.pid \in PreferredOf(all)
             /\ \A q \in PreferredOf(all) : q <= best'.pid
             /\ best'.uid = proc[best'.pid].uid
             /\ Represents(best'.pid, best'.package)
             /\ best'.ui <=> WithUi \cap all # {}
  BY <1>3 DEF IsChoice, pid
<1>6. CASE Eligible \cap seen = {}
  <2>1. best = None /\ best' = c
    BY <1>1, <1>6 DEF IsChoice, IsBetter
  <2>2. Eligible \cap all = {pid} /\ WithUi \cap all = IF ui THEN {pid} ELSE {}
    BY <1>4, <1>6 DEF pid
  <2>3. PreferredOf(all) = {pid}
    BY <2>2 DEF PreferredOf
  <2>4. pid <= pid
    BY <1>5 DEF pid
  <2> QED
    BY <1>2, <2>1, <2>2, <2>3, <2>4 DEF pid
<1>7. CASE Eligible \cap seen # {}
  <2>1. /\ best.pid \in PreferredOf(seen)
        /\ \A q \in PreferredOf(seen) : q <= best.pid
        /\ best.uid = proc[best.pid].uid
        /\ Represents(best.pid, best.package)
        /\ best.ui <=> WithUi \cap seen # {}
    BY <1>7 DEF IsChoice
  <2>2. best.pid \in Eligible /\ best.pid \in Nat /\ best # None
    <3>1. best.pid \in Eligible
      BY <2>1, <1>4 DEF PreferredOf
    <3>2. best.pid # 0
      BY <3>1, <1>5
    <3> QED
      BY <3>1, <3>2, <1>5 DEF None
  <2>3. best.ui \in BOOLEAN
    BY <2>2 DEF TypeOK, Candidate
  <2>4. IsBetter(c) <=> (ui /\ ~best.ui) \/ (ui = best.ui /\ pid > best.pid)
    BY <1>2, <2>2 DEF IsBetter
  <2>5. CASE ui /\ ~best.ui
    <3>1. best' = c
      BY <1>1, <2>4, <2>5
    <3>2. WithUi \cap all = {pid}
      BY <2>1, <2>5 DEF pid
    <3>3. PreferredOf(all) = {pid} /\ pid <= pid
      BY <3>2, <1>5 DEF PreferredOf, pid
    <3> QED
      BY <1>2, <2>5, <3>1, <3>2, <3>3 DEF pid
  <2>6. CASE ~ui /\ best.ui
    <3>1. best' = best
      BY <1>1, <2>4, <2>6
    <3>2. WithUi \cap all = WithUi \cap seen /\ WithUi \cap seen # {}
      BY <2>1, <2>6 DEF pid
    <3>3. PreferredOf(all) = PreferredOf(seen)
      BY <3>2 DEF PreferredOf
    <3> QED
      BY <2>1, <3>1, <3>2, <3>3
  <2>7. CASE ui = best.ui
    <3>1. PreferredOf(all) = PreferredOf(seen) \cup {pid}
      <4>1. CASE ui
        BY <2>1, <2>7, <4>1 DEF PreferredOf, pid
      <4>2. CASE ~ui
        BY <2>1, <2>7, <4>2 DEF PreferredOf, pid
      <4> QED
        BY <4>1, <4>2
    <3>2. ui <=> WithUi \cap all # {}
      <4>1. CASE ui
        BY <4>1 DEF pid
      <4>2. CASE ~ui
        BY <2>1, <2>7, <4>2 DEF pid
      <4> QED
        BY <4>1, <4>2
    <3>3. PreferredOf(seen) \subseteq Eligible /\ pid \in Nat
      BY <1>4, <1>5 DEF PreferredOf, pid
    <3>4. \A q \in PreferredOf(all) : q <= best'.pid
      <4>1. CASE pid > best.pid
        <5>1. best'.pid = pid
          BY <1>1, <1>2, <2>4, <2>7, <4>1
        <5>2. \A q \in PreferredOf(seen) : q \in Nat /\ q <= best.pid
          BY <2>1, <3>3, <1>5
        <5> QED
          BY <5>1, <5>2, <4>1, <2>2, <3>1, <3>3
      <4>2. CASE ~(pid > best.pid)
        <5>1. best' = best
          BY <1>1, <2>4, <2>7, <4>2
        <5> QED
          BY <5>1, <2>1, <2>2, <3>1, <3>3, <4>2
      <4> QED
        BY <4>1, <4>2
    <3>5. /\ best'.pid \in PreferredOf(all)
          /\ best'.uid = proc[best'.pid].uid
          /\ Represents(best'.pid, best'.package)
          /\ best'.ui <=> WithUi \cap all # {}
      BY <1>1, <1>2, <2>1, <2>7, <3>1, <3>2 DEF pid
    <3> QED
      BY <3>4, <3>5
  <2> QED
    BY <2>3, <2>5, <2>6, <2>7
<1> QED
  BY <1>6, <1>7

ReadState == /\ TypeOK
             /\ ChosenSoFar

\* Nothing has changed and a line is done with: what is needed of the choice so far.
LEMMA NextLineChosen ==
    ASSUME undisturbed, ChosenSoFar, pc # "idle",
           NextLine, UNCHANGED <<envVars, result, undisturbed>>,
           TypeOK, lines # <<>>,
           \A seen \in SUBSET ToSet(group) :
              IsChoice(best, seen) => IsChoice(best', seen \cup {Pid})
    PROVE  ChosenSoFar'
<1>1. PICK seen \in SUBSET ToSet(group) :
         /\ seen \cup ToSet(lines) = ToSet(group)
         /\ IsChoice(best, seen)
  BY DEF ChosenSoFar, Progress
<1>2. PICK more : more = seen \cup {Pid}
  OBVIOUS
<1>3. IsChoice(best, more)'
  BY <1>1, <1>2, SameChoice
<1>4. more \in SUBSET ToSet(group) /\ more \cup ToSet(Tail(lines)) = ToSet(group)
  BY <1>1, <1>2, PidInHand
<1>5. ToSet(group)' = ToSet(group) /\ ToSet(lines)' = ToSet(Tail(lines)) /\ pc' = "line"
  BY DEF NextLine, envVars, ToSet
<1>6. Progress'
  BY <1>3, <1>4, <1>5 DEF Progress
<1>7. ReadRight'
  BY <1>5 DEF ReadRight
<1> QED
  BY <1>5, <1>6, <1>7 DEF ChosenSoFar

LEMMA ReadPayloadChosen == ASSUME ReadState, ReadPayload PROVE ChosenSoFar'
<1>1. IsChoice(best', {})
  BY DEF ReadPayload, IsChoice
<1>2. IsChoice(best, {})'
  BY <1>1, SameChoice DEF ReadPayload
<1>3. ToSet(group)' = ToSet(group) /\ ToSet(lines)' = ToSet(group)
  <2>1. ToSet(Reverse(group)) = ToSet(group)
    BY ReverseKeepsPids DEF ReadState, TypeOK
  <2> QED
    BY <2>1 DEF ReadPayload, envVars, ToSet
<1>4. Progress'
  BY <1>2, <1>3 DEF Progress
<1>5. pc' = "line"
  BY DEF ReadPayload
<1> QED
  BY <1>4, <1>5 DEF ChosenSoFar, ReadRight

LEMMA SkipLineChosen == ASSUME ReadState, undisturbed, SkipLine PROVE ChosenSoFar'
<1>1. Pid \notin Eligible
  BY EligibleRuns, PidInHand, V1Constants DEF SkipLine, ReadState, MinPid
<1>2. \A seen \in SUBSET ToSet(group) : IsChoice(best, seen) => IsChoice(best', seen \cup {Pid})
  BY <1>1, NobodySeen DEF SkipLine
<1> QED
  BY <1>2, NextLineChosen DEF SkipLine, ReadState

LEMMA UidForPidChosen == ASSUME ReadState, undisturbed, UidForPid PROVE ChosenSoFar'
<1>1. Progress'
  <2>1. PICK seen \in SUBSET ToSet(group) :
           /\ seen \cup ToSet(lines) = ToSet(group)
           /\ IsChoice(best, seen)
    BY DEF ReadState, ChosenSoFar, Progress, UidForPid
  <2>2. IsChoice(best, seen)'
    BY <2>1, SameChoice DEF UidForPid
  <2> QED
    BY <2>1, <2>2 DEF Progress, UidForPid, envVars, ToSet
<1>2. ReadRight'
  BY DEF ReadRight, UidForPid, envVars, Pid, Running
<1> QED
  BY <1>1, <1>2 DEF ChosenSoFar, UidForPid

\* The process in hand, read at three times and the same at each.
LEMMA NamedInHand ==
    ASSUME TypeOK, lines # <<>>, Running(Pid), Pid >= MinPid, uid = proc[Pid].uid, CmdlineInfo
    PROVE  /\ Pid \in Eligible
           /\ Represents(Pid, proc[Pid].package)
           /\ proc[Pid].ui \in BOOLEAN
           /\ proc[Pid].ui <=> Pid \in WithUi
<1>1. Named(proc[Pid]) /\ Represents(Pid, proc[Pid].package)
  BY DEF CmdlineInfo, Named, Represents
<1>2. Pid \in ToSet(group) /\ proc[Pid] \in Processes /\ proc[Pid].package \in Packages
  BY DEF TypeOK, Running, CmdlineInfo
<1>3. Pid \in Eligible
  BY <1>1, <1>2 DEF Eligible
<1> QED
  BY <1>1, <1>2, <1>3, V1Constants DEF WithUi

LEMMA StandsForInHand ==
    ASSUME TypeOK, lines # <<>>, Running(Pid), Pid >= MinPid, uid = proc[Pid].uid, ~CmdlineInfo
    PROVE  /\ Pid \notin WithUi
           /\ \A package \in StoodFor : Pid \in Eligible /\ Represents(Pid, package)
           /\ StoodFor = {} => Pid \notin Eligible
<1>1. uid \in ValidUids => ~Named(proc[Pid])
  BY DEF CmdlineInfo, Named
<1>2. Pid \notin WithUi
  <2>1. Pid \in Eligible => uid \in ValidUids
    BY DEF Eligible, Represents
  <2> QED
    BY <1>1, <2>1 DEF WithUi
<1>3. \A package \in Packages : package \in StoodFor <=> Represents(Pid, package)
  BY <1>1 DEF StoodFor, ForUid, Exact, TermuxShell, Represents
<1>4. Pid \in ToSet(group)
  BY DEF TypeOK, Running
<1>5. StoodFor \subseteq Packages
  BY DEF StoodFor
<1>6. Pid \in Eligible <=> \E package \in Packages : Represents(Pid, package)
  BY <1>4 DEF Eligible
<1> QED
  BY <1>2, <1>3, <1>5, <1>6

LEMMA ReadCmdlineChosen == ASSUME ReadState, undisturbed, ReadCmdline PROVE ChosenSoFar'
<1>1. lines # <<>> /\ Running(Pid) /\ Pid >= MinPid /\ uid = proc[Pid].uid /\ pc = "cmdline"
  BY DEF ReadState, TypeOK, ChosenSoFar, ReadRight, ReadCmdline
<1>2. CASE CmdlineInfo
  <2>1. NextLine /\ Consider(proc[Pid].package, proc[Pid].ui)
    BY <1>2 DEF ReadCmdline
  <2>2. \A seen \in SUBSET ToSet(group) : IsChoice(best, seen) => IsChoice(best', seen \cup {Pid})
    BY <1>1, <1>2, <2>1, NamedInHand, SomebodySeen DEF ReadState
  <2> QED
    BY <1>1, <2>1, <2>2, NextLineChosen DEF ReadCmdline, ReadState
<1>3. CASE ~CmdlineInfo
  <2>1. /\ pc' = "fallback"
        /\ UNCHANGED <<envVars, lines, uid, best, result, undisturbed>>
    BY <1>3 DEF ReadCmdline
  <2>2. Progress'
    <3>1. PICK seen \in SUBSET ToSet(group) :
             /\ seen \cup ToSet(lines) = ToSet(group)
             /\ IsChoice(best, seen)
      BY <1>1 DEF ReadState, ChosenSoFar, Progress
    <3>2. IsChoice(best, seen)'
      BY <2>1, <3>1, SameChoice
    <3> QED
      BY <2>1, <3>1, <3>2 DEF Progress, envVars, ToSet
  <2>3. ReadRight'
    BY <1>1, <1>3, <2>1 DEF ReadRight, envVars, Pid, Running, CmdlineInfo
  <2> QED
    BY <2>1, <2>2, <2>3 DEF ChosenSoFar
<1> QED
  BY <1>2, <1>3

LEMMA FallbackChosen == ASSUME ReadState, undisturbed, Fallback PROVE ChosenSoFar'
<1>1. /\ lines # <<>> /\ pc = "fallback"
      /\ Running(Pid) /\ Pid >= MinPid /\ uid = proc[Pid].uid /\ ~CmdlineInfo
  BY DEF ReadState, TypeOK, ChosenSoFar, ReadRight, Fallback
<1>2. \A seen \in SUBSET ToSet(group) : IsChoice(best, seen) => IsChoice(best', seen \cup {Pid})
  <2>1. CASE \E package \in StoodFor : Consider(package, FALSE)
    BY <1>1, <2>1, StandsForInHand, SomebodySeen DEF ReadState
  <2>2. CASE StoodFor = {} /\ UNCHANGED best
    BY <1>1, <2>2, StandsForInHand, NobodySeen DEF ReadState
  <2> QED
    BY <2>1, <2>2 DEF Fallback
<1> QED
  BY <1>1, <1>2, NextLineChosen DEF Fallback, ReadState

LEMMA ReturnChosen == ASSUME ReadState, undisturbed, Return PROVE ChosenSoFar'
<1>1. PICK seen \in SUBSET ToSet(group) :
         /\ seen \cup ToSet(lines) = ToSet(group)
         /\ IsChoice(best, seen)
  BY DEF ReadState, ChosenSoFar, Progress, Return
<1>2. ToSet(lines) = {}
  BY EmptySeq DEF Return, ToSet
<1>3. seen = ToSet(group)
  BY <1>1, <1>2
<1>4. IsChoice(result', ToSet(group))
  BY <1>1, <1>3 DEF Return
<1>5. IsChoice(result, ToSet(group))'
  BY <1>4, SameChoice DEF Return, envVars, ToSet
<1> QED
  BY <1>5 DEF Return, ChosenSoFar, Progress, ReadRight

LEMMA ChosenStep == ASSUME ReadState, [Next]_vars PROVE ChosenSoFar'
<1>1. CASE Environment
  BY <1>1 DEF Environment, ChosenSoFar
<1>2. CASE ReadPayload
  BY <1>2, ReadPayloadChosen
<1>3. CASE ~undisturbed /\ UNCHANGED undisturbed
  BY <1>3 DEF ChosenSoFar
<1>4. CASE undisturbed /\ (SkipLine \/ UidForPid \/ ReadCmdline \/ Fallback \/ Return)
  BY <1>4, SkipLineChosen, UidForPidChosen, ReadCmdlineChosen, FallbackChosen, ReturnChosen
<1>5. CASE UNCHANGED vars
  <2>1. UNCHANGED <<envVars, pc, lines, uid, best, result, undisturbed>>
    BY <1>5 DEF vars, envVars
  <2> SUFFICES ASSUME undisturbed PROVE ChosenSoFar'
    BY <2>1 DEF ChosenSoFar
  <2>2. Progress'
    <3> SUFFICES ASSUME pc # "idle" PROVE Progress'
      BY <2>1 DEF Progress
    <3>1. PICK seen \in SUBSET ToSet(group) :
             /\ seen \cup ToSet(lines) = ToSet(group)
             /\ IsChoice(best, seen)
      BY DEF ReadState, ChosenSoFar, Progress
    <3>2. IsChoice(best, seen)'
      BY <2>1, <3>1, SameChoice
    <3> QED
      BY <2>1, <3>1, <3>2 DEF Progress, envVars, ToSet
  <2>3. ReadRight'
    BY <2>1 DEF ReadState, ChosenSoFar, ReadRight, envVars, Pid, Running, CmdlineInfo
  <2>4. pc = "idle" => IsChoice(result, ToSet(group))'
    BY <2>1, SameChoice DEF ReadState, ChosenSoFar, envVars, ToSet
  <2> QED
    BY <2>1, <2>2, <2>3, <2>4 DEF ChosenSoFar
<1>6. SkipLine \/ UidForPid \/ ReadCmdline \/ Fallback \/ Return => UNCHANGED undisturbed
  BY DEF SkipLine, UidForPid, ReadCmdline, Fallback, Return
<1>7. undisturbed \in BOOLEAN
  BY DEF ReadState, TypeOK
<1> QED
  BY <1>1, <1>2, <1>3, <1>4, <1>5, <1>6, <1>7 DEF Next, ResolvePayload

LEMMA ChosenIsTheTopApp == ReadState => ChoosesTheTopApp
<1> SUFFICES ASSUME ReadState, pc = "idle", undisturbed
             PROVE  IF Eligible = {}
                    THEN result = None
                    ELSE /\ result.pid \in Preferred
                         /\ \A pid \in Preferred : pid <= result.pid
                         /\ result.uid = proc[result.pid].uid
                         /\ Represents(result.pid, result.package)
  BY DEF ChoosesTheTopApp
<1>1. IsChoice(result, ToSet(group))
  BY DEF ReadState, ChosenSoFar
<1>2. Eligible \cap ToSet(group) = Eligible /\ WithUi \cap ToSet(group) = WithUi
  BY DEF Eligible, WithUi
<1>3. PreferredOf(ToSet(group)) = Preferred
  BY <1>2 DEF PreferredOf, Preferred
<1> QED
  BY <1>1, <1>2, <1>3 DEF IsChoice

\* If nothing changes while the list is gone through, the candidate is the specified one,
\* for any list in any order, any processes and any filter.
THEOREM TopAppAlwaysChosen == Spec => []ChoosesTheTopApp
<1>1. Init => ChosenSoFar
  BY DEF Init, ChosenSoFar
<1>2. TypeOK /\ ChosenSoFar /\ [Next]_vars => ChosenSoFar'
  BY ChosenStep DEF ReadState
<1>3. TypeOK /\ ChosenSoFar => ChoosesTheTopApp
  BY ChosenIsTheTopApp DEF ReadState
<1> QED
  BY <1>1, <1>2, <1>3, V1TypeCorrect, PTL DEF Spec

=============================================================================
