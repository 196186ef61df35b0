---------------------- MODULE ForegroundResolverProofs ----------------------
(***************************************************************************)
(* The cache of the resolver and its choice, for every number of versions, *)
(* every interval, every database and every filter.                        *)
(*                                                                         *)
(* NoLostRebuild compares the packages with the fingerprint; what makes it *)
(* hold is that a rebuild keeps the fingerprint it took before it listed   *)
(* the packages, and that no other look at the marker comes between.       *)
(***************************************************************************)
EXTENDS ForegroundResolver, SequenceTheorems, WellFoundedInduction, TLAPS

\* A rebuild's fingerprint is newer than the one it replaces and no newer than what the
\* command listed.
RebuildIsCurrent ==
    /\ seen # 0 => fingerprint <= seen
    /\ listed \notin {NotYet, 0} => seen <= listed

Inv == ResolverTypeOK /\ NoLostRebuild /\ RebuildIsCurrent

LEMMA InitInv == Init => Inv
<1> SUFFICES ASSUME Init PROVE Inv
  OBVIOUS
<1> USE ResolverAssumption DEF NotYet
<1>1. installed \in 1..MaxVersion /\ marker \in 0..installed /\ fingerprint \in 0..marker
  BY DEF Init
<1>2. list \in 0..installed /\ (list # 0 => fingerprint <= list)
  BY <1>1 DEF Init
<1>3. count = 0 /\ seen = 0 /\ listed = NotYet /\ adopted = 0 /\ reachable \in BOOLEAN
  BY DEF Init
<1>4. ResolverTypeOK
  BY <1>1, <1>2, <1>3 DEF ResolverTypeOK
<1>5. NoLostRebuild /\ RebuildIsCurrent
  BY <1>1, <1>2, <1>3 DEF NoLostRebuild, RebuildIsCurrent
<1> QED
  BY <1>4, <1>5 DEF Inv

-----------------------------------------------------------------------------
(* One lemma per operation.                                                *)

LEMMA PackageManagerInv ==
    ASSUME Inv, PackageManager
    PROVE  Inv'
<1> USE ResolverAssumption DEF NotYet
<1>1. reachable' \in BOOLEAN
  BY DEF Inv, ResolverTypeOK, PackageManager, Install, Persist, ToggleReachable
<1>2. installed' \in 1..MaxVersion /\ marker' \in 0..installed'
      /\ installed <= installed' /\ marker <= marker'
  BY DEF Inv, ResolverTypeOK, PackageManager, Install, Persist, ToggleReachable
<1>3. UNCHANGED <<list, fingerprint, count, seen, listed, adopted>>
  BY DEF PackageManager
<1>4. ResolverTypeOK'
  BY <1>1, <1>2, <1>3 DEF Inv, ResolverTypeOK
<1>5. NoLostRebuild' /\ RebuildIsCurrent'
  BY <1>3 DEF Inv, NoLostRebuild, RebuildIsCurrent
<1> QED
  BY <1>4, <1>5 DEF Inv

LEMMA CountedIsSmall ==
    ASSUME Inv
    PROVE  Counted \in Nat /\ (Interval # 0 => Counted < Interval)
BY ResolverAssumption DEF Inv, ResolverTypeOK, Counted

\* A look at the marker starts a rebuild, or finds the fingerprint it has, or its first.
LEMMA ForegroundChangedInv ==
    ASSUME Inv, ForegroundChanged
    PROVE  Inv'
<1> USE ResolverAssumption DEF NotYet
<1>1. UNCHANGED <<installed, marker, reachable, list, listed>> /\ seen = 0
      /\ count' \in Nat /\ (Interval # 0 => count' < Interval)
  BY CountedIsSmall DEF ForegroundChanged, environment
<1>2. listed = NotYet
  BY <1>1 DEF Inv, ResolverTypeOK
<1>3. CASE UNCHANGED <<fingerprint, adopted, seen>>
  <2>1. ResolverTypeOK'
    BY <1>1, <1>3 DEF Inv, ResolverTypeOK
  <2>2. NoLostRebuild' /\ RebuildIsCurrent'
    BY <1>1, <1>3 DEF Inv, NoLostRebuild, RebuildIsCurrent
  <2> QED
    BY <2>1, <2>2 DEF Inv
<1>4. CASE CanStat /\ Changed /\ seen' = marker /\ UNCHANGED <<fingerprint, adopted>>
  <2>1. ResolverTypeOK'
    BY <1>1, <1>2, <1>4 DEF Inv, ResolverTypeOK, Changed
  <2>2. NoLostRebuild' /\ RebuildIsCurrent'
    BY <1>1, <1>2, <1>4 DEF Inv, ResolverTypeOK, NoLostRebuild, RebuildIsCurrent
  <2> QED
    BY <2>1, <2>2 DEF Inv
<1>5. CASE /\ CanStat /\ ~Changed
           /\ fingerprint' = marker
           /\ adopted' = IF fingerprint = 0 THEN marker ELSE adopted
           /\ UNCHANGED seen
  <2>1. fingerprint = 0 \/ fingerprint = marker
    BY <1>5 DEF Changed
  <2>2. ResolverTypeOK'
    BY <1>1, <1>2, <1>5, <2>1 DEF Inv, ResolverTypeOK
  <2>3. NoLostRebuild' /\ RebuildIsCurrent'
    BY <1>1, <1>2, <1>5, <2>1 DEF Inv, ResolverTypeOK, NoLostRebuild, RebuildIsCurrent
  <2> QED
    BY <2>2, <2>3 DEF Inv
<1> QED
  BY <1>3, <1>4, <1>5 DEF ForegroundChanged

LEMMA RebuildInv ==
    ASSUME Inv, Rebuild
    PROVE  Inv'
<1> USE ResolverAssumption DEF NotYet, environment
<1>1. ASSUME NEW version \in {0, installed}, ListPackages(version) PROVE Inv'
  <2>1. UNCHANGED <<installed, marker, reachable, list, fingerprint, count, seen, adopted>>
        /\ seen # 0 /\ listed' = version
    BY <1>1 DEF ListPackages
  <2>2. ResolverTypeOK'
    BY <2>1 DEF Inv, ResolverTypeOK
  <2>3. NoLostRebuild' /\ RebuildIsCurrent'
    BY <2>1 DEF Inv, ResolverTypeOK, NoLostRebuild, RebuildIsCurrent
  <2> QED
    BY <2>2, <2>3 DEF Inv
<1>2. CASE EndRebuild
  <2>1. UNCHANGED <<installed, marker, reachable, count, adopted>> /\ listed # NotYet
        /\ list' = listed /\ fingerprint' = seen /\ seen' = 0 /\ listed' = NotYet
    BY <1>2 DEF EndRebuild, FingerprintOfRebuild
  <2>2. fingerprint <= seen /\ (listed # 0 => seen <= listed) /\ listed \in 0..installed
    BY <2>1 DEF Inv, ResolverTypeOK, RebuildIsCurrent
  <2>3. ResolverTypeOK'
    BY <2>1, <2>2 DEF Inv, ResolverTypeOK
  <2>4. NoLostRebuild' /\ RebuildIsCurrent'
    BY <2>1, <2>2 DEF Inv, ResolverTypeOK, NoLostRebuild, RebuildIsCurrent
  <2> QED
    BY <2>3, <2>4 DEF Inv
<1>3. CASE RebuildFails
  <2>1. UNCHANGED <<installed, marker, reachable, list, fingerprint, count, adopted>>
        /\ seen' = 0 /\ listed' = NotYet
    BY <1>3 DEF RebuildFails, FingerprintOfFailure
  <2>2. ResolverTypeOK'
    BY <2>1 DEF Inv, ResolverTypeOK
  <2>3. NoLostRebuild' /\ RebuildIsCurrent'
    BY <2>1 DEF Inv, NoLostRebuild, RebuildIsCurrent
  <2> QED
    BY <2>2, <2>3 DEF Inv
<1> QED
  BY <1>1, <1>2, <1>3 DEF Rebuild

LEMMA StepInv == Inv /\ [Next]_vars => Inv'
<1> SUFFICES ASSUME Inv, [Next]_vars PROVE Inv'
  OBVIOUS
<1>1. CASE PackageManager
  BY <1>1, PackageManagerInv
<1>2. CASE ForegroundChanged
  BY <1>2, ForegroundChangedInv
<1>3. CASE Rebuild
  BY <1>3, RebuildInv
<1>4. CASE UNCHANGED vars
  BY <1>4 DEF vars, environment, Inv, ResolverTypeOK, NoLostRebuild, RebuildIsCurrent
<1> QED
  BY <1>1, <1>2, <1>3, <1>4 DEF Next

-----------------------------------------------------------------------------
LEMMA AlwaysInv == Spec => []Inv
BY InitInv, StepInv, PTL DEF Spec

\* The types; a fingerprint the resolver has, or a rebuild took, is of a marker that was
\* written.
THEOREM ResolverTypeCorrect == Spec => []ResolverTypeOK
<1>1. Inv => ResolverTypeOK
  BY DEF Inv
<1> QED
  BY <1>1, AlwaysInv, PTL

\* Packages older than the fingerprint are those of a marker seen for the first time:
\* no change is lost to a rebuild that ran while it was made, or that failed.
THEOREM RebuildIsNotLost == Spec => []NoLostRebuild
<1>1. Inv => NoLostRebuild
  BY DEF Inv
<1> QED
  BY <1>1, AlwaysInv, PTL

-----------------------------------------------------------------------------
(* The choice.                                                             *)

\* A set of numbers that has a member has a smallest one.
LEMMA SmallestExists ==
    ASSUME NEW T, T \subseteq Nat, T # {}
    PROVE  \E m \in T : \A k \in T : m <= k
<1>1. PICK m \in T : \A k \in T : ~(<<k, m>> \in OpToRel(<, Nat))
  BY NatLessThanWellFounded, WFMin
<1>2. \A k \in T : ~(k < m)
  BY <1>1 DEF OpToRel
<1> QED
  BY <1>2

\* A bounded one has a largest.
LEMMA LargestExists ==
    ASSUME NEW n \in Nat, NEW s, s \subseteq 1..n, s # {}
    PROVE  /\ Max(s) \in s
           /\ \A i \in s : i <= Max(s)
<1> DEFINE bounds == {m \in Nat : \A i \in s : i <= m}
<1>1. n \in bounds
  OBVIOUS
<1>2. PICK m \in bounds : \A k \in bounds : m <= k
  BY <1>1, SmallestExists
<1>3. m \in s
  <2> SUFFICES ASSUME m \notin s PROVE FALSE
    OBVIOUS
  <2>1. \A i \in s : i < m /\ i \in Nat /\ i >= 1
    BY <1>2
  <2>2. m >= 1 /\ m - 1 \in Nat
    <3>1. PICK i \in s : TRUE
      OBVIOUS
    <3>2. i < m /\ i \in Nat /\ i >= 1 /\ m \in Nat
      BY <1>2, <2>1
    <3> QED
      BY <3>2
  <2>3. \A i \in s : i <= m - 1
    BY <1>2, <2>1
  <2>4. m - 1 \in bounds
    BY <2>2, <2>3
  <2> QED
    BY <1>2, <2>2, <2>4
<1>4. \A i \in s : m >= i
  BY <1>2
<1>5. Max(s) \in s /\ \A i \in s : Max(s) >= i
  BY <1>3, <1>4 DEF Max
<1> QED
  BY <1>5

\* The first index in s that answers with a package, and what it answers.
Answering(uids, s) == {i \in s : PackageOf(uids[i]) # NoPackage}

FirstOf(uids, s) ==
    IF Answering(uids, s) = {} THEN NoPackage
    ELSE PackageOf(uids[CHOOSE i \in Answering(uids, s) : \A j \in Answering(uids, s) : i <= j])

LEMMA FirstOfFacts ==
    ASSUME NEW uids, NEW n \in Nat, NEW s, s \subseteq 1..n
    PROVE  /\ Answering(uids, s) = {} => FirstOf(uids, s) = NoPackage
           /\ \A i \in Answering(uids, s) :
                 (\A j \in Answering(uids, s) : i <= j) => FirstOf(uids, s) = PackageOf(uids[i])
           /\ Answering(uids, s) # {} =>
                 \E i \in Answering(uids, s) : /\ \A j \in Answering(uids, s) : i <= j
                                               /\ FirstOf(uids, s) = PackageOf(uids[i])
<1> DEFINE A == Answering(uids, s)
<1>1. A \subseteq Nat
  <2>1. A \subseteq s
    BY DEF Answering
  <2>2. 1..n \subseteq Nat
    OBVIOUS
  <2> QED
    BY <2>1, <2>2
<1>2. FirstOf(uids, s) = IF A = {} THEN NoPackage
                         ELSE PackageOf(uids[CHOOSE i \in A : \A j \in A : i <= j])
  BY DEF FirstOf
<1> HIDE DEF A
<1>3. \A i, k \in A : (\A j \in A : i <= j) /\ (\A j \in A : k <= j) => i = k
  BY <1>1
<1>4. ASSUME NEW i \in A, \A j \in A : i <= j
      PROVE  FirstOf(uids, s) = PackageOf(uids[i])
  <2>1. (CHOOSE k \in A : \A j \in A : k <= j) = i
    BY <1>3, <1>4
  <2> QED
    BY <1>2, <2>1
<1>5. A # {} => \E i \in A : \A j \in A : i <= j
  BY <1>1, SmallestExists
<1> QED
  BY <1>2, <1>4, <1>5 DEF A

\* One more uid, behind those looked up before.
LEMMA FirstOfNext ==
    ASSUME NEW uids, NEW n \in Nat, NEW s, s \subseteq 1..n, s # {}
    PROVE  FirstOf(uids, s) = IF FirstOf(uids, s \ {Max(s)}) # NoPackage
                              THEN FirstOf(uids, s \ {Max(s)})
                              ELSE PackageOf(uids[Max(s)])
<1> DEFINE m == Max(s)
           r == s \ {m}
<1>1. m \in s /\ (\A i \in s : i <= m) /\ s \subseteq Nat /\ r \subseteq 1..n
  <2>1. m \in s /\ \A i \in s : i <= m
    BY LargestExists
  <2>2. 1..n \subseteq Nat
    OBVIOUS
  <2> QED
    BY <2>1, <2>2
<1> HIDE DEF m
<1>2. CASE Answering(uids, r) # {}
  <2>1. PICK i \in Answering(uids, r) : /\ \A j \in Answering(uids, r) : i <= j
                                        /\ FirstOf(uids, r) = PackageOf(uids[i])
    BY <1>1, <1>2, FirstOfFacts
  <2>2. FirstOf(uids, r) # NoPackage
    BY <2>1 DEF Answering
  <2>3. i \in Answering(uids, s) /\ \A j \in Answering(uids, s) : i <= j
    BY <1>1, <2>1 DEF Answering
  <2> QED
    BY <2>1, <2>2, <2>3, FirstOfFacts DEF m
<1>3. CASE Answering(uids, r) = {}
  <2>1. FirstOf(uids, r) = NoPackage
    BY <1>1, <1>3, FirstOfFacts
  <2>2. CASE PackageOf(uids[m]) = NoPackage
    <3>1. Answering(uids, s) = {}
      BY <1>3, <2>2 DEF Answering
    <3> QED
      BY <2>1, <2>2, <3>1, FirstOfFacts DEF m
  <2>3. CASE PackageOf(uids[m]) # NoPackage
    <3>1. Answering(uids, s) = {m}
      BY <1>1, <1>3, <2>3 DEF Answering
    <3>2. FirstOf(uids, s) = PackageOf(uids[m])
      BY <1>1, <3>1, FirstOfFacts
    <3> QED
      BY <2>1, <3>2 DEF m
  <2> QED
    BY <2>2, <2>3
<1> QED
  BY <1>2, <1>3 DEF m

\* The fold over v1's pids returns what the first of them that has an answer does.  The
\* recursion under the fold goes over sets of indices, the largest one first; FirstOf
\* satisfies it, and no other function does.
LEMMA FromV1IsFirst ==
    ASSUME NEW n \in Nat, NEW uids, DOMAIN uids = 1..n
    PROVE  FromV1(uids) = FirstOf(uids, 1..n)
<1> DEFINE D == 1..n
           Step(found, s) == IF s = {} THEN NoPackage
                             ELSE IF found[s \ {Max(s)}] # NoPackage THEN found[s \ {Max(s)}]
                                  ELSE PackageOf(uids[Max(s)])
           fold == CHOOSE found : found = [s \in SUBSET D |-> Step(found, s)]
           first == [s \in SUBSET D |-> FirstOf(uids, s)]
<1>1. FromV1(uids) = fold[D]
  BY Zenon DEF FromV1, FoldLeft, MapThenFoldSet
<1>2. \A s \in SUBSET D : first[s] = Step(first, s)
  <2> TAKE s \in SUBSET D
  <2>1. CASE s = {}
    <3>1. Answering(uids, s) = {}
      BY <2>1 DEF Answering
    <3> QED
      BY <2>1, <3>1, FirstOfFacts
  <2>2. CASE s # {}
    <3>1. s \ {Max(s)} \in SUBSET D
      OBVIOUS
    <3> QED
      BY <2>2, <3>1, FirstOfNext
  <2> QED
    BY <2>1, <2>2
<1>3. first = [s \in SUBSET D |-> Step(first, s)]
  BY <1>2
<1>4. fold = [s \in SUBSET D |-> Step(fold, s)]
  <2> HIDE DEF first, Step
  <2> QED
    BY <1>3
<1>5. \A s \in SUBSET D : fold[s] = Step(fold, s)
  <2> HIDE DEF fold, Step
  <2> QED
    BY <1>4
<1> HIDE DEF fold, first
<1>6. ASSUME NEW s \in SUBSET D, fold[s] # first[s] PROVE FALSE
  <2> DEFINE T == {m \in 0..n : \E t \in SUBSET (1..m) : t \in SUBSET D /\ fold[t] # first[t]}
  <2>1. n \in T
    BY <1>6
  <2>2. PICK m \in T : \A k \in T : m <= k
    <3>1. T \subseteq Nat
      OBVIOUS
    <3> HIDE DEF T
    <3> QED
      BY <2>1, <3>1, SmallestExists
  <2>3. PICK t \in SUBSET (1..m) : t \in SUBSET D /\ fold[t] # first[t]
    BY <2>2
  <2>4. t # {}
    BY <1>2, <1>5, <2>3
  <2>5. Max(t) \in t /\ \A i \in t : i <= Max(t)
    BY <2>3, <2>4, LargestExists
  <2>6. t \ {Max(t)} \subseteq 1..(m - 1) /\ m - 1 \in 0..n
    <3>1. m \in 0..n /\ t \subseteq 1..m
      BY <2>2, <2>3
    <3>2. Max(t) \in 1..m
      BY <2>5, <3>1
    <3>3. \A i \in t : i \in 1..m /\ (i # Max(t) => i < Max(t))
      BY <2>5, <3>1, <3>2
    <3>4. \A i \in t \ {Max(t)} : i \in 1..(m - 1)
      BY <3>1, <3>2, <3>3
    <3>5. m - 1 \in 0..n
      BY <3>1, <3>2
    <3> QED
      BY Zenon, <3>4, <3>5 DEF D
  <2>7. m - 1 \notin T
    BY <2>2, <2>6
  <2>8. fold[t \ {Max(t)}] = first[t \ {Max(t)}]
    BY <2>3, <2>6, <2>7
  <2> QED
    BY <1>2, <1>5, <2>3, <2>4, <2>8
<1>7. fold[D] = first[D]
  BY <1>6
<1> QED
  BY <1>1, <1>7 DEF first

\* The choice of PackageOf, against the pairs of the package database.
LEMMA PackageOfIsProper ==
    ASSUME ResolverTypeOK, NEW uid \in Answers
    PROVE  /\ PackageOf(uid) \in Packages \cup {NoPackage}
           /\ \A package \in Packages : Proper(uid, package) <=> PackageOf(uid) = package
<1> USE ResolverAssumption
<1>1. list \in 0..MaxVersion /\ (list # 0 => Database[list] \subseteq Packages \X Uids)
  BY DEF ResolverTypeOK
<1> DEFINE answers == {package \in Packages \ BlockedPackages :
                        /\ uid # NoUid
                        /\ Accepts(uid)
                        /\ uid \notin AccessibilityUids
                        /\ PackagesOf(list, uid) = {package}}
<1>2. PackageOf(uid) = IF answers = {} THEN NoPackage ELSE CHOOSE package \in answers : TRUE
  BY DEF PackageOf
<1>3. \A p, q \in answers : p = q
  OBVIOUS
<1>4. \A p \in answers : PackageOf(uid) = p
  <2> HIDE DEF answers
  <2> QED
    BY <1>2, <1>3
<1>5. PackageOf(uid) \in Packages \cup {NoPackage}
  BY <1>2, <1>4
<1>6. ASSUME NEW package \in Packages
      PROVE  Proper(uid, package) <=> package \in answers
  <2>1. ASSUME list # 0, uid # NoUid
        PROVE  {pair \in Database[list] : pair[2] = uid} = {<<package, uid>>}
               <=> PackagesOf(list, uid) = {package}
    <3>1. PackagesOf(list, uid) = {p \in Packages : <<p, uid>> \in Database[list]}
      BY <2>1 DEF PackagesOf
    <3>2. \A pair \in Database[list] : pair = <<pair[1], pair[2]>> /\ pair[1] \in Packages
      BY <1>1, <2>1
    <3>3. ASSUME {pair \in Database[list] : pair[2] = uid} = {<<package, uid>>}
          PROVE  PackagesOf(list, uid) = {package}
      <4>1. <<package, uid>> \in Database[list]
        BY <3>3
      <4>2. \A p \in Packages : <<p, uid>> \in Database[list] => p = package
        BY <3>3
      <4> QED
        BY <3>1, <4>1, <4>2
    <3>4. ASSUME PackagesOf(list, uid) = {package}
          PROVE  {pair \in Database[list] : pair[2] = uid} = {<<package, uid>>}
      <4>1. <<package, uid>> \in Database[list]
        BY <3>1, <3>4
      <4>2. \A pair \in Database[list] : pair[2] = uid => pair = <<package, uid>>
        BY <3>1, <3>2, <3>4
      <4> QED
        BY <4>1, <4>2
    <3> QED
      BY <3>3, <3>4
  <2>2. uid = NoUid => ~Proper(uid, package)
    <3>1. list # 0 => <<package, NoUid>> \notin Database[list]
      BY <1>1 DEF NoUid
    <3> QED
      BY <3>1 DEF Proper
  <2>3. list = 0 => PackagesOf(list, uid) # {package} /\ ~Proper(uid, package)
    BY DEF PackagesOf, Proper
  <2> QED
    BY <2>1, <2>2, <2>3 DEF Proper
<1>7. NoPackage \notin Packages /\ answers \subseteq Packages
  OBVIOUS
<1> HIDE DEF answers
<1>8. \A package \in Packages : package \in answers <=> PackageOf(uid) = package
  BY <1>2, <1>4, <1>7
<1> QED
  BY <1>5, <1>6, <1>8

LEMMA AnswerIsFirstProper == ResolverTypeOK => FirstProperAnswer
<1> SUFFICES ASSUME ResolverTypeOK,
                    NEW uids \in Payloads, NEW v2 \in Answers,
                    NEW activity \in Packages \cup {NoPackage}
             PROVE  LET asked == uids \o <<v2>>
                        proper == {i \in DOMAIN asked :
                                     \E package \in Packages : Proper(asked[i], package)}
                        answer == Resolved(uids, v2, activity)
                    IN  IF proper # {}
                        THEN \E i \in proper : /\ \A j \in proper : i <= j
                                               /\ Proper(asked[i], answer)
                        ELSE answer \in {activity, NoPackage} \ BlockedPackages
  BY DEF FirstProperAnswer
<1> DEFINE asked == uids \o <<v2>>
           proper == {i \in DOMAIN asked : \E package \in Packages : Proper(asked[i], package)}
           answer == Resolved(uids, v2, activity)
<1>1. PICK n \in Nat : uids \in [1..n -> Answers]
  BY ResolverAssumption DEF Payloads
<1>2. /\ DOMAIN asked = 1..(n + 1)
      /\ \A i \in 1..n : asked[i] = uids[i]
      /\ asked[n + 1] = v2
      /\ \A i \in 1..(n + 1) : asked[i] \in Answers
  <2>1. uids \in Seq(Answers) /\ <<v2>> \in Seq(Answers) /\ Len(uids) = n /\ Len(<<v2>>) = 1
    BY <1>1
  <2>2. /\ Len(asked) = n + 1
        /\ asked \in Seq(Answers)
        /\ \A i \in 1..(n + 1) : asked[i] = IF i <= n THEN uids[i] ELSE v2
    BY <2>1, ConcatProperties
  <2> QED
    BY <2>1, <2>2
<1>3. \A uid \in Answers : /\ PackageOf(uid) \in Packages \cup {NoPackage}
                           /\ (\E package \in Packages : Proper(uid, package))
                              <=> PackageOf(uid) # NoPackage
                           /\ PackageOf(uid) # NoPackage => Proper(uid, PackageOf(uid))
  BY PackageOfIsProper, ResolverAssumption
<1>4. proper = {i \in 1..(n + 1) : PackageOf(asked[i]) # NoPackage}
  BY <1>2, <1>3
<1>5. FromV1(uids) = FirstOf(uids, 1..n)
  BY <1>1, FromV1IsFirst
<1> HIDE DEF asked, proper
<1>6. CASE Answering(uids, 1..n) # {}
  <2>1. PICK i \in Answering(uids, 1..n) : /\ \A j \in Answering(uids, 1..n) : i <= j
                                           /\ FirstOf(uids, 1..n) = PackageOf(uids[i])
    BY <1>6, FirstOfFacts
  <2>2. i \in 1..n /\ PackageOf(uids[i]) # NoPackage
    BY <2>1 DEF Answering
  <2>3. answer = PackageOf(uids[i])
    BY <1>5, <2>1, <2>2 DEF Resolved
  <2>4. i \in proper /\ Proper(asked[i], answer)
    BY <1>2, <1>3, <1>4, <2>2, <2>3
  <2>5. ASSUME NEW j \in proper PROVE i <= j
    <3>1. CASE j = n + 1
      BY <2>2, <3>1
    <3>2. CASE j # n + 1
      <4>1. j \in 1..n /\ PackageOf(uids[j]) # NoPackage
        BY <1>2, <1>4, <3>2
      <4> QED
        BY <2>1, <4>1 DEF Answering
    <3> QED
      BY <3>1, <3>2
  <2> QED
    BY <2>4, <2>5 DEF asked, proper
<1>7. CASE Answering(uids, 1..n) = {}
  <2>1. FromV1(uids) = NoPackage
    BY <1>5, <1>7, FirstOfFacts
  <2>2. \A i \in proper : i = n + 1
    BY <1>2, <1>4, <1>7 DEF Answering
  <2>3. CASE PackageOf(v2) # NoPackage
    <3>1. answer = PackageOf(v2)
      BY <2>1, <2>3 DEF Resolved
    <3>2. n + 1 \in proper /\ Proper(asked[n + 1], answer)
      BY <1>2, <1>3, <1>4, <2>3, <3>1
    <3>3. \A j \in proper : n + 1 <= j
      BY <2>2
    <3> QED
      BY <3>2, <3>3 DEF asked, proper
  <2>4. CASE PackageOf(v2) = NoPackage
    <3>1. proper = {}
      BY <1>2, <1>4, <2>2, <2>4
    <3>2. answer = FromActivity(activity)
      BY <2>1, <2>4 DEF Resolved
    <3>3. answer \in {activity, NoPackage} \ BlockedPackages
      BY <3>2, ResolverAssumption DEF FromActivity
    <3> QED
      BY <3>1, <3>3 DEF asked, proper
  <2> QED
    BY <2>3, <2>4
<1> QED
  BY <1>6, <1>7

\* What the resolver answers after v1, v2 and the ActivityManager were asked is the first
\* package the user would take for the foreground, in that order and in the order of v1's
\* pids, found pid by pid with the cache of the moment: for every package database, every
\* block list and payloads of every length.
THEOREM AnswersAreProper == Spec => []FirstProperAnswer
BY AnswerIsFirstProper, ResolverTypeCorrect, PTL

=============================================================================
