-------------------------- MODULE BootSmokeProofs --------------------------
(***************************************************************************)
(* Proofs about BootSmoke for all firmware pairs and listings, every host, *)
(* and any number of attempts, runs and rebuilds.                          *)
(***************************************************************************)
EXTENDS BootSmoke, FiniteSetTheorems, SequenceTheorems, TLAPS

(* Beyond TypeOK: the locals are sequences of pairs and of records, and what *)
(* a run knows by the time it has reached a phase.                           *)
Before(p) == p \in {"idle", "disk"}

ListsInv ==
  /\ attempts \in Seq(Pairs)
  /\ records \in Seq([pair : Pairs, class : Verdicts])
  /\ Len(attempts) <= MAX_BOOT_ATTEMPTS
  /\ phase \in {"list", "boot"} => Len(attempts) > 0
  /\ Len(records) <= Len(attempts)
  /\ phase = "boot" => Len(records) < Len(attempts)
  /\ phase \notin {"boot", "evidence", "exit", "idle"} => Len(records) = 0
  /\ ~Before(phase) => disk # 0 /\ diskBefore # 0

TypesInv == TypeOK /\ ListsInv

(* A run goes on until it has an exit code.                                  *)
GoingInv ==
  /\ phase # "idle" => rc = "none"
  /\ rc = "exit0" => phase = "idle"

(* Nothing that is good was passed over on the way to the pair chosen.       *)
ChoiceInv ==
  /\ phase \in {"disk", "qcow2"} => next = 1
  /\ phase = "uefi" => \A i \in 1..next - 1 : ~Usable(Candidates[i])
  /\ firmware # NoPair =>
       \E k \in DOMAIN Candidates :
         /\ Candidates[k] = firmware
         /\ Usable(firmware)
         /\ \A i \in 1..k - 1 : ~Usable(Candidates[i])
  /\ rc = "exit2" /\ diskBefore # 0 =>
       \A i \in DOMAIN Candidates : ~Usable(Candidates[i])

(* Only a template without write permission leaves a copy without it.        *)
CopiesInv ==
  /\ readOnly # {} =>
       \E i \in DOMAIN Candidates : status[Candidates[i]] = "varsReadOnly"
  /\ rc = "denied" =>
       \E i \in DOMAIN Candidates :
         status[Candidates[i]] \in {"varsUnreadable", "varsReadOnly"}

(* The records are those of the first attempts, which differ, and whose      *)
(* first is the pair chosen.                                                 *)
AttemptsInv ==
  /\ \A i, j \in 1..Len(attempts) : i # j => attempts[i] # attempts[j]
  /\ Len(attempts) > 0 => attempts[1] = firmware
  /\ \A i \in 1..Len(records) :
       /\ records[i].pair = attempts[i]
       /\ phase = "boot" \/ i < Len(records) =>
            records[i].class = "LAUNCH_ERROR"

(* The contract's promises, kept until the run has exited.                   *)
ProcessInv ==
  /\ verdict \in Verdicts => ~alive
  /\ verdict = "PASS" => booted
  /\ alive => phase = "boot" \/ rc = "raised"
  /\ phase \in {"evidence", "exit"} => Len(records) > 0
  /\ (phase \in {"evidence", "exit"} \/ rc = "exit0") /\ Final = "PASS" =>
       booted

(* The evidence is of the last run that wrote it.                            *)
EvidenceInv ==
  /\ evidence.run <= run
  /\ mainLog <= run
  /\ phase \notin {"idle", "exit"} => evidence.run < run
  /\ phase = "exit" \/ rc = "exit0" =>
       evidence.run = run /\ evidence.final = Final
  /\ rc = "exit0" => Final = "PASS"
  /\ rc \in {"exit1", "exit2"} /\ evidence.run = run => evidence.final # "PASS"
  /\ phase = "evidence" /\ Final = "PASS" => mainLog = run
  /\ evidence.final = "PASS" => mainLog >= evidence.run
  /\ mainLog = run /\ run # 0 =>
       Final = "PASS" /\ (phase \in {"evidence", "exit"} \/
                           rc \in {"exit0", "raised"})
  /\ phase # "idle" \/ rc \in {"exit1", "exit2", "denied"} => run # 0

(* The QCOW2's stamps only grow.                                             *)
DisksInv ==
  /\ diskBefore <= disk
  /\ disks \subseteq diskBefore..disk
  /\ phase \in {"disk", "qcow2", "uefi", "list"} => disks = {}
  /\ evidence.unmodified /\ evidence.run = run =>
       evidence.disks \subseteq {diskBefore}

-----------------------------------------------------------------------------
(* The least number of a set of numbers: what induction over the listing     *)
(* rests on.                                                                 *)
LEMMA LeastNumber ==
  ASSUME NEW T, T \subseteq Nat, T # {}
  PROVE  \E n \in T : \A m \in T : n <= m
<1> DEFINE below == {0..n : n \in T}
<1>1. IsWellFoundedOn(StrictSubsetOrdering(Nat), FiniteSubsetsOf(Nat))
  BY FS_StrictSubsetOrderingWellFounded
<1>2. below \subseteq FiniteSubsetsOf(Nat)
  <2> SUFFICES ASSUME NEW n \in T PROVE 0..n \in FiniteSubsetsOf(Nat)
    OBVIOUS
  <2>1. IsFiniteSet(0..n)
    BY FS_Interval
  <2>2. 0..n \subseteq Nat
    OBVIOUS
  <2> QED
    BY <2>1, <2>2 DEF FiniteSubsetsOf
<1>3. below # {}
  OBVIOUS
<1>4. \E B \in below :
        \A C \in below : ~(<<C, B>> \in StrictSubsetOrdering(Nat))
  <2> HIDE DEF below
  <2> QED
    BY <1>1, <1>2, <1>3, WFMin
<1>5. PICK n \in T :
        \A m \in T : ~(<<0..m, 0..n>> \in StrictSubsetOrdering(Nat))
  BY <1>4
<1>6. ASSUME NEW m \in T, m < n PROVE FALSE
  <2>1. 0..m \subseteq 0..n /\ 0..m # 0..n /\ 0..n \subseteq Nat
    BY <1>6
  <2> QED
    BY <1>5, <1>6, <2>1 DEF StrictSubsetOrdering
<1> QED
  BY <1>5, <1>6

(* One step of the loop, and the loop over the first n of a listing.         *)
Keep(seen, p) == IF Contains(seen, p) THEN seen ELSE Append(seen, p)
IsKept(kept, listed, n) ==
  kept = [i \in 0..n |-> IF i = 0 THEN <<>> ELSE Keep(kept[i - 1], listed[i])]

(* The recursion of Once has a solution for every listing.                   *)
LEMMA KeptExists ==
  ASSUME NEW listed, NEW N \in Nat
  PROVE  \E kept : IsKept(kept, listed, N)
<1> DEFINE T == {n \in Nat : ~\E kept : IsKept(kept, listed, n)}
<1> SUFFICES ASSUME T # {} PROVE FALSE
  OBVIOUS
<1>1. PICK n \in T : \A m \in T : n <= m
  <2>1. T \subseteq Nat
    OBVIOUS
  <2> HIDE DEF T
  <2> QED
    BY <2>1, LeastNumber
<1>2. ~\E kept : IsKept(kept, listed, n)
  BY <1>1
<1>3. n # 0
  <2> DEFINE nothing == [i \in 0..0 |-> <<>>]
  <2>1. IsKept(nothing, listed, 0)
    BY DEF IsKept
  <2> QED
    BY <1>2, <2>1
<1>4. n \in Nat /\ n - 1 \in Nat /\ n - 1 \notin T
  BY <1>1, <1>3
<1>5. PICK kept : IsKept(kept, listed, n - 1)
  BY <1>4
<1> DEFINE more == [i \in 0..n |->
                      IF i = n THEN Keep(kept[n - 1], listed[n]) ELSE kept[i]]
<1>6. \A i \in 0..n : more[i] = IF i = 0 THEN <<>>
                                ELSE Keep(more[i - 1], listed[i])
  BY <1>3, <1>4, <1>5 DEF IsKept
<1>7. more = [i \in 0..n |-> more[i]]
  OBVIOUS
<1>8. IsKept(more, listed, n)
  <2> HIDE DEF more
  <2> QED
    BY <1>6, <1>7 DEF IsKept
<1> QED
  BY <1>2, <1>8

(* Once is the loop's last value.                                            *)
LEMMA OnceIsKept ==
  ASSUME NEW listed, Len(listed) \in Nat
  PROVE  \E kept : /\ IsKept(kept, listed, Len(listed))
                   /\ Once(listed) = kept[Len(listed)]
<1> DEFINE chosen == CHOOSE kept : IsKept(kept, listed, Len(listed))
<1>1. IsKept(chosen, listed, Len(listed))
  BY KeptExists
<1>2. Once(listed) = chosen[Len(listed)]
  BY DEF Once, IsKept, Keep
<1> QED
  BY <1>1, <1>2

(* The first place of a pair in a listing.                                   *)
FirstAt(listed, p, k) ==
  /\ k \in 1..Len(listed)
  /\ listed[k] = p
  /\ \A j \in 1..k - 1 : listed[j] # p

(* What the loop has kept after i steps: the pairs of the first i places,    *)
(* each once, in the order in which they first occur.                        *)
KeptRight(seen, listed, S, i) ==
  /\ seen \in Seq(S)
  /\ \A j \in 1..i : \E a \in 1..Len(seen) : seen[a] = listed[j]
  /\ \A a \in 1..Len(seen) : \E k \in 1..i : FirstAt(listed, seen[a], k)
  /\ \A a, b \in 1..Len(seen) : \A k, l \in 1..Len(listed) :
       a < b /\ FirstAt(listed, seen[a], k) /\ FirstAt(listed, seen[b], l)
         => k < l

(* One step of the loop keeps what it has kept right for one place more.     *)
LEMMA KeepStep ==
  ASSUME NEW S, NEW listed \in Seq(S), NEW i \in 1..Len(listed),
         NEW seen, KeptRight(seen, listed, S, i - 1)
  PROVE  KeptRight(Keep(seen, listed[i]), listed, S, i)
<1> DEFINE p == listed[i]
<1>1. p \in S
  OBVIOUS
<1>2. CASE Contains(seen, p)
  <2>1. Keep(seen, p) = seen
    BY <1>2 DEF Keep
  <2>2. \E a \in 1..Len(seen) : seen[a] = p
    BY <1>2 DEF Contains
  <2>3. \A a \in 1..Len(seen) : \E k \in 1..i : FirstAt(listed, seen[a], k)
    <3> TAKE a \in 1..Len(seen)
    <3>1. PICK k \in 1..i - 1 : FirstAt(listed, seen[a], k)
      BY DEF KeptRight
    <3> QED
      BY <3>1
  <2>4. \A j \in 1..i : \E a \in 1..Len(seen) : seen[a] = listed[j]
    <3> TAKE j \in 1..i
    <3>1. CASE j = i
      BY <2>2, <3>1
    <3>2. CASE j # i
      BY <3>2 DEF KeptRight
    <3> QED
      BY <3>1, <3>2
  <2> QED
    BY <2>1, <2>3, <2>4 DEF KeptRight
<1>3. CASE ~Contains(seen, p)
  <2> DEFINE more == Append(seen, p)
  <2>1. seen \in Seq(S) /\ more \in Seq(S) /\ Len(more) = Len(seen) + 1
    BY <1>1 DEF KeptRight
  <2>2. /\ more[Len(seen) + 1] = p
        /\ \A a \in 1..Len(seen) : more[a] = seen[a]
    BY <2>1
  <2>3. FirstAt(listed, p, i)
    <3>1. \A j \in 1..i - 1 : listed[j] # p
      BY <1>3 DEF KeptRight, Contains
    <3> QED
      BY <3>1 DEF FirstAt
  <2>4. \A j \in 1..i : \E a \in 1..Len(more) : more[a] = listed[j]
    <3> TAKE j \in 1..i
    <3>1. CASE j = i
      <4>1. Len(more) \in 1..Len(more)
        BY <2>1
      <4> QED
        BY <2>1, <2>2, <3>1, <4>1
    <3>2. CASE j # i
      <4>1. PICK a \in 1..Len(seen) : seen[a] = listed[j]
        BY <3>2 DEF KeptRight
      <4>2. a \in 1..Len(more)
        BY <2>1
      <4> QED
        BY <2>2, <4>1, <4>2
    <3> QED
      BY <3>1, <3>2
  <2>5. \A a \in 1..Len(more) : \E k \in 1..i : FirstAt(listed, more[a], k)
    <3> TAKE a \in 1..Len(more)
    <3>1. CASE a = Len(seen) + 1
      BY <2>2, <2>3, <3>1
    <3>2. CASE a # Len(seen) + 1
      <4>1. a \in 1..Len(seen)
        BY <2>1, <3>2
      <4>2. PICK k \in 1..i - 1 : FirstAt(listed, seen[a], k)
        BY <4>1 DEF KeptRight
      <4> QED
        BY <2>2, <4>1, <4>2
    <3> QED
      BY <3>1, <3>2
  <2>6. ASSUME NEW a \in 1..Len(more), NEW b \in 1..Len(more), a < b,
               NEW k \in 1..Len(listed), NEW l \in 1..Len(listed),
               FirstAt(listed, more[a], k), FirstAt(listed, more[b], l)
        PROVE  k < l
    <3>1. a \in 1..Len(seen) /\ more[a] = seen[a]
      BY <2>1, <2>2, <2>6
    <3>2. CASE b = Len(seen) + 1
      <4>1. PICK m \in 1..i - 1 : FirstAt(listed, seen[a], m)
        BY <3>1 DEF KeptRight
      <4>2. FirstAt(listed, p, l)
        BY <2>2, <2>6, <3>2
      <4>3. l = i
        BY <2>3, <4>2 DEF FirstAt
      <4>4. k = m
        BY <2>6, <3>1, <4>1 DEF FirstAt
      <4> QED
        BY <4>3, <4>4
    <3>3. CASE b # Len(seen) + 1
      <4>1. b \in 1..Len(seen) /\ more[b] = seen[b]
        BY <2>1, <2>2, <3>3
      <4> QED
        BY <2>6, <3>1, <4>1 DEF KeptRight
    <3> QED
      BY <3>2, <3>3
  <2>7. Keep(seen, p) = more
    BY <1>3 DEF Keep
  <2> HIDE DEF more
  <2>8. KeptRight(more, listed, S, i)
    BY <2>1, <2>4, <2>5, <2>6 DEF KeptRight
  <2> QED
    BY <2>7, <2>8
<1> QED
  BY <1>2, <1>3

(* Once lists every pair of a listing once, in the order in which they first *)
(* occur.                                                                    *)
LEMMA OnceIsRight ==
  ASSUME NEW S, NEW listed \in Seq(S)
  PROVE  KeptRight(Once(listed), listed, S, Len(listed))
<1>1. Len(listed) \in Nat
  OBVIOUS
<1>2. PICK kept : /\ IsKept(kept, listed, Len(listed))
                  /\ Once(listed) = kept[Len(listed)]
  BY <1>1, OnceIsKept
<1> DEFINE T == {n \in 0..Len(listed) : ~KeptRight(kept[n], listed, S, n)}
<1> SUFFICES ASSUME T # {} PROVE FALSE
  BY <1>1, <1>2
<1>3. PICK n \in T : \A m \in T : n <= m
  <2>1. T \subseteq Nat
    OBVIOUS
  <2> HIDE DEF T
  <2> QED
    BY <2>1, LeastNumber
<1>4. n \in 0..Len(listed) /\ ~KeptRight(kept[n], listed, S, n)
  BY <1>3
<1>5. CASE n = 0
  <2>1. kept[0] = <<>>
    BY <1>1, <1>2 DEF IsKept
  <2>2. KeptRight(<<>>, listed, S, 0)
    BY DEF KeptRight
  <2> QED
    BY <1>4, <1>5, <2>1, <2>2
<1>6. CASE n # 0
  <2>1. n - 1 \in 0..Len(listed) /\ n - 1 \notin T /\ n \in 1..Len(listed)
    BY <1>1, <1>3, <1>4, <1>6
  <2>2. KeptRight(kept[n - 1], listed, S, n - 1)
    BY <2>1
  <2>3. kept[n] = Keep(kept[n - 1], listed[n])
    BY <1>1, <1>2, <1>4, <1>6 DEF IsKept
  <2> QED
    BY <1>4, <2>1, <2>2, <2>3, KeepStep
<1> QED
  BY <1>5, <1>6

-----------------------------------------------------------------------------
(* The candidates are pairs, and what the loop has kept of all listed ones.  *)
LEMMA CandidatesRight ==
  ASSUME found \in FoundListings
  PROVE  /\ Candidates \in Seq(Pairs)
         /\ KeptRight(Candidates, StaticPairs \o found, Pairs,
                      Len(StaticPairs \o found))
<1>1. StaticPairs \o found \in Seq(Pairs)
  BY PairsAssumption
<1>2. KeptRight(Candidates, StaticPairs \o found, Pairs,
                Len(StaticPairs \o found))
  BY <1>1, OnceIsRight DEF Candidates, CandidatesOf
<1> QED
  BY <1>2 DEF KeptRight

(* The candidates are the static and the found pairs, each once, none lost,  *)
(* in the order they were listed.                                            *)
LEMMA ListedOnce ==
  ASSUME found \in FoundListings
  PROVE  CandidatesAreListedOnce
<1> DEFINE listed == StaticPairs \o found
           Place(p) == CHOOSE i \in DOMAIN listed :
                         listed[i] = p /\ \A j \in 1..i - 1 : listed[j] # p
<1>1. listed \in Seq(Pairs)
  BY PairsAssumption
<1>2. /\ Candidates \in Seq(Pairs)
      /\ KeptRight(Candidates, listed, Pairs, Len(listed))
  BY CandidatesRight
<1>3. DOMAIN Candidates = 1..Len(Candidates) /\ DOMAIN listed = 1..Len(listed)
  BY <1>1, <1>2
<1> HIDE DEF listed
<1>4. ToSet(Candidates) = ToSet(listed)
  <2>1. ASSUME NEW a \in 1..Len(Candidates)
        PROVE  \E k \in 1..Len(listed) : listed[k] = Candidates[a]
    BY <1>2 DEF KeptRight, FirstAt
  <2>2. ASSUME NEW j \in 1..Len(listed)
        PROVE  \E a \in 1..Len(Candidates) : Candidates[a] = listed[j]
    BY <1>2 DEF KeptRight
  <2>3. ASSUME NEW x \in ToSet(Candidates) PROVE x \in ToSet(listed)
    <3>1. PICK a \in 1..Len(Candidates) : x = Candidates[a]
      BY <1>3 DEF ToSet
    <3> QED
      BY <1>3, <2>1, <3>1 DEF ToSet
  <2>4. ASSUME NEW x \in ToSet(listed) PROVE x \in ToSet(Candidates)
    <3>1. PICK j \in 1..Len(listed) : x = listed[j]
      BY <1>3 DEF ToSet
    <3> QED
      BY <1>3, <2>2, <3>1 DEF ToSet
  <2> QED
    BY <2>3, <2>4
<1>5. ASSUME NEW a \in 1..Len(Candidates)
      PROVE  /\ Place(Candidates[a]) \in 1..Len(listed)
             /\ FirstAt(listed, Candidates[a], Place(Candidates[a]))
  <2>1. PICK k \in 1..Len(listed) : FirstAt(listed, Candidates[a], k)
    BY <1>2 DEF KeptRight
  <2>2. \E i \in DOMAIN listed :
          /\ listed[i] = Candidates[a]
          /\ \A j \in 1..i - 1 : listed[j] # Candidates[a]
    BY <1>3, <2>1 DEF FirstAt
  <2> QED
    BY <1>3, <2>2 DEF FirstAt
<1>6. \A i, j \in DOMAIN Candidates :
        i < j => Place(Candidates[i]) < Place(Candidates[j])
  <2> HIDE DEF Place
  <2> QED
    BY <1>2, <1>3, <1>5 DEF KeptRight
<1> USE DEF listed
<1> QED
  BY <1>4, <1>6 DEF CandidatesAreListedOnce

-----------------------------------------------------------------------------
(* No step changes the host, so the candidates stay the same.                *)
LEMMA HostKept ==
  ASSUME [Next]_vars
  PROVE  found' = found /\ status' = status /\ Candidates' = Candidates
<1>1. found' = found /\ status' = status
  <2> USE DEF host
  <2>1. ASSUME NEW timeoutValid \in BOOLEAN, NEW fitHost \in BOOLEAN,
               Start(timeoutValid, fitHost)
        PROVE  UNCHANGED host
    BY <2>1 DEF Start
  <2>2. ASSUME FindDisk PROVE UNCHANGED host
    BY <2>2 DEF FindDisk
  <2>3. ASSUME NEW ok \in BOOLEAN, Qcow2Preboot(ok)
        PROVE  UNCHANGED host
    BY <2>3 DEF Qcow2Preboot
  <2>4. ASSUME TryPair PROVE UNCHANGED host
    BY <2>4 DEF TryPair
  <2>5. ASSUME NoUsablePair PROVE UNCHANGED host
    BY <2>5 DEF NoUsablePair
  <2>6. ASSUME ListPair PROVE UNCHANGED host
    BY <2>6 DEF ListPair
  <2>7. ASSUME FirstAttempt PROVE UNCHANGED host
    BY <2>7 DEF FirstAttempt
  <2>8. ASSUME AttemptStep PROVE UNCHANGED host
    BY <2>8 DEF AttemptStep
  <2>9. ASSUME EndAttempt PROVE UNCHANGED host
    BY <2>9 DEF EndAttempt
  <2>10. ASSUME AttemptRaises PROVE UNCHANGED host
    BY <2>10 DEF AttemptRaises
  <2>11. ASSUME WriteEvidence PROVE UNCHANGED host
    BY <2>11 DEF WriteEvidence
  <2>12. ASSUME Report PROVE UNCHANGED host
    BY <2>12 DEF Report
  <2>13. ASSUME Raise PROVE UNCHANGED host
    BY <2>13 DEF Raise
  <2>14. ASSUME Rebuild PROVE UNCHANGED host
    BY <2>14 DEF Rebuild
  <2>15. ASSUME UNCHANGED vars PROVE UNCHANGED host
    BY <2>15 DEF vars
  <2> QED
    BY <2>1, <2>2, <2>3, <2>4, <2>5, <2>6, <2>7, <2>8, <2>9,
       <2>10, <2>11, <2>12, <2>13, <2>14, <2>15 DEF Next, SmokeStep
<1> QED
  BY <1>1 DEF Candidates

(* A step of an attempt keeps to the contract's types.                       *)
LEMMA ContractStep ==
  ASSUME ContractTypeOK, ContractNext
  PROVE  ContractTypeOK'
BY DEF ContractTypeOK, ContractNext, Launch, Boot, Die, Conclude, Abort,
       Verdicts

(* What is copied is one of the copies that there may be.                    *)
Copies == {PrebootCopy(p) : p \in Pairs}
            \cup {AttemptCopy(n) : n \in 1..MAX_BOOT_ATTEMPTS}

(* The sequence types imply the element types of TypeOK.                     *)
LEMMA ElementTyped ==
  ASSUME NEW S, NEW s \in Seq(S), NEW x \in ToSet(s)
  PROVE  x \in S
<1>1. PICK i \in 1..Len(s) : x = s[i]
  BY DEF ToSet
<1> QED
  BY <1>1, ElementOfSeq

(* The sequences of TypesInv hold pairs, and records of pair and verdict.    *)
LEMMA ElementsTyped ==
  /\ \A s \in Seq(Pairs) : ToSet(s) \subseteq Pairs
  /\ \A s \in Seq([pair : Pairs, class : Verdicts]) :
       \A r \in ToSet(s) : r.pair \in Pairs /\ r.class \in Verdicts
<1>1. \A s \in Seq(Pairs) : ToSet(s) \subseteq Pairs
  BY ElementTyped
<1>2. \A s \in Seq([pair : Pairs, class : Verdicts]) :
        \A r \in ToSet(s) : r \in [pair : Pairs, class : Verdicts]
  BY ElementTyped
<1> QED
  BY <1>1, <1>2

(* Types, and which phases have pairs to boot and a QCOW2. *)
LEMMA TypesInvariant == Spec => []TypesInv
<1>1. Init => TypesInv
  <2> SUFFICES ASSUME Init PROVE TypesInv
    OBVIOUS
  <2>1. /\ attempts \in Seq(Pairs) /\ Len(attempts) = 0
        /\ records \in Seq([pair : Pairs, class : Verdicts])
        /\ Len(records) = 0
    BY DEF Init
  <2>2. next \in 1..Len(Candidates) + 1
    BY CandidatesRight DEF Init
  <2>3. ToSet(attempts) = {} /\ ToSet(records) = {}
    BY DEF Init, ToSet
  <2>4. ContractTypeOK
    BY DEF Init, ContractInit, ContractTypeOK
  <2> QED
    BY <2>1, <2>2, <2>3, <2>4, BoundsAssumption
       DEF Init, TypesInv, ListsInv, TypeOK, Before, NoEvidence
<1>2. TypesInv /\ [Next]_vars => TypesInv'
  <2> SUFFICES ASSUME TypesInv, [Next]_vars
               PROVE  TypesInv'
    OBVIOUS
  <2> USE BoundsAssumption
  <2> USE DEF contractVars, host, files, locals
  <2>0. found' = found /\ status' = status /\ Candidates' = Candidates
    BY HostKept
  <2>00. Candidates \in Seq(Pairs) /\ Len(Candidates) \in Nat
    BY CandidatesRight DEF TypesInv, TypeOK
  <2> USE DEF TypesInv, ListsInv, TypeOK, ContractTypeOK, Before
  <2>1. ASSUME NEW timeoutValid \in BOOLEAN, NEW fitHost \in BOOLEAN,
               Start(timeoutValid, fitHost)
        PROVE  TypesInv'
    <3>1. /\ attempts' = <<>> /\ attempts' \in Seq(Pairs) /\ Len(attempts') = 0
          /\ records' = <<>> /\ Len(records') = 0
          /\ records' \in Seq([pair : Pairs, class : Verdicts])
      BY <2>1 DEF Start, ClearLocals
    <3>2. ToSet(attempts') = {} /\ ToSet(records') = {}
      BY <3>1 DEF ToSet
    <3>3. run' \in 0..MaxRuns /\ next' \in 1..Len(Candidates') + 1
      BY <2>0, <2>1 DEF Start, ClearLocals
    <3>4. phase' \in {"idle", "disk"} /\ rc' \in {"none", "exit2"}
      BY <2>1 DEF Start
    <3>5. ContractTypeOK'
      BY <2>1 DEF Start
    <3>6. firmware' = NoPair /\ diskBefore' = 0 /\ disks' = {}
      BY <2>1 DEF Start, ClearLocals
    <3>7. UNCHANGED <<readOnly, disk, mainLog, evidence>>
      BY <2>1 DEF Start
    <3>8. TypeOK'
      <4> HIDE DEF ContractTypeOK, ListsInv
      <4> QED
        BY <2>0, <3>2, <3>3, <3>4, <3>5, <3>6, <3>7
    <3>9. ListsInv'
      BY <3>1, <3>4
    <3> HIDE DEF TypeOK, ListsInv
    <3> QED
      BY <3>8, <3>9
  <2>2. CASE FindDisk
    BY <2>0, <2>2 DEF FindDisk, Go, Exit
  <2>3. ASSUME NEW ok \in BOOLEAN, Qcow2Preboot(ok)
        PROVE  TypesInv'
    BY <2>0, <2>3 DEF Qcow2Preboot, Go, Exit
  <2>4. CASE TryPair
    <3> DEFINE p == Candidates[next]
    <3>1. phase = "uefi" /\ next \in 1..Len(Candidates) /\ p \in Pairs
      BY <2>4, <2>00 DEF TryPair
    <3>2. next + 1 \in 1..Len(Candidates) + 1
      BY <2>00, <3>1
    <3>3. PrebootCopy(p) \in Copies
      BY <3>1 DEF Copies
    <3>4. CASE SkipPair(p)
      BY <2>0, <2>4, <3>1, <3>2, <3>4 DEF TryPair, SkipPair
    <3>5. CASE CopyPair(p)
      <4>1. readOnly' \subseteq Copies
        BY <3>3, <3>5 DEF CopyPair, Copy, Copies
      <4>2. CASE status[p] = "varsReadOnly"
        BY <2>0, <2>4, <3>1, <3>2, <3>5, <4>1, <4>2
           DEF TryPair, CopyPair, Copies
      <4>3. CASE status[p] = "good"
        <5>1. /\ attempts' = <<p>> /\ firmware' = p /\ next' = 1
              /\ phase' = "list" /\ rc' = rc
          BY <3>5, <4>3 DEF CopyPair, Go
        <5>2. attempts' \in Seq(Pairs) /\ Len(attempts') = 1
          BY <3>1, <5>1
        <5>3. ToSet(attempts') \subseteq Pairs
          BY <5>2, ElementsTyped
        <5> QED
          BY <2>0, <2>00, <2>4, <3>1, <4>1, <5>1, <5>2, <5>3
             DEF TryPair, Copies
      <4> QED
        BY <3>5, <4>2, <4>3 DEF CopyPair
    <3>6. CASE CopyPairDenied(p)
      BY <2>0, <2>4, <3>1, <3>6 DEF TryPair, CopyPairDenied, Exit
    <3> QED
      BY <2>4, <3>4, <3>5, <3>6 DEF TryPair
  <2>5. CASE NoUsablePair
    BY <2>0, <2>5 DEF NoUsablePair, Exit
  <2>6. CASE ListPair
    <3> DEFINE p == Candidates[next]
               copy == AttemptCopy(Len(attempts) + 1)
    <3>1. /\ phase = "list" /\ next \in 1..Len(Candidates) /\ p \in Pairs
          /\ Len(attempts) < MAX_BOOT_ATTEMPTS
      BY <2>6, <2>00 DEF ListPair, Listing
    <3>2. next + 1 \in 1..Len(Candidates) + 1
      BY <2>00, <3>1
    <3>3. copy \in Copies
      BY <3>1 DEF Copies
    <3>4. CASE /\ next' = next + 1
               /\ UNCHANGED <<phase, rc, attempts, readOnly>>
      BY <2>0, <2>6, <3>1, <3>2, <3>4 DEF ListPair
    <3>5. CASE /\ Copy(p, copy) /\ attempts' = Append(attempts, p)
               /\ next' = next + 1 /\ UNCHANGED <<phase, rc>>
      <4>1. readOnly' \subseteq Copies
        BY <3>3, <3>5 DEF Copy, Copies
      <4>2. attempts' \in Seq(Pairs) /\ Len(attempts') = Len(attempts) + 1
        BY <3>1, <3>5
      <4>3. ToSet(attempts') \subseteq Pairs
        BY <4>2, ElementsTyped
      <4>4. UNCHANGED <<contractVars, disk, mainLog, evidence, firmware,
                        records, diskBefore, disks, run>>
        BY <2>6 DEF ListPair
      <4>5. ContractTypeOK' /\ next' \in 1..Len(Candidates') + 1
        BY <2>0, <3>2, <3>5, <4>4
      <4>6. Len(attempts') <= MAX_BOOT_ATTEMPTS /\ Len(attempts') > 0
        BY <3>1, <4>2
      <4>7. phase' = phase /\ rc' = rc
        BY <3>5
      <4> HIDE DEF ContractTypeOK, p, copy
      <4>8. TypeOK'
        <5> HIDE DEF ListsInv
        <5> QED
          BY <2>0, <3>1, <4>1, <4>3, <4>4, <4>5, <4>7 DEF Copies
      <4>9. ListsInv'
        BY <3>1, <4>2, <4>4, <4>6, <4>7
      <4> HIDE DEF TypeOK, ListsInv
      <4> QED
        BY <4>8, <4>9
    <3>6. CASE Exit("list", "denied") /\ UNCHANGED <<next, attempts, readOnly>>
      BY <2>0, <2>6, <3>1, <3>6 DEF ListPair, Exit
    <3> QED
      BY <2>6, <3>4, <3>5, <3>6 DEF ListPair
  <2>7. CASE FirstAttempt
    <3>1. phase = "list" /\ phase' = "boot" /\ rc' = rc
      BY <2>7 DEF FirstAttempt, Go
    <3> QED
      BY <2>0, <2>7, <3>1 DEF FirstAttempt
  <2>8. CASE AttemptStep
    <3>1. ContractTypeOK'
      <4>1. ContractTypeOK /\ ContractNext
        BY <2>8 DEF AttemptStep
      <4> HIDE DEF ContractTypeOK
      <4> QED
        BY <4>1, ContractStep
    <3>2. phase = "boot" /\ disks' \subseteq 1..MaxRebuilds
      BY <2>8 DEF AttemptStep
    <3> HIDE DEF ContractTypeOK
    <3> QED
      BY <2>0, <2>8, <3>1, <3>2 DEF AttemptStep
  <2>9. CASE EndAttempt
    <3> DEFINE r == [pair |-> Current, class |-> verdict]
    <3>1. /\ phase = "boot" /\ verdict \in Verdicts
          /\ records' = Append(records, r)
          /\ UNCHANGED <<host, readOnly, disk, evidence, next, firmware,
                         attempts, diskBefore, disks, run>>
      BY <2>9 DEF EndAttempt
    <3>2. Current \in Pairs
      BY <3>1 DEF Current
    <3>3. r \in [pair : Pairs, class : Verdicts]
      BY <3>1, <3>2
    <3>4. /\ records' \in Seq([pair : Pairs, class : Verdicts])
          /\ Len(records') = Len(records) + 1
      BY <3>1, <3>3
    <3>5. \A q \in ToSet(records') : q.pair \in Pairs /\ q.class \in Verdicts
      BY <3>4, ElementsTyped
    <3>6. mainLog' \in 0..MaxRuns
      BY <2>9 DEF EndAttempt
    <3>7. /\ ContractTypeOK'
          /\ phase' \in {"boot", "evidence"} /\ rc' = rc
          /\ phase' = "boot" => Len(records') < Len(attempts)
      BY <2>9, <3>1 DEF EndAttempt, Go
    <3>8. Len(records') <= Len(attempts) /\ disk # 0 /\ diskBefore # 0
      BY <3>1, <3>4
    <3>9. next' \in 1..Len(Candidates') + 1
      BY <2>0, <3>1
    <3> HIDE DEF ContractTypeOK, r
    <3> QED
      BY <2>0, <3>1, <3>4, <3>5, <3>6, <3>7, <3>8, <3>9
  <2>10. CASE AttemptRaises
    BY <2>0, <2>10 DEF AttemptRaises, Exit
  <2>11. CASE WriteEvidence
    BY <2>0, <2>11 DEF WriteEvidence, Go
  <2>12. CASE Report
    BY <2>0, <2>12 DEF Report, Exit
  <2>13. CASE Raise
    BY <2>0, <2>13 DEF Raise
  <2>14. CASE Rebuild
    <3>1. disk' \in 0..MaxRebuilds /\ (disk # 0 => disk' # 0)
      BY <2>14 DEF Rebuild
    <3>2. UNCHANGED <<contractVars, host, readOnly, mainLog, evidence, locals,
                      run, phase, rc>>
      BY <2>14 DEF Rebuild
    <3> QED
      BY <2>0, <3>1, <3>2
  <2>15. CASE UNCHANGED vars
    BY <2>0, <2>15 DEF vars
  <2> HIDE DEF TypesInv, ListsInv, TypeOK, ContractTypeOK, Before
  <2> QED
    BY <2>1, <2>2, <2>3, <2>4, <2>5, <2>6, <2>7, <2>8, <2>9,
       <2>10, <2>11, <2>12, <2>13, <2>14, <2>15
       DEF Next, SmokeStep
<1> QED
  BY <1>1, <1>2, PTL DEF Spec

(* Every variable keeps its type. *)
THEOREM TypeCorrect == Spec => []TypeOK
<1>1. TypesInv => TypeOK
  BY DEF TypesInv
<1> QED
  BY <1>1, TypesInvariant, PTL

-----------------------------------------------------------------------------
(* A run goes on until it has an exit code. *)
LEMMA GoingInvariant == Spec => []GoingInv
<1>1. Init => GoingInv
  BY DEF Init, GoingInv
<1>2. GoingInv /\ [Next]_vars => GoingInv'
  <2> SUFFICES ASSUME GoingInv, [Next]_vars
               PROVE  GoingInv'
    OBVIOUS
  <2> USE BoundsAssumption
  <2> USE DEF contractVars, host, files, locals
  <2> USE DEF GoingInv
  <2>0. found' = found /\ status' = status /\ Candidates' = Candidates
    BY HostKept
  <2>1. ASSUME NEW timeoutValid \in BOOLEAN, NEW fitHost \in BOOLEAN,
               Start(timeoutValid, fitHost)
        PROVE  GoingInv'
    BY <2>0, <2>1 DEF Start, ClearLocals
  <2>2. CASE FindDisk
    BY <2>0, <2>2 DEF FindDisk, Go, Exit
  <2>3. ASSUME NEW ok \in BOOLEAN, Qcow2Preboot(ok)
        PROVE  GoingInv'
    BY <2>0, <2>3 DEF Qcow2Preboot, Go, Exit
  <2>4. CASE TryPair
    BY <2>0, <2>4
       DEF TryPair, SkipPair, CopyPair, CopyPairDenied, Readable, Go, Exit
  <2>5. CASE NoUsablePair
    BY <2>0, <2>5 DEF NoUsablePair, Exit
  <2>6. CASE ListPair
    BY <2>0, <2>6 DEF ListPair, Listing, Seen, Exit
  <2>7. CASE FirstAttempt
    BY <2>0, <2>7 DEF FirstAttempt, Listing, Go
  <2>8. CASE AttemptStep
    BY <2>0, <2>8 DEF AttemptStep
  <2>9. CASE EndAttempt
    BY <2>0, <2>9 DEF EndAttempt, Retried, Go
  <2>10. CASE AttemptRaises
    BY <2>0, <2>10 DEF AttemptRaises, Exit
  <2>11. CASE WriteEvidence
    BY <2>0, <2>11 DEF WriteEvidence, Go
  <2>12. CASE Report
    BY <2>0, <2>12 DEF Report, Exit
  <2>13. CASE Raise
    BY <2>0, <2>13 DEF Raise
  <2>14. CASE Rebuild
    BY <2>0, <2>14 DEF Rebuild
  <2>15. CASE UNCHANGED vars
    BY <2>0, <2>15 DEF vars
  <2> QED
    BY <2>1, <2>2, <2>3, <2>4, <2>5, <2>6, <2>7, <2>8, <2>9,
       <2>10, <2>11, <2>12, <2>13, <2>14, <2>15
       DEF Next, SmokeStep
<1> QED
  BY <1>1, <1>2, PTL DEF Spec

(* Nothing that is good was passed over on the way to the pair chosen. *)
LEMMA ChoiceInvariant == Spec => []ChoiceInv
<1>1. Init => ChoiceInv
  BY DEF Init, ChoiceInv
<1>2. TypesInv /\ GoingInv /\ ChoiceInv /\ [Next]_vars => ChoiceInv'
  <2> SUFFICES ASSUME TypesInv, GoingInv, ChoiceInv, [Next]_vars
               PROVE  ChoiceInv'
    OBVIOUS
  <2> USE BoundsAssumption
  <2> USE DEF contractVars, host, files, locals
  <2>0. found' = found /\ status' = status /\ Candidates' = Candidates
    BY HostKept
  <2>00. Candidates \in Seq(Pairs) /\ Len(Candidates) \in Nat
    BY CandidatesRight DEF TypesInv, TypeOK
  <2> USE DEF GoingInv, ChoiceInv, Usable
  <2>1. ASSUME NEW timeoutValid \in BOOLEAN, NEW fitHost \in BOOLEAN,
               Start(timeoutValid, fitHost)
        PROVE  ChoiceInv'
    BY <2>0, <2>1 DEF Start, ClearLocals
  <2>2. CASE FindDisk
    BY <2>0, <2>2 DEF FindDisk, Go, Exit
  <2>3. ASSUME NEW ok \in BOOLEAN, Qcow2Preboot(ok)
        PROVE  ChoiceInv'
    BY <2>0, <2>3 DEF Qcow2Preboot, Go, Exit
  <2>4. CASE TryPair
    <3> DEFINE p == Candidates[next]
    <3>1. /\ phase = "uefi" /\ rc = "none" /\ next \in 1..Len(Candidates)
          /\ diskBefore' = diskBefore
          /\ \A i \in 1..next - 1 : ~Usable(Candidates[i])
      BY <2>00, <2>4 DEF TryPair, TypesInv, TypeOK
    <3>2. next \in DOMAIN Candidates
      BY <2>00, <3>1
    <3>3. ASSUME ~Usable(p), next' = next + 1,
                 UNCHANGED <<phase, rc, firmware>>
          PROVE  ChoiceInv'
      <4>1. \A i \in 1..next' - 1 : ~Usable(Candidates[i])
        BY <3>1, <3>3
      <4> QED
        BY <2>0, <3>1, <3>3, <4>1
    <3>4. CASE SkipPair(p)
      BY <3>3, <3>4 DEF SkipPair, Readable
    <3>5. CASE CopyPair(p)
      <4>1. CASE status[p] = "varsReadOnly"
        BY <3>3, <3>5, <4>1 DEF CopyPair
      <4>2. CASE status[p] = "good"
        <5>1. firmware' = p /\ phase' = "list" /\ rc' = rc
          BY <3>5, <4>2 DEF CopyPair, Go
        <5> QED
          BY <2>0, <3>1, <3>2, <4>2, <5>1
      <4> QED
        BY <3>5, <4>1, <4>2 DEF CopyPair
    <3>6. CASE CopyPairDenied(p)
      BY <2>0, <3>1, <3>6 DEF CopyPairDenied, Exit
    <3> QED
      BY <2>4, <3>4, <3>5, <3>6 DEF TryPair
  <2>5. CASE NoUsablePair
    <3>1. /\ phase' = "idle" /\ rc' = "exit2"
          /\ UNCHANGED <<firmware, next, diskBefore>>
      BY <2>5 DEF NoUsablePair, Exit
    <3>2. \A i \in DOMAIN Candidates : ~Usable(Candidates[i])
      <4>1. DOMAIN Candidates = 1..Len(Candidates)
        BY <2>00
      <4>2. phase = "uefi" /\ next > Len(Candidates) /\ next \in Nat
        BY <2>00, <2>5 DEF NoUsablePair, Exit, TypesInv, TypeOK
      <4> QED
        BY <2>00, <4>1, <4>2
    <3> QED
      BY <2>0, <3>1, <3>2
  <2>6. CASE ListPair
    BY <2>0, <2>6 DEF ListPair, Listing, Seen, Exit
  <2>7. CASE FirstAttempt
    BY <2>0, <2>7 DEF FirstAttempt, Listing, Go
  <2>8. CASE AttemptStep
    BY <2>0, <2>8 DEF AttemptStep
  <2>9. CASE EndAttempt
    BY <2>0, <2>9 DEF EndAttempt, Retried, Go
  <2>10. CASE AttemptRaises
    BY <2>0, <2>10 DEF AttemptRaises, Exit
  <2>11. CASE WriteEvidence
    BY <2>0, <2>11 DEF WriteEvidence, Go
  <2>12. CASE Report
    BY <2>0, <2>12 DEF Report, Exit
  <2>13. CASE Raise
    BY <2>0, <2>13 DEF Raise
  <2>14. CASE Rebuild
    BY <2>0, <2>14 DEF Rebuild
  <2>15. CASE UNCHANGED vars
    BY <2>0, <2>15 DEF vars
  <2> QED
    BY <2>1, <2>2, <2>3, <2>4, <2>5, <2>6, <2>7, <2>8, <2>9,
       <2>10, <2>11, <2>12, <2>13, <2>14, <2>15
       DEF Next, SmokeStep
<1> QED
  BY <1>1, <1>2, TypesInvariant, GoingInvariant, PTL DEF Spec

(* Only a template without write permission leaves a copy without it. *)
LEMMA CopiesInvariant == Spec => []CopiesInv
<1>1. Init => CopiesInv
  BY DEF Init, CopiesInv
<1>2. TypesInv /\ CopiesInv /\ [Next]_vars => CopiesInv'
  <2> SUFFICES ASSUME TypesInv, CopiesInv, [Next]_vars
               PROVE  CopiesInv'
    OBVIOUS
  <2> USE BoundsAssumption
  <2> USE DEF contractVars, host, files, locals
  <2>0. found' = found /\ status' = status /\ Candidates' = Candidates
    BY HostKept
  <2>00. Candidates \in Seq(Pairs) /\ Len(Candidates) \in Nat
    BY CandidatesRight DEF TypesInv, TypeOK
  <2> USE DEF CopiesInv
  <2>1. ASSUME NEW timeoutValid \in BOOLEAN, NEW fitHost \in BOOLEAN,
               Start(timeoutValid, fitHost)
        PROVE  CopiesInv'
    BY <2>0, <2>1 DEF Start, ClearLocals
  <2>2. CASE FindDisk
    BY <2>0, <2>2 DEF FindDisk, Go, Exit
  <2>3. ASSUME NEW ok \in BOOLEAN, Qcow2Preboot(ok)
        PROVE  CopiesInv'
    BY <2>0, <2>3 DEF Qcow2Preboot, Go, Exit
  <2>4. CASE TryPair
    <3> DEFINE p == Candidates[next]
    <3>1. next \in DOMAIN Candidates /\ phase = "uefi"
      BY <2>00, <2>4 DEF TryPair, TypesInv, TypeOK
    <3>2. ASSUME NEW copy, CopyDenied(p, copy)
          PROVE  \E i \in DOMAIN Candidates :
                   status[Candidates[i]] \in {"varsUnreadable", "varsReadOnly"}
      BY <3>1, <3>2 DEF CopyDenied
    <3>3. ASSUME NEW copy, Copy(p, copy), readOnly' # {}
          PROVE  \E i \in DOMAIN Candidates :
                   status[Candidates[i]] = "varsReadOnly"
      BY <3>1, <3>3 DEF Copy
    <3>4. CASE SkipPair(p)
      BY <2>0, <3>4 DEF SkipPair
    <3>5. CASE CopyPair(p)
      <4>1. Copy(p, PrebootCopy(p)) /\ rc' = rc
        BY <3>5 DEF CopyPair, Go
      <4> QED
        BY <2>0, <3>3, <4>1
    <3>6. CASE CopyPairDenied(p)
      BY <2>0, <3>2, <3>6 DEF CopyPairDenied, Exit
    <3> QED
      BY <2>4, <3>4, <3>5, <3>6 DEF TryPair
  <2>5. CASE NoUsablePair
    BY <2>0, <2>5 DEF NoUsablePair, Exit
  <2>6. CASE ListPair
    <3> DEFINE p == Candidates[next]
               own == AttemptCopy(Len(attempts) + 1)
    <3>1. next \in DOMAIN Candidates /\ phase = "list"
      BY <2>00, <2>6 DEF ListPair, Listing, TypesInv, TypeOK
    <3>2. ASSUME NEW copy, CopyDenied(p, copy)
          PROVE  \E i \in DOMAIN Candidates :
                   status[Candidates[i]] \in {"varsUnreadable", "varsReadOnly"}
      BY <3>1, <3>2 DEF CopyDenied
    <3>3. ASSUME NEW copy, Copy(p, copy), readOnly' # {}
          PROVE  \E i \in DOMAIN Candidates :
                   status[Candidates[i]] = "varsReadOnly"
      BY <3>1, <3>3 DEF Copy
    <3>4. CASE UNCHANGED <<rc, readOnly>>
      BY <2>0, <3>4
    <3>5. CASE Copy(p, own) /\ UNCHANGED rc
      BY <2>0, <3>3, <3>5
    <3>6. CASE CopyDenied(p, own) /\ rc' = "denied" /\ UNCHANGED readOnly
      BY <2>0, <3>2, <3>6
    <3> QED
      BY <2>6, <3>4, <3>5, <3>6 DEF ListPair, Exit
  <2>7. CASE FirstAttempt
    BY <2>0, <2>7 DEF FirstAttempt, Listing, Go
  <2>8. CASE AttemptStep
    BY <2>0, <2>8 DEF AttemptStep
  <2>9. CASE EndAttempt
    BY <2>0, <2>9 DEF EndAttempt, Retried, Go
  <2>10. CASE AttemptRaises
    BY <2>0, <2>10 DEF AttemptRaises, Exit
  <2>11. CASE WriteEvidence
    BY <2>0, <2>11 DEF WriteEvidence, Go
  <2>12. CASE Report
    BY <2>0, <2>12 DEF Report, Exit
  <2>13. CASE Raise
    BY <2>0, <2>13 DEF Raise
  <2>14. CASE Rebuild
    BY <2>0, <2>14 DEF Rebuild
  <2>15. CASE UNCHANGED vars
    BY <2>0, <2>15 DEF vars
  <2> QED
    BY <2>1, <2>2, <2>3, <2>4, <2>5, <2>6, <2>7, <2>8, <2>9,
       <2>10, <2>11, <2>12, <2>13, <2>14, <2>15
       DEF Next, SmokeStep
<1> QED
  BY <1>1, <1>2, TypesInvariant, PTL DEF Spec

(* The records are those of the first attempts, which differ. *)
LEMMA AttemptsInvariant == Spec => []AttemptsInv
<1>1. Init => AttemptsInv
  BY DEF Init, AttemptsInv
<1>2. TypesInv /\ AttemptsInv /\ [Next]_vars => AttemptsInv'
  <2> SUFFICES ASSUME TypesInv, AttemptsInv, [Next]_vars
               PROVE  AttemptsInv'
    OBVIOUS
  <2> USE BoundsAssumption
  <2> USE DEF contractVars, host, files, locals
  <2>0. found' = found /\ status' = status /\ Candidates' = Candidates
    BY HostKept
  <2>00. Candidates \in Seq(Pairs) /\ Len(Candidates) \in Nat
    BY CandidatesRight DEF TypesInv, TypeOK
  <2> USE DEF AttemptsInv
  <2>1. ASSUME NEW timeoutValid \in BOOLEAN, NEW fitHost \in BOOLEAN,
               Start(timeoutValid, fitHost)
        PROVE  AttemptsInv'
    BY <2>0, <2>1 DEF Start, ClearLocals
  <2>2. CASE FindDisk
    BY <2>0, <2>2 DEF FindDisk, Go, Exit
  <2>3. ASSUME NEW ok \in BOOLEAN, Qcow2Preboot(ok)
        PROVE  AttemptsInv'
    BY <2>0, <2>3 DEF Qcow2Preboot, Go, Exit
  <2>4. CASE TryPair
    <3> DEFINE p == Candidates[next]
    <3>1. phase = "uefi" /\ Len(records) = 0 /\ records' = records
      BY <2>4 DEF TryPair, TypesInv, ListsInv
    <3>2. CASE CopyPair(p) /\ status[p] = "good"
      <4>1. attempts' = <<p>> /\ firmware' = p /\ phase' = "list"
        BY <3>2 DEF CopyPair, Go
      <4> QED
        BY <3>1, <4>1
    <3>3. CASE UNCHANGED <<attempts, firmware>> /\ phase' \in {"uefi", "idle"}
      BY <3>1, <3>3
    <3> QED
      BY <2>4, <3>1, <3>2, <3>3
         DEF TryPair, SkipPair, CopyPair, CopyPairDenied, Exit
  <2>5. CASE NoUsablePair
    BY <2>0, <2>5 DEF NoUsablePair, Exit
  <2>6. CASE ListPair
    <3> DEFINE p == Candidates[next]
    <3>1. /\ phase = "list" /\ Len(records) = 0 /\ records' = records
          /\ phase' \in {"list", "idle"} /\ firmware' = firmware
          /\ attempts \in Seq(Pairs) /\ Len(attempts) > 0
      BY <2>6 DEF ListPair, TypesInv, ListsInv, Exit
    <3>2. CASE UNCHANGED attempts
      BY <3>1, <3>2
    <3>3. CASE ~Seen(p) /\ attempts' = Append(attempts, p)
      <4>1. /\ Len(attempts') = Len(attempts) + 1
            /\ attempts'[Len(attempts) + 1] = p
            /\ \A i \in 1..Len(attempts) : attempts'[i] = attempts[i]
        BY <3>1, <3>3
      <4>2. \A i \in 1..Len(attempts) : attempts[i] # p
        BY <3>3 DEF Seen, Contains
      <4>3. \A i, j \in 1..Len(attempts') :
              i # j => attempts'[i] # attempts'[j]
        BY <3>1, <4>1, <4>2
      <4>4. attempts'[1] = firmware
        BY <3>1, <4>1
      <4> QED
        BY <3>1, <4>3, <4>4
    <3> QED
      BY <2>6, <3>2, <3>3 DEF ListPair
  <2>7. CASE FirstAttempt
    <3>1. Len(records) = 0 /\ UNCHANGED <<attempts, records, firmware>>
      BY <2>7 DEF FirstAttempt, Go, TypesInv, ListsInv
    <3> QED
      BY <3>1
  <2>8. CASE AttemptStep
    BY <2>0, <2>8 DEF AttemptStep
  <2>9. CASE EndAttempt
    <3> DEFINE r == [pair |-> Current, class |-> verdict]
    <3>1. /\ phase = "boot" /\ records' = Append(records, r)
          /\ UNCHANGED <<attempts, firmware>>
          /\ phase' \in {"boot", "evidence"}
          /\ phase' = "boot" => verdict = "LAUNCH_ERROR"
      BY <2>9 DEF EndAttempt, Go, Retried
    <3>2. /\ records \in Seq([pair : Pairs, class : Verdicts])
          /\ Len(records) \in Nat
      BY DEF TypesInv, ListsInv
    <3>3. /\ Len(records') = Len(records) + 1
          /\ records'[Len(records) + 1] = r
          /\ \A i \in 1..Len(records) : records'[i] = records[i]
      BY <3>1, <3>2
    <3>4. r.pair = attempts[Len(records) + 1] /\ r.class = verdict
      BY DEF Current
    <3>5. \A i \in 1..Len(records') : records'[i].pair = attempts[i]
      BY <3>2, <3>3, <3>4
    <3>6. \A i \in 1..Len(records) : records'[i].class = "LAUNCH_ERROR"
      BY <3>1, <3>3
    <3>7. \A i \in 1..Len(records') :
            phase' = "boot" \/ i < Len(records') =>
              records'[i].class = "LAUNCH_ERROR"
      BY <3>1, <3>2, <3>3, <3>4, <3>6
    <3> HIDE DEF r
    <3> QED
      BY <3>1, <3>5, <3>7
  <2>10. CASE AttemptRaises
    BY <2>0, <2>10 DEF AttemptRaises, Exit
  <2>11. CASE WriteEvidence
    BY <2>0, <2>11 DEF WriteEvidence, Go
  <2>12. CASE Report
    BY <2>0, <2>12 DEF Report, Exit
  <2>13. CASE Raise
    BY <2>0, <2>13 DEF Raise
  <2>14. CASE Rebuild
    BY <2>0, <2>14 DEF Rebuild
  <2>15. CASE UNCHANGED vars
    BY <2>0, <2>15 DEF vars
  <2> QED
    BY <2>1, <2>2, <2>3, <2>4, <2>5, <2>6, <2>7, <2>8, <2>9,
       <2>10, <2>11, <2>12, <2>13, <2>14, <2>15
       DEF Next, SmokeStep
<1> QED
  BY <1>1, <1>2, TypesInvariant, PTL DEF Spec

(* The contract's promises are kept until the run has exited. *)
LEMMA ProcessInvariant == Spec => []ProcessInv
<1>1. Init => ProcessInv
  BY DEF Init, ProcessInv, ContractInit, Verdicts
<1>2. TypesInv /\ GoingInv /\ ProcessInv /\ [Next]_vars => ProcessInv'
  <2> SUFFICES ASSUME TypesInv, GoingInv, ProcessInv, [Next]_vars
               PROVE  ProcessInv'
    OBVIOUS
  <2> USE BoundsAssumption
  <2> USE DEF contractVars, host, files, locals
  <2>0. found' = found /\ status' = status /\ Candidates' = Candidates
    BY HostKept
  <2>00. /\ run \in Nat /\ evidence.run \in Nat /\ mainLog \in Nat
        /\ disk \in Nat /\ diskBefore \in Nat /\ disks \subseteq Nat
    BY DEF TypesInv, TypeOK
  <2>01. UNCHANGED records => UNCHANGED Final
    BY DEF Final
  <2> USE DEF GoingInv, ProcessInv, Verdicts
  <2>1. ASSUME NEW timeoutValid \in BOOLEAN, NEW fitHost \in BOOLEAN,
               Start(timeoutValid, fitHost)
        PROVE  ProcessInv'
    BY <2>00, <2>01, <2>1 DEF Start, ClearLocals
  <2>2. CASE FindDisk
    BY <2>00, <2>01, <2>2 DEF FindDisk, Go, Exit
  <2>3. ASSUME NEW ok \in BOOLEAN, Qcow2Preboot(ok)
        PROVE  ProcessInv'
    BY <2>00, <2>01, <2>3 DEF Qcow2Preboot, Go, Exit
  <2>4. CASE TryPair
    BY <2>00, <2>01, <2>4
       DEF TryPair, SkipPair, CopyPair, CopyPairDenied, Readable, Go, Exit
  <2>5. CASE NoUsablePair
    BY <2>00, <2>01, <2>5 DEF NoUsablePair, Exit
  <2>6. CASE ListPair
    BY <2>00, <2>01, <2>6 DEF ListPair, Listing, Seen, Exit
  <2>7. CASE FirstAttempt
    BY <2>00, <2>01, <2>7 DEF FirstAttempt, Listing, Go
  <2>8. CASE AttemptStep
    <3>1. phase = "boot" /\ phase' = "boot" /\ rc' = rc /\ rc = "none"
      BY <2>8 DEF AttemptStep
    <3>2. ContractTypeOK /\ ContractNext
      BY <2>8 DEF AttemptStep, TypesInv, TypeOK
    <3>3. (verdict' \in Verdicts => ~alive') /\ (verdict' = "PASS" => booted')
      BY <3>2
         DEF ContractTypeOK, ContractNext, Launch, Boot, Die, Conclude, Abort
    <3> QED
      BY <3>1, <3>3
  <2>9. CASE EndAttempt
    <3> DEFINE r == [pair |-> Current, class |-> verdict]
    <3>1. /\ phase = "boot" /\ verdict \in Verdicts
          /\ records' = Append(records, r)
          /\ rc' = rc
      BY <2>9 DEF EndAttempt, Go
    <3>2. /\ records \in Seq([pair : Pairs, class : Verdicts])
          /\ Len(records) \in Nat
      BY DEF TypesInv, ListsInv
    <3>3. Len(records') > 0 /\ records' # <<>> /\ Last(records') = r
      BY <3>1, <3>2 DEF Last
    <3>4. Final' = verdict
      BY <3>3 DEF Final
    <3>5. CASE /\ phase' = "boot" /\ verdict' = "none" /\ alive' = FALSE
      BY <3>1, <3>5
    <3>6. CASE phase' = "evidence" /\ UNCHANGED contractVars
      BY <3>1, <3>3, <3>4, <3>6
    <3> QED
      BY <2>9, <3>1, <3>5, <3>6 DEF EndAttempt, Go
  <2>10. CASE AttemptRaises
    BY <2>00, <2>01, <2>10 DEF AttemptRaises, Exit
  <2>11. CASE WriteEvidence
    BY <2>00, <2>01, <2>11 DEF WriteEvidence, Go
  <2>12. CASE Report
    BY <2>00, <2>01, <2>12 DEF Report, Exit
  <2>13. CASE Raise
    BY <2>00, <2>01, <2>13 DEF Raise
  <2>14. CASE Rebuild
    BY <2>00, <2>01, <2>14 DEF Rebuild
  <2>15. CASE UNCHANGED vars
    BY <2>00, <2>01, <2>15 DEF vars
  <2> QED
    BY <2>1, <2>2, <2>3, <2>4, <2>5, <2>6, <2>7, <2>8, <2>9,
       <2>10, <2>11, <2>12, <2>13, <2>14, <2>15
       DEF Next, SmokeStep
<1> QED
  BY <1>1, <1>2, TypesInvariant, GoingInvariant, PTL DEF Spec

(* The evidence is of the last run that wrote it. *)
LEMMA EvidenceInvariant == Spec => []EvidenceInv
<1>1. Init => EvidenceInv
  BY DEF Init, EvidenceInv, NoEvidence
<1>2. TypesInv /\ GoingInv /\ ProcessInv /\ EvidenceInv /\ [Next]_vars
        => EvidenceInv'
  <2> SUFFICES ASSUME TypesInv, GoingInv, ProcessInv, EvidenceInv, [Next]_vars
               PROVE  EvidenceInv'
    OBVIOUS
  <2> USE BoundsAssumption
  <2> USE DEF contractVars, host, files, locals
  <2>0. found' = found /\ status' = status /\ Candidates' = Candidates
    BY HostKept
  <2>00. /\ run \in Nat /\ evidence.run \in Nat /\ mainLog \in Nat
        /\ disk \in Nat /\ diskBefore \in Nat /\ disks \subseteq Nat
    BY DEF TypesInv, TypeOK
  <2>01. UNCHANGED records => UNCHANGED Final
    BY DEF Final
  <2> USE DEF GoingInv, EvidenceInv
  <2>1. ASSUME NEW timeoutValid \in BOOLEAN, NEW fitHost \in BOOLEAN,
               Start(timeoutValid, fitHost)
        PROVE  EvidenceInv'
    BY <2>00, <2>01, <2>1 DEF Start, ClearLocals
  <2>2. CASE FindDisk
    BY <2>00, <2>01, <2>2 DEF FindDisk, Go, Exit
  <2>3. ASSUME NEW ok \in BOOLEAN, Qcow2Preboot(ok)
        PROVE  EvidenceInv'
    BY <2>00, <2>01, <2>3 DEF Qcow2Preboot, Go, Exit
  <2>4. CASE TryPair
    BY <2>00, <2>01, <2>4
       DEF TryPair, SkipPair, CopyPair, CopyPairDenied, Readable, Go, Exit
  <2>5. CASE NoUsablePair
    BY <2>00, <2>01, <2>5 DEF NoUsablePair, Exit
  <2>6. CASE ListPair
    BY <2>00, <2>01, <2>6 DEF ListPair, Listing, Seen, Exit
  <2>7. CASE FirstAttempt
    BY <2>00, <2>01, <2>7 DEF FirstAttempt, Listing, Go
  <2>8. CASE AttemptStep
    BY <2>00, <2>01, <2>8 DEF AttemptStep
  <2>9. CASE EndAttempt
    <3> DEFINE r == [pair |-> Current, class |-> verdict]
    <3>1. /\ phase = "boot" /\ rc' = rc /\ rc = "none"
          /\ records' = Append(records, r)
          /\ mainLog' = IF verdict = "PASS" THEN run ELSE mainLog
          /\ phase' \in {"boot", "evidence"} /\ UNCHANGED <<run, evidence>>
      BY <2>9 DEF EndAttempt, Go, LogCopied
    <3>2. records \in Seq([pair : Pairs, class : Verdicts])
      BY DEF TypesInv, ListsInv
    <3>3. records' # <<>> /\ Last(records') = r
      BY <3>1, <3>2 DEF Last
    <3>4. Final' = verdict
      BY <3>3 DEF Final
    <3>5. verdict = "PASS" => phase' = "evidence"
      BY <2>9 DEF EndAttempt, Retried, Go
    <3>6. mainLog # run
      BY <3>1
    <3> QED
      BY <2>00, <3>1, <3>4, <3>5, <3>6
  <2>10. CASE AttemptRaises
    BY <2>00, <2>01, <2>10 DEF AttemptRaises, Exit
  <2>11. CASE WriteEvidence
    BY <2>00, <2>01, <2>11 DEF WriteEvidence, Go
  <2>12. CASE Report
    BY <2>00, <2>01, <2>12 DEF Report, Exit
  <2>13. CASE Raise
    BY <2>00, <2>01, <2>13 DEF Raise
  <2>14. CASE Rebuild
    BY <2>00, <2>01, <2>14 DEF Rebuild
  <2>15. CASE UNCHANGED vars
    BY <2>00, <2>01, <2>15 DEF vars
  <2> QED
    BY <2>1, <2>2, <2>3, <2>4, <2>5, <2>6, <2>7, <2>8, <2>9,
       <2>10, <2>11, <2>12, <2>13, <2>14, <2>15
       DEF Next, SmokeStep
<1> QED
  BY <1>1, <1>2, TypesInvariant, GoingInvariant, ProcessInvariant, PTL DEF Spec

(* The QCOW2's stamps only grow. *)
LEMMA DisksInvariant == Spec => []DisksInv
<1>1. Init => DisksInv
  BY DEF Init, DisksInv, NoEvidence
<1>2. TypesInv /\ EvidenceInv /\ DisksInv /\ [Next]_vars => DisksInv'
  <2> SUFFICES ASSUME TypesInv, EvidenceInv, DisksInv, [Next]_vars
               PROVE  DisksInv'
    OBVIOUS
  <2> USE BoundsAssumption
  <2> USE DEF contractVars, host, files, locals
  <2>0. found' = found /\ status' = status /\ Candidates' = Candidates
    BY HostKept
  <2>00. /\ run \in Nat /\ evidence.run \in Nat /\ mainLog \in Nat
        /\ disk \in Nat /\ diskBefore \in Nat /\ disks \subseteq Nat
    BY DEF TypesInv, TypeOK
  <2>01. UNCHANGED records => UNCHANGED Final
    BY DEF Final
  <2> USE DEF DisksInv, EvidenceInv
  <2>1. ASSUME NEW timeoutValid \in BOOLEAN, NEW fitHost \in BOOLEAN,
               Start(timeoutValid, fitHost)
        PROVE  DisksInv'
    BY <2>00, <2>1 DEF Start, ClearLocals
  <2>2. CASE FindDisk
    BY <2>00, <2>2 DEF FindDisk, Go, Exit
  <2>3. ASSUME NEW ok \in BOOLEAN, Qcow2Preboot(ok)
        PROVE  DisksInv'
    BY <2>00, <2>3 DEF Qcow2Preboot, Go, Exit
  <2>4. CASE TryPair
    BY <2>00, <2>4
       DEF TryPair, SkipPair, CopyPair, CopyPairDenied, Readable, Go, Exit
  <2>5. CASE NoUsablePair
    BY <2>00, <2>5 DEF NoUsablePair, Exit
  <2>6. CASE ListPair
    BY <2>00, <2>6 DEF ListPair, Listing, Seen, Exit
  <2>7. CASE FirstAttempt
    BY <2>00, <2>7 DEF FirstAttempt, Listing, Go
  <2>8. CASE AttemptStep
    BY <2>00, <2>8 DEF AttemptStep
  <2>9. CASE EndAttempt
    BY <2>00, <2>9 DEF EndAttempt, Retried, Go
  <2>10. CASE AttemptRaises
    BY <2>00, <2>10 DEF AttemptRaises, Exit
  <2>11. CASE WriteEvidence
    <3>1. /\ UNCHANGED <<disk, diskBefore, disks, run>> /\ phase' = "exit"
          /\ evidence'.unmodified = (disk = diskBefore)
          /\ evidence'.disks = disks
      BY <2>11 DEF WriteEvidence, Go, Unmodified
    <3>2. disk = diskBefore => disks \subseteq {diskBefore}
      BY <2>00
    <3> QED
      BY <2>00, <3>1, <3>2
  <2>12. CASE Report
    BY <2>00, <2>12 DEF Report, Exit
  <2>13. CASE Raise
    BY <2>00, <2>13 DEF Raise
  <2>14. CASE Rebuild
    BY <2>00, <2>14 DEF Rebuild
  <2>15. CASE UNCHANGED vars
    BY <2>00, <2>15 DEF vars
  <2> QED
    BY <2>1, <2>2, <2>3, <2>4, <2>5, <2>6, <2>7, <2>8, <2>9,
       <2>10, <2>11, <2>12, <2>13, <2>14, <2>15
       DEF Next, SmokeStep
<1> QED
  BY <1>1, <1>2, TypesInvariant, EvidenceInvariant, PTL DEF Spec

-----------------------------------------------------------------------------
(* The candidates are the static and the found pairs, each once, none lost,  *)
(* in the order they were listed.                                            *)
THEOREM CandidatesListed == Spec => []CandidatesAreListedOnce
<1>1. TypeOK => CandidatesAreListedOnce
  BY ListedOnce DEF TypeOK
<1> QED
  BY <1>1, TypeCorrect, PTL

(* The preboot chooses the first usable pair, and says that there is none    *)
(* only when there is none.                                                  *)
THEOREM FirstUsableIsChosen == Spec => []PrebootChoosesFirstUsable
<1>1. TypeOK /\ ChoiceInv => PrebootChoosesFirstUsable
  <2> SUFFICES ASSUME TypeOK, ChoiceInv PROVE PrebootChoosesFirstUsable
    OBVIOUS
  <2>1. /\ Candidates \in Seq(Pairs) /\ Len(Candidates) \in Nat
        /\ DOMAIN Candidates = 1..Len(Candidates)
    BY CandidatesRight DEF TypeOK
  <2>2. ASSUME firmware # NoPair
        PROVE  /\ Usable(firmware)
               /\ \A i \in DOMAIN Candidates :
                    Usable(Candidates[i]) =>
                      \E j \in 1..i : Candidates[j] = firmware
    <3>1. PICK k \in DOMAIN Candidates :
            /\ Candidates[k] = firmware
            /\ Usable(firmware)
            /\ \A i \in 1..k - 1 : ~Usable(Candidates[i])
      BY <2>2 DEF ChoiceInv
    <3>2. ASSUME NEW i \in DOMAIN Candidates, Usable(Candidates[i])
          PROVE  k \in 1..i
      BY <2>1, <3>1, <3>2
    <3> QED
      BY <3>1, <3>2
  <2>3. ASSUME rc = "exit2", diskBefore # 0, NEW p \in ToSet(Candidates)
        PROVE  ~Usable(p)
    <3>1. PICK i \in DOMAIN Candidates : p = Candidates[i]
      BY DEF ToSet
    <3> QED
      BY <2>3, <3>1 DEF ChoiceInv
  <2> QED
    BY <2>2, <2>3 DEF PrebootChoosesFirstUsable
<1> QED
  BY <1>1, TypeCorrect, ChoiceInvariant, PTL

(* A PermissionError ends a run only on a host with a VARS template that is  *)
(* unreadable or read-only, now or when an earlier run copied it.            *)
THEOREM DenialsHaveACause == Spec => []DeniedOnlyByBadVars
<1>1. CopiesInv => DeniedOnlyByBadVars
  BY DEF CopiesInv, DeniedOnlyByBadVars, ToSet
<1> QED
  BY <1>1, CopiesInvariant, PTL

(* An attempt is followed by another one only after a launch error and with  *)
(* firmware that was not tried yet, and never more than MAX_BOOT_ATTEMPTS.   *)
THEOREM RetriesEarned == Spec => []RetriesAreEarned
<1>1. TypesInv /\ AttemptsInv => RetriesAreEarned
  <2> SUFFICES ASSUME TypesInv, AttemptsInv PROVE RetriesAreEarned
    OBVIOUS
  <2>1. /\ records \in Seq([pair : Pairs, class : Verdicts])
        /\ DOMAIN records = 1..Len(records) /\ Len(records) \in Nat
        /\ Len(attempts) \in Nat /\ Len(records) <= Len(attempts)
    BY DEF TypesInv, ListsInv
  <2>2. Len(records) <= MAX_BOOT_ATTEMPTS
    BY <2>1, BoundsAssumption DEF TypesInv, ListsInv
  <2>3. \A i \in DOMAIN records :
          phase = "boot" \/ i < Len(records) =>
            records[i].class = "LAUNCH_ERROR"
    BY <2>1 DEF AttemptsInv
  <2>4. IsInjective([i \in DOMAIN records |-> records[i].pair])
    BY <2>1 DEF AttemptsInv, IsInjective
  <2>5. records # <<>> => records[1].pair = firmware
    BY <2>1 DEF AttemptsInv
  <2> QED
    BY <2>2, <2>3, <2>4, <2>5 DEF RetriesAreEarned
<1> QED
  BY <1>1, TypesInvariant, AttemptsInvariant, PTL

(* No QEMU of this run is left when the run has exited with a code or goes   *)
(* on to the next attempt.                                                   *)
THEOREM NoQemuIsLeft == Spec => []NoQemuBetweenAttempts
<1>1. ProcessInv => NoQemuBetweenAttempts
  BY DEF ProcessInv, NoQemuBetweenAttempts
<1> QED
  BY <1>1, ProcessInvariant, PTL

(* Exit 0 means that the last guest booted and that the evidence of this run *)
(* says so; a failing run never leaves PASS evidence of its own.             *)
THEOREM ExitsAgree == Spec => []ExitAgreesWithEvidence
<1>1. ProcessInv /\ EvidenceInv => ExitAgreesWithEvidence
  BY DEF ProcessInv, EvidenceInv, ExitAgreesWithEvidence
<1> QED
  BY <1>1, ProcessInvariant, EvidenceInvariant, PTL

(* The evidence of a PASS has its serial log beside it, or a later one, and  *)
(* no run that exits with a failure has replaced the log.                    *)
THEOREM PassHasItsLog == Spec => []PassEvidenceHasItsLog
<1>1. TypesInv /\ GoingInv /\ EvidenceInv => PassEvidenceHasItsLog
  BY DEF TypesInv, TypeOK, GoingInv, EvidenceInv, PassEvidenceHasItsLog
<1> QED
  BY <1>1, TypesInvariant, GoingInvariant, EvidenceInvariant, PTL

(* Evidence that calls the base QCOW2 unmodified is about one disk.          *)
THEOREM UnmodifiedIsOneDisk == Spec => []UnmodifiedMeansOneDisk
<1>1. DisksInv => UnmodifiedMeansOneDisk
  BY DEF DisksInv, UnmodifiedMeansOneDisk
<1> QED
  BY <1>1, DisksInvariant, PTL

-----------------------------------------------------------------------------
(* boot_smoke keeps what SmokeContract promises: the evidence of a run is    *)
(* written once, after the log of the guest that booted and before the exit  *)
(* code that repeats it, and stays until a later run writes its own.         *)
THEOREM ImplementsPromise == Spec => KeepsPromise
<1>1. Init => Promise!PromiseInit
  BY DEF Init, ContractInit, NoEvidence, Promise!PromiseInit
<1>2. TypesInv /\ GoingInv /\ ProcessInv /\ EvidenceInv /\ [Next]_vars
        => [Promise!PromiseNext]_Promise!promiseVars
  <2> SUFFICES ASSUME TypesInv, GoingInv, ProcessInv, EvidenceInv, [Next]_vars
               PROVE  [Promise!PromiseNext]_Promise!promiseVars
    OBVIOUS
  <2> USE DEF contractVars, host, files, locals, Promise!promiseVars
  <2>0. run \in Nat /\ evidence.run \in Nat
    BY BoundsAssumption DEF TypesInv, TypeOK
  <2>00. phase \notin {"idle", "exit"} => evidence.run # run
    BY <2>0 DEF EvidenceInv
  <2>01. ASSUME phase \notin {"idle", "exit"}, phase' = "idle",
                rc' \in {"exit1", "exit2", "denied", "raised"},
                UNCHANGED <<run, booted, mainLog, evidence>>
         PROVE  Promise!PromiseNext
    BY <2>00, <2>01 DEF Promise!PromiseNext, Promise!End, Promise!Reported
  <2>1. ASSUME NEW timeoutValid \in BOOLEAN, NEW fitHost \in BOOLEAN,
               Start(timeoutValid, fitHost)
        PROVE  Promise!PromiseNext
    BY <2>1 DEF Start, Promise!PromiseNext, Promise!Begin
  <2>2. CASE FindDisk
    BY <2>01, <2>2 DEF FindDisk, Go, Exit
  <2>3. ASSUME NEW ok \in BOOLEAN, Qcow2Preboot(ok)
        PROVE  [Promise!PromiseNext]_Promise!promiseVars
    BY <2>01, <2>3 DEF Qcow2Preboot, Go, Exit
  <2>4. CASE TryPair
    BY <2>01, <2>4 DEF TryPair, SkipPair, CopyPair, CopyPairDenied, Go, Exit
  <2>5. CASE NoUsablePair
    BY <2>01, <2>5 DEF NoUsablePair, Exit
  <2>6. CASE ListPair
    BY <2>01, <2>6 DEF ListPair, Exit
  <2>7. CASE FirstAttempt
    BY <2>7 DEF FirstAttempt, Go
  <2>8. CASE AttemptStep
    <3>1. /\ phase = "boot" /\ phase' = "boot"
          /\ UNCHANGED <<run, rc, mainLog, evidence>>
      BY <2>8 DEF AttemptStep
    <3>2. booted' = TRUE \/ booted' = booted
      BY <2>8
         DEF AttemptStep, ContractNext, Launch, Boot, Die, Conclude, Abort
    <3> QED
      BY <2>00, <3>1, <3>2
         DEF Promise!PromiseNext, Promise!GuestBoots, Promise!Reported
  <2>9. CASE EndAttempt
    <3>1. /\ phase = "boot" /\ phase' \in {"boot", "evidence"} /\ rc' = rc
          /\ UNCHANGED <<run, evidence>>
      BY <2>9 DEF EndAttempt, Go
    <3>2. CASE verdict = "PASS"
      <4>1. booted /\ booted' = booted /\ mainLog' = run
        BY <2>9, <3>2 DEF EndAttempt, LogCopied, Retried, Go, ProcessInv
      <4> QED
        BY <2>00, <3>1, <4>1
           DEF Promise!PromiseNext, Promise!KeepLog, Promise!Reported
    <3>3. CASE verdict # "PASS"
      <4>1. mainLog' = mainLog /\ (booted' = booted \/ booted' = FALSE)
        BY <2>9, <3>3 DEF EndAttempt, LogCopied, Go
      <4> QED
        BY <2>00, <3>1, <4>1
           DEF Promise!PromiseNext, Promise!NextQemu, Promise!Reported
    <3> QED
      BY <3>2, <3>3
  <2>10. CASE AttemptRaises
    BY <2>01, <2>10 DEF AttemptRaises, Exit
  <2>11. CASE WriteEvidence
    <3>1. Final \in Promise!Finals
      <4>1. /\ Len(records) > 0
            /\ records \in Seq([pair : Pairs, class : Verdicts])
        BY <2>11 DEF WriteEvidence, Go, ProcessInv, TypesInv, ListsInv
      <4>2. /\ records # <<>> /\ Last(records) = records[Len(records)]
            /\ Len(records) \in 1..Len(records)
        BY <4>1 DEF Last
      <4>3. Last(records) \in [pair : Pairs, class : Verdicts]
        <5>1. records[Len(records)] \in [pair : Pairs, class : Verdicts]
          BY <4>1, <4>2, ElementOfSeq
        <5> QED
          BY <4>2, <5>1
      <4> QED
        BY <4>2, <4>3 DEF Final, Verdicts, Promise!Finals
    <3>2. /\ phase = "evidence" /\ phase' = "exit"
          /\ UNCHANGED <<run, rc, booted, mainLog>>
          /\ evidence'.run = run /\ evidence'.final = Final
      BY <2>11 DEF WriteEvidence, Go
    <3>3. Final = "PASS" => booted /\ mainLog = run
      BY <3>2 DEF ProcessInv, EvidenceInv
    <3>4. Promise!Publish(Final)
      BY <2>00, <3>2, <3>3 DEF Promise!Publish, Promise!Reported
    <3> QED
      BY <3>1, <3>4 DEF Promise!PromiseNext
  <2>12. CASE Report
    <3>1. /\ phase = "exit" /\ phase' = "idle"
          /\ rc' = IF Final = "PASS" THEN "exit0" ELSE "exit1"
          /\ UNCHANGED <<run, booted, mainLog, evidence>>
      BY <2>12 DEF Report, Exit
    <3>2. evidence.run = run /\ evidence.final = Final
      BY <3>1 DEF EvidenceInv
    <3>3. Promise!End(rc')
      BY <3>1, <3>2 DEF Promise!End
    <3> QED
      BY <3>1, <3>3 DEF Promise!PromiseNext
  <2>13. CASE Raise
    BY <2>13 DEF Raise, Promise!PromiseNext, Promise!End
  <2>14. CASE Rebuild
    BY <2>14 DEF Rebuild
  <2>15. CASE UNCHANGED vars
    BY <2>15 DEF vars
  <2> QED
    BY <2>1, <2>2, <2>3, <2>4, <2>5, <2>6, <2>7, <2>8, <2>9,
       <2>10, <2>11, <2>12, <2>13, <2>14, <2>15
       DEF Next, SmokeStep
<1> QED
  BY <1>1, <1>2, TypesInvariant, GoingInvariant, ProcessInvariant,
     EvidenceInvariant, PTL
     DEF Spec, KeepsPromise, Promise!PromiseSpec
=============================================================================
