-------------------------- MODULE ParallelMap_proofs --------------------------
(***************************************************************************)
(* Proofs about ParallelMap, for any number of processes, keys, items,     *)
(* calls and notes.                                                        *)
(***************************************************************************)
EXTENDS ParallelMap, FiniteSetTheorems, WellFoundedInduction, TLAPS

-----------------------------------------------------------------------------
(* Induction *)

\* The induction rules are stated for sets: the set of what a claim holds of.

\* A set of numbers that is not empty has a least element.
LEMMA LeastElement ==
  ASSUME NEW T \in SUBSET Nat, T # {}
  PROVE  \E m \in T : \A k \in T : m <= k
<1> DEFINE R == OpToRel(<, Nat)
<1>1. IsWellFoundedOn(R, Nat)
  BY NatLessThanWellFounded
<1> HIDE DEF R
<1>2. PICK m \in T : \A k \in T : ~ (<<k, m>> \in R)
  BY <1>1, WFMin
<1>3. \A j, k \in Nat : j < k => <<j, k>> \in R
  BY DEF R, OpToRel
<1>4. ASSUME NEW k \in T PROVE m <= k
  <2>1. m \in Nat /\ k \in Nat /\ ~ (k < m)
    BY <1>2, <1>3
  <2> QED BY <2>1
<1> QED BY <1>4

\* A set of numbers that contains zero and with each number the next one
\* contains them all.
LEMMA SetInduction ==
  ASSUME NEW S \in SUBSET Nat, 0 \in S, \A n \in S : n + 1 \in S
  PROVE  S = Nat
<1> SUFFICES ASSUME Nat \ S # {} PROVE FALSE
  OBVIOUS
<1>1. PICK m \in Nat \ S : \A k \in Nat \ S : m <= k
  BY LeastElement
<1>2. m - 1 \in Nat /\ m = (m - 1) + 1
  OBVIOUS
<1>3. m - 1 \in S
  BY <1>1, <1>2
<1> QED BY <1>2, <1>3

-----------------------------------------------------------------------------
(* The outcome of the calls *)

\* The outcomes of the first calls exist.
LEMMA OutcomesExist ==
  \E f : f = [r \in 0 .. MaxRounds |-> IF r = 0 THEN Empty ELSE Merge(f[r - 1], r)]
<1> DEFINE Outcomes(f, n) == f = [r \in 0 .. n |-> IF r = 0 THEN Empty ELSE Merge(f[r - 1], r)]
           S == {n \in Nat : \E f : Outcomes(f, n)}
<1>1. 0 \in S
  <2>1. Outcomes([r \in 0 .. 0 |-> Empty], 0)
    OBVIOUS
  <2> QED BY <2>1
<1>2. ASSUME NEW n \in S PROVE n + 1 \in S
  <2>1. PICK f : Outcomes(f, n)
    OBVIOUS
  <2> DEFINE g == [r \in 0 .. n + 1 |-> IF r = n + 1 THEN Merge(f[n], n + 1) ELSE f[r]]
  <2>2. ASSUME NEW r \in 0 .. n + 1
        PROVE  g[r] = IF r = 0 THEN Empty ELSE Merge(g[r - 1], r)
    <3>1. CASE r = n + 1
      <4>1. g[r] = Merge(f[n], n + 1) /\ r # 0
        BY <3>1
      <4>2. r - 1 = n /\ g[n] = f[n]
        BY <3>1
      <4> QED BY <4>1, <4>2, <3>1
    <3>2. CASE r # n + 1
      <4>1. r \in 0 .. n /\ g[r] = f[r]
        BY <3>2
      <4>2. f[r] = IF r = 0 THEN Empty ELSE Merge(f[r - 1], r)
        BY <2>1, <4>1
      <4>3. r # 0 => g[r - 1] = f[r - 1]
        BY <4>1
      <4> QED BY <4>1, <4>2, <4>3
    <3> QED BY <3>1, <3>2
  <2>3. g = [r \in 0 .. n + 1 |-> g[r]]
    OBVIOUS
  <2> HIDE DEF g
  <2>4. Outcomes(g, n + 1)
    BY <2>2, <2>3
  <2> HIDE DEF Outcomes
  <2> QED BY <2>4
<1>3. S = Nat
  <2> HIDE DEF S
  <2>1. S \in SUBSET Nat
    BY DEF S
  <2> QED BY <1>1, <1>2, <2>1, SetInduction
<1>4. MaxRounds \in S
  BY <1>3, BoundAssumption
<1> QED BY <1>4

\* Each outcome is merged from the one before it.
LEMMA OutcomeSteps ==
  /\ Outcome[0] = Empty
  /\ \A r \in 1 .. MaxRounds : Outcome[r] = Merge(Outcome[r - 1], r)
<1>1. Outcome = [r \in 0 .. MaxRounds |-> IF r = 0 THEN Empty ELSE Merge(Outcome[r - 1], r)]
  BY OutcomesExist DEF Outcome
<1>2. ASSUME NEW r \in 0 .. MaxRounds
      PROVE  Outcome[r] = IF r = 0 THEN Empty ELSE Merge(Outcome[r - 1], r)
  BY <1>1, Zenon
<1>3. 0 \in 0 .. MaxRounds /\ \A r \in 1 .. MaxRounds : r \in 0 .. MaxRounds /\ r # 0
  BY BoundAssumption
<1> QED BY <1>2, <1>3, Zenon

\* Notes that stay as they are leave the outcomes as they are.
LEMMA OutcomeKept ==
  ASSUME NEW n \in 0 .. MaxRounds,
         \A q \in Rank : \A r \in 1 .. n : submitted'[q][r] = submitted[q][r]
  PROVE  \A r \in 0 .. n : Outcome'[r] = Outcome[r]
<1>1. (/\ Outcome[0] = Empty
       /\ \A r \in 1 .. MaxRounds : Outcome[r] = Merge(Outcome[r - 1], r))'
  BY OutcomeSteps, PTL
<1>2. /\ Outcome'[0] = Empty
      /\ \A r \in 1 .. MaxRounds : Outcome'[r] = Merge(Outcome[r - 1], r)'
  BY <1>1 DEF Empty
<1> DEFINE S == {r \in Nat : r <= n => Outcome'[r] = Outcome[r]}
<1>3. 0 \in S
  BY <1>2, OutcomeSteps
<1>4. ASSUME NEW r \in S PROVE r + 1 \in S
  <2> SUFFICES ASSUME r + 1 <= n PROVE Outcome'[r + 1] = Outcome[r + 1]
    OBVIOUS
  <2>1. Outcome'[r] = Outcome[r]
    BY <1>4
  <2>2. r + 1 \in 1 .. MaxRounds /\ r + 1 \in 1 .. n /\ (r + 1) - 1 = r
    BY BoundAssumption
  <2>3. Outcome[r + 1] = Merge(Outcome[r], r + 1)
    BY <2>2, OutcomeSteps
  <2>4. \A q \in Rank : submitted'[q][r + 1] = submitted[q][r + 1]
    BY <2>2
  <2>5. Outcome'[r + 1] = Merge(Outcome[r], r + 1)'
    BY <1>2, <2>2
  <2>6. \A k : Prevailing(r + 1, k)' = Prevailing(r + 1, k)
    BY <2>4, NProcAssumption DEF Prevailing, Rank
  <2>7. \A k : Prevailing(r + 1, k) \subseteq Rank
    BY DEF Prevailing
  <2>8. ASSUME NEW k \in Key, Prevailing(r + 1, k) # {}
        PROVE  submitted'[CHOOSE q \in Prevailing(r + 1, k) : TRUE][r + 1].add[k]
               = submitted[CHOOSE q \in Prevailing(r + 1, k) : TRUE][r + 1].add[k]
    BY <2>4, <2>7, <2>8
  <2>9. Merge(Outcome[r], r + 1)' = Merge(Outcome[r], r + 1)
    <3> DEFINE M(k) ==
            IF \E q \in Rank : k \in submitted[q][r + 1].rem THEN None
            ELSE IF Prevailing(r + 1, k) # {}
                 THEN submitted[CHOOSE q \in Prevailing(r + 1, k) : TRUE][r + 1].add[k]
            ELSE Outcome[r][k]
    <3>1. Merge(Outcome[r], r + 1) = [k \in Key |-> M(k)]
      BY DEF Merge
    <3>2. Merge(Outcome[r], r + 1)' = [k \in Key |-> M(k)']
      BY DEF Merge
    <3>3. ASSUME NEW k \in Key PROVE M(k)' = M(k)
      <4>1. Prevailing(r + 1, k)' = Prevailing(r + 1, k)
        BY <2>6
      <4>2. (\E q \in Rank : k \in submitted'[q][r + 1].rem)
            <=> (\E q \in Rank : k \in submitted[q][r + 1].rem)
        BY <2>4
      <4>3. CASE Prevailing(r + 1, k) # {}
        BY <2>8, <4>1, <4>2, <4>3 DEF Rank
      <4>4. CASE Prevailing(r + 1, k) = {}
        BY <2>1, <4>1, <4>2, <4>4 DEF Rank
      <4> QED BY <4>3, <4>4
    <3> HIDE DEF M
    <3> QED BY <3>1, <3>2, <3>3
  <2> QED BY <2>3, <2>5, <2>9
<1>5. S = Nat
  <2> HIDE DEF S
  <2>1. S \in SUBSET Nat
    BY DEF S
  <2> QED BY <1>3, <1>4, <2>1, SetInduction
<1> QED BY <1>5

-----------------------------------------------------------------------------
(* The invariant *)

\* Process q has begun its call r + 1: its notes for that call are final.
Entered(q, r) == round[q] > r \/ (round[q] = r /\ pc[q] # "idle")
Frozen(r) == \A q \in Rank : Entered(q, r)

\* What q noted for that call, and how many keys it announces.
Notes(q, r, w) == IF w = "add" THEN submitted[q][r + 1].add ELSE submitted[q][r + 1].rem
Count(q, r, w) ==
    IF w = "add" THEN Cardinality(Noted(submitted[q][r + 1].add))
    ELSE Cardinality(submitted[q][r + 1].rem)

Call == [add : Contents, rem : SUBSET Key]
NoNotes == [add |-> Empty, rem |-> {}]

\* A contribution tells what its sender noted for the call it has begun.
HonestMessage(m) ==
    /\ m.from \in Rank /\ m.round \in 0 .. MaxRounds - 1 /\ m.what \in {"add", "rem"}
    /\ Entered(m.from, m.round)
    /\ m.data = IF m.op = "bcast" THEN Notes(m.from, m.round, m.what)
                ELSE Count(m.from, m.round, m.what)
Honest == \A m \in sent : HonestMessage(m)

\* The notes a process holds are those of its next or present call; those it
\* has not begun to collect are empty.
Held(p) ==
    /\ pc[p] # "idle" => round[p] < MaxRounds
    /\ round[p] < MaxRounds =>
          /\ add[p] = (IF pc[p] # "idle" /\ what[p] = "rem" THEN Empty
                       ELSE submitted[p][round[p] + 1].add)
          /\ rem[p] = submitted[p][round[p] + 1].rem
    /\ \A r \in round[p] + 2 .. MaxRounds : submitted[p][r] = NoNotes

\* Past the first reduction of a call every process has begun it.
Merging(p) == pc[p] \in {"sum", "bcast"} \/ (pc[p] = "max" /\ what[p] = "rem")
Joined(p) ==
    /\ round[p] > 0 => Frozen(round[p] - 1)
    /\ Merging(p) => Frozen(round[p])

\* The loop over the broadcasts is at a process, and knows who has notes.
Looping(p) ==
    /\ pc[p] = "sum" => \E q \in Rank : Count(q, round[p], what[p]) > 0
    /\ pc[p] = "bcast" =>
          /\ sender[p] \in Rank
          /\ \A q \in Rank : num[p][q] = Count(q, round[p], what[p])

\* The item v at key k when the additions of the processes below s to outcome
\* r are applied, and when the removals of the processes below s are as well.
Added(v, r, s, k) ==
    /\ (\A q \in 0 .. s - 1 : Notes(q, r, "add")[k] = None) => v = Outcome[r][k]
    /\ \A q \in 0 .. s - 1 :
          /\ Notes(q, r, "add")[k] # None
          /\ \A u \in q + 1 .. s - 1 : Notes(u, r, "add")[k] = None
          => v = Notes(q, r, "add")[k]
Removed(v, r, s, k) ==
    IF \E q \in 0 .. s - 1 : k \in Notes(q, r, "rem") THEN v = None ELSE Added(v, r, NProc, k)

\* The processes below this one have been heard in the present half.
Heard(p) == IF pc[p] = "bcast" THEN sender[p] ELSE 0

Merged(p) ==
    IF Merging(p)
    THEN \A k \in Key : IF what[p] = "add" THEN Added(map[p][k], round[p], Heard(p), k)
                        ELSE Removed(map[p][k], round[p], Heard(p), k)
    ELSE map[p] = Outcome[round[p]]

IInv ==
    /\ TypeOK
    /\ submitted \in [Rank -> [1 .. MaxRounds -> Call]]
    /\ Honest
    /\ \A p \in Rank : Held(p) /\ Joined(p) /\ Looping(p) /\ Merged(p)

-----------------------------------------------------------------------------
(* Lemmas about the operators *)

\* Processes are numbered from zero.
LEMMA RankIsInterval == NProc \in Nat /\ 0 < NProc /\ Rank = 0 .. NProc - 1
  BY NProcAssumption DEF Rank

\* Of the processes from s on the next sender is the first with notes, or there
\* is none.
LEMMA NextSenderFacts ==
  ASSUME NEW n \in [Rank -> Nat], NEW s \in 0 .. NProc
  PROVE  LET t == NextSender(n, s)
         IN  /\ t \in s .. NProc
             /\ \A u \in s .. t - 1 : n[u] = 0
             /\ t < NProc => n[t] > 0
<1>1. CASE \E t \in s .. NProc - 1 : n[t] > 0
  <2> DEFINE T == {t \in s .. NProc - 1 : n[t] > 0}
  <2>1. T \in SUBSET Nat /\ T # {}
    BY <1>1, RankIsInterval
  <2>2. PICK m \in T : \A k \in T : m <= k
    BY <2>1, LeastElement
  <2>3. \A u \in s .. m - 1 : n[u] = 0
    <3> SUFFICES ASSUME NEW u \in s .. m - 1 PROVE n[u] = 0
      OBVIOUS
    <3>1. u \in s .. NProc - 1 /\ u \in Rank /\ u < m
      BY RankIsInterval
    <3>2. u \notin T /\ n[u] \in Nat
      BY <2>2, <3>1, RankIsInterval
    <3> QED BY <3>1, <3>2
  <2>4. m \in s .. NProc - 1 /\ n[m] > 0
    OBVIOUS
  <2> DEFINE First(t) == n[t] > 0 /\ \A u \in s .. t - 1 : n[u] = 0
  <2>5. NextSender(n, s) = CHOOSE t \in s .. NProc - 1 : First(t)
    BY <1>1 DEF NextSender
  <2>6. First(m)
    BY <2>3, <2>4
  <2> HIDE DEF First
  <2>7. NextSender(n, s) \in s .. NProc - 1 /\ First(NextSender(n, s))
    BY <2>4, <2>5, <2>6
  <2> QED BY <2>7, RankIsInterval DEF First
<1>2. CASE ~ \E t \in s .. NProc - 1 : n[t] > 0
  <2>1. NextSender(n, s) = NProc
    BY <1>2 DEF NextSender
  <2>2. ASSUME NEW u \in s .. NProc - 1 PROVE n[u] = 0
    <3>1. n[u] \in Nat /\ ~(n[u] > 0)
      BY <1>2, RankIsInterval
    <3> QED BY <3>1
  <2> QED BY <2>1, <2>2, RankIsInterval
<1> QED BY <1>1, <1>2

\* A number of keys is zero when there are none.
LEMMA CountFacts ==
  ASSUME NEW S \in SUBSET Key
  PROVE  Cardinality(S) \in Nat /\ (Cardinality(S) = 0 <=> S = {})
  BY KeyAssumption, FS_Subset, FS_CardinalityType, FS_EmptySet

\* The notes of all calls have their types, and who announces no keys has none.
LEMMA NotesFacts ==
  ASSUME submitted \in [Rank -> [1 .. MaxRounds -> Call]],
         NEW q \in Rank, NEW r \in 0 .. MaxRounds - 1
  PROVE  /\ Notes(q, r, "add") \in Contents
         /\ Notes(q, r, "rem") \in SUBSET Key
         /\ \A w \in {"add", "rem"} : Count(q, r, w) \in Nat
         /\ Count(q, r, "add") = 0 <=> \A k \in Key : Notes(q, r, "add")[k] = None
         /\ Count(q, r, "rem") = 0 <=> Notes(q, r, "rem") = {}
<1>1. r + 1 \in 1 .. MaxRounds
  BY BoundAssumption
<1>2. submitted[q][r + 1] \in Call
  BY <1>1
<1>3. submitted[q][r + 1].add \in Contents /\ submitted[q][r + 1].rem \in SUBSET Key
  BY <1>2 DEF Call
<1>4. Notes(q, r, "add") \in Contents /\ Notes(q, r, "rem") \in SUBSET Key
  BY <1>3 DEF Notes
<1>5. /\ Count(q, r, "add") = Cardinality(Noted(Notes(q, r, "add")))
      /\ Count(q, r, "rem") = Cardinality(Notes(q, r, "rem"))
  BY DEF Count, Notes
<1>6. Noted(Notes(q, r, "add")) \in SUBSET Key
  BY DEF Noted
<1>7. Noted(Notes(q, r, "add")) = {} <=> \A k \in Key : Notes(q, r, "add")[k] = None
  BY DEF Noted
<1> QED BY <1>4, <1>5, <1>6, <1>7, CountFacts

\* The contribution a process waits for is the only one of its kind and tells
\* the notes of its sender.
LEMMA Received ==
  ASSUME Honest, NEW p \in Rank, NEW q, From(q, p) # {}
  PROVE  /\ Entered(q, round[p])
         /\ Data(q, p) = IF pc[p] = "bcast" THEN Notes(q, round[p], what[p])
                         ELSE Count(q, round[p], what[p])
<1> DEFINE m == CHOOSE m \in From(q, p) : TRUE
<1>1. m \in From(q, p) /\ Data(q, p) = m.data
  BY DEF Data
<1> HIDE DEF m
<1>2. /\ m \in sent /\ m.round = round[p] /\ m.what = what[p]
      /\ m.op = pc[p] /\ m.from = q
  BY <1>1 DEF From
<1>3. HonestMessage(m)
  BY <1>2 DEF Honest
<1> QED BY <1>1, <1>2, <1>3 DEF HonestMessage

-----------------------------------------------------------------------------
(* Merging the notes of one process after the other *)

\* Before anyone is heard the map is the last outcome.
LEMMA AddedNone ==
  ASSUME NEW r, NEW k
  PROVE  Added(Outcome[r][k], r, 0, k)
  BY DEF Added

\* The additions of the next process replace what was there.
LEMMA AddedStep ==
  ASSUME NEW v, NEW r, NEW k, NEW s \in Nat, Added(v, r, s, k)
  PROVE  Added(IF Notes(s, r, "add")[k] # None THEN Notes(s, r, "add")[k] ELSE v, r, s + 1, k)
<1>1. CASE Notes(s, r, "add")[k] # None
  <2> SUFFICES Added(Notes(s, r, "add")[k], r, s + 1, k)
    BY <1>1
  <2>1. ASSUME NEW q \in 0 .. s, \A u \in q + 1 .. s : Notes(u, r, "add")[k] = None
        PROVE  q = s
    BY <1>1, <2>1
  <2>2. s \in 0 .. s /\ (s + 1) - 1 = s
    OBVIOUS
  <2> QED BY <1>1, <2>1, <2>2 DEF Added
<1>2. CASE Notes(s, r, "add")[k] = None
  <2> SUFFICES Added(v, r, s + 1, k)
    BY <1>2
  <2>1. (s + 1) - 1 = s /\ 0 .. s = (0 .. s - 1) \cup {s}
    OBVIOUS
  <2>2. (\A q \in 0 .. s : Notes(q, r, "add")[k] = None) => v = Outcome[r][k]
    BY <2>1 DEF Added
  <2>3. ASSUME NEW q \in 0 .. s, Notes(q, r, "add")[k] # None,
               \A u \in q + 1 .. s : Notes(u, r, "add")[k] = None
        PROVE  v = Notes(q, r, "add")[k]
    <3>1. q \in 0 .. s - 1 /\ \A u \in q + 1 .. s - 1 : Notes(u, r, "add")[k] = None
      BY <1>2, <2>3
    <3> QED BY <2>3, <3>1 DEF Added
  <2> QED BY <2>1, <2>2, <2>3 DEF Added
<1> QED BY <1>1, <1>2

\* Processes without additions may be passed over.
LEMMA AddedSkip ==
  ASSUME NEW v, NEW r, NEW k, NEW s \in Nat, NEW t \in Nat, s <= t,
         Added(v, r, s, k),
         \A u \in s .. t - 1 : Notes(u, r, "add")[k] = None
  PROVE  Added(v, r, t, k)
<1>1. (\A q \in 0 .. t - 1 : Notes(q, r, "add")[k] = None) => v = Outcome[r][k]
  <2>1. \A q \in 0 .. s - 1 : q \in 0 .. t - 1
    OBVIOUS
  <2> QED BY <2>1 DEF Added
<1>2. ASSUME NEW q \in 0 .. t - 1, Notes(q, r, "add")[k] # None,
             \A u \in q + 1 .. t - 1 : Notes(u, r, "add")[k] = None
      PROVE  v = Notes(q, r, "add")[k]
  <2>1. q \in 0 .. s - 1
    BY <1>2
  <2>2. \A u \in q + 1 .. s - 1 : Notes(u, r, "add")[k] = None
    BY <1>2
  <2> QED BY <1>2, <2>1, <2>2 DEF Added
<1> QED BY <1>1, <1>2 DEF Added

\* The removals of the next process erase what was there.
LEMMA RemovedStep ==
  ASSUME NEW v, NEW r, NEW k, NEW s \in Nat, Removed(v, r, s, k)
  PROVE  Removed(IF k \in Notes(s, r, "rem") THEN None ELSE v, r, s + 1, k)
<1>1. (s + 1) - 1 = s /\ 0 .. s = (0 .. s - 1) \cup {s}
  OBVIOUS
<1>2. CASE k \in Notes(s, r, "rem")
  BY <1>1, <1>2 DEF Removed
<1>3. CASE k \notin Notes(s, r, "rem")
  <2>1. (\E q \in 0 .. s : k \in Notes(q, r, "rem"))
        <=> (\E q \in 0 .. s - 1 : k \in Notes(q, r, "rem"))
    BY <1>1, <1>3
  <2> QED BY <1>1, <1>3, <2>1 DEF Removed
<1> QED BY <1>2, <1>3

\* Processes without removals may be passed over.
LEMMA RemovedSkip ==
  ASSUME NEW v, NEW r, NEW k, NEW s \in Nat, NEW t \in Nat, s <= t,
         Removed(v, r, s, k),
         \A u \in s .. t - 1 : k \notin Notes(u, r, "rem")
  PROVE  Removed(v, r, t, k)
<1>1. (\E q \in 0 .. t - 1 : k \in Notes(q, r, "rem"))
      <=> (\E q \in 0 .. s - 1 : k \in Notes(q, r, "rem"))
  OBVIOUS
<1> QED BY <1>1 DEF Removed

\* When additions and removals of all processes are applied, the map is the
\* outcome of the call.
LEMMA MergeComplete ==
  ASSUME submitted \in [Rank -> [1 .. MaxRounds -> Call]],
         NEW r \in 0 .. MaxRounds - 1, NEW c \in Contents,
         \A k \in Key : Removed(c[k], r, NProc, k)
  PROVE  c = Outcome[r + 1]
<1>1. r + 1 \in 1 .. MaxRounds /\ (r + 1) - 1 = r
  BY BoundAssumption
<1>2. Outcome[r + 1] = Merge(Outcome[r], r + 1)
  BY <1>1, OutcomeSteps
<1> DEFINE M(k) ==
        IF \E q \in Rank : k \in submitted[q][r + 1].rem THEN None
        ELSE IF Prevailing(r + 1, k) # {}
             THEN submitted[CHOOSE q \in Prevailing(r + 1, k) : TRUE][r + 1].add[k]
        ELSE Outcome[r][k]
<1>3. Merge(Outcome[r], r + 1) = [k \in Key |-> M(k)]
  BY DEF Merge
<1>4. ASSUME NEW k \in Key PROVE c[k] = M(k)
  <2> DEFINE note(q) == submitted[q][r + 1].add[k]
  <2>1. \A q : Notes(q, r, "add")[k] = note(q) /\ Notes(q, r, "rem") = submitted[q][r + 1].rem
    BY DEF Notes
  <2>2. Prevailing(r + 1, k) =
            {q \in Rank : note(q) # None /\ \A u \in q + 1 .. NProc - 1 : note(u) = None}
    BY DEF Prevailing
  <2>3. CASE \E q \in Rank : k \in submitted[q][r + 1].rem
    BY <2>1, <2>3, RankIsInterval DEF Removed
  <2>4. CASE ~ \E q \in Rank : k \in submitted[q][r + 1].rem
    <3>1. Added(c[k], r, NProc, k)
      BY <2>1, <2>4, RankIsInterval DEF Removed
    <3> HIDE DEF note
    <3>2. CASE Prevailing(r + 1, k) # {}
      <4> DEFINE p == CHOOSE q \in Prevailing(r + 1, k) : TRUE
      <4>1. p \in Prevailing(r + 1, k)
        BY <3>2
      <4>2. M(k) = note(p)
        BY <2>4, <3>2 DEF note
      <4> HIDE DEF p
      <4>3. p \in 0 .. NProc - 1 /\ note(p) # None /\ \A u \in p + 1 .. NProc - 1 : note(u) = None
        BY <2>2, <4>1, RankIsInterval
      <4> QED BY <2>1, <3>1, <4>2, <4>3 DEF Added
    <3>3. CASE Prevailing(r + 1, k) = {}
      <4>1. \A q \in Rank : note(q) = None
        <5> SUFFICES ASSUME NEW q \in Rank, note(q) # None PROVE FALSE
          OBVIOUS
        <5> DEFINE T == {n \in Nat : \E u \in Rank : n = NProc - u /\ note(u) # None}
        <5>1. NProc - q \in T
          BY RankIsInterval
        <5>2. PICK n \in T : \A m \in T : n <= m
          BY <5>1, LeastElement
        <5>3. PICK u \in Rank : n = NProc - u /\ note(u) # None
          OBVIOUS
        <5>4. ASSUME NEW w \in u + 1 .. NProc - 1 PROVE note(w) = None
          <6>1. w \in Rank /\ NProc - w \in Nat /\ NProc - w < n
            BY <5>3, RankIsInterval
          <6> QED BY <5>2, <6>1
        <5> QED BY <2>2, <3>3, <5>3, <5>4
      <4> QED BY <2>1, <2>4, <3>1, <3>3, <4>1, RankIsInterval DEF Added
    <3> QED BY <3>2, <3>3
  <2> QED BY <2>3, <2>4
<1>5. c = [k \in Key |-> c[k]]
  BY DEF Contents
<1> HIDE DEF M
<1> QED BY <1>2, <1>3, <1>4, <1>5

-----------------------------------------------------------------------------
(* What the steps of one process leave to the others *)

\* Who has begun a call has begun the calls before it.
LEMMA EnteredBefore ==
  ASSUME TypeOK, NEW q \in Rank, NEW n \in Nat, NEW r \in 0 .. n, Entered(q, n)
  PROVE  Entered(q, r)
<1>1. round[q] \in Nat
  BY BoundAssumption DEF TypeOK
<1>2. r \in Nat /\ r <= n
  OBVIOUS
<1>3. round[q] > r \/ r = n
  BY <1>1, <1>2 DEF Entered
<1> QED BY <1>3 DEF Entered

\* As long as the notes it depends on and the place of a process stay, what is
\* merged stays.
LEMMA MergedKept ==
  ASSUME TypeOK, NEW p \in Rank, Merged(p),
         map'[p] = map[p], round'[p] = round[p], pc'[p] = pc[p],
         what'[p] = what[p], sender'[p] = sender[p],
         Outcome'[round[p]] = Outcome[round[p]],
         Merging(p) => \A q \in Rank : \A w \in {"add", "rem"} : \A r \in {round[p]} :
                           Notes(q, r, w)' = Notes(q, r, w)
  PROVE  Merged(p)'
<1>1. Merging(p)' <=> Merging(p)
  BY DEF Merging
<1>2. CASE ~Merging(p)
  BY <1>1, <1>2 DEF Merged
<1>3. CASE Merging(p)
  <2>1. Heard(p)' = Heard(p)
    BY DEF Heard
  <2>2. PICK r \in Nat : r = round[p]
    BY BoundAssumption DEF TypeOK
  <2>3. PICK s \in 0 .. NProc : s = Heard(p)
    BY NProcAssumption DEF TypeOK, Heard
  <2>4. \A q \in 0 .. s - 1 : q \in Rank
    BY <2>3, RankIsInterval
  <2>5. \A q \in Rank : /\ Notes(q, r, "add")' = Notes(q, r, "add")
                        /\ Notes(q, r, "rem")' = Notes(q, r, "rem")
    BY <1>3, <2>2
  <2>6. Outcome'[r] = Outcome[r]
    BY <2>2
  <2>7. ASSUME NEW v, NEW k, NEW t \in 0 .. NProc, Added(v, r, t, k)
        PROVE  Added(v, r, t, k)'
    <3>1. \A q \in 0 .. t - 1 : q \in Rank /\ \A u \in q + 1 .. t - 1 : u \in Rank
      BY RankIsInterval
    <3> QED BY <2>5, <2>6, <2>7, <3>1 DEF Added
  <2>8. ASSUME NEW v, NEW k, Removed(v, r, s, k)
        PROVE  Removed(v, r, s, k)'
    <3>1. NProc \in 0 .. NProc
      BY NProcAssumption
    <3> QED BY <2>4, <2>5, <2>7, <2>8, <3>1 DEF Removed
  <2>9. ASSUME NEW k \in Key
        PROVE  (IF what[p] = "add" THEN Added(map[p][k], round[p], Heard(p), k)
                ELSE Removed(map[p][k], round[p], Heard(p), k))'
    <3>1. PICK v : v = map[p][k]
      OBVIOUS
    <3>2. IF what[p] = "add" THEN Added(v, r, s, k) ELSE Removed(v, r, s, k)
      BY <1>3, <2>2, <2>3, <3>1 DEF Merged
    <3>3. IF what[p] = "add" THEN Added(v, r, s, k)' ELSE Removed(v, r, s, k)'
      BY <2>7, <2>8, <3>2
    <3>4. map'[p][k] = v /\ round'[p] = r /\ Heard(p)' = s
      BY <2>1, <2>2, <2>3, <3>1
    <3> QED BY <3>3, <3>4 DEF Added, Removed
  <2> QED BY <1>1, <1>3, <2>9 DEF Merged
<1> QED BY <1>2, <1>3

\* A note changes what is said of the next call of its process only, which no
\* process has begun to merge.
LEMMA NoteKeeps ==
  ASSUME IInv, NEW a \in Rank, pc[a] = "idle", round[a] < MaxRounds,
         UNCHANGED <<map, round, pc, what, num, sender, sent>>,
         \A q \in Rank : \A r \in 1 .. MaxRounds :
             q # a \/ r # round[a] + 1 => submitted'[q][r] = submitted[q][r]
  PROVE  Honest' /\ \A p \in Rank : Joined(p)' /\ Looping(p)' /\ Merged(p)'
<1>0. TypeOK
  BY DEF IInv
<1>1. \A q, r : Entered(q, r)' <=> Entered(q, r)
  BY DEF Entered
<1>2. ASSUME NEW q \in Rank, NEW r \in 0 .. MaxRounds - 1, Entered(q, r)
      PROVE  submitted'[q][r + 1] = submitted[q][r + 1]
  <2>1. r + 1 \in 1 .. MaxRounds
    BY BoundAssumption
  <2>2. q = a => r + 1 # round[a] + 1
    BY <1>0, <1>2 DEF Entered, TypeOK
  <2> QED BY <2>1, <2>2
<1>3. ASSUME NEW q \in Rank, NEW r \in 0 .. MaxRounds - 1, Entered(q, r), NEW w \in {"add", "rem"}
      PROVE  Notes(q, r, w)' = Notes(q, r, w) /\ Count(q, r, w)' = Count(q, r, w)
  <2>1. submitted'[q][r + 1] = submitted[q][r + 1]
    BY <1>2, <1>3
  <2> QED BY <2>1 DEF Notes, Count, Noted
<1>4. Honest'
  <2> SUFFICES ASSUME NEW m \in sent PROVE HonestMessage(m)'
    BY DEF Honest
  <2>1. HonestMessage(m)
    BY DEF IInv, Honest
  <2>2. /\ Notes(m.from, m.round, m.what)' = Notes(m.from, m.round, m.what)
        /\ Count(m.from, m.round, m.what)' = Count(m.from, m.round, m.what)
    BY <1>3, <2>1 DEF HonestMessage
  <2> QED BY <1>1, <2>1, <2>2 DEF HonestMessage
<1>5. ASSUME NEW p \in Rank PROVE Joined(p)' /\ Looping(p)' /\ Merged(p)'
  <2>1. Held(p) /\ Joined(p) /\ Looping(p) /\ Merged(p)
    BY DEF IInv
  <2>2. Joined(p)'
    BY <1>1, <2>1 DEF Joined, Frozen, Merging
  <2>3. round[p] \in 0 .. MaxRounds /\ what[p] \in {"add", "rem"}
    BY <1>0 DEF TypeOK
  <2>4. Merging(p) => round[p] \in 0 .. MaxRounds - 1 /\ Frozen(round[p])
    BY <2>1, <2>3, BoundAssumption DEF Held, Joined, Merging
  <2>5. PICK r \in 0 .. MaxRounds : r = round[p]
    BY <2>3
  <2>6. ASSUME Merging(p), NEW q \in Rank, NEW w \in {"add", "rem"}
        PROVE  Notes(q, r, w)' = Notes(q, r, w) /\ Count(q, r, w)' = Count(q, r, w)
    BY <1>3, <2>4, <2>5, <2>6 DEF Frozen
  <2>7. Looping(p)'
    <3>1. CASE Merging(p)
      <4>1. \A q \in Rank : Count(q, r, what[p])' = Count(q, r, what[p])
        BY <2>3, <2>6, <3>1
      <4>2. /\ pc[p] = "sum" => \E q \in Rank : Count(q, r, what[p]) > 0
            /\ pc[p] = "bcast" => /\ sender[p] \in Rank
                                  /\ \A q \in Rank : num[p][q] = Count(q, r, what[p])
        BY <2>1, <2>5 DEF Looping
      <4>3. PICK w : w = what[p]
        OBVIOUS
      <4>4. /\ pc[p] = "sum" => \E q \in Rank : Count(q, r, w)' > 0
            /\ pc[p] = "bcast" => /\ sender[p] \in Rank
                                  /\ \A q \in Rank : num[p][q] = Count(q, r, w)'
        BY <2>3, <2>6, <3>1, <4>2, <4>3
      <4>5. round'[p] = r /\ what'[p] = w /\ pc'[p] = pc[p] /\ sender'[p] = sender[p] /\ num'[p] = num[p]
        BY <2>5, <4>3
      <4> QED BY <4>4, <4>5 DEF Looping, Count
    <3>2. CASE ~Merging(p)
      BY <3>2 DEF Merging, Looping
    <3> QED BY <3>1, <3>2
  <2>8. \A q \in Rank : \A i \in 1 .. r : submitted'[q][i] = submitted[q][i]
    <3> SUFFICES ASSUME NEW q \in Rank, NEW i \in 1 .. r
                 PROVE  submitted'[q][i] = submitted[q][i]
      OBVIOUS
    <3>1. r - 1 \in Nat /\ i - 1 \in 0 .. r - 1 /\ i - 1 \in 0 .. MaxRounds - 1 /\ (i - 1) + 1 = i
      BY BoundAssumption
    <3>2. Entered(q, r - 1)
      BY <2>1, <2>5, <3>1 DEF Joined, Frozen
    <3>3. Entered(q, i - 1)
      BY <1>0, <3>1, <3>2, EnteredBefore
    <3> QED BY <1>2, <3>1, <3>3
  <2>9. Outcome'[r] = Outcome[r]
    BY <2>8, OutcomeKept, BoundAssumption
  <2>10. Merged(p)'
    BY <1>0, <2>1, <2>5, <2>6, <2>9, MergedKept
  <2> QED BY <2>2, <2>7, <2>10
<1> QED BY <1>4, <1>5

\* Process p alone takes a step, inside a call or at the end of one.
Only(p) ==
    /\ UNCHANGED submitted
    /\ \A q \in Rank \ {p} :
          /\ map'[q] = map[q] /\ add'[q] = add[q] /\ rem'[q] = rem[q]
          /\ round'[q] = round[q] /\ pc'[q] = pc[q] /\ what'[q] = what[q]
          /\ num'[q] = num[q] /\ sender'[q] = sender[q]
    /\ (round'[p] = round[p] /\ pc'[p] # "idle") \/ round'[p] = round[p] + 1

\* What depends on the notes alone stays.
LEMMA NotesStay ==
  ASSUME UNCHANGED submitted
  PROVE  /\ \A q, r, w : Notes(q, r, w)' = Notes(q, r, w) /\ Count(q, r, w)' = Count(q, r, w)
         /\ \A r \in 0 .. MaxRounds : Outcome'[r] = Outcome[r]
<1>1. \A q, r, w : Notes(q, r, w)' = Notes(q, r, w) /\ Count(q, r, w)' = Count(q, r, w)
  BY DEF Notes, Count, Noted
<1>2. \A r \in 0 .. MaxRounds : Outcome'[r] = Outcome[r]
  <2>1. MaxRounds \in 0 .. MaxRounds
    BY BoundAssumption
  <2> QED BY <2>1, OutcomeKept
<1> QED BY <1>1, <1>2

\* Calls that have begun stay begun.
LEMMA EnteredStays ==
  ASSUME TypeOK, NEW p \in Rank, Only(p), NEW q \in Rank, NEW r \in Int, Entered(q, r)
  PROVE  Entered(q, r)'
<1>1. CASE q # p
  BY <1>1 DEF Only, Entered
<1>2. CASE q = p
  <2>1. round[p] \in Nat
    BY BoundAssumption DEF TypeOK
  <2>2. CASE round'[p] = round[p] /\ pc'[p] # "idle"
    BY <1>2, <2>2 DEF Entered
  <2>3. CASE round'[p] = round[p] + 1
    <3>1. round[p] = r \/ round[p] > r
      BY <1>2 DEF Entered
    <3>2. CASE round[p] = r
      BY <1>2, <2>1, <2>3, <3>2 DEF Entered
    <3>3. CASE round[p] > r
      BY <1>2, <2>1, <2>3, <3>3 DEF Entered
    <3> QED BY <3>1, <3>2, <3>3
  <2> QED BY <2>2, <2>3 DEF Only
<1> QED BY <1>1, <1>2

\* What is said of the other processes stays.
LEMMA OthersKeep ==
  ASSUME IInv, NEW p \in Rank, Only(p), NEW q \in Rank \ {p}
  PROVE  Held(q)' /\ Joined(q)' /\ Looping(q)' /\ Merged(q)'
<1>0. TypeOK /\ Held(q) /\ Joined(q) /\ Looping(q) /\ Merged(q)
  BY DEF IInv
<1>1. /\ UNCHANGED submitted
      /\ map'[q] = map[q] /\ add'[q] = add[q] /\ rem'[q] = rem[q]
      /\ round'[q] = round[q] /\ pc'[q] = pc[q] /\ what'[q] = what[q]
      /\ num'[q] = num[q] /\ sender'[q] = sender[q]
  BY DEF Only
<1>2. Held(q)'
  BY <1>0, <1>1 DEF Held, Empty, NoNotes
<1>3. ASSUME NEW r \in Int, Frozen(r) PROVE Frozen(r)'
  BY <1>0, <1>3, EnteredStays DEF Frozen
<1>4. PICK r \in 0 .. MaxRounds : r = round[q]
  BY <1>0 DEF TypeOK
<1>5. Joined(q)'
  <2>1. r - 1 \in Int /\ r \in Int
    BY BoundAssumption
  <2>2. /\ r > 0 => Frozen(r - 1)
        /\ Merging(q) => Frozen(r)
    BY <1>0, <1>4 DEF Joined
  <2>3. /\ r > 0 => Frozen(r - 1)'
        /\ Merging(q) => Frozen(r)'
    BY <1>3, <2>1, <2>2
  <2>4. round'[q] = r /\ (Merging(q)' <=> Merging(q))
    BY <1>1, <1>4 DEF Merging
  <2> QED BY <2>3, <2>4 DEF Joined, Frozen, Entered
<1>6. Looping(q)'
  <2>1. PICK w : w = what[q]
    OBVIOUS
  <2>2. /\ pc[q] = "sum" => \E u \in Rank : Count(u, r, w) > 0
        /\ pc[q] = "bcast" => /\ sender[q] \in Rank
                              /\ \A u \in Rank : num[q][u] = Count(u, r, w)
    BY <1>0, <1>4, <2>1 DEF Looping
  <2>3. \A u : Count(u, r, w)' = Count(u, r, w)
    BY <1>1, NotesStay
  <2>4. /\ pc[q] = "sum" => \E u \in Rank : Count(u, r, w)' > 0
        /\ pc[q] = "bcast" => /\ sender[q] \in Rank
                              /\ \A u \in Rank : num[q][u] = Count(u, r, w)'
    BY <2>2, <2>3
  <2>5. round'[q] = r /\ what'[q] = w
    BY <1>1, <1>4, <2>1
  <2> QED BY <1>1, <2>4, <2>5 DEF Looping, Count
<1>7. Merged(q)'
  <2>1. Outcome'[r] = Outcome[r] /\ \A u, i, w : Notes(u, i, w)' = Notes(u, i, w)
    BY <1>1, NotesStay
  <2> QED BY <1>0, <1>1, <1>4, <2>1, MergedKept
<1> QED BY <1>2, <1>5, <1>6, <1>7

\* Contributions stay honest, and new ones are if they tell what their sender
\* noted for a call it has begun.
LEMMA StayHonest ==
  ASSUME IInv, NEW p \in Rank, Only(p), NEW new, sent' = sent \cup new,
         \A m \in new : HonestMessage(m)'
  PROVE  Honest'
<1> SUFFICES ASSUME NEW m \in sent PROVE HonestMessage(m)'
  BY DEF Honest
<1>1. HonestMessage(m)
  BY DEF IInv, Honest
<1>2. m.round \in Int /\ TypeOK
  BY <1>1, BoundAssumption DEF HonestMessage, IInv
<1>3. Entered(m.from, m.round)'
  BY <1>1, <1>2, EnteredStays DEF HonestMessage
<1>4. UNCHANGED submitted
  BY DEF Only
<1>5. /\ Notes(m.from, m.round, m.what)' = Notes(m.from, m.round, m.what)
      /\ Count(m.from, m.round, m.what)' = Count(m.from, m.round, m.what)
  BY <1>4, NotesStay
<1> QED BY <1>1, <1>3, <1>5 DEF HonestMessage

-----------------------------------------------------------------------------
(* The end of a half of communicateData *)

\* What is merged with the notes of all processes stays merged.
LEMMA AddedStays ==
  ASSUME UNCHANGED submitted, NEW v, NEW r \in 0 .. MaxRounds, NEW s, NEW k, Added(v, r, s, k)
  PROVE  Added(v, r, s, k)'
<1>1. /\ \A q : Notes(q, r, "add")' = Notes(q, r, "add")
      /\ Outcome'[r] = Outcome[r]
  BY NotesStay
<1> QED BY <1>1 DEF Added

\* A half ends when the notes of all processes are applied to the map and those
\* of the process are dropped; the removals follow or the call returns.
LEMMA HalfEnds ==
  ASSUME IInv, NEW p \in Rank, pc[p] # "idle", Frozen(round[p]),
         UNCHANGED submitted,
         \A q \in Rank \ {p} :
             /\ map'[q] = map[q] /\ add'[q] = add[q] /\ rem'[q] = rem[q]
             /\ num'[q] = num[q] /\ sender'[q] = sender[q],
         NEW posts, EndOfHalf(p, posts),
         \A m \in posts : /\ m.round = round[p] /\ m.what = what[p] /\ m.from = p
                          /\ m.op = "bcast" /\ m.data = Notes(p, round[p], what[p]),
         NEW c \in Contents, map'[p] = c,
         \A k \in Key : IF what[p] = "add" THEN Added(c[k], round[p], NProc, k)
                        ELSE Removed(c[k], round[p], NProc, k),
         add'[p] = Cleared(p)[1], rem'[p] = Cleared(p)[2]
  PROVE  Only(p) /\ Honest' /\ Held(p)' /\ Joined(p)' /\ Looping(p)' /\ Merged(p)'
<1>0. TypeOK /\ Held(p)
  BY DEF IInv
<1>1. PICK r \in 0 .. MaxRounds - 1 : r = round[p]
  BY <1>0, BoundAssumption DEF TypeOK, Held
<1>2. r \in 0 .. MaxRounds /\ r \in Int /\ r \in Nat /\ r < MaxRounds
  BY BoundAssumption
<1>3. /\ add[p] = (IF what[p] = "rem" THEN Empty ELSE submitted[p][r + 1].add)
      /\ rem[p] = submitted[p][r + 1].rem
      /\ \A i \in r + 2 .. MaxRounds : submitted[p][i] = NoNotes
  BY <1>0, <1>1, <1>2 DEF Held
<1>4. ASSUME Only(p) PROVE Frozen(r)'
  BY <1>0, <1>1, <1>2, <1>4, EnteredStays DEF Frozen
<1>5. ASSUME Entered(p, r)', NEW m \in posts PROVE HonestMessage(m)'
  <2>1. /\ m.round = r /\ m.what \in {"add", "rem"} /\ m.from = p /\ m.op = "bcast"
        /\ m.data = Notes(m.from, m.round, m.what)
    BY <1>0, <1>1 DEF TypeOK
  <2>2. Notes(m.from, m.round, m.what)' = Notes(m.from, m.round, m.what)
    BY NotesStay
  <2>3. Entered(m.from, m.round)'
    BY <1>5, <2>1 DEF Entered
  <2> QED BY <2>1, <2>2, <2>3 DEF HonestMessage
<1>6. CASE what[p] = "add"
  <2>1. /\ pc' = [pc EXCEPT ![p] = "max"] /\ what' = [what EXCEPT ![p] = "rem"]
        /\ round' = round
        /\ sent' = sent \cup posts \cup {Message(r, "rem", "max", p, Pending(p, "rem"))}
    BY <1>1, <1>6 DEF EndOfHalf, Enter
  <2>2. /\ pc'[p] = "max" /\ what'[p] = "rem" /\ round'[p] = r
        /\ \A q \in Rank \ {p} : pc'[q] = pc[q] /\ what'[q] = what[q] /\ round'[q] = round[q]
    BY <1>0, <1>1, <2>1 DEF TypeOK
  <2>3. Only(p)
    BY <1>1, <2>2 DEF Only
  <2>4. Honest'
    <3> DEFINE m == Message(r, "rem", "max", p, Pending(p, "rem"))
    <3>1. /\ m.round = r /\ m.what = "rem" /\ m.op = "max" /\ m.from = p
          /\ m.data = Pending(p, "rem")
      BY DEF Message
    <3>2. Pending(p, "rem") = Count(p, r, "rem")
      BY <1>3 DEF Pending, Count
    <3>3. Count(p, r, "rem")' = Count(p, r, "rem")
      BY NotesStay
    <3>4. Entered(p, r)'
      BY <2>2 DEF Entered
    <3>5. PICK n : n = m
      OBVIOUS
    <3>6. HonestMessage(n)'
      BY <3>1, <3>2, <3>3, <3>4, <3>5 DEF HonestMessage, Entered, Count
    <3>7. sent' = sent \cup (posts \cup {n})
      BY <2>1, <3>5
    <3>8. PICK all : all = posts \cup {n}
      OBVIOUS
    <3>9. \A e \in all : HonestMessage(e)'
      BY <1>5, <3>4, <3>6, <3>8
    <3> QED BY <2>3, <3>7, <3>8, <3>9, StayHonest
  <2>5. Held(p)'
    <3>1. add'[p] = Empty /\ rem'[p] = rem[p]
      BY <1>6 DEF Cleared
    <3> QED BY <1>2, <1>3, <2>2, <3>1 DEF Held, Empty, NoNotes
  <2>6. Joined(p)'
    <3>1. round[p] > 0 => Frozen(round[p] - 1)
      BY DEF IInv, Joined
    <3>2. r > 0 => Frozen(r - 1)'
      BY <1>0, <1>1, <1>2, <2>3, <3>1, EnteredStays DEF Frozen
    <3> QED BY <1>4, <2>2, <2>3, <3>2 DEF Joined, Frozen, Entered
  <2>7. Looping(p)'
    BY <2>2 DEF Looping
  <2>8. Merged(p)'
    <3>1. ASSUME NEW k \in Key PROVE Removed(c[k], r, 0, k)'
      <4>1. Added(c[k], r, NProc, k)'
        BY <1>1, <1>2, <1>6, AddedStays
      <4> QED BY <4>1 DEF Removed
    <3>2. Merging(p)' /\ Heard(p)' = 0
      BY <2>2 DEF Merging, Heard
    <3>3. ASSUME NEW k \in Key PROVE Removed(map[p][k], round[p], Heard(p), k)'
      BY <2>2, <3>1, <3>2 DEF Removed, Added, Notes
    <3> QED BY <2>2, <3>2, <3>3 DEF Merged
  <2> QED BY <2>3, <2>4, <2>5, <2>6, <2>7, <2>8
<1>7. CASE what[p] = "rem"
  <2>1. /\ pc' = [pc EXCEPT ![p] = "idle"] /\ what' = what
        /\ round' = [round EXCEPT ![p] = @ + 1]
        /\ sent' = sent \cup posts
    BY <1>7 DEF EndOfHalf
  <2>2. /\ pc'[p] = "idle" /\ what'[p] = "rem" /\ round'[p] = r + 1
        /\ \A q \in Rank \ {p} : pc'[q] = pc[q] /\ what'[q] = what[q] /\ round'[q] = round[q]
    BY <1>0, <1>1, <1>7, <2>1 DEF TypeOK
  <2>3. Only(p)
    BY <1>1, <2>2 DEF Only
  <2>4. Honest'
    <3>1. Entered(p, r)'
      BY <1>2, <2>2 DEF Entered
    <3> QED BY <1>5, <2>1, <2>3, <3>1, StayHonest
  <2>5. Held(p)'
    <3>1. add'[p] = Empty /\ rem'[p] = {}
      BY <1>3, <1>7 DEF Cleared
    <3>2. r + 1 < MaxRounds => submitted'[p][(r + 1) + 1] = NoNotes
      BY <1>2, <1>3, BoundAssumption
    <3>3. \A i \in (r + 1) + 2 .. MaxRounds : submitted'[p][i] = NoNotes
      BY <1>2, <1>3, BoundAssumption
    <3>4. round'[p] < MaxRounds =>
              /\ add'[p] = submitted'[p][round'[p] + 1].add
              /\ rem'[p] = submitted'[p][round'[p] + 1].rem
      BY <2>2, <3>1, <3>2 DEF NoNotes
    <3>5. \A i \in round'[p] + 2 .. MaxRounds : submitted'[p][i] = NoNotes
      BY <2>2, <3>3
    <3> QED BY <2>2, <3>4, <3>5 DEF Held, NoNotes, Empty
  <2>6. Joined(p)'
    <3>1. (r + 1) - 1 = r
      BY <1>2
    <3> QED BY <1>4, <2>2, <2>3, <3>1 DEF Joined, Merging, Frozen, Entered
  <2>7. Looping(p)'
    BY <2>2 DEF Looping
  <2>8. Merged(p)'
    <3>1. submitted \in [Rank -> [1 .. MaxRounds -> Call]]
      BY DEF IInv
    <3>2. c = Outcome[r + 1]
      BY <1>1, <1>7, <3>1, MergeComplete
    <3>3. Outcome'[r + 1] = Outcome[r + 1]
      <4>1. r + 1 \in 0 .. MaxRounds
        BY <1>2, BoundAssumption
      <4> QED BY <4>1, NotesStay
    <3> QED BY <2>2, <3>2, <3>3 DEF Merged, Merging
  <2> QED BY <2>3, <2>4, <2>5, <2>6, <2>7, <2>8
<1> QED BY <1>0, <1>6, <1>7 DEF TypeOK

-----------------------------------------------------------------------------
(* The steps of communicateData *)

\* The invariant holds after a step of p when it holds of p.
LEMMA CallKeeps ==
  ASSUME IInv, NEW p \in Rank, Only(p), TypeOK', Honest',
         Held(p)', Joined(p)', Looping(p)', Merged(p)'
  PROVE  IInv'
<1>1. (submitted \in [Rank -> [1 .. MaxRounds -> Call]])'
  BY DEF IInv, Only, Call, Contents
<1>2. \A q \in Rank : Held(q)' /\ Joined(q)' /\ Looping(q)' /\ Merged(q)'
  BY OthersKeep
<1> QED BY <1>1, <1>2 DEF IInv

\* The number of keys a process announces is that of its notes.
LEMMA PendingFacts ==
  ASSUME IInv, NEW p \in Rank, round[p] < MaxRounds, NEW w \in {"add", "rem"},
         w = "add" => pc[p] = "idle" \/ what[p] = "add"
  PROVE  Pending(p, w) = Count(p, round[p], w)
<1>1. Held(p) /\ TypeOK
  BY DEF IInv
<1> QED BY <1>1 DEF Held, Pending, Count, TypeOK

\* A contribution to a reduction is honest.
LEMMA ReductionHonest ==
  ASSUME IInv, NEW p \in Rank, Only(p), round[p] < MaxRounds,
         NEW w \in {"add", "rem"}, NEW op \in {"max", "sum"},
         round'[p] = round[p], pc'[p] # "idle",
         w = "add" => pc[p] = "idle" \/ what[p] = "add",
         sent' = sent \cup {Message(round[p], w, op, p, Pending(p, w))}
  PROVE  Honest'
<1>1. PICK m : m = Message(round[p], w, op, p, Pending(p, w))
  OBVIOUS
<1>2. PICK r \in 0 .. MaxRounds - 1 : r = round[p]
  BY BoundAssumption DEF IInv, TypeOK
<1>3. /\ m.round = r /\ m.what = w /\ m.op # "bcast" /\ m.from = p
      /\ m.data = Count(p, r, w)
  BY <1>1, <1>2, PendingFacts DEF Message
<1>4. Count(p, r, w)' = Count(p, r, w)
  BY NotesStay DEF Only
<1>5. Entered(p, r)'
  BY <1>2 DEF Entered
<1>6. HonestMessage(m)'
  BY <1>3, <1>4, <1>5 DEF HonestMessage, Count, Entered
<1>7. sent' = sent \cup {m}
  BY <1>1
<1>8. PICK all : all = {m}
  OBVIOUS
<1>9. \A e \in all : HonestMessage(e)'
  BY <1>6, <1>8
<1> QED BY <1>7, <1>8, <1>9, StayHonest

LEMMA CommunicateKeeps ==
  ASSUME IInv, NEW p \in Rank, CommunicateData(p)
  PROVE  IInv'
<1>0. TypeOK /\ Held(p) /\ Joined(p) /\ Merged(p)
  BY DEF IInv
<1>1. /\ pc[p] = "idle" /\ round[p] < MaxRounds
      /\ pc' = [pc EXCEPT ![p] = "max"] /\ what' = [what EXCEPT ![p] = "add"]
      /\ UNCHANGED <<map, add, rem, round, num, sender, submitted, changes>>
  BY DEF CommunicateData, Enter
<1>2. sent' = sent \cup {Message(round[p], "add", "max", p, Pending(p, "add"))}
  BY DEF CommunicateData, Enter
<1>3. /\ pc'[p] = "max" /\ what'[p] = "add"
      /\ \A q \in Rank \ {p} : pc'[q] = pc[q] /\ what'[q] = what[q]
  BY <1>0, <1>1 DEF TypeOK
<1>4. Only(p)
  BY <1>1, <1>3 DEF Only
<1>5. TypeOK'
  BY <1>0, <1>1 DEF TypeOK, Contents
<1>6. Honest'
  BY <1>1, <1>2, <1>3, <1>4, ReductionHonest
<1>7. Held(p)'
  BY <1>0, <1>1, <1>3 DEF Held, Empty, NoNotes
<1>8. Joined(p)'
  <2>1. PICK r \in 0 .. MaxRounds : r = round[p]
    BY <1>0 DEF TypeOK
  <2>2. r - 1 \in Int
    BY BoundAssumption
  <2>3. r > 0 => Frozen(r - 1)'
    BY <1>0, <1>4, <2>1, <2>2, EnteredStays DEF Joined, Frozen
  <2> QED BY <1>1, <1>3, <2>1, <2>3 DEF Joined, Merging, Frozen, Entered
<1>9. Looping(p)'
  BY <1>3 DEF Looping
<1>10. Merged(p)'
  <2>1. Outcome'[round[p]] = Outcome[round[p]]
    BY <1>0, <1>1, NotesStay DEF TypeOK
  <2> QED BY <1>0, <1>1, <1>3, <2>1 DEF Merged, Merging
<1> QED BY <1>4, <1>5, <1>6, <1>7, <1>8, <1>9, <1>10, CallKeeps

\* When everyone has come to an operation every process has begun the call.
LEMMA EveryoneFrozen ==
  ASSUME IInv, NEW p \in Rank, Everyone(p), pc[p] # "bcast"
  PROVE  /\ Frozen(round[p])
         /\ \A q \in Rank : Data(q, p) = Count(q, round[p], what[p])
  BY Received DEF IInv, Everyone, Frozen

\* What is known of a process in a call.
LEMMA InCall ==
  ASSUME IInv, NEW p \in Rank, pc[p] # "idle"
  PROVE  \E r \in 0 .. MaxRounds - 1 :
             /\ r = round[p] /\ r \in 0 .. MaxRounds /\ r \in Int /\ r - 1 \in Int
             /\ r < MaxRounds
             /\ what[p] \in {"add", "rem"} /\ pc[p] \in {"max", "sum", "bcast"}
             /\ map[p] \in Contents
             /\ Outcome'[r] = Outcome[r] \/ submitted' # submitted
<1>1. round[p] < MaxRounds /\ round[p] \in 0 .. MaxRounds
  BY DEF IInv, Held, TypeOK
<1>2. round[p] \in 0 .. MaxRounds - 1
  BY <1>1, BoundAssumption
<1>3. submitted' = submitted => Outcome'[round[p]] = Outcome[round[p]]
  BY <1>1, NotesStay
<1>4. /\ what[p] \in {"add", "rem"} /\ pc[p] \in {"max", "sum", "bcast"}
      /\ map[p] \in Contents
  BY DEF IInv, TypeOK
<1>5. round[p] \in Int /\ round[p] - 1 \in Int
  BY <1>1, BoundAssumption
<1> WITNESS round[p] \in 0 .. MaxRounds - 1
<1> QED BY <1>1, <1>3, <1>4, <1>5

\* Who has begun a call has begun the one before: that stays.
LEMMA JoinedStays ==
  ASSUME IInv, NEW p \in Rank, Only(p), round'[p] = round[p], Frozen(round[p])
  PROVE  Joined(p)'
<1>1. PICK r \in 0 .. MaxRounds : r = round[p]
  BY DEF IInv, TypeOK
<1>2. r \in Int /\ r - 1 \in Int /\ TypeOK
  BY BoundAssumption DEF IInv
<1>3. /\ r > 0 => Frozen(r - 1)
      /\ Frozen(r)
  BY <1>1 DEF IInv, Joined
<1>4. /\ r > 0 => Frozen(r - 1)'
      /\ Frozen(r)'
  BY <1>2, <1>3, EnteredStays DEF Frozen
<1> QED BY <1>1, <1>4 DEF Joined, Frozen, Entered

LEMMA MaxReductionKeeps ==
  ASSUME IInv, NEW p \in Rank, MaxReduction(p)
  PROVE  IInv'
<1>0. TypeOK /\ Held(p) /\ Joined(p) /\ Merged(p)
  BY DEF IInv
<1>1. /\ pc[p] = "max" /\ Everyone(p)
      /\ UNCHANGED <<map, add, rem, num, sender, submitted, changes>>
  BY DEF MaxReduction
<1>2. PICK r \in 0 .. MaxRounds - 1 :
          /\ r = round[p] /\ r \in 0 .. MaxRounds /\ r \in Int /\ r - 1 \in Int
          /\ r < MaxRounds
          /\ what[p] \in {"add", "rem"} /\ pc[p] \in {"max", "sum", "bcast"}
          /\ map[p] \in Contents
          /\ Outcome'[r] = Outcome[r] \/ submitted' # submitted
  BY <1>1, InCall
<1>3. Frozen(r) /\ \A q \in Rank : Data(q, p) = Count(q, r, what[p])
  BY <1>1, <1>2, EveryoneFrozen
<1>4. \A k \in Key : IF what[p] = "add" THEN Added(map[p][k], r, 0, k)
                     ELSE Removed(map[p][k], r, 0, k)
  <2>1. CASE what[p] = "add"
    <3>1. map[p] = Outcome[r]
      BY <1>0, <1>1, <1>2, <2>1 DEF Merged, Merging
    <3> QED BY <2>1, <3>1, AddedNone
  <2>2. CASE what[p] = "rem"
    BY <1>0, <1>1, <1>2, <2>2 DEF Merged, Merging, Heard
  <2> QED BY <1>2, <2>1, <2>2
<1>5. CASE SomeoneHasNotes(p)
  <2>1. /\ pc' = [pc EXCEPT ![p] = "sum"] /\ UNCHANGED <<round, what>>
        /\ sent' = sent \cup {Message(round[p], what[p], "sum", p, Pending(p, what[p]))}
    BY <1>5 DEF MaxReduction
  <2>2. pc'[p] = "sum" /\ \A q \in Rank \ {p} : pc'[q] = pc[q]
    BY <1>0, <2>1 DEF TypeOK
  <2>3. Only(p)
    BY <1>1, <2>1, <2>2 DEF Only
  <2>4. TypeOK'
    BY <1>0, <1>1, <2>1 DEF TypeOK, Contents
  <2>5. Honest'
    <3>1. round'[p] = round[p] /\ round[p] < MaxRounds /\ pc'[p] # "idle"
      BY <1>2, <2>1, <2>2
    <3> QED BY <1>2, <2>1, <2>3, <3>1, ReductionHonest
  <2>6. Held(p)'
    BY <1>0, <1>1, <2>1, <2>2 DEF Held, Empty, NoNotes
  <2>7. Joined(p)'
    BY <1>2, <1>3, <2>1, <2>3, JoinedStays
  <2>8. Looping(p)'
    <3>1. PICK w : w = what[p]
      OBVIOUS
    <3>2. \E q \in Rank : Count(q, r, w) > 0
      BY <1>3, <1>5, <3>1 DEF SomeoneHasNotes
    <3>3. \E q \in Rank : Count(q, r, w)' > 0
      BY <1>1, <3>2, NotesStay
    <3>4. round'[p] = r /\ what'[p] = w
      BY <1>2, <2>1, <3>1
    <3> QED BY <2>2, <3>3, <3>4 DEF Looping, Count
  <2>9. Merged(p)'
    <3>1. PICK c : c = map[p]
      OBVIOUS
    <3>2. ASSUME NEW k \in Key
          PROVE  IF what[p] = "add" THEN Added(c[k], r, 0, k)' ELSE Removed(c[k], r, 0, k)'
      <4>1. \A q, w : Notes(q, r, w)' = Notes(q, r, w)
        BY <1>1, NotesStay
      <4>2. Outcome'[r] = Outcome[r]
        BY <1>1, <1>2
      <4> QED BY <1>4, <3>1, <4>1, <4>2 DEF Added, Removed
    <3>3. map'[p] = c /\ round'[p] = r /\ what'[p] = what[p]
      BY <1>1, <1>2, <2>1, <3>1
    <3>4. Merging(p)' /\ Heard(p)' = 0
      BY <2>2 DEF Merging, Heard
    <3> QED BY <3>2, <3>3, <3>4 DEF Merged, Added, Removed, Notes
  <2> QED BY <2>3, <2>4, <2>5, <2>6, <2>7, <2>8, <2>9, CallKeeps
<1>6. CASE ~SomeoneHasNotes(p)
  <2>1. EndOfHalf(p, {})
    BY <1>6 DEF MaxReduction
  <2>2. \A q \in Rank : Count(q, r, what[p]) = 0
    <3> SUFFICES ASSUME NEW q \in Rank PROVE Count(q, r, what[p]) = 0
      OBVIOUS
    <3>1. Count(q, r, what[p]) \in Nat
      BY <1>2, NotesFacts DEF IInv
    <3>2. ~(Count(q, r, what[p]) > 0)
      BY <1>3, <1>6 DEF SomeoneHasNotes
    <3> QED BY <3>1, <3>2
  <2>3. \A q \in Rank : /\ what[p] = "add" => \A k \in Key : Notes(q, r, "add")[k] = None
                        /\ what[p] = "rem" => Notes(q, r, "rem") = {}
    BY <2>2, NotesFacts DEF IInv
  <2>4. ASSUME NEW k \in Key
        PROVE  IF what[p] = "add" THEN Added(map[p][k], r, NProc, k)
               ELSE Removed(map[p][k], r, NProc, k)
    <3>1. \A u \in 0 .. NProc - 1 : u \in Rank
      BY RankIsInterval
    <3>2. what[p] = "add" => \A u \in 0 .. NProc - 1 : Notes(u, r, "add")[k] = None
      BY <2>3, <3>1
    <3>3. what[p] = "rem" => \A u \in 0 .. NProc - 1 : k \notin Notes(u, r, "rem")
      BY <2>3, <3>1
    <3>4. PICK v : v = map[p][k]
      OBVIOUS
    <3>5. 0 \in Nat /\ NProc \in Nat /\ 0 <= NProc
      BY RankIsInterval
    <3>6. CASE what[p] = "add"
      <4>1. Added(v, r, NProc, k)
        BY <1>4, <3>2, <3>4, <3>5, <3>6, AddedSkip
      <4> QED BY <3>4, <3>6, <4>1
    <3>7. CASE what[p] = "rem"
      <4>1. Removed(v, r, NProc, k)
        BY <1>4, <3>3, <3>4, <3>5, <3>7, RemovedSkip
      <4> QED BY <3>4, <3>7, <4>1
    <3> QED BY <1>2, <3>6, <3>7
  <2>5. add'[p] = Cleared(p)[1] /\ rem'[p] = Cleared(p)[2]
    <3>1. /\ add[p] = (IF what[p] = "rem" THEN Empty ELSE Notes(p, r, "add"))
          /\ rem[p] = Notes(p, r, "rem")
      BY <1>0, <1>1, <1>2 DEF Held, Notes
    <3>2. what[p] = "add" => add[p] = Empty
      BY <1>0, <2>3, <3>1 DEF TypeOK, Contents, Empty
    <3>3. what[p] = "rem" => rem[p] = {}
      BY <2>3, <3>1
    <3> QED BY <1>1, <1>2, <3>2, <3>3 DEF Cleared
  <2>6. PICK c \in Contents : c = map[p]
    BY <1>2
  <2>7. Only(p) /\ Honest' /\ Held(p)' /\ Joined(p)' /\ Looping(p)' /\ Merged(p)'
    <3>1. /\ pc[p] # "idle" /\ Frozen(round[p]) /\ UNCHANGED submitted /\ map'[p] = c
      BY <1>1, <1>2, <1>3, <2>6
    <3>2. \A q \in Rank \ {p} :
             /\ map'[q] = map[q] /\ add'[q] = add[q] /\ rem'[q] = rem[q]
             /\ num'[q] = num[q] /\ sender'[q] = sender[q]
      BY <1>1
    <3>3. \A k \in Key : IF what[p] = "add" THEN Added(c[k], round[p], NProc, k)
                         ELSE Removed(c[k], round[p], NProc, k)
      BY <1>2, <2>4, <2>6
    <3>4. PICK posts : posts = {}
      OBVIOUS
    <3> QED BY <2>1, <2>5, <3>1, <3>2, <3>3, <3>4, HalfEnds
  <2>8. TypeOK'
    <3>1. CASE what[p] = "add"
      BY <1>0, <1>1, <2>1, <3>1 DEF EndOfHalf, Enter, TypeOK, Contents
    <3>2. CASE what[p] = "rem"
      <4>1. /\ pc' = [pc EXCEPT ![p] = "idle"] /\ what' = what
            /\ round' = [round EXCEPT ![p] = @ + 1]
        BY <2>1, <3>2 DEF EndOfHalf
      <4>2. round[p] + 1 \in 0 .. MaxRounds
        BY <1>2, BoundAssumption
      <4> QED BY <1>0, <1>1, <4>1, <4>2 DEF TypeOK, Contents
    <3> QED BY <1>2, <3>1, <3>2
  <2> QED BY <2>7, <2>8, CallKeeps
<1> QED BY <1>5, <1>6

LEMMA SumReductionKeeps ==
  ASSUME IInv, NEW p \in Rank, SumReduction(p)
  PROVE  IInv'
<1>0. TypeOK /\ Held(p) /\ Joined(p) /\ Looping(p) /\ Merged(p)
  BY DEF IInv
<1>1. /\ pc[p] = "sum" /\ Everyone(p)
      /\ num' = [num EXCEPT ![p] = [q \in Rank |-> Data(q, p)]]
      /\ sender' = [sender EXCEPT ![p] = NextSender([q \in Rank |-> Data(q, p)], 0)]
      /\ pc' = [pc EXCEPT ![p] = "bcast"]
      /\ UNCHANGED <<map, add, rem, round, what, sent, submitted, changes>>
  BY DEF SumReduction
<1>2. PICK r \in 0 .. MaxRounds - 1 :
          /\ r = round[p] /\ r \in 0 .. MaxRounds /\ r \in Int /\ r - 1 \in Int
          /\ r < MaxRounds
          /\ what[p] \in {"add", "rem"} /\ pc[p] \in {"max", "sum", "bcast"}
          /\ map[p] \in Contents
          /\ Outcome'[r] = Outcome[r] \/ submitted' # submitted
  BY <1>1, InCall
<1>3. Frozen(r) /\ \A q \in Rank : Data(q, p) = Count(q, r, what[p])
  BY <1>1, <1>2, EveryoneFrozen
<1>4. PICK n \in [Rank -> Nat] :
          n = [q \in Rank |-> Data(q, p)] /\ \A q \in Rank : n[q] = Count(q, r, what[p])
  <2>1. \A q \in Rank : Count(q, r, what[p]) \in Nat
    BY <1>2, NotesFacts DEF IInv
  <2>2. [q \in Rank |-> Data(q, p)] = [q \in Rank |-> Count(q, r, what[p])]
    BY <1>3
  <2> QED BY <2>1, <2>2
<1>5. PICK t : t = NextSender(n, 0)
  OBVIOUS
<1>6. /\ t \in 0 .. NProc - 1 /\ t \in Nat /\ t \in Rank /\ t \in 0 .. NProc
      /\ \A u \in 0 .. t - 1 : n[u] = 0
  <2>1. 0 \in 0 .. NProc
    BY RankIsInterval
  <2>2. t \in 0 .. NProc /\ \A u \in 0 .. t - 1 : n[u] = 0
    BY <1>5, <2>1, NextSenderFacts
  <2>3. PICK q \in Rank : n[q] > 0
    BY <1>0, <1>1, <1>2, <1>4 DEF Looping
  <2>4. t # NProc
    BY <2>2, <2>3, RankIsInterval
  <2> QED BY <2>2, <2>4, RankIsInterval
<1>7. /\ pc'[p] = "bcast" /\ sender'[p] = t /\ num'[p] = n
      /\ \A q \in Rank \ {p} : pc'[q] = pc[q] /\ num'[q] = num[q] /\ sender'[q] = sender[q]
  BY <1>0, <1>1, <1>4, <1>5 DEF TypeOK
<1>8. Only(p)
  BY <1>1, <1>7 DEF Only
<1>9. TypeOK'
  <2>1. num' \in [Rank -> [Rank -> Nat]] /\ sender' \in [Rank -> 0 .. NProc]
    BY <1>0, <1>1, <1>4, <1>5, <1>6 DEF TypeOK
  <2> QED BY <1>0, <1>1, <2>1 DEF TypeOK, Contents
<1>10. Honest'
  <2>1. sent' = sent \cup {}
    BY <1>1
  <2>2. PICK none : none = {}
    OBVIOUS
  <2>3. \A m \in none : HonestMessage(m)'
    BY <2>2
  <2> QED BY <1>8, <2>1, <2>2, <2>3, StayHonest
<1>11. Held(p)'
  BY <1>0, <1>1, <1>7 DEF Held, Empty, NoNotes
<1>12. Joined(p)'
  BY <1>1, <1>2, <1>3, <1>8, JoinedStays
<1>13. Looping(p)'
  <2>1. PICK w : w = what[p]
    OBVIOUS
  <2>2. \A q \in Rank : n[q] = Count(q, r, w)'
    BY <1>1, <1>4, <2>1, NotesStay
  <2>3. round'[p] = r /\ what'[p] = w
    BY <1>1, <1>2, <2>1
  <2> QED BY <1>6, <1>7, <2>2, <2>3 DEF Looping, Count
<1>14. Merged(p)'
  <2>1. PICK c : c = map[p]
    OBVIOUS
  <2>2. \A u \in 0 .. t - 1 : u \in Rank
    BY <1>6, RankIsInterval
  <2>3. \A u \in Rank : /\ Count(u, r, "add") = 0 => \A k \in Key : Notes(u, r, "add")[k] = None
                        /\ Count(u, r, "rem") = 0 => Notes(u, r, "rem") = {}
    BY NotesFacts DEF IInv
  <2>4. ASSUME NEW k \in Key
        PROVE  IF what[p] = "add" THEN Added(c[k], r, t, k) ELSE Removed(c[k], r, t, k)
    <3>1. PICK v : v = c[k]
      OBVIOUS
    <3>2. 0 \in Nat /\ 0 <= t
      BY <1>6
    <3>3. CASE what[p] = "add"
      <4>1. Added(v, r, 0, k)
        BY <1>0, <1>1, <1>2, <2>1, <3>1, <3>3 DEF Merged, Merging, Heard
      <4>2. \A u \in 0 .. t - 1 : Notes(u, r, "add")[k] = None
        BY <1>4, <1>6, <2>2, <2>3, <3>3
      <4>3. Added(v, r, t, k)
        BY <1>6, <3>2, <4>1, <4>2, AddedSkip
      <4> QED BY <3>1, <3>3, <4>3
    <3>4. CASE what[p] = "rem"
      <4>1. Removed(v, r, 0, k)
        BY <1>0, <1>1, <1>2, <2>1, <3>1, <3>4 DEF Merged, Merging, Heard
      <4>2. \A u \in 0 .. t - 1 : k \notin Notes(u, r, "rem")
        BY <1>4, <1>6, <2>2, <2>3, <3>4
      <4>3. Removed(v, r, t, k)
        BY <1>6, <3>2, <4>1, <4>2, RemovedSkip
      <4> QED BY <3>1, <3>4, <4>3
    <3> QED BY <1>2, <3>3, <3>4
  <2>5. ASSUME NEW k \in Key
        PROVE  IF what[p] = "add" THEN Added(c[k], r, t, k)' ELSE Removed(c[k], r, t, k)'
    <3>1. \A q, w : Notes(q, r, w)' = Notes(q, r, w)
      BY <1>1, NotesStay
    <3>2. Outcome'[r] = Outcome[r]
      BY <1>1, <1>2
    <3> QED BY <2>4, <3>1, <3>2 DEF Added, Removed
  <2>6. map'[p] = c /\ round'[p] = r /\ what'[p] = what[p]
    BY <1>1, <1>2, <2>1
  <2>7. Merging(p)' /\ Heard(p)' = t
    BY <1>7 DEF Merging, Heard
  <2> QED BY <2>5, <2>6, <2>7 DEF Merged, Added, Removed, Notes
<1> QED BY <1>8, <1>9, <1>10, <1>11, <1>12, <1>13, <1>14, CallKeeps

LEMMA BroadcastKeeps ==
  ASSUME IInv, NEW p \in Rank, Broadcast(p)
  PROVE  IInv'
<1>0. TypeOK /\ Held(p) /\ Joined(p) /\ Looping(p) /\ Merged(p)
  BY DEF IInv
<1>1. /\ pc[p] = "bcast" /\ (sender[p] = p \/ From(sender[p], p) # {})
      /\ UNCHANGED <<num, submitted, changes>>
  BY DEF Broadcast
<1>2. PICK r \in 0 .. MaxRounds - 1 :
          /\ r = round[p] /\ r \in 0 .. MaxRounds /\ r \in Int /\ r - 1 \in Int
          /\ r < MaxRounds
          /\ what[p] \in {"add", "rem"} /\ pc[p] \in {"max", "sum", "bcast"}
          /\ map[p] \in Contents
          /\ Outcome'[r] = Outcome[r] \/ submitted' # submitted
  BY <1>1, InCall
<1>3. PICK s \in Rank : s = sender[p]
  BY <1>0, <1>1 DEF Looping
<1>4. Frozen(r) /\ \A q \in Rank : num[p][q] = Count(q, r, what[p])
  BY <1>0, <1>1, <1>2 DEF Joined, Looping, Merging
<1>5. /\ s \in Nat /\ s + 1 \in Nat /\ s + 1 \in 0 .. NProc /\ 0 < NProc
      /\ \A u \in Rank : /\ Notes(u, r, "add") \in Contents
                         /\ Notes(u, r, "rem") \in SUBSET Key
                         /\ Count(u, r, "add") = 0 => \A k \in Key : Notes(u, r, "add")[k] = None
                         /\ Count(u, r, "rem") = 0 => Notes(u, r, "rem") = {}
  BY RankIsInterval, NotesFacts DEF IInv
<1>6. what[p] = "add" => add[p] = Notes(p, r, "add")
  BY <1>0, <1>1, <1>2 DEF Held, Notes
<1>7. rem[p] = Notes(p, r, "rem")
  BY <1>0, <1>1, <1>2 DEF Held, Notes
<1>8. Payload(p) = Notes(p, r, what[p])
  BY <1>2, <1>6, <1>7 DEF Payload
<1>9. Incoming(p) = Notes(s, r, what[p])
  <2>1. CASE s = p
    BY <1>3, <1>8, <2>1 DEF Incoming
  <2>2. CASE s # p
    <3>1. From(s, p) # {} /\ Incoming(p) = Data(s, p)
      BY <1>1, <1>3, <2>2 DEF Incoming
    <3>2. Data(s, p) = Notes(s, r, what[p])
      BY <1>1, <1>2, <3>1, Received DEF IInv
    <3> QED BY <3>1, <3>2
  <2> QED BY <2>1, <2>2
<1>10. PICK c : c = Apply(map[p], what[p], Notes(s, r, what[p]))
  OBVIOUS
<1>11. /\ what[p] = "add" =>
             c = [k \in Key |-> IF Notes(s, r, "add")[k] # None THEN Notes(s, r, "add")[k]
                                ELSE map[p][k]]
       /\ what[p] = "rem" =>
             c = [k \in Key |-> IF k \in Notes(s, r, "rem") THEN None ELSE map[p][k]]
  BY <1>10 DEF Apply
<1>12. c \in Contents
  BY <1>2, <1>5, <1>11 DEF Contents
<1>13. PICK t : t = NextSender(num[p], s + 1)
  OBVIOUS
<1>14. /\ t \in s + 1 .. NProc /\ t \in Nat
       /\ \A u \in s + 1 .. t - 1 : u \in Rank /\ num[p][u] = 0
  <2>1. num[p] \in [Rank -> Nat]
    BY <1>0 DEF TypeOK
  <2>2. t \in s + 1 .. NProc /\ \A u \in s + 1 .. t - 1 : num[p][u] = 0
    BY <1>5, <1>13, <2>1, NextSenderFacts
  <2> QED BY <1>5, <2>2, RankIsInterval
<1>15. ASSUME NEW k \in Key
       PROVE  IF what[p] = "add" THEN Added(c[k], r, t, k) ELSE Removed(c[k], r, t, k)
  <2>1. PICK v : v = map[p][k]
    OBVIOUS
  <2>2. PICK w : w = c[k]
    OBVIOUS
  <2>3. s + 1 <= t
    BY <1>5, <1>14
  <2>4. CASE what[p] = "add"
    <3>1. Added(v, r, s, k)
      BY <1>0, <1>1, <1>2, <1>3, <2>1, <2>4 DEF Merged, Merging, Heard
    <3>2. w = IF Notes(s, r, "add")[k] # None THEN Notes(s, r, "add")[k] ELSE v
      BY <1>11, <2>1, <2>2, <2>4
    <3>3. Added(w, r, s + 1, k)
      BY <1>5, <3>1, <3>2, AddedStep
    <3>4. \A u \in s + 1 .. t - 1 : Notes(u, r, "add")[k] = None
      BY <1>4, <1>5, <1>14, <2>4
    <3>5. Added(w, r, t, k)
      BY <1>5, <1>14, <2>3, <3>3, <3>4, AddedSkip
    <3> QED BY <2>2, <2>4, <3>5
  <2>5. CASE what[p] = "rem"
    <3>1. Removed(v, r, s, k)
      BY <1>0, <1>1, <1>2, <1>3, <2>1, <2>5 DEF Merged, Merging, Heard
    <3>2. w = IF k \in Notes(s, r, "rem") THEN None ELSE v
      BY <1>11, <2>1, <2>2, <2>5
    <3>3. Removed(w, r, s + 1, k)
      BY <1>5, <3>1, <3>2, RemovedStep
    <3>4. \A u \in s + 1 .. t - 1 : k \notin Notes(u, r, "rem")
      BY <1>4, <1>5, <1>14, <2>5
    <3>5. Removed(w, r, t, k)
      BY <1>5, <1>14, <2>3, <3>3, <3>4, RemovedSkip
    <3> QED BY <2>2, <2>5, <3>5
  <2> QED BY <1>2, <2>4, <2>5
<1>16. PICK posts : posts = IF s = p THEN {Message(round[p], what[p], "bcast", p, Payload(p))} ELSE {}
  OBVIOUS
<1>17. \A m \in posts : /\ m.round = round[p] /\ m.what = what[p] /\ m.from = p
                        /\ m.op = "bcast" /\ m.data = Notes(p, round[p], what[p])
  BY <1>2, <1>8, <1>16 DEF Message
<1>18. /\ map' = [map EXCEPT ![p] = c] /\ sender' = [sender EXCEPT ![p] = t]
       /\ IF t < NProc
          THEN sent' = sent \cup posts /\ UNCHANGED <<add, rem, round, pc, what>>
          ELSE /\ add' = [add EXCEPT ![p] = Cleared(p)[1]]
               /\ rem' = [rem EXCEPT ![p] = Cleared(p)[2]]
               /\ EndOfHalf(p, posts)
  BY <1>3, <1>9, <1>10, <1>13, <1>16 DEF Broadcast
<1>19. /\ map'[p] = c /\ sender'[p] = t
       /\ \A q \in Rank \ {p} : map'[q] = map[q] /\ sender'[q] = sender[q]
       /\ map' \in [Rank -> Contents] /\ sender' \in [Rank -> 0 .. NProc]
  BY <1>0, <1>12, <1>14, <1>18 DEF TypeOK
<1>20. CASE t < NProc
  <2>1. sent' = sent \cup posts /\ UNCHANGED <<add, rem, round, pc, what, num, submitted, changes>>
    BY <1>1, <1>18, <1>20
  <2>2. Only(p)
    BY <1>1, <1>19, <2>1 DEF Only
  <2>3. TypeOK'
    <3>1. UNCHANGED Contents
      BY DEF Contents
    <3> QED BY <1>0, <1>19, <2>1, <3>1 DEF TypeOK
  <2>4. Honest'
    <3>1. ASSUME NEW m \in posts PROVE HonestMessage(m)'
      <4>1. /\ m.round = r /\ m.what \in {"add", "rem"} /\ m.from = p /\ m.op = "bcast"
            /\ m.data = Notes(m.from, m.round, m.what)
        BY <1>2, <1>17
      <4>2. Notes(m.from, m.round, m.what)' = Notes(m.from, m.round, m.what)
        BY <1>1, NotesStay
      <4>3. Entered(m.from, m.round)'
        BY <1>1, <1>2, <2>1, <4>1 DEF Entered
      <4> QED BY <4>1, <4>2, <4>3 DEF HonestMessage
    <3> QED BY <2>1, <2>2, <3>1, StayHonest
  <2>5. Held(p)'
    BY <1>0, <2>1 DEF Held, Empty, NoNotes
  <2>6. Joined(p)'
    BY <1>2, <1>4, <2>1, <2>2, JoinedStays
  <2>7. Looping(p)'
    <3>1. PICK w : w = what[p]
      OBVIOUS
    <3>2. \A q \in Rank : num[p][q] = Count(q, r, w)'
      BY <1>1, <1>4, <3>1, NotesStay
    <3>3. t \in Rank
      BY <1>14, <1>20, <1>5, RankIsInterval
    <3>4. /\ round'[p] = r /\ what'[p] = w /\ pc'[p] = "bcast" /\ sender'[p] \in Rank
          /\ num'[p] = num[p]
      BY <1>1, <1>2, <1>19, <2>1, <3>1, <3>3
    <3> QED BY <3>2, <3>4 DEF Looping, Count
  <2>8. Merged(p)'
    <3>1. ASSUME NEW k \in Key
          PROVE  IF what[p] = "add" THEN Added(c[k], r, t, k)' ELSE Removed(c[k], r, t, k)'
      <4>1. \A q, w : Notes(q, r, w)' = Notes(q, r, w)
        BY <1>1, NotesStay
      <4>2. Outcome'[r] = Outcome[r]
        BY <1>1, <1>2
      <4> QED BY <1>15, <4>1, <4>2 DEF Added, Removed
    <3>2. map'[p] = c /\ round'[p] = r /\ what'[p] = what[p]
      BY <1>2, <1>19, <2>1
    <3>3. Merging(p)' /\ Heard(p)' = t
      BY <1>1, <1>19, <2>1 DEF Merging, Heard
    <3> QED BY <3>1, <3>2, <3>3 DEF Merged, Added, Removed, Notes
  <2> QED BY <2>2, <2>3, <2>4, <2>5, <2>6, <2>7, <2>8, CallKeeps
<1>21. CASE ~(t < NProc)
  <2>1. t = NProc
    BY <1>14, <1>21, RankIsInterval
  <2>2. /\ add' = [add EXCEPT ![p] = Cleared(p)[1]]
        /\ rem' = [rem EXCEPT ![p] = Cleared(p)[2]]
        /\ EndOfHalf(p, posts)
    BY <1>18, <1>21
  <2>3. Cleared(p)[1] \in Contents /\ Cleared(p)[2] \in SUBSET Key
    BY <1>0 DEF Cleared, TypeOK, Empty, Contents
  <2>4. /\ add'[p] = Cleared(p)[1] /\ rem'[p] = Cleared(p)[2]
        /\ \A q \in Rank \ {p} : add'[q] = add[q] /\ rem'[q] = rem[q]
        /\ add' \in [Rank -> Contents] /\ rem' \in [Rank -> SUBSET Key]
    BY <1>0, <2>2, <2>3 DEF TypeOK
  <2>5. \A k \in Key : IF what[p] = "add" THEN Added(c[k], round[p], NProc, k)
                       ELSE Removed(c[k], round[p], NProc, k)
    BY <1>2, <1>15, <2>1
  <2>6. Only(p) /\ Honest' /\ Held(p)' /\ Joined(p)' /\ Looping(p)' /\ Merged(p)'
    <3>1. /\ pc[p] # "idle" /\ Frozen(round[p]) /\ UNCHANGED submitted /\ map'[p] = c
      BY <1>1, <1>2, <1>4, <1>19
    <3>2. \A q \in Rank \ {p} :
             /\ map'[q] = map[q] /\ add'[q] = add[q] /\ rem'[q] = rem[q]
             /\ num'[q] = num[q] /\ sender'[q] = sender[q]
      BY <1>1, <1>19, <2>4
    <3> QED BY <1>12, <1>17, <2>2, <2>4, <2>5, <3>1, <3>2, HalfEnds
  <2>7. TypeOK'
    <3>1. pc' \in [Rank -> {"idle", "max", "sum", "bcast"}] /\ what' \in [Rank -> {"add", "rem"}]
      BY <1>0, <2>2 DEF EndOfHalf, Enter, TypeOK
    <3>2. round' \in [Rank -> 0 .. MaxRounds]
      <4>1. round[p] + 1 \in 0 .. MaxRounds
        BY <1>2, BoundAssumption
      <4> QED BY <1>0, <2>2, <4>1 DEF EndOfHalf, Enter, TypeOK
    <3>3. UNCHANGED Contents
      BY DEF Contents
    <3> QED BY <1>0, <1>1, <1>19, <2>4, <3>1, <3>2, <3>3 DEF TypeOK
  <2> QED BY <2>6, <2>7, CallKeeps
<1> QED BY <1>20, <1>21

-----------------------------------------------------------------------------
(* Notes *)

\* A note keeps the invariant when it is noted for the next call of its process.
LEMMA NotedKeeps ==
  ASSUME IInv, NEW a \in Rank, MayNote(a), TypeOK',
         UNCHANGED <<map, round, pc, what, num, sender, sent>>,
         NEW e \in Call,
         submitted' = [submitted EXCEPT ![a] = [submitted[a] EXCEPT ![round[a] + 1] = e]],
         add'[a] = e.add, rem'[a] = e.rem,
         \A q \in Rank \ {a} : add'[q] = add[q] /\ rem'[q] = rem[q]
  PROVE  IInv'
<1>0. TypeOK
  BY DEF IInv
<1>1. pc[a] = "idle" /\ round[a] < MaxRounds /\ round[a] + 1 \in 1 .. MaxRounds
  BY <1>0, BoundAssumption DEF MayNote, TypeOK
<1>2. submitted \in [Rank -> [1 .. MaxRounds -> Call]]
  BY DEF IInv
<1>3. submitted'[a] = [submitted[a] EXCEPT ![round[a] + 1] = e]
  BY <1>2
<1>4. /\ submitted'[a][round[a] + 1] = e
      /\ \A r \in 1 .. MaxRounds : r # round[a] + 1 => submitted'[a][r] = submitted[a][r]
      /\ submitted'[a] \in [1 .. MaxRounds -> Call]
  BY <1>1, <1>2, <1>3
<1>5. \A q \in Rank \ {a} : submitted'[q] = submitted[q]
  BY <1>2
<1>6. submitted' \in [Rank -> [1 .. MaxRounds -> Call]]
  BY <1>2, <1>4, <1>5
<1>7. Honest' /\ \A p \in Rank : Joined(p)' /\ Looping(p)' /\ Merged(p)'
  <2>1. \A q \in Rank : \A r \in 1 .. MaxRounds :
            q # a \/ r # round[a] + 1 => submitted'[q][r] = submitted[q][r]
    BY <1>4, <1>5
  <2> QED BY <1>1, <2>1, NoteKeeps
<1>8. ASSUME NEW p \in Rank PROVE Held(p)'
  <2>1. CASE p = a
    <3>1. \A r \in round[a] + 2 .. MaxRounds : submitted'[a][r] = NoNotes
      <4>1. \A r \in round[a] + 2 .. MaxRounds : r \in 1 .. MaxRounds /\ r # round[a] + 1
        BY <1>0, BoundAssumption DEF TypeOK
      <4> QED BY <1>4, <4>1 DEF IInv, Held
    <3> QED BY <1>1, <1>4, <2>1, <3>1 DEF Held, NoNotes, Empty
  <2>2. CASE p # a
    <3>1. Held(p)
      BY DEF IInv
    <3> QED BY <1>5, <2>2, <3>1 DEF Held, NoNotes, Empty
  <2> QED BY <2>1, <2>2
<1>9. UNCHANGED <<Contents, Call>>
  BY DEF Contents, Call
<1> QED BY <1>6, <1>7, <1>8, <1>9 DEF IInv

\* The notes a process holds between two calls are those for its next call.
LEMMA NextNotes ==
  ASSUME IInv, NEW a \in Rank, MayNote(a)
  PROVE  /\ submitted[a][round[a] + 1] \in Call
         /\ add[a] = submitted[a][round[a] + 1].add
         /\ rem[a] = submitted[a][round[a] + 1].rem
         /\ changes \in 0 .. MaxChanges /\ changes + 1 \in 0 .. MaxChanges
<1>1. round[a] + 1 \in 1 .. MaxRounds
  BY BoundAssumption DEF IInv, TypeOK, MayNote
<1>2. changes \in 0 .. MaxChanges /\ changes + 1 \in 0 .. MaxChanges
  BY BoundAssumption DEF IInv, TypeOK, MayNote
<1> QED BY <1>1, <1>2 DEF IInv, Held, MayNote

LEMMA AddItemKeeps ==
  ASSUME IInv, NEW a \in Rank, NEW k \in Key, NEW i \in Item, AddItem(a, k, i)
  PROVE  IInv'
<1>0. TypeOK /\ submitted \in [Rank -> [1 .. MaxRounds -> Call]]
  BY DEF IInv
<1>1. MayNote(a) /\ UNCHANGED <<map, rem, round, pc, what, num, sender, sent>>
      /\ changes' = changes + 1
  BY DEF AddItem
<1>2. PICK old : old = submitted[a][round[a] + 1]
  OBVIOUS
<1>3. /\ old \in Call /\ add[a] = old.add /\ rem[a] = old.rem
      /\ changes + 1 \in 0 .. MaxChanges
  BY <1>1, <1>2, NextNotes
<1>4. PICK new : new = [old.add EXCEPT ![k] = IF old.add[k] = None THEN i ELSE old.add[k]]
  OBVIOUS
<1>5. new \in Contents
  BY <1>3, <1>4 DEF Call, Contents
<1>6. PICK e : e = [old EXCEPT !.add = new]
  OBVIOUS
<1>7. e \in Call /\ e.add = new /\ e.rem = old.rem
  BY <1>3, <1>5, <1>6 DEF Call
<1>8. add' = [add EXCEPT ![a] = new]
  BY <1>3, <1>4 DEF AddItem
<1>9. /\ add'[a] = new /\ \A q \in Rank \ {a} : add'[q] = add[q]
      /\ add' \in [Rank -> Contents]
  BY <1>0, <1>5, <1>8 DEF TypeOK
<1>10. submitted' = [submitted EXCEPT ![a] = [submitted[a] EXCEPT ![round[a] + 1] = e]]
  <2>1. submitted' = [submitted EXCEPT ![a][round[a] + 1].add[k] = IF @ = None THEN i ELSE @]
    BY DEF AddItem
  <2> QED BY <1>2, <1>4, <1>6, <2>1
<1>11. TypeOK'
  <2>1. UNCHANGED Contents
    BY DEF Contents
  <2> QED BY <1>0, <1>1, <1>3, <1>9, <2>1 DEF TypeOK
<1>12. rem'[a] = e.rem /\ \A q \in Rank \ {a} : rem'[q] = rem[q]
  BY <1>1, <1>3, <1>7
<1> QED BY <1>1, <1>7, <1>9, <1>10, <1>11, <1>12, NotedKeeps

LEMMA RemoveItemKeeps ==
  ASSUME IInv, NEW a \in Rank, NEW k \in Key, RemoveItem(a, k)
  PROVE  IInv'
<1>0. TypeOK /\ submitted \in [Rank -> [1 .. MaxRounds -> Call]]
  BY DEF IInv
<1>1. MayNote(a) /\ UNCHANGED <<map, add, round, pc, what, num, sender, sent>>
      /\ changes' = changes + 1
  BY DEF RemoveItem
<1>2. PICK old : old = submitted[a][round[a] + 1]
  OBVIOUS
<1>3. /\ old \in Call /\ add[a] = old.add /\ rem[a] = old.rem
      /\ changes + 1 \in 0 .. MaxChanges
  BY <1>1, <1>2, NextNotes
<1>4. PICK new : new = old.rem \cup {k}
  OBVIOUS
<1>5. new \in SUBSET Key
  BY <1>3, <1>4 DEF Call
<1>6. PICK e : e = [old EXCEPT !.rem = new]
  OBVIOUS
<1>7. e \in Call /\ e.rem = new /\ e.add = old.add
  BY <1>3, <1>5, <1>6 DEF Call
<1>8. rem' = [rem EXCEPT ![a] = new]
  BY <1>3, <1>4 DEF RemoveItem
<1>9. /\ rem'[a] = new /\ \A q \in Rank \ {a} : rem'[q] = rem[q]
      /\ rem' \in [Rank -> SUBSET Key]
  BY <1>0, <1>5, <1>8 DEF TypeOK
<1>10. submitted' = [submitted EXCEPT ![a] = [submitted[a] EXCEPT ![round[a] + 1] = e]]
  <2>1. submitted' = [submitted EXCEPT ![a][round[a] + 1].rem = @ \cup {k}]
    BY DEF RemoveItem
  <2> QED BY <1>2, <1>4, <1>6, <2>1
<1>11. TypeOK'
  <2>1. UNCHANGED Contents
    BY DEF Contents
  <2> QED BY <1>0, <1>1, <1>3, <1>9, <2>1 DEF TypeOK
<1>12. add'[a] = e.add /\ \A q \in Rank \ {a} : add'[q] = add[q]
  BY <1>1, <1>3, <1>7
<1> QED BY <1>1, <1>7, <1>9, <1>10, <1>11, <1>12, NotedKeeps

-----------------------------------------------------------------------------
(* Theorems *)

LEMMA InitIInv == Init => IInv
<1> SUFFICES ASSUME Init PROVE IInv
  OBVIOUS
<1>1. Empty \in Contents
  BY DEF Empty, Contents
<1>2. 0 \in 0 .. MaxRounds /\ 0 \in 0 .. NProc /\ 0 \in 0 .. MaxChanges
  BY BoundAssumption, RankIsInterval
<1>3. TypeOK
  BY <1>1, <1>2 DEF Init, TypeOK
<1>4. submitted \in [Rank -> [1 .. MaxRounds -> Call]]
  BY <1>1 DEF Init, Call
<1>5. Honest
  BY DEF Init, Honest
<1>6. ASSUME NEW p \in Rank PROVE Held(p)
  <2>1. /\ pc[p] = "idle" /\ round[p] = 0 /\ add[p] = Empty /\ rem[p] = {}
        /\ \A r \in 1 .. MaxRounds : submitted[p][r] = NoNotes
    BY DEF Init, NoNotes
  <2>2. 0 < MaxRounds => 1 \in 1 .. MaxRounds
    BY BoundAssumption
  <2>3. \A r \in 0 + 2 .. MaxRounds : r \in 1 .. MaxRounds
    BY BoundAssumption
  <2> QED BY <2>1, <2>2, <2>3 DEF Held, NoNotes
<1>7. ASSUME NEW p \in Rank PROVE Joined(p) /\ Looping(p) /\ Merged(p)
  <2>1. pc[p] = "idle" /\ round[p] = 0 /\ map[p] = Empty
    BY DEF Init
  <2> QED BY <2>1, OutcomeSteps DEF Joined, Looping, Merged, Merging
<1> QED BY <1>3, <1>4, <1>5, <1>6, <1>7 DEF IInv

\* Steps that change nothing keep the invariant.
LEMMA StutterKeeps ==
  ASSUME IInv, UNCHANGED vars
  PROVE  IInv'
<1>1. UNCHANGED <<Contents, Call, Empty, NoNotes>>
  BY DEF Contents, Call, Empty, NoNotes
<1>2. TypeOK' /\ (submitted \in [Rank -> [1 .. MaxRounds -> Call]])'
  BY <1>1 DEF IInv, TypeOK, vars
<1>3. /\ \A q, r : Entered(q, r)' <=> Entered(q, r)
      /\ \A q, r, w : Notes(q, r, w)' = Notes(q, r, w) /\ Count(q, r, w)' = Count(q, r, w)
  BY NotesStay DEF vars, Entered
<1>4. Honest'
  BY <1>3 DEF IInv, Honest, HonestMessage, vars
<1>5. ASSUME NEW p \in Rank PROVE Held(p)' /\ Joined(p)' /\ Looping(p)' /\ Merged(p)'
  <2>1. Held(p) /\ Joined(p) /\ Looping(p) /\ Merged(p) /\ TypeOK
    BY DEF IInv
  <2>2. Held(p)'
    BY <2>1 DEF Held, NoNotes, Empty, vars
  <2>3. Joined(p)'
    BY <2>1 DEF Joined, Merging, Frozen, Entered, vars
  <2>4. Looping(p)'
    BY <2>1 DEF Looping, Count, Noted, vars
  <2>5. Merged(p)'
    <3>1. Outcome'[round[p]] = Outcome[round[p]]
      BY <2>1, NotesStay DEF TypeOK, vars
    <3> QED BY <1>3, <2>1, <3>1, MergedKept DEF vars
  <2> QED BY <2>2, <2>3, <2>4, <2>5
<1> QED BY <1>2, <1>4, <1>5 DEF IInv

\* Every reachable state satisfies the invariant.
LEMMA Invariant == Spec => []IInv
<1>1. IInv /\ [Next]_vars => IInv'
  <2> SUFFICES ASSUME IInv, [Next]_vars PROVE IInv'
    OBVIOUS
  <2>1. ASSUME NEW p \in Rank, NEW k \in Key, NEW i \in Item, AddItem(p, k, i) PROVE IInv'
    BY <2>1, AddItemKeeps
  <2>2. ASSUME NEW p \in Rank, NEW k \in Key, RemoveItem(p, k) PROVE IInv'
    BY <2>2, RemoveItemKeeps
  <2>3. ASSUME NEW p \in Rank, CommunicateData(p) PROVE IInv'
    BY <2>3, CommunicateKeeps
  <2>4. ASSUME NEW p \in Rank, MaxReduction(p) PROVE IInv'
    BY <2>4, MaxReductionKeeps
  <2>5. ASSUME NEW p \in Rank, SumReduction(p) PROVE IInv'
    BY <2>5, SumReductionKeeps
  <2>6. ASSUME NEW p \in Rank, Broadcast(p) PROVE IInv'
    BY <2>6, BroadcastKeeps
  <2>7. CASE UNCHANGED vars
    BY <2>7, StutterKeeps
  <2> QED BY <2>1, <2>2, <2>3, <2>4, <2>5, <2>6, <2>7 DEF Next, Finished
<1> QED BY <1>1, InitIInv, PTL DEF Spec

\* The copies, notes and places of all processes keep their types: what a
\* collective operation delivers is what was contributed to it (TypeOK).
THEOREM TypeCorrect == Spec => []TypeOK
<1>1. IInv => TypeOK
  BY DEF IInv
<1> QED BY <1>1, Invariant, PTL

\* Back from communicateData a process holds the outcome of the notes of all
\* processes, each applied once and none of a later call, whatever the others
\* are doing (ChangesApplied).
THEOREM NotesApplied == Spec => []ChangesApplied
<1>1. IInv => ChangesApplied
  BY DEF IInv, ChangesApplied, Merged, Merging
<1> QED BY <1>1, Invariant, PTL

\* Processes that have returned from the same number of calls hold the same map
\* (ReplicasAgree).
THEOREM CopiesAgree == Spec => []ReplicasAgree
<1>1. ChangesApplied => ReplicasAgree
  BY DEF ChangesApplied, ReplicasAgree
<1> QED BY <1>1, NotesApplied, PTL
=============================================================================
