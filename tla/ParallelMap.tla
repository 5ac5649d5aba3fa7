------------------------------ MODULE ParallelMap ------------------------------
(***************************************************************************)
(* ParallelMap and ParallelSet of IBTK: every process keeps a copy of one  *)
(* map, notes additions and removals locally, and communicateData, which   *)
(* all processes call, applies the notes of all processes to all copies.   *)
(* ParallelSet is the map with a single item.                              *)
(*                                                                         *)
(* A collective operation of MPI is a set of messages: a reduction returns *)
(* once the contribution of every process is there, a broadcast returns at *)
(* the root at once and elsewhere once the message of the root is there.   *)
(***************************************************************************)
EXTENDS Integers, FiniteSets

CONSTANTS
    NProc,        \* number of processes, with ranks 0 .. NProc - 1
    Key, Item,
    None,         \* what a map holds for an absent key
    MaxRounds,    \* bound: calls of communicateData per process
    MaxChanges    \* bound: calls of addItem and removeItem, all processes together

ASSUME NProcAssumption == NProc \in Nat \ {0}
ASSUME ItemAssumption == None \notin Item
ASSUME KeyAssumption == IsFiniteSet(Key)
ASSUME BoundAssumption == MaxRounds \in Nat /\ MaxChanges \in Nat

VARIABLES
    map,        \* map[p]: d_map of process p
    add,        \* add[p]: d_pending_additions
    rem,        \* rem[p]: d_pending_removals
    round,      \* round[p]: number of completed calls of communicateData
    pc,         \* pc[p]: the collective operation process p is in, or "idle"
    what,       \* what[p]: "add" or "rem", the half of communicateData
    num,        \* num[p]: num_additions or num_removals after the reduction
    sender,     \* sender[p]: sending_proc of the loop over the broadcasts
    sent,       \* the contributions to collective operations so far
    submitted,  \* submitted[p][r]: history of what p noted for its r-th call
    changes     \* number of notes so far (for the bound only)

vars == <<map, add, rem, round, pc, what, num, sender, sent, submitted, changes>>

Rank == 0 .. NProc - 1
Contents == [Key -> Item \cup {None}]
Empty == [k \in Key |-> None]
Noted(a) == {k \in Key : a[k] # None}

(***************************************************************************)
(* Messages.                                                               *)
(***************************************************************************)
Message(r, w, s, p, d) == [round |-> r, what |-> w, op |-> s, from |-> p, data |-> d]

\* The contribution of q to the operation process p is in (a set of at most one).
From(q, p) == {m \in sent : /\ m.round = round[p] /\ m.what = what[p]
                            /\ m.op = pc[p] /\ m.from = q}

\* Every process has come to the operation p is in.
Everyone(p) == \A q \in Rank : From(q, p) # {}
Data(q, p) == (CHOOSE m \in From(q, p) : TRUE).data

\* The number of keys a process has noted for this half.
Pending(p, w) == IF w = "add" THEN Cardinality(Noted(add[p])) ELSE Cardinality(rem[p])

\* The first process from s on that has something to send (NProc: none).
SenderPastEnd(n, s) ==                                               \* mutant
    IF \E t \in s .. NProc - 1 : n[t] > 0
    THEN CHOOSE t \in s .. NProc - 1 : n[t] > 0 /\ \A u \in s .. t - 1 : n[u] = 0
    ELSE NProc + 1
NextSender(n, s) ==
    IF \E t \in s .. NProc - 1 : n[t] > 0
    THEN CHOOSE t \in s .. NProc - 1 : n[t] > 0 /\ \A u \in s .. t - 1 : n[u] = 0
    ELSE NProc

(***************************************************************************)
(* Local notes.  Of two additions of one key the first stays, because      *)
(* std::map::insert does not replace an entry.                             *)
(***************************************************************************)
MayNote(p) == pc[p] = "idle" /\ round[p] < MaxRounds /\ changes < MaxChanges

AddItem(p, k, i) ==
    /\ MayNote(p)
    /\ add' = [add EXCEPT ![p][k] = IF @ = None THEN i ELSE @]
    /\ submitted' = [submitted EXCEPT ![p][round[p] + 1].add[k] = IF @ = None THEN i ELSE @]
    /\ changes' = changes + 1
    /\ UNCHANGED <<map, rem, round, pc, what, num, sender, sent>>

RemoveItem(p, k) ==
    /\ MayNote(p)
    /\ rem' = [rem EXCEPT ![p] = @ \cup {k}]
    /\ submitted' = [submitted EXCEPT ![p][round[p] + 1].rem = @ \cup {k}]
    /\ changes' = changes + 1
    /\ UNCHANGED <<map, add, round, pc, what, num, sender, sent>>

(***************************************************************************)
(* communicateData: first the additions, then the removals.  Each half     *)
(* starts with a reduction that finds out if anyone has noted anything.    *)
(***************************************************************************)
Enter(p, w, posts) ==
    /\ pc' = [pc EXCEPT ![p] = "max"]
    /\ what' = [what EXCEPT ![p] = w]
    /\ sent' = sent \cup posts \cup {Message(round[p], w, "max", p, Pending(p, w))}

CommunicateData(p) ==
    /\ pc[p] = "idle" /\ round[p] < MaxRounds
    /\ Enter(p, "add", {})
    /\ UNCHANGED <<map, add, rem, round, num, sender, submitted, changes>>

\* The end of a half: go on with the removals or return.
EndOfHalf(p, posts) ==
    IF what[p] = "add"
    THEN Enter(p, "rem", posts) /\ UNCHANGED round
    ELSE /\ pc' = [pc EXCEPT ![p] = "idle"]
         /\ round' = [round EXCEPT ![p] = @ + 1]
         /\ sent' = sent \cup posts
         /\ UNCHANGED what

OwnNotesOnly(p) == Data(p, p) > 0                                    \* mutant
SomeoneHasNotes(p) == \E q \in Rank : Data(q, p) > 0

MaxReduction(p) ==
    /\ pc[p] = "max" /\ Everyone(p)
    /\ IF SomeoneHasNotes(p)
       THEN /\ pc' = [pc EXCEPT ![p] = "sum"]
            /\ sent' = sent \cup {Message(round[p], what[p], "sum", p, Pending(p, what[p]))}
            /\ UNCHANGED <<round, what>>
       ELSE EndOfHalf(p, {})
    /\ UNCHANGED <<map, add, rem, num, sender, submitted, changes>>

SumReduction(p) ==
    /\ pc[p] = "sum" /\ Everyone(p)
    /\ num' = [num EXCEPT ![p] = [q \in Rank |-> Data(q, p)]]
    /\ sender' = [sender EXCEPT ![p] = NextSender([q \in Rank |-> Data(q, p)], 0)]
    /\ pc' = [pc EXCEPT ![p] = "bcast"]
    /\ UNCHANGED <<map, add, rem, round, what, sent, submitted, changes>>

\* What the keys of one process do to the map: additions replace, removals erase.
Apply(contents, w, d) ==
    IF w = "add" THEN [k \in Key |-> IF d[k] # None THEN d[k] ELSE contents[k]]
    ELSE [k \in Key |-> IF k \in d THEN None ELSE contents[k]]

Payload(p) == IF what[p] = "add" THEN add[p] ELSE rem[p]

\* What process p applies in this pass: its own notes or those it receives.
Incoming(p) == IF sender[p] = p THEN Payload(p) ELSE Data(sender[p], p)

\* The notes that remain after a half.
RemovalsKept(p) == IF what[p] = "add" THEN <<Empty, rem[p]>> ELSE <<add[p], rem[p]>>   \* mutant
Cleared(p) == IF what[p] = "add" THEN <<Empty, rem[p]>> ELSE <<add[p], {}>>

\* One pass of the loop over the sending processes: as the sender, or as a
\* receiver.  The last pass is followed by the clearing of the notes.
Broadcast(p) ==
    /\ pc[p] = "bcast"
    /\ sender[p] = p \/ From(sender[p], p) # {}
    /\ LET s == sender[p]
           posts == IF s = p THEN {Message(round[p], what[p], "bcast", p, Payload(p))} ELSE {}
           next == NextSender(num[p], s + 1)
       IN /\ map' = [map EXCEPT ![p] = Apply(@, what[p], Incoming(p))]
          /\ sender' = [sender EXCEPT ![p] = next]
          /\ IF next < NProc
             THEN sent' = sent \cup posts /\ UNCHANGED <<add, rem, round, pc, what>>
             ELSE /\ add' = [add EXCEPT ![p] = Cleared(p)[1]]
                  /\ rem' = [rem EXCEPT ![p] = Cleared(p)[2]]
                  /\ EndOfHalf(p, posts)
    /\ UNCHANGED <<num, submitted, changes>>

Init ==
    /\ map = [p \in Rank |-> Empty]
    /\ add = [p \in Rank |-> Empty]
    /\ rem = [p \in Rank |-> {}]
    /\ round = [p \in Rank |-> 0]
    /\ pc = [p \in Rank |-> "idle"]
    /\ what = [p \in Rank |-> "add"]
    /\ num = [p \in Rank |-> [q \in Rank |-> 0]]
    /\ sender = [p \in Rank |-> 0]
    /\ sent = {}
    /\ submitted = [p \in Rank |-> [r \in 1 .. MaxRounds |-> [add |-> Empty, rem |-> {}]]]
    /\ changes = 0

\* The program has made all its calls.
Finished ==
    /\ \A p \in Rank : pc[p] = "idle" /\ round[p] = MaxRounds
    /\ UNCHANGED vars

Inside(p) == MaxReduction(p) \/ SumReduction(p) \/ Broadcast(p)

\* All processes run the same program: a call one of them has made is made by all.
Called(p) ==
    \E q \in Rank : round[q] > round[p] \/ (round[q] = round[p] /\ pc[q] # "idle")
Follow(p) == Called(p) /\ CommunicateData(p)

Next ==
    \/ \E p \in Rank, k \in Key, i \in Item : AddItem(p, k, i)
    \/ \E p \in Rank, k \in Key : RemoveItem(p, k)
    \/ \E p \in Rank : CommunicateData(p) \/ MaxReduction(p) \/ SumReduction(p) \/ Broadcast(p)
    \/ Finished

Fairness == \A p \in Rank : WF_vars(Inside(p)) /\ WF_vars(Follow(p))
Spec == Init /\ [][Next]_vars /\ Fairness

(***************************************************************************)
(* The map the calls should produce: in each round additions first, the    *)
(* process with the highest rank prevailing, then removals.                *)
(***************************************************************************)
Prevailing(r, k) ==
    {p \in Rank : /\ submitted[p][r].add[k] # None
                  /\ \A q \in p + 1 .. NProc - 1 : submitted[q][r].add[k] = None}

Merge(contents, r) ==
    [k \in Key |->
        IF \E p \in Rank : k \in submitted[p][r].rem THEN None
        ELSE IF Prevailing(r, k) # {}
             THEN submitted[CHOOSE p \in Prevailing(r, k) : TRUE][r].add[k]
        ELSE contents[k]]

Outcome[r \in 0 .. MaxRounds] == IF r = 0 THEN Empty ELSE Merge(Outcome[r - 1], r)

(***************************************************************************)
(* Properties.                                                             *)
(***************************************************************************)
TypeOK ==
    /\ map \in [Rank -> Contents]
    /\ add \in [Rank -> Contents]
    /\ rem \in [Rank -> SUBSET Key]
    /\ round \in [Rank -> 0 .. MaxRounds]
    /\ pc \in [Rank -> {"idle", "max", "sum", "bcast"}]
    /\ what \in [Rank -> {"add", "rem"}]
    /\ num \in [Rank -> [Rank -> Nat]]
    /\ sender \in [Rank -> 0 .. NProc]
    /\ changes \in 0 .. MaxChanges

\* After a call a process holds exactly the outcome of the notes of all
\* processes, each applied once and none of a later call.
ChangesApplied == \A p \in Rank : pc[p] = "idle" => map[p] = Outcome[round[p]]

\* Outside communicateData, processes that have made the same number of calls
\* hold the same map: getMap may be used without further communication, also
\* while other processes are still in the last broadcasts.
ReplicasAgree ==
    \A p, q \in Rank : pc[p] = "idle" /\ pc[q] = "idle" /\ round[p] = round[q] => map[p] = map[q]

\* Every call of communicateData returns, although processes skip the
\* broadcasts of processes without notes and whole halves without notes.
CallsReturn == \A p \in Rank : pc[p] # "idle" ~> pc[p] = "idle"

=============================================================================
