-------------------------- MODULE LogArchiveProofs --------------------------
(***************************************************************************)
(* Proofs about LogArchive, for every retention time, every order of       *)
(* statements, failures and restarts, and any delay within a cleanup.      *)
(***************************************************************************)
EXTENDS LogArchive, TLAPS

Copying == pc \in {"begin", "copy", "commit"}

\* What has been copied so far covers what was due when it was copied.
Covered(t, rows) ==
  \A r \in local[t] : age[t][r] >= LocalDays[t] => r \in rows \/ DueMeanwhile(t, r)

\* The strengthening of CopyBeforeDelete: the open transaction already holds
\* what was due, from the INSERT on, and rows are read with the clock set.
CopyInv ==
  /\ Copying => byDate
  /\ byDate => clock
  /\ pc = "idle" => ~byDate
  /\ pc \in {"idle", "clock", "begin"} => at = 1
  /\ pc = "copy" /\ at = 2 => Covered(Order[1], txn[Order[1]])
  /\ pc = "commit" => \A t \in Tables : Covered(t, txn[t])
  /\ pc = "delete" /\ byDate /\ migrated => \A t \in Tables : Covered(t, arc[t])
  /\ migrated => pc \in {"delete", "trim"}

LEMMA Bounds == MaxRows \in Nat /\ MaxLag \in Nat /\ MaxCuts \in Nat
  BY ConstantsOK

LEMMA InitType == Init => TypeOK
<1> SUFFICES ASSUME Init PROVE TypeOK
  OBVIOUS
<1>1. local \in [Tables -> SUBSET Ids] /\ arc \in [Tables -> SUBSET Ids]
      /\ txn \in [Tables -> SUBSET Ids]
  BY DEF Init, Nothing
<1>2. next \in [Tables -> 0..MaxRows] /\ age \in [Tables -> [Ids -> Nat]]
  BY Bounds DEF Init
<1>3. lag \in 0..MaxLag /\ cuts \in 0..MaxCuts
  BY Bounds DEF Init
<1> QED
  BY <1>1, <1>2, <1>3 DEF Init, TypeOK

LEMMA DueType ==
  ASSUME NEW t, NEW rows \in SUBSET Ids, NEW days
  PROVE  Due(t, rows, days) \in SUBSET Ids
  BY DEF Due

LEMMA ProceedType ==
  ASSUME TypeOK, NEW then \in {"trim", "idle"}, Proceed(then)
  PROVE  /\ pc' \in {"idle", "delete", "trim"} \cup {pc}
         /\ at' \in {1, 2}
         /\ arcByDate' \in BOOLEAN /\ byDate' \in BOOLEAN /\ migrated' \in BOOLEAN
         /\ lag' \in 0..MaxLag
<1>1. CASE at = 1
  BY <1>1 DEF TypeOK, Proceed
<1>2. CASE at # 1 /\ then = "idle"
  <2>1. lag' \in 0..MaxLag
    BY <1>2, Bounds DEF Proceed, Finish
  <2> QED BY <1>2, <2>1 DEF TypeOK, Proceed, Finish
<1>3. CASE at # 1 /\ then # "idle"
  BY <1>3 DEF TypeOK, Proceed
<1> QED BY <1>1, <1>2, <1>3

LEMMA StepType == TypeOK /\ [Next]_vars => TypeOK'
<1> SUFFICES ASSUME TypeOK, [Next]_vars PROVE TypeOK'
  OBVIOUS
<1>1. CASE CleanStart
  BY <1>1 DEF TypeOK, CleanStart, rowVars
<1>2. CASE ReadClock
  BY <1>2 DEF TypeOK, ReadClock, rowVars
<1>3. CASE Begin
  BY <1>3, Bounds DEF TypeOK, Begin, GiveUp, Nothing, rowVars
<1>4. CASE Copy
  <2>1. \A t : Due(t, local[t], LocalDays[t]) = {r \in local[t] : age[t][r] >= LocalDays[t]}
    BY DEF Due
  <2>2. txn' \in [Tables -> SUBSET Ids]
    BY <1>4, <2>1 DEF TypeOK, Copy, GiveUp, Nothing
  <2> QED BY <1>4, <2>2 DEF TypeOK, Copy, GiveUp, rowVars
<1>5. CASE Commit
  BY <1>5 DEF TypeOK, Commit, GiveUp, Nothing, rowVars
<1>6. CASE Delete
  <2>1. local' \in [Tables -> SUBSET Ids]
    BY <1>6 DEF TypeOK, Delete
  <2>2. AfterLocal \in {"trim", "idle"} /\ Proceed(AfterLocal)
    BY <1>6 DEF Delete, AfterLocal
  <2> QED BY <1>6, <2>1, <2>2, ProceedType DEF TypeOK, Delete, rowVars
<1>7. CASE DeleteFails
  <2>1. AfterLocal \in {"trim", "idle"} /\ Proceed(AfterLocal)
    BY <1>7 DEF DeleteFails, AfterLocal
  <2> QED BY <1>7, <2>1, ProceedType DEF TypeOK, DeleteFails, rowVars
<1>8. CASE Trim
  <2>1. arc' \in [Tables -> SUBSET Ids]
    BY <1>8 DEF TypeOK, Trim
  <2> QED BY <1>8, <2>1, ProceedType DEF TypeOK, Trim, rowVars
<1>9. CASE \E t \in Tables : Log(t)
  <2> PICK t \in Tables : Log(t)
    BY <1>9
  <2>1. next[t] \in Nat /\ next[t] < MaxRows
    <3>1. next[Order[1]] \in Nat /\ next[Order[2]] \in Nat
      BY Bounds DEF TypeOK, Tables
    <3> QED BY <3>1, Bounds DEF Log, Tables
  <2>2. next[t] + 1 \in Ids /\ next[t] + 1 \in 0..MaxRows
    BY <2>1, Bounds DEF Ids
  <2>3. next' \in [Tables -> 0..MaxRows]
    BY <2>2 DEF TypeOK, Log
  <2>4. ArchiveDays[t] \in Nat
    BY ConstantsOK
  <2>5. age' \in [Tables -> [Ids -> Nat]]
    BY <2>2, <2>4 DEF TypeOK, Log
  <2>6. local' \in [Tables -> SUBSET Ids]
    BY <2>2 DEF TypeOK, Log
  <2> QED BY <2>3, <2>5, <2>6 DEF TypeOK, Log, stepVars, cleanVars
<1>10. CASE Elapse
  <2>1. age' \in [Tables -> [Ids -> Nat]]
    BY <1>10 DEF TypeOK, Elapse, Older
  <2>2. lag' \in 0..MaxLag
    BY <1>10, Bounds DEF TypeOK, Elapse
  <2> QED BY <1>10, <2>1, <2>2 DEF TypeOK, Elapse, stepVars
<1>11. CASE SetClock
  BY <1>11 DEF TypeOK, SetClock, rowVars, stepVars, cleanVars
<1>12. CASE Restart
  <2>1. lag' \in 0..MaxLag /\ cuts' \in 0..MaxCuts
    BY <1>12, Bounds DEF TypeOK, Restart, Finish
  <2>2. txn' \in [Tables -> SUBSET Ids]
    BY <1>12 DEF Restart, Nothing
  <2> QED BY <1>12, <2>1, <2>2 DEF TypeOK, Restart, Finish, rowVars
<1>13. CASE UNCHANGED vars
  BY <1>13 DEF TypeOK, vars, rowVars, stepVars, cleanVars
<1> QED
  BY <1>1, <1>2, <1>3, <1>4, <1>5, <1>6, <1>7, <1>8, <1>9, <1>10, <1>11, <1>12,
     <1>13 DEF Next

\* Every variable of the archive keeps its type.
THEOREM TypeCorrect == Spec => []TypeOK
<1>1. Init => TypeOK
  BY InitType
<1>2. TypeOK /\ [Next]_vars => TypeOK'
  BY StepType
<1> QED BY <1>1, <1>2, PTL DEF Spec

LEMMA Days ==
  ASSUME NEW t \in Tables
  PROVE  /\ LocalDays[t] \in Nat \ {0} /\ FallbackDays[t] \in Nat
         /\ ArchiveDays[t] \in Nat
  BY ConstantsOK

LEMMA InitCopy == Init => CopyInv
  BY DEF Init, CopyInv, Copying

\* Nothing that matters to CopyInv is disturbed when no row, age or lag changes.
LEMMA CoveredKept ==
  ASSUME NEW t, NEW rows, Covered(t, rows), local'[t] \subseteq local[t],
         UNCHANGED <<age, lag>>
  PROVE  Covered(t, rows)'
  BY DEF Covered, DueMeanwhile

\* A copy covers what is due.
LEMMA CopyCovers ==
  ASSUME NEW t
  PROVE  Covered(t, Due(t, local[t], LocalDays[t]))
  BY DEF Covered, Due

\* Time makes rows due only meanwhile.
LEMMA CoveredAges ==
  ASSUME TypeOK, NEW t \in Tables, NEW rows, Covered(t, rows), Elapse, pc # "idle"
  PROVE  Covered(t, rows)'
<1> SUFFICES ASSUME NEW r \in local[t], age'[t][r] >= LocalDays[t], r \notin rows
             PROVE  age'[t][r] - lag' < LocalDays[t]
  BY DEF Covered, DueMeanwhile, Elapse
<1>1. r \in Ids /\ age[t][r] \in Nat /\ lag \in Nat
  BY Bounds DEF TypeOK
<1>2. lag' = lag + 1
  BY DEF Elapse
<1>3. age'[t][r] = Older(t, r)
  BY <1>1 DEF Elapse
<1>4. age'[t][r] \in {0, age[t][r], age[t][r] + 1}
  BY <1>3 DEF Older
<1>5. age[t][r] < LocalDays[t] \/ age[t][r] - lag < LocalDays[t]
  BY <1>1, Days DEF Covered, DueMeanwhile
<1> QED BY <1>1, <1>2, <1>4, <1>5, Days

\* A row the screen logs while the statements run is new.
LEMMA CoveredLogs ==
  ASSUME TypeOK, NEW t \in Tables, NEW u \in Tables, Log(u), clock,
         NEW rows, Covered(t, rows)
  PROVE  Covered(t, rows)'
<1> SUFFICES ASSUME NEW r \in local'[t], age'[t][r] >= LocalDays[t], r \notin rows
             PROVE  age'[t][r] - lag' < LocalDays[t]
  BY DEF Covered, DueMeanwhile, Log
<1> DEFINE id == next[u] + 1
<1>1. lag' = lag /\ lag \in Nat
  BY Bounds DEF TypeOK, Log, cleanVars
<1>2. CASE t = u /\ r = id
  <2>1. id \in Ids
    <3>1. next[Order[1]] \in Nat /\ next[Order[2]] \in Nat
      BY Bounds DEF TypeOK, Tables
    <3>2. next[u] \in Nat /\ next[u] < MaxRows
      BY <3>1, Bounds DEF Log, Tables
    <3> QED BY <3>2, Bounds DEF Ids
  <2>2. age'[t][r] = 0
    BY <1>2, <2>1 DEF TypeOK, Log
  <2> QED BY <1>1, <2>2, Days
<1>3. CASE ~(t = u /\ r = id)
  <2>1. r \in local[t] /\ r \in Ids
    BY <1>3 DEF TypeOK, Log
  <2>2. age'[t][r] = age[t][r]
    BY <1>3, <2>1 DEF TypeOK, Log
  <2> QED BY <1>1, <2>1, <2>2 DEF Covered, DueMeanwhile
<1> QED BY <1>2, <1>3

LEMMA StepCopy == TypeOK /\ CopyInv /\ [Next]_vars => CopyInv'
<1> SUFFICES ASSUME TypeOK, CopyInv, [Next]_vars PROVE CopyInv'
  OBVIOUS
<1>1. CASE CleanStart
  BY <1>1 DEF CopyInv, CleanStart, Copying
<1>2. CASE ReadClock
  BY <1>2 DEF CopyInv, ReadClock, Copying
<1>3. CASE Begin
  BY <1>3 DEF TypeOK, CopyInv, Begin, GiveUp, Copying
<1>4. CASE Copy
  <2>1. CASE pc' = "delete"
    BY <1>4, <2>1 DEF CopyInv, Copy, GiveUp, Copying
  <2>2. CASE at = 1 /\ pc' # "delete"
    <3>1. txn'[Order[1]] = Due(Order[1], local[Order[1]], LocalDays[Order[1]])
      BY <1>4, <2>2 DEF TypeOK, Copy, GiveUp, Tables
    <3>2. Covered(Order[1], txn'[Order[1]])
      BY <3>1, CopyCovers
    <3>3. Covered(Order[1], txn[Order[1]])'
      BY <1>4, <3>2 DEF Copy, Covered, DueMeanwhile, rowVars
    <3> QED BY <1>4, <2>2, <3>3 DEF CopyInv, Copy, GiveUp, Copying
  <2>3. CASE at = 2 /\ pc' # "delete"
    <3>1. /\ txn'[Order[2]] = Due(Order[2], local[Order[2]], LocalDays[Order[2]])
          /\ txn'[Order[1]] = txn[Order[1]]
      BY <1>4, <2>3, ConstantsOK DEF TypeOK, Copy, GiveUp, Tables
    <3>2. Covered(Order[1], txn'[Order[1]]) /\ Covered(Order[2], txn'[Order[2]])
      BY <1>4, <2>3, <3>1, CopyCovers DEF CopyInv, Copy
    <3>3. \A t \in Tables : Covered(t, txn[t])'
      BY <1>4, <3>2 DEF Copy, Covered, DueMeanwhile, rowVars, Tables
    <3> QED BY <1>4, <2>3, <3>3 DEF CopyInv, Copy, GiveUp, Copying
  <2> QED BY <2>1, <2>2, <2>3 DEF TypeOK
<1>5. CASE Commit
  <2>1. CASE migrated'
    <3>1. \A t \in Tables : Covered(t, txn[t]) /\ arc'[t] = arc[t] \cup txn[t]
      BY <1>5, <2>1 DEF CopyInv, Commit, GiveUp
    <3>2. \A t \in Tables : Covered(t, arc'[t])
      BY <3>1 DEF Covered
    <3>3. \A t \in Tables : Covered(t, arc[t])'
      BY <1>5, <3>2 DEF Commit, Covered, DueMeanwhile, rowVars
    <3> QED BY <1>5, <3>3 DEF CopyInv, Commit, GiveUp, Copying
  <2>2. CASE ~migrated'
    BY <1>5, <2>2 DEF CopyInv, Commit, GiveUp, Copying
  <2> QED BY <2>1, <2>2
<1>6. CASE Delete \/ DeleteFails
  <2>1. \A t \in Tables : local'[t] \subseteq local[t]
    BY <1>6 DEF TypeOK, Delete, DeleteFails
  <2>2. UNCHANGED <<age, arc, clock>> /\ pc = "delete" /\ Proceed(AfterLocal)
    BY <1>6 DEF Delete, DeleteFails, rowVars
  <2>3. CASE at = 1
    <3>1. UNCHANGED <<pc, byDate, migrated, lag>>
      BY <2>2, <2>3 DEF Proceed
    <3>2. byDate /\ migrated => \A t \in Tables : Covered(t, arc[t])'
      <4>1. SUFFICES ASSUME byDate, migrated, NEW t \in Tables
                     PROVE  Covered(t, arc[t])'
        OBVIOUS
      <4>2. Covered(t, arc[t])
        BY <2>2, <4>1 DEF CopyInv
      <4>3. arc'[t] = arc[t]
        BY <2>2
      <4> QED BY <2>1, <2>2, <3>1, <4>2, <4>3 DEF Covered, DueMeanwhile
    <3> QED BY <2>2, <3>1, <3>2 DEF CopyInv, Copying
  <2>4. CASE at # 1 /\ pc' = "idle"
    BY <2>2, <2>4 DEF CopyInv, Proceed, Finish, AfterLocal, Copying
  <2>5. CASE at # 1 /\ pc' = "trim"
    BY <2>2, <2>5 DEF CopyInv, Proceed, Finish, AfterLocal, Copying
  <2>6. at # 1 => pc' \in {"idle", "trim"}
    BY <2>2 DEF Proceed, Finish, AfterLocal
  <2> QED BY <2>3, <2>4, <2>5, <2>6
<1>7. CASE Trim
  BY <1>7 DEF CopyInv, Trim, Proceed, Finish, Copying
<1>8. CASE \E u \in Tables : Log(u)
  <2> PICK u \in Tables : Log(u)
    BY <1>8
  <2>1. UNCHANGED <<arc, txn, pc, at, byDate, migrated, clock>>
    BY DEF Log, stepVars, cleanVars
  <2>2. byDate => \A t \in Tables :
            /\ Covered(t, txn[t]) => Covered(t, txn[t])'
            /\ Covered(t, arc[t]) => Covered(t, arc[t])'
    <3>1. SUFFICES ASSUME byDate, NEW t \in Tables
                   PROVE  /\ Covered(t, txn[t]) => Covered(t, txn[t])'
                          /\ Covered(t, arc[t]) => Covered(t, arc[t])'
      OBVIOUS
    <3>2. clock
      BY <3>1 DEF CopyInv
    <3>3. Covered(t, txn[t]) => Covered(t, txn[t])'
      <4>1. ASSUME Covered(t, txn[t]) PROVE \A rows : rows = txn[t] => Covered(t, rows)'
        BY <3>2, <4>1, CoveredLogs
      <4> QED BY <2>1, <4>1 DEF Covered
    <3>4. Covered(t, arc[t]) => Covered(t, arc[t])'
      <4>1. ASSUME Covered(t, arc[t]) PROVE \A rows : rows = arc[t] => Covered(t, rows)'
        BY <3>2, <4>1, CoveredLogs
      <4> QED BY <2>1, <4>1 DEF Covered
    <3> QED BY <3>3, <3>4
  <2>3. Order[1] \in Tables
    BY DEF Tables
  <2> QED BY <2>1, <2>2, <2>3 DEF CopyInv, Copying
<1>9. CASE Elapse
  <2>1. UNCHANGED <<arc, txn, pc, at, byDate, migrated, clock>>
    BY <1>9 DEF Elapse, stepVars
  <2>2. pc # "idle" => \A t \in Tables :
            /\ Covered(t, txn[t]) => Covered(t, txn[t])'
            /\ Covered(t, arc[t]) => Covered(t, arc[t])'
    <3>1. SUFFICES ASSUME pc # "idle", NEW t \in Tables
                   PROVE  /\ Covered(t, txn[t]) => Covered(t, txn[t])'
                          /\ Covered(t, arc[t]) => Covered(t, arc[t])'
      OBVIOUS
    <3>2. Covered(t, txn[t]) => Covered(t, txn[t])'
      <4>1. ASSUME Covered(t, txn[t]) PROVE \A rows : rows = txn[t] => Covered(t, rows)'
        BY <1>9, <3>1, <4>1, CoveredAges
      <4> QED BY <2>1, <4>1 DEF Covered
    <3>3. Covered(t, arc[t]) => Covered(t, arc[t])'
      <4>1. ASSUME Covered(t, arc[t]) PROVE \A rows : rows = arc[t] => Covered(t, rows)'
        BY <1>9, <3>1, <4>1, CoveredAges
      <4> QED BY <2>1, <4>1 DEF Covered
    <3> QED BY <3>2, <3>3
  <2>3. Order[1] \in Tables
    BY DEF Tables
  <2> QED BY <2>1, <2>2, <2>3 DEF CopyInv, Copying
<1>10. CASE SetClock
  BY <1>10 DEF CopyInv, SetClock, stepVars, cleanVars, rowVars, Copying, Covered,
               DueMeanwhile
<1>11. CASE Restart
  BY <1>11 DEF CopyInv, Restart, Finish, Copying
<1>12. CASE UNCHANGED vars
  BY <1>12 DEF CopyInv, vars, stepVars, cleanVars, rowVars, Copying, Covered,
               DueMeanwhile
<1> QED
  BY <1>1, <1>2, <1>3, <1>4, <1>5, <1>6, <1>7, <1>8, <1>9, <1>10, <1>11, <1>12
     DEF Next

LEMMA Inductive == Spec => [](TypeOK /\ CopyInv)
<1>1. Init => TypeOK /\ CopyInv
  BY InitType, InitCopy
<1>2. TypeOK /\ CopyInv /\ [Next]_vars => (TypeOK /\ CopyInv)'
  BY StepType, StepCopy
<1> QED BY <1>1, <1>2, PTL DEF Spec

\* Before the NAND file is cut back to its short retention, the card holds
\* every row that was due when the transaction copied.
THEOREM CopiedFirst == Spec => []CopyBeforeDelete
<1>1. CopyInv => CopyBeforeDelete
  BY DEF CopyInv, CopyBeforeDelete, Covered
<1> QED BY <1>1, Inductive, PTL

KeptStep ==
  \A t \in Tables : \A r \in Held(t) \ Held(t)' :
       \/ age[t][r] >= ArchiveDays[t]
       \/ r \notin arc[t] /\ age[t][r] >= FallbackDays[t]
       \/ byDate /\ migrated /\ DueMeanwhile(t, r)
       \/ ~byDate /\ r \in Surplus(local[t], CountKeep[t])
       \/ ~arcByDate /\ r \in Surplus(arc[t], CountKeep[t])

LEMMA StepKept == TypeOK /\ CopyInv /\ [Next]_vars => KeptStep
<1> SUFFICES ASSUME TypeOK, CopyInv, [Next]_vars PROVE KeptStep
  OBVIOUS
<1>1. CASE Delete
  <2> SUFFICES ASSUME NEW t \in Tables, NEW r \in Held(t), r \notin Held(t)'
               PROVE  \/ r \notin arc[t] /\ age[t][r] >= FallbackDays[t]
                      \/ byDate /\ migrated /\ DueMeanwhile(t, r)
                      \/ ~byDate /\ r \in Surplus(local[t], CountKeep[t])
    BY DEF KeptStep
  <2>1. arc' = arc /\ r \notin arc[t]
    BY <1>1 DEF Delete, Held
  <2>2. r \in local[t] /\ r \notin local'[t]
    BY <2>1 DEF Held
  <2>3. t = Order[at] /\ r \in LocalDue(t)
    BY <1>1, <2>2 DEF Delete, TypeOK
  <2>4. CASE ~byDate
    BY <2>3, <2>4 DEF LocalDue
  <2>5. CASE byDate /\ ~migrated
    BY <2>1, <2>3, <2>5 DEF LocalDue, Due
  <2>6. CASE byDate /\ migrated
    <3>1. age[t][r] >= LocalDays[t]
      BY <2>3, <2>6 DEF LocalDue, Due
    <3>2. Covered(t, arc[t])
      BY <1>1, <2>6 DEF CopyInv, Delete
    <3> QED BY <2>1, <2>2, <2>6, <3>1, <3>2 DEF Covered
  <2> QED BY <2>4, <2>5, <2>6
<1>2. CASE Trim
  <2> SUFFICES ASSUME NEW t \in Tables, NEW r \in Held(t), r \notin Held(t)'
               PROVE  \/ age[t][r] >= ArchiveDays[t]
                      \/ ~arcByDate /\ r \in Surplus(arc[t], CountKeep[t])
    BY DEF KeptStep
  <2>1. local' = local /\ r \in arc[t] /\ r \notin arc'[t]
    BY <1>2 DEF Trim, Held
  <2>2. r \in CardDue(t)
    BY <1>2, <2>1 DEF Trim, TypeOK
  <2> QED BY <2>2 DEF CardDue, Due
<1>3. ASSUME \A t \in Tables : local[t] \subseteq local'[t] /\ arc[t] \subseteq arc'[t]
      PROVE  KeptStep
  BY <1>3 DEF KeptStep, Held
<1>4. CASE Commit
  BY <1>3, <1>4 DEF Commit, GiveUp
<1>5. CASE \E t \in Tables : Log(t)
  BY <1>3, <1>5 DEF Log, TypeOK
<1>6. CASE UNCHANGED <<local, arc>>
  BY <1>3, <1>6
<1>7. CleanStart \/ ReadClock \/ Begin \/ Copy \/ DeleteFails \/ Elapse \/ SetClock
        \/ Restart \/ UNCHANGED vars => UNCHANGED <<local, arc>>
  BY DEF CleanStart, ReadClock, Begin, Copy, GiveUp, DeleteFails, Elapse,
         SetClock, Restart, vars
<1> QED BY <1>1, <1>2, <1>4, <1>5, <1>6, <1>7 DEF Next

\* No order of failing statements, restarts, clock settings and delays loses a
\* row that is younger than what the retention rules allow.
THEOREM RowsKeptWhileYoung == Spec => KeptWhileYoung
<1>1. TypeOK /\ CopyInv /\ [Next]_vars => [KeptStep]_vars
  BY StepKept
<1> QED BY <1>1, Inductive, PTL DEF Spec, KeptWhileYoung, KeptStep
=============================================================================
