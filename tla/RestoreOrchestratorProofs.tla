----------------------- MODULE RestoreOrchestratorProofs -----------------------
(***************************************************************************)
(* Proofs about RestoreOrchestrator for every archive (number of           *)
(* categories and rows, references between rows), every choice of the      *)
(* sets of steps and every choice of the bounds.                           *)
(***************************************************************************)
EXTENDS RestoreOrchestrator, TLAPS

-----------------------------------------------------------------------------
(* The inductive invariant, in parts.                                      *)

Forward == {"idle", "listing", "rows", "raising"}

\* Before the end nothing is said, and before a failure nothing is undone.
ControlInv ==
  /\ phase \notin Ended => outcome = "none"
  /\ phase \in Forward => ~failure /\ comp = {} /\ residue = {}
  /\ phase = "idle" => dry
  /\ phase = "rollback" => failure /\ ~dry
  /\ phase = "final" /\ ~failure => comp = {}

\* A run that is not to apply has applied nothing.
PreviewInv ==
  /\ ~confirmed => dry
  /\ dry => /\ \A e \in Entities : dest[e] # "ours"
            /\ entries = <<>> /\ disk = NoLedger /\ outcome = "none"

\* The ledger has every row that was created and whose id is known, in the
\* order of the steps, and no row of anybody else.
LedgerInv ==
  /\ \A e \in Landed : e \in Ledgered
  /\ \A i \in 1 .. Len(entries) : entries[i][2] = "ours" /\ entries[i][1][1] <= step
  /\ \A i, j \in 1 .. Len(entries) : i <= j => entries[i][1][1] <= entries[j][1][1]
  /\ phase = "idle" => entries = <<>>

\* Between the steps the file is the ledger; within one it lacks rows of that
\* step at most, and none when the importer flushes.
DiskInv ==
  /\ phase \in {"idle", "listing", "rollback", "final"} => disk.saved = Ledgered
  /\ phase \notin Ended => disk.comp = comp
  /\ phase \in {"rows", "raising"} =>
       \A e \in Ledgered \ disk.saved : e[1] = step /\ (phase = "rows" => step \notin Flushing)

\* A row that is still there is neither compensated nor passed by the rollback,
\* unless it is residue.
BackInv ==
  /\ \A e \in Landed : e \notin comp
  /\ phase = "rollback" => \A e \in Landed \ residue : \E i \in 1 .. cursor : entries[i][1] = e
  /\ phase = "final" /\ failure /\ ~dry => Landed \subseteq residue

\* Rows the importers have dealt with.
Visited(e) ==
  \/ e[1] < step
  \/ e[1] = step /\ phase = "final"
  \/ e[1] = step /\ phase = "rows" /\ e[2] < row

\* Every one of them has a destination, or something was counted.
VisitInv ==
  /\ phase = "idle" => step = 1
  /\ phase = "final" /\ ~failure => step = NSteps
  /\ phase \in {"listing", "rows", "final"} /\ ~short /\ failed = {} /\ ~failure =>
       \A e \in Entities : Visited(e) => e \in mapped \cup orphans

RestoreInv ==
  /\ TypeOK /\ ControlInv /\ PreviewInv /\ LedgerInv /\ DiskInv /\ BackInv /\ VisitInv
  /\ RolledBackMeansGone /\ SuccessIsComplete /\ LedgerCoversDestination

-----------------------------------------------------------------------------
(* The operators.                                                          *)

\* The bounds are natural numbers.
LEMMA Bounds ==
  /\ NSteps \in Nat \ {0} /\ RowsPerStep \in Nat \ {0}
  /\ MaxFaults \in Nat /\ MaxOutside \in Nat
BY RestoreAssumption

\* The row an importer is at is an archived row of its step.
LEMMA CurOK ==
  ASSUME TypeOK, AtRow
  PROVE  Cur \in Entities /\ Cur[1] = step /\ Cur[2] = row /\ row + 1 \in 1 .. RowsPerStep + 1
<1>1. row \in 1 .. RowsPerStep /\ step \in Steps /\ row + 1 \in 1 .. RowsPerStep + 1
  BY Bounds DEF TypeOK, AtRow
<1> QED BY <1>1 DEF Cur, Entities

\* What the entries of the ledger name.
LEMMA LedgeredIs ==
  ASSUME TypeOK, NEW e
  PROVE  e \in Ledgered <=> \E i \in 1 .. Len(entries) : entries[i][1] = e
<1>1. DOMAIN entries = 1 .. Len(entries)
  BY DEF TypeOK
<1> QED BY <1>1 DEF Ledgered, ToSet

LEMMA LedgeredIn ==
  ASSUME TypeOK
  PROVE  /\ Len(entries) \in Nat /\ Ledgered \subseteq Entities
         /\ \A i \in 1 .. Len(entries) : entries[i] \in Entities \X Owner
<1>1. /\ Len(entries) \in Nat
      /\ \A i \in 1 .. Len(entries) : entries[i] \in Entities \X Owner
  BY DEF TypeOK
<1>2. \A i \in 1 .. Len(entries) : entries[i][1] \in Entities
  BY <1>1
<1> QED BY <1>1, <1>2, LedgeredIs

\* A create adds one entry at the end.
LEMMA LedgeredAppend ==
  ASSUME TypeOK, NEW e \in Entities, entries' = Append(entries, <<e, "ours">>)
  PROVE  /\ entries' \in Seq(Entities \X Owner) /\ Len(entries') = Len(entries) + 1
         /\ \A i \in 1 .. Len(entries) : entries'[i] = entries[i]
         /\ entries'[Len(entries) + 1] = <<e, "ours">>
         /\ Ledgered' = Ledgered \cup {e}
<1> DEFINE E == Entities \X Owner  x == <<e, "ours">>
<1>1. x \in E /\ entries \in Seq(E)
  BY DEF Owner, TypeOK
<1> HIDE DEF E
<1>2. /\ entries' \in Seq(E) /\ Len(entries') = Len(entries) + 1 /\ Len(entries) \in Nat
      /\ \A i \in 1 .. Len(entries) : entries'[i] = entries[i]
      /\ entries'[Len(entries) + 1] = x
      /\ DOMAIN entries' = 1 .. Len(entries) + 1 /\ DOMAIN entries = 1 .. Len(entries)
  BY <1>1
<1>3. \A y : y \in Ledgered' <=> \E i \in 1 .. Len(entries) + 1 : entries'[i][1] = y
  BY <1>2 DEF Ledgered, ToSet
<1>4. \A y : y \in Ledgered <=> \E i \in 1 .. Len(entries) : entries[i][1] = y
  BY <1>2 DEF Ledgered, ToSet
<1>5. \A y : y \in Ledgered' <=> y \in Ledgered \/ y = e
  BY <1>2, <1>3, <1>4
<1> QED BY <1>2, <1>5 DEF E

\* A deletion by id takes away the row the id names, and no other.
LEMMA DeletedIs ==
  ASSUME TypeOK, LedgerInv, NEW i \in 1 .. Len(entries), NEW d, d = Deleted(Entry(i))
  PROVE  /\ Entry(i)[1] \in Entities /\ Entry(i)[1] = entries[i][1]
         /\ d \in [Entities -> Owner \cup {"absent"}]
         /\ d[Entry(i)[1]] # "ours"
         /\ \A e \in Entities : d[e] = dest[e] \/ (d[e] = "absent" /\ dest[e] = "ours"
                                                   /\ e = Entry(i)[1])
<1> DEFINE en == entries[i]
<1>1. en \in Entities \X Owner /\ en[2] = "ours" /\ en[1] \in Entities
  BY LedgeredIn DEF LedgerInv
<1>2. d = [dest EXCEPT ![en[1]] = IF dest[en[1]] = en[2] THEN "absent" ELSE dest[en[1]]]
  BY DEF Deleted, Entry
<1> HIDE DEF en
<1> QED BY <1>1, <1>2 DEF TypeOK, Entry, en

-----------------------------------------------------------------------------
(* Types.                                                                  *)

\* What the file may hold.
Files == [exists : BOOLEAN, saved : SUBSET Entities, comp : SUBSET Entities]

LEMMA LedgerType ==
  ASSUME NEW saved \in SUBSET Entities, NEW marked \in SUBSET Entities
  PROVE  Ledger(saved, marked) \in Files /\ NoLedger \in Files
<1>1. TRUE \in BOOLEAN /\ FALSE \in BOOLEAN /\ {} \in SUBSET Entities
  BY Zenon
<1> QED BY <1>1, Zenon DEF Ledger, NoLedger, Files

\* Every action keeps the variables within their types.
LEMMA TypeStep ==
  TypeOK /\ ControlInv /\ LedgerInv /\ [Next]_vars => TypeOK'
<1> SUFFICES ASSUME TypeOK, ControlInv, LedgerInv, [Next]_vars PROVE TypeOK'
  OBVIOUS
<1> USE Bounds DEF atVars, modeVars, ledgerVars, backVars, reportVars, Fault
<1>1. ASSUME NEW confirm \in BOOLEAN, NEW asDry \in BOOLEAN, Begin(confirm, asDry) PROVE TypeOK'
  <2>1. confirmed' \in BOOLEAN /\ dry' \in BOOLEAN
    BY <1>1, Zenon DEF Begin, DryRun
  <2> QED BY <1>1, <2>1 DEF Begin, TypeOK, Phase, Ended
<1>2. CASE ListExisting
  <2>1. row' \in 1 .. RowsPerStep + 1 /\ listed' \subseteq Entities /\ faults' \in Nat
    BY <1>2 DEF ListExisting, ExistingByName, TypeOK
  <2>2. unread' \in BOOLEAN /\ phase' \in Phase
    <3>1. unread' = unread \/ unread' = TRUE
      BY <1>2 DEF ListExisting
    <3>2. unread' \in BOOLEAN
      BY <3>1, Zenon DEF TypeOK
    <3> QED BY <1>2, <3>2 DEF ListExisting, Phase
  <2> QED BY <1>2, <2>1, <2>2 DEF ListExisting, TypeOK
<1>3. CASE Adopt \/ SkipUnresolved \/ WouldCreate \/ CreateRaced \/ CreateFails
  <2>1. AtRow /\ NextRow
    BY <1>3 DEF Adopt, SkipUnresolved, WouldCreate, CreateRaced, CreateFails, CreateDue
  <2>2. /\ mapped' \in {mapped, mapped \cup {Cur}} /\ failed' \in {failed, failed \cup {step}}
        /\ faults' \in {faults, faults + 1} /\ UNCHANGED <<phase, dest, ledgerVars, outcome, orphans>>
        /\ short' = short \/ short' = TRUE
        /\ unread' = unread \/ unread' = TRUE
    BY <1>3 DEF Adopt, SkipUnresolved, WouldCreate, CreateRaced, CreateFails
  <2>3. Cur \in Entities /\ row' \in 1 .. RowsPerStep + 1
    BY <2>1, CurOK DEF NextRow
  <2>4. UNCHANGED <<step, listed, modeVars, backVars, failure, outside>>
    BY <2>1 DEF NextRow
  <2>5. short' \in BOOLEAN /\ unread' \in BOOLEAN
    BY <2>2, Zenon DEF TypeOK
  <2>6. mapped' \subseteq Entities /\ failed' \subseteq Steps /\ faults' \in Nat
    BY <2>2, <2>3 DEF TypeOK
  <2> QED BY <2>2, <2>3, <2>4, <2>5, <2>6 DEF TypeOK
<1>4. CASE Create
  <2>1. AtRow /\ NextRow
    BY <1>4 DEF Create, CreateDue
  <2>2. Cur \in Entities /\ row' \in 1 .. RowsPerStep + 1
    BY <2>1, CurOK DEF NextRow
  <2>3. entries' \in Seq(Entities \X Owner) /\ Len(entries') = Len(entries) + 1
    BY <1>4, <2>2, LedgeredAppend DEF Create
  <2>4. cursor' \in 0 .. Len(entries')
    BY <2>1, <2>3, LedgeredIn DEF NextRow, TypeOK
  <2>5. disk' \in Files
    <3>1. disk \in Files /\ Ledgered \cup {Cur} \in SUBSET Entities /\ comp \in SUBSET Entities
      BY <2>2, LedgeredIn DEF TypeOK, Files
    <3> QED BY <1>4, <3>1, LedgerType DEF Create, Persist
  <2>6. dest' \in [Entities -> Owner \cup {"absent"}]
    BY <1>4, <2>2 DEF Create, TypeOK, Owner
  <2>7. phase' \in Phase /\ faults' \in Nat /\ mapped' \subseteq Entities
    BY <1>4, <2>2 DEF Create, TypeOK, Phase
  <2> QED BY <1>4, <2>1, <2>2, <2>3, <2>4, <2>5, <2>6, <2>7 DEF Create, NextRow, TypeOK, Files
<1>5. CASE CreateUnledgered
  <2>1. Cur \in Entities /\ row' \in 1 .. RowsPerStep + 1
    BY <1>5, CurOK DEF CreateUnledgered, CreateDue, NextRow
  <2>2. dest' \in [Entities -> Owner \cup {"absent"}]
    BY <1>5, <2>1 DEF CreateUnledgered, TypeOK, Owner
  <2> QED BY <1>5, <2>1, <2>2 DEF CreateUnledgered, NextRow, TypeOK
<1>6. CASE StepRaises
  BY <1>6 DEF StepRaises, TypeOK, Phase
<1>7. CASE EndStep \/ HandleRaise
  <2>1. disk' \in Files
    <3>1. disk \in Files /\ Ledgered \in SUBSET Entities /\ comp \in SUBSET Entities
      BY LedgeredIn DEF TypeOK, Files
    <3> QED BY <1>7, <3>1, LedgerType DEF EndStep, HandleRaise, Persisting, Persist
  <2>2. /\ cursor' \in {cursor, Len(entries)} /\ faults' \in {faults, faults + 1}
        /\ failure' = failure \/ failure' = TRUE
        /\ phase' \in {"listing", "final", "rollback", "raised"}
        /\ step' \in {step, step + 1} /\ (step' = step + 1 => step' = step \/ step < NSteps)
        /\ UNCHANGED <<row, listed, modeVars, dest, mapped, entries, comp, residue, failed, unread,
                 short, outcome, orphans, outside>>
    BY <1>7 DEF EndStep, HandleRaise, Persisting, Abort, Advance, CompensationStart
  <2>3. failure' \in BOOLEAN
    BY <2>2, Zenon DEF TypeOK
  <2>4. step' \in Steps
    BY <2>2 DEF TypeOK, Steps
  <2>5. cursor' \in 0 .. Len(entries')
    BY <2>2, LedgeredIn DEF TypeOK
  <2> QED BY <2>1, <2>2, <2>3, <2>4, <2>5 DEF TypeOK, Files, Phase, Ended
<1>8. CASE Compensate
  <2>1. cursor \in 1 .. Len(entries)
    BY <1>8, LedgeredIn DEF Compensate, TypeOK
  <2>2. Entry(cursor)[1] \in Entities /\ dest' \in [Entities -> Owner \cup {"absent"}]
    BY <1>8, <2>1, DeletedIs DEF Compensate
  <2>3. comp' \subseteq Entities
    BY <1>8, <2>2 DEF Compensate, TypeOK
  <2>4. disk' \in Files
    <3>1. /\ disk \in Files /\ Ledgered \in SUBSET Entities
          /\ comp \cup {Entry(cursor)[1]} \in SUBSET Entities
      BY <2>2, LedgeredIn DEF TypeOK, Files
    <3> QED BY <1>8, <3>1, LedgerType DEF Compensate, Persist
  <2>5. cursor' \in 0 .. Len(entries')
    BY <1>8, <2>1, LedgeredIn DEF Compensate, TypeOK
  <2> QED BY <1>8, <2>2, <2>3, <2>4, <2>5 DEF Compensate, TypeOK, Files, Phase, Ended
<1>9. CASE CompensationFails
  <2>1. cursor \in 1 .. Len(entries)
    BY <1>9, LedgeredIn DEF CompensationFails, TypeOK
  <2>2. Entry(cursor)[1] \in Entities /\ dest' \in [Entities -> Owner \cup {"absent"}]
    BY <1>9, <2>1, DeletedIs DEF CompensationFails, TypeOK
  <2>3. cursor' \in 0 .. Len(entries')
    BY <1>9, <2>1, LedgeredIn DEF CompensationFails
  <2> QED BY <1>9, <2>2, <2>3 DEF CompensationFails, TypeOK
<1>10. CASE EndRollback \/ FinishPreview \/ Crash
  BY <1>10 DEF EndRollback, FinishPreview, Crash, TypeOK, Phase, Ended
<1>11. CASE Finish
  <2>1. short' \in {short, TRUE} /\ unread' \in {unread, TRUE}
    BY <1>11 DEF Finish, DeferredPhase
  <2>2. outcome' \in Outcome
    BY <1>11 DEF Finish, ComputeOutcome, Outcome
  <2>3. disk' \in {disk, NoLedger}
    BY <1>11 DEF Finish
  <2>4. disk' \in Files
    <3>1. disk \in Files /\ {} \in SUBSET Entities
      BY DEF TypeOK, Files
    <3> QED BY <2>3, <3>1, LedgerType
  <2>5. short' \in BOOLEAN /\ unread' \in BOOLEAN
    BY <2>1 DEF TypeOK
  <2> QED BY <1>11, <2>2, <2>4, <2>5 DEF Finish, TypeOK, Files, Phase, Ended
<1>12. ASSUME NEW e \in Entities, OutsideDelete(e) \/ OutsideCreate(e) PROVE TypeOK'
  BY <1>12 DEF OutsideDelete, OutsideCreate, Outside, TypeOK, Owner
<1>13. CASE UNCHANGED vars
  BY <1>13 DEF vars, TypeOK
<1> QED BY <1>1, <1>2, <1>3, <1>4, <1>5, <1>6, <1>7, <1>8, <1>9, <1>10, <1>11, <1>12, <1>13
        DEF Next, Restore

-----------------------------------------------------------------------------
(* Control, and previews.                                                  *)

\* The importer is done with a row and has created nothing.
RowPassed == Adopt \/ SkipUnresolved \/ WouldCreate \/ CreateRaced \/ CreateFails

LEMMA PassedKeeps ==
  ASSUME RowPassed
  PROVE  /\ phase = "rows" /\ AtRow
         /\ UNCHANGED <<phase, step, listed, confirmed, dry, dest, entries, comp, disk, cursor,
                        residue, failure, outcome, orphans, outside>>
BY DEF RowPassed, Adopt, SkipUnresolved, WouldCreate, CreateRaced, CreateFails, CreateDue, AtRow,
     NextRow, ledgerVars, backVars, modeVars

\* An importer returned or raised.
StepOver == EndStep \/ HandleRaise

LEMMA StepOverKeeps ==
  ASSUME StepOver
  PROVE  /\ phase \in {"rows", "raising"}
         /\ UNCHANGED <<confirmed, dry, dest, entries, comp, residue, outcome, orphans, outside,
                        mapped, failed, short, unread>>
         /\ \/ phase' = "raised" /\ ~dry /\ UNCHANGED <<disk, step, failure>>
            \/ /\ phase' = "final" /\ dry /\ UNCHANGED <<disk, step>> /\ failure' = TRUE
            \/ /\ phase' = "rollback" /\ ~dry /\ cursor' = Len(entries) /\ failure' = TRUE
               /\ disk' = Ledger(Ledgered, comp) /\ UNCHANGED step
            \/ /\ phase = "rows" /\ row > RowsPerStep
               /\ disk' = (IF dry THEN disk ELSE Ledger(Ledgered, comp)) /\ UNCHANGED failure
               /\ \/ phase' = "listing" /\ step < NSteps /\ step' = step + 1
                  \/ phase' = "final" /\ ~(step < NSteps) /\ UNCHANGED step
BY DEF StepOver, EndStep, HandleRaise, Persisting, Persist, Abort, Advance, CompensationStart, modeVars

\* Control follows run_restore.
LEMMA ControlStep ==
  TypeOK /\ ControlInv /\ [Next]_vars => ControlInv'
<1> SUFFICES ASSUME TypeOK, ControlInv, [Next]_vars PROVE ControlInv'
  OBVIOUS
<1> USE DEF ControlInv, Forward, Ended, atVars, modeVars, ledgerVars, backVars, reportVars
<1>1. ASSUME NEW confirm \in BOOLEAN, NEW asDry \in BOOLEAN, Begin(confirm, asDry) PROVE ControlInv'
  BY <1>1 DEF Begin
<1>2. CASE ListExisting
  BY <1>2 DEF ListExisting
<1>3. CASE RowPassed
  BY <1>3, PassedKeeps
<1>4. CASE Create
  BY <1>4 DEF Create, CreateDue, AtRow, NextRow
<1>5. CASE CreateUnledgered
  BY <1>5 DEF CreateUnledgered, CreateDue, AtRow, NextRow
<1>6. CASE StepRaises
  BY <1>6 DEF StepRaises
<1>7. CASE StepOver
  <2>1. comp' = {} /\ residue' = {} /\ outcome' = "none" /\ ~failure
    BY <1>7, StepOverKeeps
  <2>2. /\ phase' \in {"raised", "final", "rollback", "listing"}
        /\ phase' = "rollback" => failure' = TRUE /\ ~dry /\ dry' = dry
        /\ phase' = "listing" => failure' = failure
    BY <1>7, StepOverKeeps
  <2>3. phase' = "rollback" => failure' /\ ~dry'
    BY <2>2, Zenon
  <2> QED BY <2>1, <2>2, <2>3
<1>8. CASE Compensate
  BY <1>8 DEF Compensate
<1>9. CASE CompensationFails
  BY <1>9 DEF CompensationFails
<1>10. CASE EndRollback \/ FinishPreview \/ Crash
  BY <1>10 DEF EndRollback, FinishPreview, Crash
<1>11. CASE Finish
  BY <1>11 DEF Finish
<1>12. ASSUME NEW e \in Entities, OutsideDelete(e) \/ OutsideCreate(e) PROVE ControlInv'
  BY <1>12 DEF OutsideDelete, OutsideCreate, Outside
<1>13. CASE UNCHANGED vars
  BY <1>13 DEF vars
<1> QED BY <1>1, <1>2, <1>3, <1>4, <1>5, <1>6, <1>7, <1>8, <1>9, <1>10, <1>11, <1>12, <1>13
        DEF Next, Restore, RowPassed, StepOver

\* A preview applies nothing, however it is interrupted.
LEMMA PreviewStep ==
  TypeOK /\ ControlInv /\ PreviewInv /\ [Next]_vars => PreviewInv'
<1> SUFFICES ASSUME TypeOK, ControlInv, PreviewInv, [Next]_vars PROVE PreviewInv'
  OBVIOUS
<1> USE DEF PreviewInv, ControlInv, Ended, atVars, modeVars, ledgerVars, backVars, reportVars
<1>1. ASSUME NEW confirm \in BOOLEAN, NEW asDry \in BOOLEAN, Begin(confirm, asDry) PROVE PreviewInv'
  BY <1>1 DEF Begin, DryRun
<1>2. CASE ListExisting
  BY <1>2 DEF ListExisting
<1>3. CASE RowPassed
  BY <1>3, PassedKeeps
<1>4. CASE Create
  BY <1>4 DEF Create, CreateDue, NextRow
<1>5. CASE CreateUnledgered
  BY <1>5 DEF CreateUnledgered, CreateDue, NextRow
<1>6. CASE StepRaises
  BY <1>6 DEF StepRaises
<1>7. CASE StepOver
  <2>1. UNCHANGED <<confirmed, dry, dest, entries, outcome>>
    BY <1>7, StepOverKeeps
  <2>2. dry => disk' = disk
    BY <1>7, StepOverKeeps
  <2> QED BY <2>1, <2>2
<1>8. CASE Compensate
  BY <1>8 DEF Compensate
<1>9. CASE CompensationFails
  BY <1>9 DEF CompensationFails
<1>10. CASE EndRollback \/ FinishPreview \/ Crash
  BY <1>10 DEF EndRollback, FinishPreview, Crash
<1>11. CASE Finish
  BY <1>11 DEF Finish
<1>12. ASSUME NEW e \in Entities, OutsideDelete(e) \/ OutsideCreate(e) PROVE PreviewInv'
  BY <1>12 DEF OutsideDelete, OutsideCreate, Outside, TypeOK
<1>13. CASE UNCHANGED vars
  BY <1>13 DEF vars
<1> QED BY <1>1, <1>2, <1>3, <1>4, <1>5, <1>6, <1>7, <1>8, <1>9, <1>10, <1>11, <1>12, <1>13
        DEF Next, Restore, RowPassed, StepOver

-----------------------------------------------------------------------------
(* What is on the destination, and what the ledger knows of it.            *)

\* Only a create with an id puts a row there that the run knows of.
LEMMA LandedStep ==
  ASSUME TypeOK, LedgerInv, [Next]_vars, NEW e \in Landed'
  PROVE  e \in Landed \/ (Create /\ e = Cur)
<1> USE DEF Landed, ledgerVars, backVars, reportVars, atVars, modeVars
<1>1. CASE Create
  BY <1>1 DEF Create, TypeOK
<1>2. CASE CreateUnledgered
  BY <1>2 DEF CreateUnledgered, TypeOK
<1>3. CASE Compensate
  <2>1. cursor \in 1 .. Len(entries)
    BY <1>3, LedgeredIn DEF Compensate, TypeOK
  <2>2. dest' = Deleted(Entry(cursor)) /\ UNCHANGED orphans
    BY <1>3 DEF Compensate
  <2> QED BY <2>1, <2>2, DeletedIs
<1>4. CASE CompensationFails
  <2>1. cursor \in 1 .. Len(entries)
    BY <1>4, LedgeredIn DEF CompensationFails, TypeOK
  <2>2. dest' = dest \/ dest' = Deleted(Entry(cursor))
    BY <1>4 DEF CompensationFails
  <2>3. UNCHANGED orphans
    BY <1>4 DEF CompensationFails
  <2> QED BY <2>1, <2>2, <2>3, DeletedIs
<1>5. ASSUME NEW x \in Entities, OutsideDelete(x) \/ OutsideCreate(x) PROVE e \in Landed
  BY <1>5 DEF OutsideDelete, OutsideCreate, Outside, TypeOK
<1>6. CASE UNCHANGED <<dest, orphans>>
  BY <1>6
<1>7. CASE RowPassed
  BY <1>7, <1>6, PassedKeeps
<1>8. CASE StepOver
  BY <1>8, <1>6, StepOverKeeps
<1>9. CASE \/ \E confirm, asDry \in BOOLEAN : Begin(confirm, asDry)
           \/ ListExisting \/ StepRaises \/ EndRollback \/ FinishPreview \/ Finish \/ Crash
           \/ UNCHANGED vars
  BY <1>6, <1>9 DEF Begin, ListExisting, StepRaises, EndRollback, FinishPreview, Finish, Crash, vars
<1> QED BY <1>1, <1>2, <1>3, <1>4, <1>5, <1>7, <1>8, <1>9 DEF Next, Restore, RowPassed, StepOver

\* The ledger only grows, by the row being created, and the steps only go up.
LEMMA EntriesStep ==
  ASSUME TypeOK, [Next]_vars
  PROVE  /\ step' \in {step, step + 1}
         /\ entries' = entries \/ (Create /\ entries' = Append(entries, <<Cur, "ours">>))
<1> USE DEF ledgerVars, backVars, reportVars, atVars, modeVars
<1>1. CASE RowPassed
  BY <1>1, PassedKeeps
<1>2. CASE StepOver
  BY <1>2, StepOverKeeps
<1>3. CASE Create \/ CreateUnledgered
  BY <1>3 DEF Create, CreateUnledgered, NextRow
<1>4. CASE \/ \E confirm, asDry \in BOOLEAN : Begin(confirm, asDry)
           \/ ListExisting \/ StepRaises \/ EndRollback \/ FinishPreview \/ Finish \/ Crash
           \/ Compensate \/ CompensationFails \/ UNCHANGED vars
           \/ \E e \in Entities : OutsideDelete(e) \/ OutsideCreate(e)
  BY <1>4 DEF Begin, ListExisting, StepRaises, EndRollback, FinishPreview, Finish, Crash, vars,
    Compensate, CompensationFails, OutsideDelete, OutsideCreate, Outside
<1> QED BY <1>1, <1>2, <1>3, <1>4 DEF Next, Restore, RowPassed, StepOver

\* The ledger stays complete, honest and in the order of the steps.
LEMMA LedgerStep ==
  TypeOK /\ LedgerInv /\ [Next]_vars => LedgerInv'
<1> SUFFICES ASSUME TypeOK, LedgerInv, [Next]_vars PROVE LedgerInv'
  OBVIOUS
<1>0. step \in Nat /\ Len(entries) \in Nat /\ \A i \in 1 .. Len(entries) : entries[i][1][1] \in Nat
  BY LedgeredIn, Bounds DEF TypeOK, Steps, Entities
<1>1. CASE entries' = entries
  <2>1. Ledgered' = Ledgered
    BY <1>1 DEF Ledgered
  <2>2. ~Create
    <3>1. ASSUME Create PROVE FALSE
      <4>1. Len(entries') = Len(entries) + 1
        BY <3>1, CurOK, LedgeredAppend DEF Create, CreateDue
      <4> QED BY <1>0, <1>1, <4>1
    <3> QED BY <3>1
  <2>3. \A e \in Landed' : e \in Ledgered'
    BY <2>1, <2>2, LandedStep DEF LedgerInv
  <2>4. step' = step \/ step' = step + 1
    BY EntriesStep
  <2>5. phase' = "idle" => phase = "idle"
    BY DEF Next, Restore, Begin, ListExisting, Adopt, SkipUnresolved, WouldCreate, Create,
      CreateUnledgered, CreateFails, CreateRaced, StepRaises, EndStep, HandleRaise, Persisting,
      Advance, Abort, Compensate, CompensationFails, EndRollback, FinishPreview, Finish, Crash,
      OutsideDelete, OutsideCreate, Outside, atVars, vars
  <2> QED BY <1>0, <1>1, <2>3, <2>4, <2>5 DEF LedgerInv
<1>2. CASE Create /\ entries' = Append(entries, <<Cur, "ours">>)
  <2>1. /\ Cur \in Entities /\ Cur[1] = step /\ step' = step /\ phase' # "idle"
    BY <1>2, CurOK DEF Create, CreateDue, NextRow, AtRow
  <2>2. /\ Len(entries') = Len(entries) + 1
        /\ \A i \in 1 .. Len(entries) : entries'[i] = entries[i]
        /\ entries'[Len(entries) + 1] = <<Cur, "ours">>
        /\ Ledgered' = Ledgered \cup {Cur}
    BY <1>2, <2>1, LedgeredAppend
  <2>3. \A e \in Landed' : e \in Ledgered'
    BY <2>2, LandedStep DEF LedgerInv
  <2>4. ASSUME NEW i \in 1 .. Len(entries')
        PROVE  /\ entries'[i][2] = "ours" /\ entries'[i][1][1] <= step' /\ entries'[i][1][1] \in Nat
               /\ i \notin 1 .. Len(entries) => i = Len(entries) + 1 /\ entries'[i][1][1] = step
    BY <1>0, <2>1, <2>2 DEF LedgerInv
  <2>5. ASSUME NEW i \in 1 .. Len(entries'), NEW j \in 1 .. Len(entries'), i <= j
        PROVE  entries'[i][1][1] <= entries'[j][1][1]
    <3>1. CASE j \in 1 .. Len(entries)
      <4>1. i \in 1 .. Len(entries)
        BY <1>0, <2>5, <3>1
      <4> QED BY <2>2, <2>5, <3>1, <4>1 DEF LedgerInv
    <3>2. CASE j \notin 1 .. Len(entries)
      BY <2>1, <2>4, <3>2
    <3> QED BY <3>1, <3>2
  <2> QED BY <2>1, <2>3, <2>4, <2>5 DEF LedgerInv
<1> QED BY <1>1, <1>2, EntriesStep

\* While a run is under way the ledger file covers what it created: the
\* invariant between the steps and within one.
LEMMA CoversUnderWay ==
  ASSUME TypeOK, LedgerInv, DiskInv, BackInv, phase \notin Ended
  PROVE  /\ LedgerCoversDestination
         /\ phase \in {"rollback", "final"} => \A e \in Landed : e \in disk.saved \ disk.comp
<1> SUFFICES ASSUME NEW e \in Landed
             PROVE  \/ e \in disk.saved \ disk.comp
                    \/ /\ e[1] = step /\ phase \in {"rows", "raising"}
                       /\ phase = "rows" => step \notin Flushing
  BY DEF LedgerCoversDestination
<1>1. e \in Ledgered /\ e \notin comp /\ disk.comp = comp
  BY DEF LedgerInv, BackInv, DiskInv
<1>2. CASE phase \in {"rows", "raising"}
  BY <1>1, <1>2 DEF DiskInv
<1>3. CASE phase \notin {"rows", "raising"}
  BY <1>1, <1>3 DEF DiskInv, LedgerInv, Ended, TypeOK, Phase
<1> QED BY <1>2, <1>3

\* The file follows the ledger.
LEMMA DiskStep ==
  TypeOK /\ ControlInv /\ PreviewInv /\ DiskInv /\ [Next]_vars => DiskInv'
<1> SUFFICES ASSUME TypeOK, ControlInv, PreviewInv, DiskInv, [Next]_vars PROVE DiskInv'
  OBVIOUS
<1> USE DEF atVars, modeVars, ledgerVars, backVars, reportVars
<1>1. ASSUME entries' = entries PROVE Ledgered' = Ledgered
  BY <1>1 DEF Ledgered
<1>2. ASSUME NEW saved, NEW marked, disk' = Ledger(saved, marked)
      PROVE  disk'.saved = saved /\ disk'.comp = marked
  BY <1>2 DEF Ledger
<1>3. ASSUME NEW confirm \in BOOLEAN, NEW asDry \in BOOLEAN, Begin(confirm, asDry) PROVE DiskInv'
  <2>1. phase = "idle" /\ phase' \in {"listing", "done"} /\ UNCHANGED <<disk, entries, comp>>
    BY <1>3 DEF Begin
  <2> QED BY <1>1, <2>1 DEF DiskInv, Ended
<1>4. CASE ListExisting
  <2>1. phase = "listing" /\ phase' = "rows" /\ UNCHANGED <<disk, entries, comp>>
    BY <1>4 DEF ListExisting
  <2> QED BY <1>1, <2>1 DEF DiskInv, Ended
<1>5. CASE RowPassed \/ CreateUnledgered
  <2>1. UNCHANGED <<phase, step, disk, entries, comp>>
    BY <1>5, PassedKeeps DEF CreateUnledgered, NextRow
  <2> QED BY <1>1, <2>1 DEF DiskInv
<1>6. CASE Create
  <2>1. /\ phase = "rows" /\ step' = step /\ comp' = comp /\ disk.comp = comp
        /\ Cur \in Entities /\ Cur[1] = step
    BY <1>6, CurOK DEF Create, CreateDue, AtRow, NextRow, DiskInv, Ended
  <2>2. Ledgered' = Ledgered \cup {Cur}
    BY <1>6, <2>1, LedgeredAppend DEF Create
  <2>3. CASE phase' = "rows" /\ step \in Flushing /\ disk' = Ledger(Ledgered \cup {Cur}, comp)
    BY <1>2, <2>1, <2>2, <2>3 DEF DiskInv
  <2>4. CASE phase' = "rows" /\ step \notin Flushing /\ disk' = disk
    BY <2>1, <2>2, <2>4 DEF DiskInv
  <2>5. CASE phase' = "raising" /\ disk' = disk
    BY <2>1, <2>2, <2>5 DEF DiskInv
  <2> QED BY <1>6, <2>1, <2>3, <2>4, <2>5 DEF Create, Persist
<1>7. CASE StepRaises
  <2>1. phase \in {"listing", "rows"} /\ phase' = "raising" /\ UNCHANGED <<step, disk, entries, comp>>
    BY <1>7 DEF StepRaises
  <2> QED BY <1>1, <2>1 DEF DiskInv, Ended
<1>8. CASE StepOver
  <2>1. UNCHANGED <<entries, comp>> /\ phase \notin Ended
    BY <1>8, StepOverKeeps DEF Ended
  <2>2. CASE phase' = "raised"
    BY <2>2 DEF DiskInv, Ended
  <2>3. CASE phase' # "raised"
    <3>1. phase' \in {"listing", "rollback", "final"}
      BY <1>8, <2>3, StepOverKeeps
    <3>2. CASE dry
      <4>1. disk' = disk /\ disk.saved = {} /\ entries = <<>>
        <5>1. disk' = disk
          BY <1>8, <2>3, <3>2, StepOverKeeps
        <5>2. disk = NoLedger /\ entries = <<>>
          BY <3>2 DEF PreviewInv
        <5> QED BY <5>1, <5>2 DEF NoLedger
      <4>2. Ledgered = {}
        BY <4>1 DEF Ledgered, ToSet
      <4> QED BY <1>1, <2>1, <3>1, <4>1, <4>2 DEF DiskInv, Ended
    <3>3. CASE ~dry
      <4>1. disk' = Ledger(Ledgered, comp)
        BY <1>8, <2>3, <3>3, StepOverKeeps
      <4> QED BY <1>1, <1>2, <2>1, <3>1, <4>1 DEF DiskInv
    <3> QED BY <3>2, <3>3
  <2> QED BY <2>2, <2>3
<1>9. CASE Compensate
  <2>1. phase = "rollback" /\ UNCHANGED entries
    BY <1>9 DEF Compensate
  <2>2. CASE phase' = "raised"
    BY <2>2 DEF DiskInv, Ended
  <2>3. CASE phase' = phase /\ disk' = Ledger(Ledgered, comp')
    BY <1>1, <1>2, <2>1, <2>3 DEF DiskInv
  <2> QED BY <1>9, <2>2, <2>3 DEF Compensate, Persist
<1>10. CASE CompensationFails \/ \E e \in Entities : OutsideDelete(e) \/ OutsideCreate(e)
  <2>1. UNCHANGED <<phase, step, disk, entries, comp>>
    BY <1>10 DEF CompensationFails, OutsideDelete, OutsideCreate, Outside
  <2> QED BY <1>1, <2>1 DEF DiskInv
<1>11. CASE EndRollback
  <2>1. phase = "rollback" /\ phase' = "final" /\ UNCHANGED <<disk, entries, comp>>
    BY <1>11 DEF EndRollback
  <2> QED BY <1>1, <2>1 DEF DiskInv, Ended
<1>12. CASE FinishPreview \/ Finish \/ Crash
  <2>1. phase' \in Ended
    BY <1>12 DEF FinishPreview, Finish, Crash, Ended
  <2> QED BY <2>1 DEF DiskInv, Ended
<1>13. CASE UNCHANGED vars
  <2>1. UNCHANGED <<phase, step, disk, entries, comp>>
    BY <1>13 DEF vars
  <2> QED BY <1>1, <2>1 DEF DiskInv
<1> QED BY <1>3, <1>4, <1>5, <1>6, <1>7, <1>8, <1>9, <1>10, <1>11, <1>12, <1>13
        DEF Next, Restore, RowPassed, StepOver

-----------------------------------------------------------------------------
(* Rollback.                                                               *)

\* What the rollback has passed is gone or residue.
LEMMA BackStep ==
  TypeOK /\ ControlInv /\ LedgerInv /\ BackInv /\ [Next]_vars => BackInv'
<1> SUFFICES ASSUME TypeOK, ControlInv, LedgerInv, BackInv, [Next]_vars PROVE BackInv'
  OBVIOUS
<1> USE DEF atVars, modeVars, ledgerVars, backVars, reportVars
<1>1. ASSUME UNCHANGED comp, phase' \notin {"rollback", "final"}, ~Create PROVE BackInv'
  BY <1>1, LandedStep DEF BackInv
<1>2. CASE \/ \E confirm, asDry \in BOOLEAN : Begin(confirm, asDry)
           \/ ListExisting \/ RowPassed \/ CreateUnledgered \/ StepRaises \/ FinishPreview
           \/ Finish \/ Crash
  <2>1. UNCHANGED <<comp, entries>> /\ phase' \notin {"rollback", "final"}
    BY <1>2, PassedKeeps DEF Begin, ListExisting, CreateUnledgered, CreateDue, AtRow, NextRow,
      StepRaises, FinishPreview, Finish, Crash
  <2>2. ~Create
    <3>1. ASSUME Create PROVE FALSE
      <4>1. Len(entries') = Len(entries) + 1 /\ Len(entries) \in Nat
        BY <3>1, CurOK, LedgeredAppend, LedgeredIn DEF Create, CreateDue
      <4> QED BY <2>1, <4>1
    <3> QED BY <3>1
  <2> QED BY <1>1, <2>1, <2>2
<1>3. CASE Create
  <2>1. phase' \in {"rows", "raising"} /\ comp' = {}
    BY <1>3 DEF Create, CreateDue, AtRow, NextRow, ControlInv, Forward
  <2> QED BY <2>1 DEF BackInv
<1>4. CASE StepOver
  <2>1. /\ comp' = {} /\ phase' \in {"raised", "final", "rollback", "listing"}
        /\ phase' = "rollback" => cursor' = Len(entries)
        /\ UNCHANGED <<entries, dest, orphans, dry>>
    BY <1>4, StepOverKeeps DEF ControlInv, Forward
  <2>2. Landed' = Landed
    BY <2>1 DEF Landed
  <2>3. \A e \in Landed : \E i \in 1 .. Len(entries) : entries[i][1] = e
    BY LedgeredIs DEF LedgerInv
  <2>4. phase' = "final" /\ ~dry => failure' = failure /\ ~failure
    BY <1>4, StepOverKeeps DEF ControlInv, Forward
  <2>5. phase' = "final" /\ failure' /\ ~dry' => FALSE
    BY <2>1, <2>4, Zenon
  <2> QED BY <2>1, <2>2, <2>3, <2>5 DEF BackInv
<1>5. CASE Compensate
  <2>1. /\ phase = "rollback" /\ cursor \in 1 .. Len(entries) /\ dest' = Deleted(Entry(cursor))
        /\ comp' = comp \cup {Entry(cursor)[1]} /\ UNCHANGED <<entries, residue, orphans>>
        /\ phase' = "raised" \/ (phase' = phase /\ cursor' = cursor - 1)
    BY <1>5, LedgeredIn DEF Compensate, TypeOK
  <2>2. \A e \in Landed' : e \in Landed /\ e # Entry(cursor)[1]
    BY <2>1, DeletedIs DEF Landed
  <2>3. \A e \in Landed' : e \notin comp'
    BY <2>1, <2>2 DEF BackInv
  <2>4. ASSUME NEW e \in Landed' \ residue PROVE \E i \in 1 .. cursor - 1 : entries[i][1] = e
    <3>1. PICK i \in 1 .. cursor : entries[i][1] = e
      BY <2>1, <2>2 DEF BackInv
    <3>2. i # cursor
      BY <2>2, <3>1 DEF Entry
    <3>3. i \in 1 .. cursor - 1
      BY <2>1, <3>2
    <3> QED BY <3>1, <3>3
  <2> QED BY <2>1, <2>3, <2>4 DEF BackInv
<1>6. CASE CompensationFails
  <2>1. /\ phase = "rollback" /\ cursor \in 1 .. Len(entries) /\ UNCHANGED <<entries, comp, orphans, phase>>
        /\ residue' = residue \cup {Entry(cursor)[1]} /\ cursor' = cursor - 1
    BY <1>6, LedgeredIn DEF CompensationFails, TypeOK
  <2>2. ~Create
    BY <2>1 DEF Create, CreateDue, AtRow
  <2>3. \A e \in Landed' : e \in Landed
    BY <2>2, LandedStep
  <2>4. ASSUME NEW e \in Landed' \ residue' PROVE \E i \in 1 .. cursor - 1 : entries[i][1] = e
    <3>1. PICK i \in 1 .. cursor : entries[i][1] = e
      BY <2>1, <2>3 DEF BackInv
    <3>2. i # cursor
      BY <2>1, <3>1 DEF Entry
    <3>3. i \in 1 .. cursor - 1
      BY <2>1, <3>2
    <3> QED BY <3>1, <3>3
  <2> QED BY <2>1, <2>3, <2>4 DEF BackInv
<1>7. CASE EndRollback
  <2>1. phase = "rollback" /\ phase' = "final" /\ cursor = 0 /\ UNCHANGED <<dest, orphans, comp, residue>>
    BY <1>7 DEF EndRollback, RollbackDone
  <2>2. Landed' = Landed
    BY <2>1 DEF Landed
  <2>3. Landed \subseteq residue
    BY <2>1 DEF BackInv
  <2> QED BY <2>1, <2>2, <2>3 DEF BackInv
<1>8. CASE (\E e \in Entities : OutsideDelete(e) \/ OutsideCreate(e)) \/ UNCHANGED vars
  <2>1. UNCHANGED <<phase, entries, comp, cursor, residue, failure, dry>>
    BY <1>8 DEF OutsideDelete, OutsideCreate, Outside, vars
  <2>2. ~Create
    <3>1. ASSUME Create PROVE FALSE
      <4>1. Len(entries') = Len(entries) + 1 /\ Len(entries) \in Nat
        BY <3>1, CurOK, LedgeredAppend, LedgeredIn DEF Create, CreateDue
      <4> QED BY <2>1, <4>1
    <3> QED BY <3>1
  <2>3. \A e \in Landed' : e \in Landed
    BY <2>2, LandedStep
  <2> QED BY <2>1, <2>3 DEF BackInv
<1> QED BY <1>2, <1>3, <1>4, <1>5, <1>6, <1>7, <1>8 DEF Next, Restore, RowPassed, StepOver

-----------------------------------------------------------------------------
(* What was imported.                                                      *)

\* Every archived row passed has a destination, or was counted.
LEMMA VisitStep ==
  TypeOK /\ ControlInv /\ VisitInv /\ [Next]_vars => VisitInv'
<1> SUFFICES ASSUME TypeOK, ControlInv, VisitInv, [Next]_vars PROVE VisitInv'
  OBVIOUS
<1> USE DEF atVars, modeVars, ledgerVars, backVars, reportVars
<1> DEFINE Clean == ~short /\ failed = {} /\ ~failure
           Found == mapped \cup orphans
<1>0. /\ step \in Nat /\ row \in Nat
      /\ \A e \in Entities : e = <<e[1], e[2]>> /\ e[1] \in 1 .. NSteps /\ e[2] \in 1 .. RowsPerStep
  BY Bounds DEF TypeOK, Steps, Entities
<1>1. CASE phase' \notin {"idle", "listing", "rows", "final"}
  BY <1>1 DEF VisitInv
<1>2. ASSUME NEW confirm \in BOOLEAN, NEW asDry \in BOOLEAN, Begin(confirm, asDry)
      PROVE  VisitInv'
  <2>1. step' = 1 /\ phase' \in {"listing", "done"}
    BY <1>2 DEF Begin, VisitInv
  <2> QED BY <1>0, <2>1 DEF VisitInv, Visited
<1>3. CASE ListExisting
  <2>1. /\ phase = "listing" /\ phase' = "rows" /\ row' = 1
        /\ UNCHANGED <<step, mapped, orphans, short, failed, failure>>
    BY <1>3 DEF ListExisting
  <2>2. \A e \in Entities : Visited(e)' => Visited(e)
    BY <1>0, <2>1 DEF Visited
  <2> QED BY <2>1, <2>2 DEF VisitInv
<1>4. ASSUME AtRow, NextRow, phase' = "rows", Found \subseteq Found', failed \subseteq failed',
             short => short', Cur \in Found' \/ short' \/ failed' # {}
      PROVE  VisitInv'
  <2>1. phase = "rows" /\ row' = row + 1 /\ UNCHANGED <<step, failure>> /\ Cur = <<step, row>>
    BY <1>4 DEF AtRow, NextRow, Cur
  <2>2. \A e \in Entities : Visited(e)' => Visited(e) \/ e = Cur
    BY <1>0, <2>1, <1>4 DEF Visited
  <2> HIDE DEF Found
  <2>3. ASSUME ~short', failed' = {}, ~failure', NEW e \in Entities, Visited(e)' PROVE e \in Found'
    <3>1. ~short /\ failed = {} /\ ~failure
      BY <1>4, <2>1, <2>3
    <3>2. Visited(e) => e \in Found
      BY <2>1, <3>1 DEF VisitInv, Found
    <3> QED BY <1>4, <2>2, <2>3, <3>2
  <2> QED BY <1>4, <2>3 DEF VisitInv, Found
<1>5. CASE StepOver
  <2>1. UNCHANGED <<mapped, orphans, failed, short>> /\ ~failure
    BY <1>5, StepOverKeeps DEF ControlInv, Forward
  <2>2. CASE failure' = TRUE
    <3>1. failure'
      BY <2>2, Zenon
    <3>2. phase' # "idle"
      BY <1>5, StepOverKeeps
    <3> QED BY <3>1, <3>2 DEF VisitInv
  <2>3. CASE phase = "rows" /\ row > RowsPerStep /\ phase' = "listing" /\ step' = step + 1
    <3>1. \A e \in Entities : Visited(e)' => Visited(e)
      BY <1>0, <2>3, Bounds DEF Visited
    <3> QED BY <2>1, <2>3, <3>1 DEF VisitInv
  <2>4. CASE phase = "rows" /\ row > RowsPerStep /\ phase' = "final" /\ ~(step < NSteps) /\ step' = step
    <3>1. \A e \in Entities : Visited(e)' => Visited(e)
      BY <1>0, <2>4, Bounds DEF Visited
    <3>2. step' = NSteps
      BY <2>4, Bounds DEF TypeOK, Steps
    <3> QED BY <2>1, <2>4, <3>1, <3>2 DEF VisitInv
  <2>5. CASE phase' = "raised"
    BY <1>1, <2>5
  <2> QED BY <1>5, <2>2, <2>3, <2>4, <2>5, StepOverKeeps
<1>6. CASE EndRollback
  BY <1>6 DEF EndRollback, ControlInv, VisitInv
<1>7. CASE (\E e \in Entities : OutsideDelete(e) \/ OutsideCreate(e)) \/ UNCHANGED vars
  <2>1. UNCHANGED <<phase, step, row, mapped, orphans, failed, short, failure>>
    BY <1>7 DEF OutsideDelete, OutsideCreate, Outside, vars
  <2> QED BY <2>1 DEF VisitInv, Visited
<1>8. CASE RowPassed \/ CreateUnledgered
  <2>1. AtRow /\ NextRow /\ phase' = "rows"
    BY <1>8, PassedKeeps DEF RowPassed, Adopt, SkipUnresolved, WouldCreate, CreateRaced, CreateFails,
      CreateUnledgered, CreateDue, AtRow
  <2>2. /\ Found \subseteq Found' /\ failed \subseteq failed' /\ (short => short')
        /\ Cur \in Found' \/ short' \/ failed' # {}
    <3>1. CASE Adopt \/ WouldCreate
      BY <3>1 DEF Adopt, WouldCreate
    <3>2. CASE SkipUnresolved
      <4>1. short' = TRUE /\ UNCHANGED <<mapped, orphans, failed>>
        BY <3>2 DEF SkipUnresolved
      <4> QED BY <4>1
    <3>3. CASE CreateRaced
      BY <3>3 DEF CreateRaced
    <3>4. CASE CreateFails
      BY <3>4 DEF CreateFails
    <3>5. CASE CreateUnledgered
      BY <3>5 DEF CreateUnledgered
    <3> QED BY <1>8, <3>1, <3>2, <3>3, <3>4, <3>5 DEF RowPassed
  <2> QED BY <1>4, <2>1, <2>2
<1>9. CASE Create
  <2>1. /\ AtRow /\ NextRow /\ phase' \in {"rows", "raising"}
        /\ Found \subseteq Found' /\ Cur \in Found' /\ UNCHANGED <<failed, short>>
    BY <1>9 DEF Create, CreateDue, AtRow
  <2> QED BY <1>1, <1>4, <2>1
<1>10. CASE StepRaises \/ Compensate \/ CompensationFails \/ FinishPreview \/ Finish \/ Crash
  BY <1>1, <1>10 DEF StepRaises, Compensate, CompensationFails, FinishPreview, Finish, Crash
<1> QED BY <1>1, <1>2, <1>3, <1>5, <1>6, <1>7, <1>8, <1>9, <1>10
        DEF Next, Restore, RowPassed, StepOver

-----------------------------------------------------------------------------
(* The end.                                                                *)

\* After its end nothing happens to a restore.
LEMMA EndedStays ==
  ASSUME [Next]_vars, phase \in Ended
  PROVE  UNCHANGED vars
<1> USE DEF Ended
<1>1. ~Restore
  BY DEF Restore, Begin, ListExisting, Adopt, SkipUnresolved, WouldCreate, Create, CreateUnledgered,
    CreateFails, CreateRaced, CreateDue, AtRow, StepRaises, EndStep, HandleRaise, Compensate,
    CompensationFails, EndRollback, FinishPreview, Finish
<1>2. ~Crash /\ \A e \in Entities : ~OutsideDelete(e) /\ ~OutsideCreate(e)
  BY DEF Crash, OutsideDelete, OutsideCreate, Outside
<1> QED BY <1>1, <1>2 DEF Next

\* How a restore ends.
LEMMA EndingStep ==
  ASSUME [Next]_vars, phase \notin Ended, phase' \in Ended
  PROVE  \/ \E confirm, asDry \in BOOLEAN : Begin(confirm, asDry)
         \/ StepOver \/ Compensate \/ FinishPreview \/ Finish \/ Crash
<1> USE DEF Ended
<1>1. ASSUME \/ ListExisting \/ RowPassed \/ Create \/ CreateUnledgered \/ StepRaises
             \/ CompensationFails \/ EndRollback \/ UNCHANGED vars
             \/ \E e \in Entities : OutsideDelete(e) \/ OutsideCreate(e)
      PROVE  FALSE
  BY <1>1, PassedKeeps DEF ListExisting, Create, CreateUnledgered, CreateDue, AtRow, StepRaises,
    CompensationFails, EndRollback, vars, OutsideDelete, OutsideCreate, Outside, atVars
<1> QED BY <1>1 DEF Next, Restore, RowPassed, StepOver

\* The outcomes of compute_outcome.
LEMMA OutcomeIs ==
  ASSUME NEW u \in BOOLEAN, NEW l \in BOOLEAN, failure \in BOOLEAN
  PROVE  /\ ComputeOutcome(u, l) = "rolled_back" => failure /\ residue = {}
         /\ ComputeOutcome(u, l) = "success" => ~u /\ ~l /\ ~failure /\ failed = {}
<1>1. CASE u
  BY <1>1 DEF ComputeOutcome
<1>2. CASE ~u /\ failure
  BY <1>2 DEF ComputeOutcome
<1>3. CASE ~u /\ ~failure
  BY <1>3 DEF ComputeOutcome
<1> QED BY <1>1, <1>2, <1>3

\* What is said at the end is so, and what is left behind is in the file.
LEMMA EndStepInv ==
  RestoreInv /\ TypeOK' /\ ControlInv' /\ LedgerInv' /\ DiskInv' /\ BackInv' /\ [Next]_vars
    => RolledBackMeansGone' /\ SuccessIsComplete' /\ LedgerCoversDestination'
<1> SUFFICES ASSUME RestoreInv, TypeOK', ControlInv', LedgerInv', DiskInv', BackInv', [Next]_vars
             PROVE  RolledBackMeansGone' /\ SuccessIsComplete' /\ LedgerCoversDestination'
  OBVIOUS
<1> USE DEF RestoreInv, atVars, modeVars, ledgerVars, backVars, reportVars
<1>1. CASE phase' \notin Ended
  <2>1. outcome' = "none"
    BY <1>1 DEF ControlInv
  <2>2. RolledBackMeansGone' /\ SuccessIsComplete'
    BY <2>1 DEF RolledBackMeansGone, SuccessIsComplete
  <2>3. ASSUME NEW e \in Landed'
        PROVE  \/ e \in disk'.saved \ disk'.comp
               \/ /\ e[1] = step' /\ phase' \in {"rows", "raising"}
                  /\ phase' = "rows" => step' \notin Flushing
    <3>1. e \in Ledgered' /\ e \notin comp' /\ disk'.comp = comp'
      BY <1>1 DEF LedgerInv, BackInv, DiskInv
    <3>2. CASE phase' \in {"rows", "raising"}
      BY <3>1, <3>2 DEF DiskInv
    <3>3. CASE phase' \notin {"rows", "raising"}
      BY <1>1, <3>1, <3>3 DEF DiskInv, Ended, TypeOK, Phase
    <3> QED BY <3>2, <3>3
  <2> QED BY <2>2, <2>3 DEF LedgerCoversDestination
<1>2. CASE phase \in Ended
  <2>1. UNCHANGED vars
    BY <1>2, EndedStays
  <2> QED BY <2>1 DEF RolledBackMeansGone, SuccessIsComplete, LedgerCoversDestination, Landed, vars
<1>3. CASE phase \notin Ended /\ phase' \in Ended
  <2>0. outcome = "none"
    BY <1>3 DEF ControlInv
  <2>1. ASSUME outcome' = outcome, \A e \in Landed' : e \in Landed,
               UNCHANGED <<disk, step>>, phase' \in {"raised", "crashed"} \/ Landed = {}
        PROVE  RolledBackMeansGone' /\ SuccessIsComplete' /\ LedgerCoversDestination'
    <3>1. RolledBackMeansGone' /\ SuccessIsComplete'
      BY <2>0, <2>1 DEF RolledBackMeansGone, SuccessIsComplete
    <3>2. LedgerCoversDestination
      BY DEF RestoreInv
    <3>3. LedgerCoversDestination'
      BY <2>0, <2>1, <3>2 DEF LedgerCoversDestination
    <3> QED BY <3>1, <3>3
  <2>2. ASSUME NEW confirm \in BOOLEAN, NEW asDry \in BOOLEAN, Begin(confirm, asDry)
        PROVE  RolledBackMeansGone' /\ SuccessIsComplete' /\ LedgerCoversDestination'
    <3>1. UNCHANGED <<outcome, dest, orphans, disk, step>> /\ dry
      BY <2>2 DEF Begin, ControlInv
    <3>2. Landed' = Landed /\ Landed = {}
      BY <3>1 DEF Landed, PreviewInv
    <3> QED BY <2>1, <3>1, <3>2
  <2>3. CASE StepOver
    <3>1. UNCHANGED <<outcome, dest, orphans, disk, step>> /\ phase' = "raised"
      BY <1>3, <2>3, StepOverKeeps DEF Ended
    <3>2. Landed' = Landed
      BY <3>1 DEF Landed
    <3> QED BY <2>1, <3>1, <3>2
  <2>4. CASE Compensate
    <3>1. UNCHANGED <<outcome, disk, step>> /\ phase' = "raised" /\ ~Create
      BY <1>3, <2>4 DEF Compensate, Ended, Create, CreateDue, AtRow
    <3>2. \A e \in Landed' : e \in Landed
      BY <3>1, LandedStep
    <3> QED BY <2>1, <3>1, <3>2
  <2>5. CASE FinishPreview
    <3>1. UNCHANGED <<outcome, dest, orphans, disk, step>> /\ dry
      BY <2>5 DEF FinishPreview
    <3>2. Landed' = Landed /\ Landed = {}
      BY <3>1 DEF Landed, PreviewInv
    <3> QED BY <2>1, <3>1, <3>2
  <2>6. CASE Crash
    <3>1. UNCHANGED <<outcome, dest, orphans, disk, step>> /\ phase' = "crashed"
      BY <2>6 DEF Crash
    <3>2. Landed' = Landed
      BY <3>1 DEF Landed
    <3> QED BY <2>1, <3>1, <3>2
  <2>7. CASE Finish
    <3>1. /\ phase = "final" /\ ~dry /\ UNCHANGED <<dest, orphans, step, failed, comp, mapped>>
          /\ outcome' = ComputeOutcome(unread', short')
          /\ outcome' # "success" => disk' = disk
      BY <2>7 DEF Finish
    <3>2. unread' \in BOOLEAN /\ short' \in BOOLEAN /\ failure \in BOOLEAN
      BY DEF TypeOK
    <3>3. /\ outcome' = "rolled_back" => failure /\ residue = {}
          /\ outcome' = "success" => ~unread' /\ ~short' /\ ~failure /\ failed = {}
      BY <3>1, <3>2, OutcomeIs
    <3>4. Landed' = Landed
      BY <3>1 DEF Landed
    <3>5. RolledBackMeansGone'
      BY <3>1, <3>3, <3>4 DEF RolledBackMeansGone, BackInv
    <3>6. SuccessIsComplete'
      <4> SUFFICES ASSUME outcome' = "success" PROVE SuccessIsComplete'
        BY DEF SuccessIsComplete
      <4>1. ~unread' /\ ~short' /\ ~failure /\ failed = {}
        BY <3>3
      <4>2. failure' = failure /\ (short' = short \/ short' = TRUE)
        BY <2>7 DEF Finish, DeferredPhase
      <4>3. ~failure' /\ ~short
        <5>1. CASE short' = TRUE
          BY <4>1, <5>1
        <5>2. CASE short' = short
          BY <4>1, <4>2, <5>2
        <5> QED BY <4>2, <5>1, <5>2
      <4>4. step = NSteps /\ comp = {} /\ \A e \in Entities : Visited(e) => e \in mapped \cup orphans
        BY <3>1, <4>1, <4>3 DEF VisitInv, ControlInv
      <4>5. \A e \in Entities : Visited(e)
        <5>1. \A e \in Entities : e[1] \in 1 .. NSteps
          BY DEF Entities, Steps
        <5> QED BY <3>1, <4>4, <5>1, Bounds DEF Visited
      <4> QED BY <3>1, <4>1, <4>3, <4>4, <4>5 DEF SuccessIsComplete
    <3>7. LedgerCoversDestination'
      <4>1. \A e \in Landed : e \in disk.saved \ disk.comp
        BY <1>3, <3>1, CoversUnderWay
      <4> QED BY <3>1, <3>4, <4>1 DEF LedgerCoversDestination
    <3> QED BY <3>5, <3>6, <3>7
  <2> QED BY <1>3, <2>2, <2>3, <2>4, <2>5, <2>6, <2>7, EndingStep
<1> QED BY <1>1, <1>2, <1>3

-----------------------------------------------------------------------------
(* The theorems.                                                           *)

\* The initial states satisfy the invariant.
LEMMA InitInv == Init => RestoreInv
<1> SUFFICES ASSUME Init PROVE RestoreInv
  OBVIOUS
<1> USE Bounds DEF Init
<1>1. NoLedger \in Files /\ entries \in Seq(Entities \X Owner) /\ Len(entries) = 0
  <2>1. {} \in SUBSET Entities
    OBVIOUS
  <2> QED BY <2>1, LedgerType
<1>2. step \in Steps /\ row \in 1 .. RowsPerStep + 1 /\ cursor \in 0 .. Len(entries)
  BY <1>1 DEF Steps
<1>3. dest \in [Entities -> Owner \cup {"absent"}] /\ Landed = {}
  BY DEF Owner, Landed
<1>4. /\ confirmed \in BOOLEAN /\ dry \in BOOLEAN /\ failure \in BOOLEAN /\ unread \in BOOLEAN
      /\ short \in BOOLEAN
  BY Zenon
<1>5. TypeOK
  BY <1>1, <1>2, <1>3, <1>4 DEF TypeOK, Files, Phase, Outcome
<1>6. Ledgered = {}
  BY <1>1 DEF Ledgered, ToSet
<1>7. ControlInv /\ PreviewInv
  BY DEF ControlInv, PreviewInv
<1>8. LedgerInv /\ DiskInv /\ BackInv
  BY <1>1, <1>3, <1>6 DEF LedgerInv, DiskInv, BackInv, NoLedger
<1>9. VisitInv /\ RolledBackMeansGone /\ SuccessIsComplete /\ LedgerCoversDestination
  BY <1>3 DEF VisitInv, RolledBackMeansGone, SuccessIsComplete, LedgerCoversDestination
<1> QED BY <1>5, <1>7, <1>8, <1>9 DEF RestoreInv

\* Every step of a restore and of its surroundings keeps the invariant.
LEMMA InvStep == RestoreInv /\ [Next]_vars => RestoreInv'
<1> SUFFICES ASSUME RestoreInv, [Next]_vars PROVE RestoreInv'
  OBVIOUS
<1>1. TypeOK' /\ ControlInv' /\ LedgerInv' /\ DiskInv' /\ BackInv'
  BY TypeStep, ControlStep, LedgerStep, DiskStep, BackStep DEF RestoreInv
<1>2. PreviewInv' /\ VisitInv'
  BY PreviewStep, VisitStep DEF RestoreInv
<1>3. RolledBackMeansGone' /\ SuccessIsComplete' /\ LedgerCoversDestination'
  BY <1>1, EndStepInv
<1> QED BY <1>1, <1>2, <1>3 DEF RestoreInv

\* run_restore keeps the invariant over every archive.
THEOREM RestoreCorrect == Spec => []RestoreInv
BY InitInv, InvStep, PTL DEF Spec

\* What a restore says of itself is so: a preview is pure, "rolled back" means
\* that every row whose id the run learnt is gone, "success" that nothing was
\* left out (compute_outcome, run_rollback).
THEOREM OutcomeHonest == Spec => []OutcomeIsHonest
<1>1. RestoreInv => OutcomeIsHonest
  BY DEF RestoreInv, OutcomeIsHonest, PreviewIsPure, PreviewInv
<1> QED BY <1>1, RestoreCorrect, PTL

\* Whenever the process dies or gives up, the ledger file names what is left,
\* the rows of the step under way excepted (persist_ledger at every boundary).
THEOREM LedgerCovers == Spec => []LedgerCoversDestination
<1>1. RestoreInv => LedgerCoversDestination
  BY DEF RestoreInv
<1> QED BY <1>1, RestoreCorrect, PTL

\* A step that takes a row of this run off the destination is a compensation of
\* the entry under the cursor.
LEMMA Deletion ==
  ASSUME RestoreInv, [Next]_vars, NEW p \in Entities, dest[p] # "absent", dest'[p] = "absent",
         outside' = outside
  PROVE  /\ phase = "rollback" /\ cursor \in 1 .. Len(entries) /\ entries[cursor][1] = p
         /\ dest[p] = "ours"
<1> USE DEF RestoreInv, atVars, modeVars, ledgerVars, backVars, reportVars
<1>1. CASE Create \/ CreateUnledgered
  <2>1. Cur \in Entities /\ dest' = [dest EXCEPT ![Cur] = "ours"]
    BY <1>1, CurOK DEF Create, CreateUnledgered, CreateDue
  <2> QED BY <2>1 DEF TypeOK
<1>2. CASE Compensate \/ CompensationFails
  <2>1. /\ phase = "rollback" /\ cursor \in 1 .. Len(entries)
        /\ dest' = dest \/ dest' = Deleted(Entry(cursor))
    BY <1>2, LedgeredIn DEF Compensate, CompensationFails, TypeOK
  <2> QED BY <2>1, DeletedIs
<1>3. ASSUME NEW e \in Entities, OutsideDelete(e) \/ OutsideCreate(e) PROVE FALSE
  BY <1>3 DEF OutsideDelete, OutsideCreate, Outside, TypeOK
<1>4. CASE RowPassed \/ StepOver
  BY <1>4, PassedKeeps, StepOverKeeps
<1>5. CASE \/ \E confirm, asDry \in BOOLEAN : Begin(confirm, asDry)
           \/ ListExisting \/ StepRaises \/ EndRollback \/ FinishPreview \/ Finish \/ Crash
           \/ UNCHANGED vars
  BY <1>5 DEF Begin, ListExisting, StepRaises, EndRollback, FinishPreview, Finish, Crash, vars
<1> QED BY <1>1, <1>2, <1>3, <1>4, <1>5 DEF Next, Restore, RowPassed, StepOver

\* The rollback deletes nothing of anybody else, and a parent only after the
\* children the run knows of (compensation_order, newest first).
THEOREM RollbackDisciplined == Spec => RollbackDiscipline
<1>1. ASSUME RestoreInv, [Next]_vars
      PROVE  \A e \in Entities : dest[e] = "foreign" /\ dest'[e] = "absent" => outside' # outside
  BY <1>1, Deletion
<1>2. ASSUME RestoreInv, [Next]_vars, NEW p \in Entities, dest[p] = "ours", dest'[p] = "absent",
             outside' = outside, NEW e \in Landed, Parent[e] = p, e # p
      PROVE  e \in residue
  <2>1. /\ phase = "rollback" /\ cursor \in 1 .. Len(entries) /\ entries[cursor][1] = p
    BY <1>2, Deletion
  <2>2. TypeOK /\ LedgerInv /\ BackInv
    BY <1>2 DEF RestoreInv
  <2>3. p[1] < e[1] /\ p[1] \in Nat /\ e[1] \in Nat
    BY <1>2, RestoreAssumption DEF Landed, Entities, Steps
  <2>4. ASSUME NEW i \in 1 .. cursor, entries[i][1] = e PROVE FALSE
    <3>1. i \in 1 .. Len(entries) /\ i <= cursor
      BY <2>1, <2>2, LedgeredIn
    <3>2. entries[i][1][1] <= entries[cursor][1][1]
      BY <2>1, <2>2, <3>1 DEF LedgerInv
    <3> QED BY <2>1, <2>3, <2>4, <3>2
  <2> QED BY <1>2, <2>1, <2>2, <2>4 DEF BackInv
<1>3. RestoreInv /\ [Next]_vars =>
        /\ \A e \in Entities : dest[e] = "foreign" /\ dest'[e] = "absent" => outside' # outside
        /\ \A p \in Entities :
             dest[p] = "ours" /\ dest'[p] = "absent" /\ outside' = outside =>
               \A e \in Landed : Parent[e] = p /\ e # p => e \in residue
  BY <1>1, <1>2
<1> QED BY <1>3, RestoreCorrect, PTL DEF Spec, RollbackDiscipline, ForeignNeverDeleted, ChildrenTriedFirst

=============================================================================
