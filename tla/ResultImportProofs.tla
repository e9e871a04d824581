------------------------- MODULE ResultImportProofs -------------------------
(* Theorems about ResultImport for any images, artifacts, cells, batches   *)
(* and numbers of faults.  That a marked digest is complete holds as long  *)
(* as nothing is pushed while the importer resolves and pulls.             *)
EXTENDS ResultImport, TLAPS

----------------------------------------------------------------------------
(* The inductive invariant, by subject.                                    *)

(* What the importer works on at each place.  Only what it resolved is     *)
(* pulled and marked.                                                      *)
PhaseInv ==
    /\ pc \in {"idle", "done"} => resolved = NoDigests
    /\ pc \in {"idle", "resolve", "pull"} => written = NothingWritten
    /\ pc \in {"summaries", "raw", "record"} => \A i \in Picked : pulled[i] \in Digests
    /\ pc = "pull" => \A i \in Picked : i \in todo \/ pulled[i] \in Digests
    /\ pc = "record" => todo \subseteq Picked

(* How far the writes of a cell have come, and that they are there.  A cell *)
(* without a record comes to nothing but a failure.                        *)
Stored(i, c, k) == <<pulled[i], c, k>> \in bucket

SummaryInv ==
    pc = "summaries" =>
        \A i \in Picked, c \in Cells :
            /\ written[i][c] \in {0, 1}
            /\ ~Summarized(i, c) => written[i][c] = 0
            /\ written[i][c] = 1 => Stored(i, c, 0)

RawInv ==
    pc = "raw" =>
        \A i \in Picked, c \in Cells :
            /\ ~Recorded(i, c) => written[i][c] \in {0, Failed}
            /\ ~Summarized(i, c) => written[i][c] \in {0, AllWritten, Failed}
            /\ Summarized(i, c) => written[i][c] \in 1 .. Failed /\ Stored(i, c, 0)
            /\ Summarized(i, c) /\ written[i][c] # Failed =>
                  \A k \in 0 .. written[i][c] - 1 : Stored(i, c, k)

RecordInv ==
    pc = "record" => \A i \in Picked, c \in Cells :
                        ~Warm(c) => \A k \in Writes : Stored(i, c, k)

WriteInv == SummaryInv /\ RawInv /\ RecordInv

IInv == TypeOK /\ PhaseInv /\ WriteInv /\ SummariesComeFirst

(* While the references stay, what was pulled is what was resolved.        *)
SameInv ==
    /\ pc \in {"resolve", "pull"} => \A i \in Picked : resolved[i] = tag[i]
    /\ pc = "pull" => \A i \in Picked : i \in todo \/ pulled[i] = tag[i]
    /\ pc \in {"summaries", "raw", "record"} => \A i \in Picked : pulled[i] = resolved[i]

----------------------------------------------------------------------------
(* An importer that has ended knows nothing and has written nothing.       *)
LEMMA ExitPhase ==
    ASSUME NEW to \in {"idle", "done"}, Exit(to)
    PROVE  PhaseInv' /\ WriteInv' /\ SameInv'
BY DEF Exit, PhaseInv, WriteInv, SummaryInv, RawInv, RecordInv, SameInv, NoDigests,
       NothingWritten, Picked

LEMMA ExitType ==
    ASSUME TypeOK, NEW to \in {"idle", "done"}, Exit(to)
    PROVE  /\ pc' \in Places /\ todo' \subseteq Images
           /\ resolved' \in [Images -> Digests \cup {None}]
           /\ pulled' \in [Images -> Digests \cup {None}]
           /\ written' \in [Images -> [Cells -> 0 .. Failed]]
BY BatchesAssumption DEF Exit, Places, NoDigests, NothingWritten, Failed

LEMMA TypeStep ==
    ASSUME IInv, [Next]_vars
    PROVE  TypeOK'
<1> USE BatchesAssumption, FaultsAssumption DEF config, processVars
<1>0. TypeOK
  BY DEF IInv
<1>1. ASSUME NEW i \in Images, Resolve(i)
      PROVE  TypeOK'
  <2>1. CASE FailsWith(Fault)
    BY <1>0, <1>1, <2>1, ExitType DEF Resolve, FailsWith, Fault, TypeOK
  <2>2. CASE ~FailsWith(Fault)
    BY <1>0, <1>1, <2>2 DEF Resolve, Fault, TypeOK, Places
  <2>3. QED
    BY <2>1, <2>2
<1>2. ASSUME NEW i \in Images, Pull(i)
      PROVE  TypeOK'
  <2>1. CASE FailsWith(Fault)
    BY <1>0, <1>2, <2>1, ExitType DEF Pull, FailsWith, Fault, TypeOK
  <2>2. CASE ~FailsWith(Fault)
    BY <1>0, <1>2, <2>2 DEF Pull, TypeOK, Places
  <2>3. QED
    BY <2>1, <2>2
<1>3. ASSUME NEW i \in Images, Record(i)
      PROVE  TypeOK'
  <2>1. resolved[i] \in Digests
    BY <1>0, <1>3 DEF Record, IInv, PhaseInv, Picked, TypeOK
  <2>2. markers' \subseteq Digests \X BOOLEAN
    BY <1>0, <1>3, <2>1 DEF Record, TypeOK
  <2>3. CASE \E to \in {"idle", "done"} : Exit(to)
    BY <1>0, <1>3, <2>2, <2>3, ExitType DEF Record, FailsWith, Fault, TypeOK
  <2>4. CASE ~\E to \in {"idle", "done"} : Exit(to)
    BY <1>0, <1>3, <2>2, <2>4 DEF Record, FailsWith, TypeOK
  <2>5. QED
    BY <2>3, <2>4
<1>4. ASSUME NEW i \in Images, NEW c \in Cells, WriteSummary(i, c)
      PROVE  TypeOK'
  <2>1. bucket' \subseteq Digests \X Cells \X Writes
    BY <1>0, <1>4 DEF WriteSummary, Stores, IInv, PhaseInv, TypeOK, Writes
  <2>2. CASE Exit("idle")
    BY <1>0, <1>4, <2>1, <2>2, ExitType DEF WriteSummary, FailsWith, Fault, TypeOK
  <2>3. CASE ~Exit("idle")
    BY <1>0, <1>4, <2>1, <2>3 DEF WriteSummary, FailsWith, Advances, TypeOK, Failed
  <2>4. QED
    BY <2>2, <2>3
<1>5. ASSUME NEW i \in Images, NEW c \in Cells, OpenRaw(i, c)
      PROVE  TypeOK'
  BY <1>0, <1>5 DEF OpenRaw, Advances, TypeOK, Failed, AllWritten
<1>6. ASSUME NEW i \in Images, NEW c \in Cells, WriteRaw(i, c)
      PROVE  TypeOK'
  <2>1. written[i][c] \in 1 .. Batches
    BY <1>6 DEF WriteRaw
  <2>2. bucket' \subseteq Digests \X Cells \X Writes
    BY <1>0, <1>6, <2>1 DEF WriteRaw, Stores, IInv, PhaseInv, TypeOK, Writes
  <2>3. written' \in [Images -> [Cells -> 0 .. Failed]]
    <3>1. PICK to \in 0 .. Failed : Advances(i, c, to)
      BY <1>6, <2>1 DEF WriteRaw, Failed
    <3>2. QED
      BY <1>0, <3>1 DEF Advances, TypeOK
  <2>4. faults' \in 0 .. MaxFaults
    BY <1>0, <1>6 DEF WriteRaw, Fault, TypeOK
  <2>5. UNCHANGED <<tag, images, skip, pc, todo, resolved, pulled, skipped, markers>>
    BY <1>6 DEF WriteRaw
  <2>6. QED
    BY <1>0, <2>2, <2>3, <2>4, <2>5 DEF TypeOK
<1>7. CASE Start \/ SummariesWritten
  BY <1>0, <1>7 DEF Start, SummariesWritten, TypeOK, Places
<1>8. CASE AllResolved
  <2>1. CASE Exit("done")
    BY <1>0, <1>8, <2>1, ExitType DEF AllResolved, TypeOK
  <2>2. CASE ~Exit("done")
    BY <1>0, <1>8, <2>2 DEF AllResolved, TypeOK, Places, Picked
  <2>3. QED
    BY <2>1, <2>2
<1>9. CASE RawWritten
  <2>1. CASE Exit("idle")
    BY <1>0, <1>9, <2>1, ExitType DEF RawWritten, TypeOK
  <2>2. CASE ~Exit("idle")
    BY <1>0, <1>9, <2>2 DEF RawWritten, TypeOK, Places, Picked
  <2>3. QED
    BY <2>1, <2>2
<1>10. CASE Crash
  BY <1>0, <1>10, ExitType DEF Crash, FailsWith, Fault, TypeOK
<1>11. CASE Redeploy
  BY <1>0, <1>11, ExitType DEF Redeploy, TypeOK
<1>12. ASSUME NEW i \in Images, Retag(i)
       PROVE  TypeOK'
  BY <1>0, <1>12 DEF Retag, TypeOK
<1>13. CASE UNCHANGED vars
  BY <1>0, <1>13 DEF vars, TypeOK
<1>14. QED
  BY <1>1, <1>2, <1>3, <1>4, <1>5, <1>6, <1>7, <1>8, <1>9, <1>10, <1>11, <1>12, <1>13
     DEF Next, Importer

----------------------------------------------------------------------------
(* The importer goes on only with what it pulled, and its last place knows *)
(* that every write came through.                                          *)
LEMMA PhaseStep ==
    ASSUME IInv, [Next]_vars
    PROVE  PhaseInv'
<1> USE DEF config, processVars
<1>0. TypeOK /\ PhaseInv
  BY DEF IInv
<1>1. CASE \E to \in {"idle", "done"} : Exit(to)
  BY <1>1, ExitPhase
<1> USE DEF PhaseInv, Picked
<1>2. ASSUME NEW i \in Images, Resolve(i), ~Exit("idle")
      PROVE  PhaseInv'
  BY <1>0, <1>2 DEF Resolve, FailsWith
<1>3. ASSUME NEW i \in Images, Pull(i), ~Exit("idle")
      PROVE  PhaseInv'
  <2>1. pulled' = [pulled EXCEPT ![i] = tag[i]] /\ tag[i] \in Digests
    BY <1>0, <1>3 DEF Pull, FailsWith, TypeOK
  <2>2. /\ i \in todo /\ todo' = todo \ {i} /\ pc = "pull"
        /\ pc' = IF todo = {i} THEN "summaries" ELSE pc
        /\ UNCHANGED <<resolved, written>>
    BY <1>3 DEF Pull, FailsWith
  <2>3. \A j \in Images : pulled'[j] = IF j = i THEN tag[i] ELSE pulled[j]
    BY <1>0, <2>1 DEF TypeOK
  <2>4. QED
    BY <1>0, <2>1, <2>2, <2>3
<1>4. ASSUME NEW i \in Images, Record(i), ~Exit("idle"), ~Exit("done")
      PROVE  PhaseInv'
  BY <1>0, <1>4 DEF Record, FailsWith
<1>5. ASSUME NEW i \in Images, NEW c \in Cells,
             \/ WriteSummary(i, c) /\ ~Exit("idle")
             \/ OpenRaw(i, c)
             \/ WriteRaw(i, c)
      PROVE  PhaseInv'
  <2>1. pc \in {"summaries", "raw"} /\ UNCHANGED <<pc, todo, resolved, pulled>>
    BY <1>5 DEF WriteSummary, OpenRaw, WriteRaw, FailsWith
  <2>2. QED
    BY <1>0, <2>1
<1>6. CASE Start \/ SummariesWritten
  BY <1>0, <1>6 DEF Start, SummariesWritten, NoDigests
<1>7. CASE AllResolved /\ ~Exit("done")
  BY <1>0, <1>7 DEF AllResolved
<1>8. CASE RawWritten /\ ~Exit("idle")
  BY <1>0, <1>8 DEF RawWritten
<1>9. CASE UNCHANGED vars \/ \E i \in Images : Retag(i)
  BY <1>0, <1>9 DEF vars, Retag
<1>10. QED
  BY <1>1, <1>2, <1>3, <1>4, <1>5, <1>6, <1>7, <1>8, <1>9
     DEF Next, Importer, Crash, Redeploy, FailsWith

----------------------------------------------------------------------------
(* A write advances one cell of one image and takes nothing from the       *)
(* bucket.                                                                 *)
LEMMA AdvanceOne ==
    ASSUME TypeOK, NEW i \in Images, NEW c \in Cells, NEW to, Advances(i, c, to)
    PROVE  \A j \in Images, e \in Cells :
              written'[j][e] = IF j = i /\ e = c THEN to ELSE written[j][e]
BY DEF TypeOK, Advances

LEMMA BucketGrows ==
    ASSUME [Next]_vars
    PROVE  bucket \subseteq bucket'
BY DEF Next, Importer, Start, AllResolved, SummariesWritten, RawWritten, Resolve, Pull, Record,
       WriteSummary, OpenRaw, WriteRaw, Crash, Redeploy, Retag, Stores, vars, config, processVars

LEMMA WriteStep ==
    ASSUME IInv, [Next]_vars
    PROVE  WriteInv'
<1> USE BatchesAssumption DEF config, processVars
<1>0. TypeOK /\ PhaseInv /\ WriteInv /\ bucket \subseteq bucket'
  BY BucketGrows DEF IInv
<1>1. CASE \E to \in {"idle", "done"} : Exit(to)
  BY <1>1, ExitPhase
<1>2. ASSUME NEW i \in Images, Resolve(i) \/ Pull(i), ~Exit("idle")
      PROVE  WriteInv'
  <2>1. /\ pc' \in {"resolve", "pull", "summaries"} /\ written' = NothingWritten
    BY <1>0, <1>2 DEF Resolve, Pull, FailsWith, PhaseInv
  <2>2. \A j \in Images, e \in Cells : written'[j][e] = 0
    BY <2>1 DEF NothingWritten
  <2>3. QED
    BY <2>1, <2>2 DEF WriteInv, SummaryInv, RawInv, RecordInv, Picked
<1>3. ASSUME NEW i \in Images, Record(i), ~Exit("idle"), ~Exit("done")
      PROVE  WriteInv'
  BY <1>0, <1>3
     DEF Record, FailsWith, WriteInv, SummaryInv, RawInv, RecordInv, Picked, Warm, Recorded, Summarized, Stored
<1>4. ASSUME NEW i \in Images, NEW c \in Cells, WriteSummary(i, c), ~Exit("idle")
      PROVE  WriteInv'
  <2>1. /\ pc = "summaries" /\ Summarized(i, c) /\ written[i][c] = 0
        /\ Stores(i, c) /\ Advances(i, c, 1)
        /\ UNCHANGED <<pc, skip, resolved, pulled>>
    BY <1>4 DEF WriteSummary, FailsWith
  <2>2. Stored(i, c, 0)'
    BY <2>1 DEF Stores, Stored
  <2>3. \A j \in Images, e \in Cells :
            written'[j][e] = IF j = i /\ e = c THEN 1 ELSE written[j][e]
    BY <1>0, <2>1, AdvanceOne
  <2>4. SummaryInv'
    BY <1>0, <2>1, <2>2, <2>3 DEF WriteInv, SummaryInv, Picked, Warm, Recorded, Summarized, Stored
  <2>5. QED
    BY <2>1, <2>4 DEF WriteInv, RawInv, RecordInv
<1>5. ASSUME NEW i \in Images, NEW c \in Cells, OpenRaw(i, c)
      PROVE  WriteInv'
  <2>1. /\ pc = "raw" /\ ~Summarized(i, c) /\ UNCHANGED <<pc, skip, resolved, pulled, bucket>>
        /\ \E to \in {AllWritten, Failed} :
              Advances(i, c, to) /\ (~Recorded(i, c) => to = Failed)
    BY <1>5 DEF OpenRaw
  <2>2. PICK to \in {AllWritten, Failed} :
            /\ ~Recorded(i, c) => to = Failed
            /\ \A j \in Images, e \in Cells :
                  written'[j][e] = IF j = i /\ e = c THEN to ELSE written[j][e]
    BY <1>0, <2>1, AdvanceOne
  <2>3. RawInv'
    BY <1>0, <2>1, <2>2 DEF WriteInv, RawInv, Picked, Warm, Recorded, Summarized, Stored
  <2>4. QED
    BY <2>1, <2>3 DEF WriteInv, SummaryInv, RecordInv
<1>6. ASSUME NEW i \in Images, NEW c \in Cells, WriteRaw(i, c)
      PROVE  WriteInv'
  <2>1. /\ pc = "raw" /\ i \in Picked /\ written[i][c] \in 1 .. Batches
        /\ UNCHANGED <<pc, skip, resolved, pulled>>
    BY <1>6 DEF WriteRaw
  <2>2. Summarized(i, c)
    BY <1>0, <2>1 DEF WriteInv, RawInv, AllWritten, Failed
  <2>3. /\ Stored(i, c, 0)
        /\ \A k \in 0 .. written[i][c] - 1 : Stored(i, c, k)
    BY <1>0, <2>1, <2>2 DEF WriteInv, RawInv, Failed
  <2>4. CASE Advances(i, c, Failed)
    <3>1. \A j \in Images, e \in Cells :
              written'[j][e] = IF j = i /\ e = c THEN Failed ELSE written[j][e]
      BY <1>0, <2>4, AdvanceOne
    <3>2. RawInv'
      BY <1>0, <2>1, <2>2, <2>3, <3>1 DEF WriteInv, RawInv, Picked, Warm, Recorded, Summarized, Stored, Failed
    <3>3. QED
      BY <2>1, <3>2 DEF WriteInv, SummaryInv, RecordInv
  <2>5. CASE Stores(i, c) /\ Advances(i, c, written[i][c] + 1)
    <3>1. \A j \in Images, e \in Cells :
              written'[j][e] = IF j = i /\ e = c THEN written[i][c] + 1 ELSE written[j][e]
      BY <1>0, <2>5, AdvanceOne
    <3>2. \A k \in 0 .. written[i][c] : Stored(i, c, k)'
      BY <1>0, <2>1, <2>3, <2>5 DEF Stores, Stored
    <3>3. ASSUME NEW j \in Picked', NEW e \in Cells
          PROVE  /\ ~Recorded(j, e)' => written'[j][e] \in {0, Failed}
                 /\ ~Summarized(j, e)' => written'[j][e] \in {0, AllWritten, Failed}
                 /\ Summarized(j, e)' => written'[j][e] \in 1 .. Failed /\ Stored(j, e, 0)'
                 /\ Summarized(j, e)' /\ written'[j][e] # Failed =>
                       \A k \in 0 .. written'[j][e] - 1 : Stored(j, e, k)'
      <4>1. /\ j \in Picked /\ j \in Images
            /\ (Recorded(j, e)' <=> Recorded(j, e))
            /\ (Summarized(j, e)' <=> Summarized(j, e))
            /\ Recorded(i, c)
        BY <2>1, <2>2 DEF Picked, Warm, Recorded, Summarized
      <4>2. CASE j = i /\ e = c
        BY <2>1, <2>2, <3>1, <3>2, <4>1, <4>2 DEF Failed
      <4>3. CASE ~(j = i /\ e = c)
        BY <1>0, <2>1, <3>1, <4>1, <4>3 DEF WriteInv, RawInv, Stored
      <4>4. QED
        BY <4>2, <4>3
    <3>4. QED
      BY <2>1, <3>3 DEF WriteInv, SummaryInv, RawInv, RecordInv
  <2>6. QED
    BY <1>6, <2>4, <2>5 DEF WriteRaw
<1>7. CASE Start
  BY <1>7 DEF Start, WriteInv, SummaryInv, RawInv, RecordInv
<1>8. CASE SummariesWritten
  <2>1. /\ pc = "summaries" /\ pc' = "raw" /\ UNCHANGED <<skip, resolved, pulled, written, bucket>>
        /\ \A i \in Picked, c \in Cells : Summarized(i, c) => written[i][c] = 1
    BY <1>8 DEF SummariesWritten
  <2>2. RawInv'
    BY <1>0, <2>1 DEF WriteInv, SummaryInv, RawInv, Picked, Warm, Recorded, Summarized, Stored, Failed, AllWritten
  <2>3. QED
    BY <2>1, <2>2 DEF WriteInv, SummaryInv, RecordInv
<1>9. CASE AllResolved /\ ~Exit("done")
  BY <1>9 DEF AllResolved, WriteInv, SummaryInv, RawInv, RecordInv
<1>10. CASE RawWritten /\ ~Exit("idle")
  <2>1. /\ pc = "raw" /\ pc' = "record" /\ UNCHANGED <<skip, resolved, pulled, bucket>>
        /\ \A i \in Picked, c \in Cells : written[i][c] = AllWritten
    BY <1>10 DEF RawWritten
  <2>2. ASSUME NEW i \in Picked, NEW c \in Cells, ~Warm(c), NEW k \in Writes
        PROVE  Stored(i, c, k)
    <3>1. /\ written[i][c] = Batches + 1 /\ written[i][c] # Failed
          /\ k \in 0 .. written[i][c] - 1
      BY <2>1, <2>2 DEF Failed, AllWritten, Writes
    <3>2. Summarized(i, c)
      BY <1>0, <2>1, <2>2, <3>1 DEF WriteInv, RawInv, Summarized
    <3>3. QED
      BY <1>0, <2>1, <3>1, <3>2 DEF WriteInv, RawInv
  <2>3. RecordInv'
    BY <2>1, <2>2 DEF RecordInv, Picked, Warm, Recorded, Summarized, Stored
  <2>4. QED
    BY <2>1, <2>3 DEF WriteInv, SummaryInv, RawInv
<1>11. CASE UNCHANGED vars \/ \E i \in Images : Retag(i)
  BY <1>0, <1>11
     DEF vars, Retag, WriteInv, SummaryInv, RawInv, RecordInv, Picked, Warm, Recorded, Summarized, Stored
<1>12. QED
  BY <1>1, <1>2, <1>3, <1>4, <1>5, <1>6, <1>7, <1>8, <1>9, <1>10, <1>11
     DEF Next, Importer, Crash, Redeploy, FailsWith

----------------------------------------------------------------------------
(* A raw point is written only where the summaries of its artifact are.    *)
LEMMA SummariesStep ==
    ASSUME IInv, [Next]_vars
    PROVE  SummariesComeFirst'
<1> USE DEF config, processVars
<1>1. CASE bucket' = bucket
  BY <1>1 DEF IInv, SummariesComeFirst
<1>2. ASSUME NEW i \in Images, NEW c \in Cells, WriteSummary(i, c), bucket' # bucket
      PROVE  SummariesComeFirst'
  <2>1. bucket' = bucket \cup {<<pulled[i], c, 0>>}
    BY <1>2 DEF WriteSummary, Stores
  <2>2. QED
    BY <2>1 DEF IInv, SummariesComeFirst
<1>3. ASSUME NEW i \in Images, NEW c \in Cells, WriteRaw(i, c), bucket' # bucket
      PROVE  SummariesComeFirst'
  <2>1. /\ bucket' = bucket \cup {<<pulled[i], c, written[i][c]>>}
        /\ pc = "raw" /\ i \in Picked
    BY <1>3 DEF WriteRaw, Stores
  <2>2. /\ <<pulled[i], c, 0>> \in bucket
        /\ \A e \in Cells \ WarmCells :
              <<pulled[i], e>> \in NoRecord \/ <<pulled[i], e, 0>> \in bucket
    <3>1. Summarized(i, c)
      BY <1>3, <2>1, BatchesAssumption DEF WriteRaw, IInv, WriteInv, RawInv, AllWritten, Failed
    <3>2. QED
      BY <2>1, <3>1 DEF IInv, WriteInv, RawInv, Warm, Recorded, Summarized, Stored
  <2>3. QED
    BY <2>1, <2>2 DEF IInv, SummariesComeFirst
<1>4. QED
  BY <1>1, <1>2, <1>3
     DEF Next, Importer, Start, AllResolved, SummariesWritten, RawWritten, Resolve, Pull, Record,
         OpenRaw, Crash, Redeploy, Retag, vars

(* The invariant holds of every behaviour of the importer, whatever fails, *)
(* is killed, redeployed or pushed meanwhile.                              *)
THEOREM Invariance == Spec => []IInv
<1>1. Init => IInv
  BY BatchesAssumption, FaultsAssumption
     DEF Init, IInv, TypeOK, Places, NoDigests, NothingWritten, Failed, PhaseInv, Picked,
         WriteInv, SummaryInv, RawInv, RecordInv, SummariesComeFirst
<1>2. IInv /\ [Next]_vars => IInv'
  BY TypeStep, PhaseStep, WriteStep, SummariesStep DEF IInv
<1>3. QED
  BY <1>1, <1>2, PTL DEF Spec

(* Type correctness of the importer.                                       *)
THEOREM TypeCorrect == Spec => []TypeOK
<1>1. IInv => TypeOK
  BY DEF IInv
<1>2. QED
  BY <1>1, Invariance, PTL

(* A raw point appears only after the summary of its own cell and of every *)
(* measured cell the artifact has a record of; an artifact that lacks a    *)
(* record has its other cells written, and no point of that cell.          *)
THEOREM SummariesFirst == Spec => []SummariesComeFirst
<1>1. IInv => SummariesComeFirst
  BY DEF IInv
<1>2. QED
  BY <1>1, Invariance, PTL

(* No import takes a point out of the bucket, and none that is to skip the *)
(* warm-up adds a point of it.                                             *)
THEOREM BucketIsAsAsked == Spec => BucketGrowsAsAsked
<1> DEFINE Grows == /\ bucket \subseteq bucket'
                    /\ \A p \in bucket' \ bucket : skip => p[2] \notin WarmCells
<1>1. IInv /\ [Next]_vars => [Grows]_vars
  <2>1. SUFFICES ASSUME IInv, [Next]_vars PROVE Grows
    OBVIOUS
  <2>2. bucket \subseteq bucket'
    BY <2>1, BucketGrows
  <2>3. ASSUME NEW i \in Images, NEW c \in Cells, WriteSummary(i, c) \/ WriteRaw(i, c)
        PROVE  Grows
    <3>1. ~Warm(c)
      BY <2>1, <2>3, BatchesAssumption
         DEF WriteSummary, WriteRaw, Summarized, IInv, WriteInv, RawInv, AllWritten, Failed
    <3>2. \A p \in bucket' \ bucket : p[2] = c
      BY <2>3 DEF WriteSummary, WriteRaw, Stores
    <3>3. QED
      BY <2>2, <3>1, <3>2 DEF Warm
  <2>4. CASE bucket' = bucket
    BY <2>4
  <2>5. QED
    BY <2>1, <2>3, <2>4
       DEF Next, Importer, Start, AllResolved, SummariesWritten, RawWritten, Resolve, Pull,
           Record, OpenRaw, Crash, Redeploy, Retag, vars
<1>2. QED
  BY <1>1, Invariance, PTL DEF Spec, BucketGrowsAsAsked

----------------------------------------------------------------------------
(* The importer resolves a reference and later pulls the reference, not    *)
(* the digest: between the two nothing may be pushed.                      *)
QuietWhilePulling == RetagAt \cap {"resolve", "pull"} = {}

LEMMA SameStep ==
    ASSUME QuietWhilePulling, IInv, SameInv, [Next]_vars
    PROVE  SameInv'
<1> USE DEF config, processVars
<1>0. TypeOK /\ PhaseInv
  BY DEF IInv
<1>1. CASE \E to \in {"idle", "done"} : Exit(to)
  BY <1>1, ExitPhase
<1>2. ASSUME NEW i \in Images, Resolve(i), ~Exit("idle")
      PROVE  SameInv'
  <2>1. /\ pc = "resolve" /\ pc' = "resolve" /\ UNCHANGED tag
        /\ resolved' = resolved \/ resolved' = [resolved EXCEPT ![i] = tag[i]]
    BY <1>2 DEF Resolve, FailsWith
  <2>2. QED
    BY <1>0, <2>1 DEF SameInv, Picked, TypeOK
<1>3. ASSUME NEW i \in Images, Pull(i), ~Exit("idle")
      PROVE  SameInv'
  <2>1. /\ pulled' = [pulled EXCEPT ![i] = tag[i]]
        /\ todo' = todo \ {i} /\ pc = "pull"
        /\ pc' = IF todo = {i} THEN "summaries" ELSE pc
        /\ UNCHANGED <<tag, resolved>>
    BY <1>3 DEF Pull, FailsWith
  <2>2. \A j \in Images : pulled'[j] = IF j = i THEN tag[i] ELSE pulled[j]
    BY <1>0, <2>1 DEF TypeOK
  <2>3. QED
    BY <2>1, <2>2 DEF SameInv, Picked
<1>4. ASSUME NEW i \in Images, Record(i), ~Exit("idle"), ~Exit("done")
      PROVE  SameInv'
  BY <1>4 DEF Record, FailsWith, SameInv, Picked
<1>5. ASSUME NEW i \in Images, NEW c \in Cells,
             \/ WriteSummary(i, c) /\ ~Exit("idle")
             \/ OpenRaw(i, c)
             \/ WriteRaw(i, c)
      PROVE  SameInv'
  <2>1. pc \in {"summaries", "raw"} /\ UNCHANGED <<pc, resolved, pulled>>
    BY <1>5 DEF WriteSummary, OpenRaw, WriteRaw, FailsWith
  <2>2. QED
    BY <2>1 DEF SameInv, Picked
<1>6. CASE Start \/ SummariesWritten
  BY <1>0, <1>6 DEF Start, SummariesWritten, PhaseInv, NoDigests, SameInv, Picked
<1>7. CASE AllResolved /\ ~Exit("done")
  BY <1>7 DEF AllResolved, SameInv, Picked
<1>8. CASE RawWritten /\ ~Exit("idle")
  BY <1>8 DEF RawWritten, SameInv, Picked
<1>9. ASSUME NEW i \in Images, Retag(i)
      PROVE  SameInv'
  BY <1>9 DEF Retag, QuietWhilePulling, SameInv, Picked
<1>10. CASE UNCHANGED vars
  BY <1>10 DEF vars, SameInv, Picked
<1>11. QED
  BY <1>1, <1>2, <1>3, <1>4, <1>5, <1>6, <1>7, <1>8, <1>9, <1>10
     DEF Next, Importer, Crash, Redeploy, FailsWith

LEMMA MarkedStep ==
    ASSUME IInv, SameInv, MarkedIsComplete, [Next]_vars
    PROVE  MarkedIsComplete'
<1> USE DEF config, processVars
<1>1. bucket \subseteq bucket'
  BY BucketGrows
<1>2. CASE markers' = markers
  BY <1>1, <1>2 DEF MarkedIsComplete
<1>3. ASSUME NEW i \in Images, Record(i), markers' # markers
      PROVE  MarkedIsComplete'
  <2>1. /\ pc = "record" /\ i \in Picked
        /\ markers' = markers \cup {<<resolved[i], skip>>}
    BY <1>3 DEF Record, IInv, PhaseInv
  <2>2. \A c \in Cells : ~Warm(c) => \A k \in Writes : <<resolved[i], c, k>> \in bucket
    BY <2>1 DEF IInv, WriteInv, RecordInv, Stored, SameInv
  <2>3. Points(resolved[i], skip) \subseteq bucket
    BY <2>2 DEF Points, Warm
  <2>4. QED
    BY <1>1, <2>1, <2>3 DEF MarkedIsComplete
<1>4. QED
  BY <1>2, <1>3
     DEF Next, Importer, Start, AllResolved, SummariesWritten, RawWritten, Resolve, Pull,
         WriteSummary, OpenRaw, WriteRaw, Crash, Redeploy, Retag, vars

(* An import that is later skipped was complete: whatever crashed, failed  *)
(* or was refused before, a digest has a marker only when every selected   *)
(* point of it is in the bucket - provided no reference is pushed again    *)
(* while the importer resolves and pulls.                                  *)
THEOREM MarkedComplete ==
    ASSUME QuietWhilePulling
    PROVE  Spec => []MarkedIsComplete
<1>1. Init => SameInv /\ MarkedIsComplete
  BY DEF Init, SameInv, MarkedIsComplete
<1>2. IInv /\ IInv' /\ SameInv /\ MarkedIsComplete /\ [Next]_vars
        => SameInv' /\ MarkedIsComplete'
  BY SameStep, MarkedStep
<1>3. QED
  BY <1>1, <1>2, Invariance, PTL DEF Spec

=============================================================================
