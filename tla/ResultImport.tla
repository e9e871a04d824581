---------------------------- MODULE ResultImport ----------------------------
(***************************************************************************)
(* The importer of the analysis stack: import-results.sh resolves each     *)
(* artifact image to a digest, leaves out the digests InfluxDB has a       *)
(* marker of, pulls the others, runs import-results.py over them and       *)
(* writes the markers.  The Python part writes one summary point per cell, *)
(* then the raw points of all cells, cell by cell in a pool of processes.  *)
(*                                                                         *)
(* It is the init container of a Kubernetes pod: killed at any moment, and *)
(* started again until it succeeds; a new deployment may change the list   *)
(* of images and IMPORT_SKIP_WARMUP.  Points already written stay.  A      *)
(* write may be applied although it is reported as failed.                 *)
(*                                                                         *)
(* InfluxDB identifies a point by measurement, tags and timestamp, so the  *)
(* bucket is a set and a repeated write changes nothing.                   *)
(***************************************************************************)
EXTENDS Naturals

CONSTANTS
    Images,      \* image references, tags in a registry
    Digests,     \* contents they may stand for
    Cells,       \* executions recorded in each artifact
    WarmCells,   \* those marked as warm-up
    Batches,     \* raw writes per cell (of 25000 points)
    NoRecord,    \* <<digest, cell>> with a raw file and no record: k6 left no
                 \* summary and the runner passed over it (bench-runner.sh:374)
    BadRecords,  \* <<digest, cell>> whose record has no valid TLS metadata
    BadRaw,      \* <<digest, cell>> whose raw points contradict the record
    RetagAt,     \* where the importer may be while a reference is pushed again
    MaxFaults,   \* bound: failures of the network, InfluxDB or the pod
    None

(* Where the importer can be.                                              *)
Places == {"idle", "resolve", "pull", "summaries", "raw", "record", "done"}

ASSUME WarmAssumption == WarmCells \subseteq Cells
ASSUME BatchesAssumption == Batches \in Nat \ {0}
ASSUME BadAssumption == NoRecord \cup BadRecords \cup BadRaw \subseteq Digests \X Cells
ASSUME FaultsAssumption == MaxFaults \in Nat
ASSUME RetagAssumption == RetagAt \subseteq Places
ASSUME NoDigestAssumption == None \notin Digests

VARIABLES
    tag,        \* what an image reference stands for in the registry
    images,     \* the deployment's list of artifact images
    skip,       \* the deployment's IMPORT_SKIP_WARMUP
    pc,         \* where the importer is
    todo,       \* images its current loop has still to visit
    resolved,   \* digest an image was resolved to, or None
    pulled,     \* digest of the content pulled for an image, or None
    written,    \* writes done for a cell of an image, or Failed
    skipped,    \* <<digest, skip>> ever reported as already imported
    bucket,     \* points in InfluxDB
    markers,    \* wtt_import_artifact points, <<digest, skip>>
    faults      \* failures so far

config == <<images, skip>>
processVars == <<pc, todo, resolved, pulled, written>>
vars == <<tag, config, processVars, skipped, bucket, markers, faults>>

(* The writes of a cell: number 0 is its summary, the others are raw.      *)
Writes == 0 .. Batches
AllWritten == Batches + 1
Failed == Batches + 2

TypeOK ==
    /\ tag \in [Images -> Digests]
    /\ images \subseteq Images
    /\ skip \in BOOLEAN
    /\ pc \in Places
    /\ todo \subseteq Images
    /\ resolved \in [Images -> Digests \cup {None}]
    /\ pulled \in [Images -> Digests \cup {None}]
    /\ written \in [Images -> [Cells -> 0 .. Failed]]
    /\ skipped \subseteq Digests \X BOOLEAN
    /\ bucket \subseteq Digests \X Cells \X Writes
    /\ markers \subseteq Digests \X BOOLEAN
    /\ faults \in 0 .. MaxFaults

NoDigests == [i \in Images |-> None]
NothingWritten == [i \in Images |-> [c \in Cells |-> 0]]

Init ==
    /\ tag \in [Images -> Digests]
    /\ images \in SUBSET Images \ {{}}
    /\ skip \in BOOLEAN
    /\ pc = "idle"
    /\ todo = {}
    /\ resolved = NoDigests
    /\ pulled = NoDigests
    /\ written = NothingWritten
    /\ skipped = {}
    /\ bucket = {}
    /\ markers = {}
    /\ faults = 0

----------------------------------------------------------------------------
(* The process ends, and with it the directory of what it pulled.          *)
Exit(to) ==
    /\ pc' = to
    /\ todo' = {}
    /\ resolved' = NoDigests
    /\ pulled' = NoDigests
    /\ written' = NothingWritten

Fault == faults < MaxFaults /\ faults' = faults + 1

(* set -e: a failed command ends the importer, and the pod starts another. *)
FailsWith(fault) == fault /\ Exit("idle")

Picked == {i \in Images : resolved[i] # None}

(* The script forgets to hand --skip-warmup on.                            *)
WarmIgnored(c) == FALSE

Warm(c) == skip /\ c \in WarmCells

----------------------------------------------------------------------------
(* import-results.sh.                                                      *)

Start ==
    /\ pc = "idle"
    /\ pc' = "resolve"
    /\ todo' = images
    /\ UNCHANGED <<tag, config, resolved, pulled, written, skipped, bucket, markers, faults>>

(* Lines 115 to 132: a marked digest is left out.  Which marker counts     *)
(* depends on whether warm-up points are wanted.  A query that fails says  *)
(* "not imported".                                                         *)
MarkedEither(d) == \E s \in BOOLEAN : <<d, s>> \in markers

Marked(d) == <<d, skip>> \in markers

Resolve(i) ==
    /\ pc = "resolve" /\ i \in todo
    /\ \/ /\ Marked(tag[i])
          /\ skipped' = skipped \cup {<<tag[i], skip>>}
          /\ todo' = todo \ {i}
          /\ UNCHANGED <<pc, resolved, pulled, written, faults>>
       \/ /\ IF Marked(tag[i]) THEN Fault ELSE UNCHANGED faults
          /\ resolved' = [resolved EXCEPT ![i] = tag[i]]
          /\ todo' = todo \ {i}
          /\ UNCHANGED <<pc, pulled, written, skipped>>
       \/ FailsWith(Fault) /\ UNCHANGED skipped
    /\ UNCHANGED <<tag, config, bucket, markers>>

AllResolved ==
    /\ pc = "resolve" /\ todo = {}
    /\ \/ Picked = {} /\ Exit("done")
       \/ /\ Picked # {}
          /\ pc' = "pull" /\ todo' = Picked
          /\ UNCHANGED <<resolved, pulled, written>>
    /\ UNCHANGED <<tag, config, skipped, bucket, markers, faults>>

(* Lines 134 to 154: the reference is pulled, not the digest.              *)
Pull(i) ==
    /\ pc = "pull" /\ i \in todo
    /\ \/ /\ pulled' = [pulled EXCEPT ![i] = tag[i]]
          /\ todo' = todo \ {i}
          /\ pc' = IF todo = {i} THEN "summaries" ELSE pc
          /\ UNCHANGED <<resolved, written, faults>>
       \/ FailsWith(Fault)
    /\ UNCHANGED <<tag, config, skipped, bucket, markers>>

----------------------------------------------------------------------------
(* import-results.py.  The next write for a cell of a pulled artifact.     *)

Stores(i, c) == bucket' = bucket \cup {<<pulled[i], c, written[i][c]>>}

Advances(i, c, to) == written' = [written EXCEPT ![i][c] = to]

Recorded(i, c) == <<pulled[i], c>> \notin NoRecord

(* summary_records(): the records there are, without those to be skipped.  *)
(* A raw file without a record is not missed here.                         *)
Summarized(i, c) == Recorded(i, c) /\ ~Warm(c)

(* write_summaries(): one point per selected record; an invalid record, or *)
(* a failed write, is fatal.                                               *)
WriteSummary(i, c) ==
    /\ pc = "summaries"
    /\ i \in Picked /\ Summarized(i, c) /\ written[i][c] = 0
    /\ IF <<pulled[i], c>> \in BadRecords
       THEN FailsWith(UNCHANGED faults) /\ UNCHANGED bucket
       ELSE \/ /\ Stores(i, c) /\ Advances(i, c, 1)
               /\ UNCHANGED <<pc, todo, resolved, pulled, faults>>
            \/ FailsWith(Fault) /\ (Stores(i, c) \/ UNCHANGED bucket)
    /\ UNCHANGED <<tag, config, skipped, markers>>

(* Were the two parts of main() swapped or run side by side.               *)
RawBesideSummaries ==
    /\ pc = "summaries"
    /\ pc' = "raw"
    /\ UNCHANGED <<tag, config, todo, resolved, pulled, written, skipped, bucket, markers,
                   faults>>

SummariesWritten ==
    /\ pc = "summaries"
    /\ \A i \in Picked, c \in Cells : Summarized(i, c) => written[i][c] = 1
    /\ pc' = "raw"
    /\ UNCHANGED <<tag, config, todo, resolved, pulled, written, skipped, bucket, markers,
                   faults>>

(* write_raw_file(), in one process of the pool, for each raw file: it     *)
(* raises where there is no record, and validates the record before it is  *)
(* seen to be warm-up.  A contradicting point raises when its batch is     *)
(* being filled, after earlier batches were written.                       *)
OpenRaw(i, c) ==
    /\ pc = "raw"
    /\ i \in Picked /\ ~Summarized(i, c) /\ written[i][c] = 0
    /\ Advances(i, c, IF Recorded(i, c) /\ <<pulled[i], c>> \notin BadRecords
                      THEN AllWritten ELSE Failed)
    /\ UNCHANGED <<tag, config, pc, todo, resolved, pulled, skipped, bucket, markers, faults>>

WriteRawPastEnd(i, c) ==
    /\ pc = "raw"
    /\ i \in Picked /\ written[i][c] \in 1 .. AllWritten
    /\ \/ /\ <<pulled[i], c>> \in BadRaw /\ written[i][c] = Batches
          /\ Advances(i, c, Failed)
          /\ UNCHANGED <<bucket, faults>>
       \/ /\ ~(<<pulled[i], c>> \in BadRaw /\ written[i][c] = Batches)
          /\ Stores(i, c) /\ Advances(i, c, written[i][c] + 1)
          /\ UNCHANGED faults
       \/ /\ Fault
          /\ Stores(i, c) \/ UNCHANGED bucket
          /\ Advances(i, c, Failed)
    /\ UNCHANGED <<tag, config, pc, todo, resolved, pulled, skipped, markers>>

WriteRaw(i, c) ==
    /\ pc = "raw"
    /\ i \in Picked /\ written[i][c] \in 1 .. Batches
    /\ \/ /\ <<pulled[i], c>> \in BadRaw /\ written[i][c] = Batches
          /\ Advances(i, c, Failed)
          /\ UNCHANGED <<bucket, faults>>
       \/ /\ ~(<<pulled[i], c>> \in BadRaw /\ written[i][c] = Batches)
          /\ Stores(i, c) /\ Advances(i, c, written[i][c] + 1)
          /\ UNCHANGED faults
       \/ /\ Fault
          /\ Stores(i, c) \/ UNCHANGED bucket
          /\ Advances(i, c, Failed)
    /\ UNCHANGED <<tag, config, pc, todo, resolved, pulled, skipped, markers>>

(* The executor waits for every file before main() raises or returns.      *)
RawWrittenDespiteFailure ==
    /\ pc = "raw"
    /\ \A i \in Picked, c \in Cells : written[i][c] \in {AllWritten, Failed}
    /\ pc' = "record" /\ todo' = Picked
    /\ UNCHANGED <<tag, config, resolved, pulled, written, skipped, bucket, markers, faults>>

RawWritten ==
    /\ pc = "raw"
    /\ \A i \in Picked, c \in Cells : written[i][c] \in {AllWritten, Failed}
    /\ \/ /\ \E i \in Picked, c \in Cells : written[i][c] = Failed
          /\ Exit("idle")
       \/ /\ \A i \in Picked, c \in Cells : written[i][c] = AllWritten
          /\ pc' = "record" /\ todo' = Picked
          /\ UNCHANGED <<resolved, pulled, written>>
    /\ UNCHANGED <<tag, config, skipped, bucket, markers, faults>>

----------------------------------------------------------------------------
(* Lines 172 to 177: the markers, of the digests that were resolved.       *)
Record(i) ==
    /\ pc = "record" /\ i \in todo
    /\ LET marks == markers' = markers \cup {<<resolved[i], skip>>}
       IN  \/ /\ marks
              /\ IF todo = {i} THEN Exit("done")
                 ELSE todo' = todo \ {i} /\ UNCHANGED <<pc, resolved, pulled, written>>
              /\ UNCHANGED faults
           \/ FailsWith(Fault) /\ (marks \/ UNCHANGED markers)
    /\ UNCHANGED <<tag, config, skipped, bucket>>

----------------------------------------------------------------------------
(* The pod is killed.                                                      *)
Crash ==
    /\ pc \notin {"idle", "done"}
    /\ FailsWith(Fault)
    /\ UNCHANGED <<tag, config, skipped, bucket, markers>>

(* A new deployment replaces the pod, whatever it is doing.                *)
Redeploy ==
    /\ images' \in SUBSET Images \ {{}}
    /\ skip' \in BOOLEAN
    /\ config' # config
    /\ Exit("idle")
    /\ UNCHANGED <<tag, skipped, bucket, markers, faults>>

(* Somebody pushes another artifact under the same reference.              *)
Retag(i) ==
    /\ pc \in RetagAt
    /\ \E d \in Digests \ {tag[i]} : tag' = [tag EXCEPT ![i] = d]
    /\ UNCHANGED <<config, processVars, skipped, bucket, markers, faults>>

Importer ==
    \/ Start \/ AllResolved \/ SummariesWritten \/ RawWritten
    \/ \E i \in Images : Resolve(i) \/ Pull(i) \/ Record(i)
    \/ \E i \in Images, c \in Cells : WriteSummary(i, c) \/ OpenRaw(i, c) \/ WriteRaw(i, c)

Next == Importer \/ Crash \/ Redeploy \/ \E i \in Images : Retag(i)

Spec == Init /\ [][Next]_vars

(* The kubelet starts the init container until it succeeds, and a running  *)
(* importer goes on; faults are bounded by MaxFaults.                      *)
FairSpec == Spec /\ WF_vars(Importer)

----------------------------------------------------------------------------
(* What an import of digest d is to leave behind.                          *)
Points(d, skipWarmup) ==
    {<<d, c, k>> : c \in IF skipWarmup THEN Cells \ WarmCells ELSE Cells, k \in Writes}

(* A digest is marked as imported only when every selected point of it is  *)
(* in the bucket - across crashes, failed writes that were or were not     *)
(* applied, and artifacts of the same list that fail or lack a record: an  *)
(* import that is later skipped (line 121) was complete.                   *)
MarkedIsComplete ==
    \A m \in markers : Points(m[1], m[2]) \subseteq bucket

(* A raw point appears only after the summary of its own cell and of every *)
(* measured cell the artifact has a record of: a dashboard that finds raw  *)
(* points can label them (main(), lines 335 to 353).  Without a record a   *)
(* cell gets no summary, and for that none of its raw points is written    *)
(* (lines 226 to 228), although those of the other cells are.              *)
SummariesComeFirst ==
    \A p \in bucket : p[3] > 0 =>
        /\ <<p[1], p[2], 0>> \in bucket
        /\ \A c \in Cells \ WarmCells :
              <<p[1], c>> \in NoRecord \/ <<p[1], c, 0>> \in bucket

(* While IMPORT_SKIP_WARMUP is set no warm-up point is added, and an       *)
(* import of either kind takes nothing out.                                *)
BucketGrowsAsAsked ==
    [][/\ bucket \subseteq bucket'
       /\ \A p \in bucket' \ bucket : skip => p[2] \notin WarmCells]_vars

(* Whatever failed before, a deployment of valid artifacts that stays in   *)
(* place gets each of them marked, whatever was pushed between imports.    *)
Valid(d) == \A c \in Cells : <<d, c>> \notin NoRecord \cup BadRecords \cup BadRaw

ImportConverges ==
    \/ []<><<TRUE>>_config
    \/ []<>(\/ \E i \in images : ~Valid(tag[i])
           \/ \A i \in images : <<tag[i], skip>> \in markers)

(* "already-imported" (line 122) is said only of a digest whose points are *)
(* in the bucket, also when an image reference is pushed again while an    *)
(* import runs.                                                            *)
AlreadyImportedIsTrue ==
    \A m \in skipped : Points(m[1], m[2]) \subseteq bucket
=============================================================================
