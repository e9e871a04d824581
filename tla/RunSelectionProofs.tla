------------------------- MODULE RunSelectionProofs -------------------------
(* Theorems about RunSelection for any runs, stacks, configurations and    *)
(* rows, complete or not, in any order of reading.                         *)
EXTENDS RunSelection, FiniteSetTheorems, TLAPS

----------------------------------------------------------------------------
(* Supplied rows, and images of finite sets.                               *)
LEMMA AllSupplied ==
    ASSUME input \in Inputs
    PROVE  Supplied = input.rows
BY SelectionAssumption DEF Supplied, RowsOf

LEMMA RowsFinite ==
    ASSUME input \in Inputs, NEW r
    PROVE  IsFiniteSet(RowsOf(r))
<1>1. RowsOf(r) \in SUBSET input.rows
  BY DEF RowsOf
<1>2. QED
  BY <1>1, FS_Subset, SelectionAssumption

LEMMA Image ==
    ASSUME NEW S, IsFiniteSet(S), NEW T, NEW f \in [S -> T], T = {f[x] : x \in S}
    PROVE  /\ IsFiniteSet(T) /\ Cardinality(T) \in Nat /\ Cardinality(S) \in Nat
           /\ Cardinality(T) <= Cardinality(S)
           /\ Cardinality(T) = Cardinality(S) <=> \A x, y \in S : f[x] = f[y] => x = y
<1>1. f \in Surjection(S, T)
  BY DEF Surjection
<1>2. f \in Injection(S, T) <=> \A x, y \in S : f[x] = f[y] => x = y
  BY DEF Injection, IsInjective
<1>3. QED
  BY <1>1, <1>2, FS_Surjection, FS_CardinalityType

LEMMA Single ==
    ASSUME NEW S, IsFiniteSet(S)
    PROVE  Cardinality(S) = 1 <=> S # {} /\ \A x, y \in S : x = y
<1>1. Cardinality(S) = 1 <=> \E x : S = {x}
  BY FS_Singleton
<1>2. ASSUME S # {}, \A x, y \in S : x = y
      PROVE  \E x : S = {x}
  <2>1. PICK x : x \in S
    BY <1>2
  <2>2. S = {x}
    BY <1>2, <2>1
  <2>3. QED
    BY <2>2
<1>3. QED
  BY <1>1, <1>2

LEMMA ExecutionsExpected ==
    ASSUME NEW f \in {"baseline", "linear", "race"}
    PROVE  ExpectedExecutions(f) # {}
<1>1. CASE f = "baseline"
  <2>1. <<"linear", 1>> \in ExpectedExecutions(f)
    BY <1>1 DEF ExpectedExecutions
  <2>2. QED
    BY <2>1
<1>2. CASE f = "linear"
  <2>1. <<"linear", 1>> \in ExpectedExecutions(f)
    BY <1>2 DEF ExpectedExecutions
  <2>2. QED
    BY <2>1
<1>3. CASE f = "race"
  <2>1. <<"race", 1>> \in ExpectedExecutions(f)
    BY <1>3 DEF ExpectedExecutions
  <2>2. QED
    BY <2>1
<1>4. QED
  BY <1>1, <1>2, <1>3

----------------------------------------------------------------------------
(* Detailed mode: what is asked of a run alone, and of any two.            *)
TagsOf(r) == {Tags(row) : row \in RowsOf(r)}
Tagged(r) == Cardinality(TagsOf(r)) = 1 /\ \A t \in TagsOf(r) : t[3] \in Configs
SeatOf(r) == Seat(r, CHOOSE row \in RowsOf(r) : TRUE)

Seated(R) ==
    /\ \A r \in R : Tagged(r)
    /\ \A r, s \in R : (SeatOf(r).cell = SeatOf(s).cell /\ SeatOf(r).slot = SeatOf(s).slot) => r = s

LEMMA TagsFinite ==
    ASSUME input \in Inputs, NEW r
    PROVE  /\ IsFiniteSet(TagsOf(r))
           /\ Cardinality(TagsOf(r)) = 1
                <=> RowsOf(r) # {} /\ \A x, y \in RowsOf(r) : Tags(x) = Tags(y)
<1> DEFINE f == [row \in RowsOf(r) |-> Tags(row)]
<1>1. f \in [RowsOf(r) -> TagsOf(r)] /\ TagsOf(r) = {f[x] : x \in RowsOf(r)}
  BY DEF TagsOf
<1>2. IsFiniteSet(TagsOf(r))
  BY <1>1, RowsFinite, Image
<1>3. QED
  BY <1>2, Single DEF TagsOf

(* Tagged runs have rows, all of which would take the same seat.           *)
LEMMA SeatOfAny ==
    ASSUME input \in Inputs, NEW r, Tagged(r), NEW row \in RowsOf(r)
    PROVE  SeatOf(r) = Seat(r, row)
<1> DEFINE any == CHOOSE x \in RowsOf(r) : TRUE
<1>1. any \in RowsOf(r) /\ Tags(any) = Tags(row)
  BY TagsFinite DEF Tagged
<1>2. any.scenario = row.scenario /\ any.stack = row.stack /\ any.config = row.config
  BY <1>1 DEF Tags
<1>3. QED
  BY <1>2 DEF SeatOf, Seat, Base

LEMMA TaggedRows ==
    ASSUME input \in Inputs, NEW r, Tagged(r)
    PROVE  \E row : row \in RowsOf(r)
BY TagsFinite DEF Tagged

(* A run whose rows are complete in number and in kind has one for each    *)
(* execution.                                                              *)
LEMMA OneRowEach ==
    ASSUME input \in Inputs, NEW r, Complete(r, RowsOf(r))
    PROVE  /\ Cardinality(RowsOf(r)) >= Cardinality(ExpectedExecutions(FamilyOf[r]))
           /\ Cardinality(RowsOf(r)) = Cardinality(ExpectedExecutions(FamilyOf[r]))
                <=> \A x, y \in RowsOf(r) : x.execution = y.execution => x = y
<1> DEFINE f == [row \in RowsOf(r) |-> row.execution]
           E == ExpectedExecutions(FamilyOf[r])
<1>1. f \in [RowsOf(r) -> E] /\ E = {f[x] : x \in RowsOf(r)}
  BY DEF Complete, ExecutionsOf
<1>2. /\ Cardinality(E) \in Nat /\ Cardinality(RowsOf(r)) \in Nat
      /\ Cardinality(E) <= Cardinality(RowsOf(r))
      /\ Cardinality(E) = Cardinality(RowsOf(r)) <=> \A x, y \in RowsOf(r) : f[x] = f[y] => x = y
  BY <1>1, RowsFinite, Image
<1>3. QED
  BY <1>2

(* The origins of a run in which each execution has one.                   *)
OriginOf(x) == [run |-> x.run, scenario |-> x.scenario, stack |-> x.stack, execution |-> x.execution]
OriginsIn(r) == {o \in input.origins : o.run = r}

LEMMA OriginsAsSupplied ==
    ASSUME input \in Inputs, NEW r \in input.runs, Complete(r, RowsOf(r)),
           \A x, y \in RowsOf(r) : x.execution = y.execution => x = y,
           \A x, y \in RowsOf(r) : Tags(x) = Tags(y)
    PROVE  OriginsValid(r) <=> OriginsIn(r) = {OriginOf(x) : x \in RowsOf(r)}
<1>1. \A x, y \in RowsOf(r) : x.run = r /\ x.scenario = y.scenario /\ x.stack = y.stack
  BY DEF RowsOf, Tags
<1>2. ASSUME OriginsValid(r)
      PROVE  OriginsIn(r) = {OriginOf(x) : x \in RowsOf(r)}
  <2>1. {o.execution : o \in OriginsIn(r)} = {x.execution : x \in RowsOf(r)}
    BY <1>2 DEF OriginsValid, OriginsIn, Complete, ExecutionsOf
  <2>2. \A o \in OriginsIn(r), x \in RowsOf(r) : o.execution = x.execution => o = OriginOf(x)
    BY <1>1, <1>2, SelectionAssumption DEF OriginsValid, OriginsIn, OriginOf
  <2>3. ASSUME NEW o \in OriginsIn(r)
        PROVE  \E x \in RowsOf(r) : o = OriginOf(x)
    <3>1. PICK x \in RowsOf(r) : x.execution = o.execution
      BY <2>1
    <3>2. QED
      BY <2>2, <3>1
  <2>4. ASSUME NEW x \in RowsOf(r)
        PROVE  OriginOf(x) \in OriginsIn(r)
    <3>1. PICK o \in OriginsIn(r) : x.execution = o.execution
      BY <2>1
    <3>2. QED
      BY <2>2, <3>1
  <2>5. QED
    BY <2>3, <2>4
<1>3. ASSUME OriginsIn(r) = {OriginOf(x) : x \in RowsOf(r)}
      PROVE  OriginsValid(r)
  <2> DEFINE f == [x \in RowsOf(r) |-> OriginOf(x)]
             g == [o \in OriginsIn(r) |-> o.execution]
  <2>1. IsFiniteSet(OriginsIn(r))
    <3>1. f \in [RowsOf(r) -> OriginsIn(r)] /\ OriginsIn(r) = {f[x] : x \in RowsOf(r)}
      BY <1>3
    <3>2. QED
      BY <3>1, RowsFinite, Image
  <2>2. \A x \in RowsOf(r) : OriginOf(x).execution = x.execution
    BY DEF OriginOf
  <2>3. \A o, p \in OriginsIn(r) : o.execution = p.execution => o = p
    BY <1>3, <2>2
  <2>4. Cardinality(OriginsIn(r)) = Cardinality(ExecutionsOf(OriginsIn(r)))
    <3>1. /\ g \in [OriginsIn(r) -> ExecutionsOf(OriginsIn(r))]
          /\ ExecutionsOf(OriginsIn(r)) = {g[o] : o \in OriginsIn(r)}
      BY DEF ExecutionsOf
    <3>2. \A o, p \in OriginsIn(r) : g[o] = g[p] => o = p
      BY <2>3
    <3>3. Cardinality(ExecutionsOf(OriginsIn(r))) = Cardinality(OriginsIn(r))
            <=> \A o, p \in OriginsIn(r) : g[o] = g[p] => o = p
      <4> HIDE DEF g
      <4> QED
        BY <2>1, <3>1, Image
    <3>4. QED
      BY <3>2, <3>3
  <2>5. ExecutionsOf(OriginsIn(r)) = ExecutionsOf(RowsOf(r))
    BY <1>3, <2>2 DEF ExecutionsOf
  <2>6. \A o \in OriginsIn(r) : \A x \in RowsOf(r) : o.scenario = x.scenario /\ o.stack = x.stack
    BY <1>1, <1>3 DEF OriginOf
  <2>7. QED
    BY <2>4, <2>5, <2>6 DEF OriginsValid, OriginsIn, Complete
<1>4. QED
  BY <1>2, <1>3

(* What detailed mode asks of runs and pairs of runs is what               *)
(* AcceptableDetailed says of rows.                                        *)
DetailedSound == Seated(input.runs) /\ \A r \in input.runs : MetadataValid(r) /\ OriginsValid(r)

LEMMA RunsSpeak ==
    ASSUME input \in Inputs
    PROVE  RowsSpeakForRuns(Supplied) <=> \A r \in input.runs : Complete(r, RowsOf(r))
BY AllSupplied DEF RowsSpeakForRuns, RowsOf

LEMMA RowOfRun ==
    ASSUME input \in Inputs
    PROVE  /\ \A x \in Supplied : x.run \in input.runs /\ x \in RowsOf(x.run)
           /\ \A r \in input.runs : \A x \in RowsOf(r) : x \in Supplied /\ x.run = r
BY AllSupplied, SelectionAssumption DEF RowsOf

LEMMA CompleteHasRows ==
    ASSUME input \in Inputs, NEW r \in input.runs, Complete(r, RowsOf(r))
    PROVE  \E x : x \in RowsOf(r)
<1>1. ExpectedExecutions(FamilyOf[r]) # {}
  BY SelectionAssumption, ExecutionsExpected
<1>2. QED
  BY <1>1 DEF Complete, ExecutionsOf

LEMMA DetailedNecessary ==
    ASSUME input \in Inputs, AcceptableDetailed
    PROVE  DetailedSound
<1>1. \A r \in input.runs : Complete(r, RowsOf(r))
  BY RunsSpeak DEF AcceptableDetailed
<1>2. ASSUME NEW r \in input.runs
      PROVE  /\ \A x, y \in RowsOf(r) : Tags(x) = Tags(y)
             /\ \A x, y \in RowsOf(r) : x.execution = y.execution => x = y
  BY RowOfRun DEF AcceptableDetailed
<1>3. ASSUME NEW r \in input.runs
      PROVE  Tagged(r)
  <2>1. Cardinality(TagsOf(r)) = 1
    BY <1>1, <1>2, CompleteHasRows, TagsFinite
  <2>2. \A row \in RowsOf(r) : Tags(row)[3] \in Configs
    BY RowOfRun DEF AcceptableDetailed, Tags
  <2>3. QED
    BY <2>1, <2>2 DEF Tagged, TagsOf
<1>4. ASSUME NEW r \in input.runs, NEW s \in input.runs, r # s,
             SeatOf(r).cell = SeatOf(s).cell, SeatOf(r).slot = SeatOf(s).slot
      PROVE  FALSE
  <2>1. PICK x, y : x \in RowsOf(r) /\ y \in RowsOf(s)
    BY <1>1, CompleteHasRows
  <2>2. SeatOf(r) = Seat(r, x) /\ SeatOf(s) = Seat(s, y)
    BY <1>3, <2>1, SeatOfAny
  <2>3. /\ Base(x) = Base(y) /\ x.config = y.config
        /\ Stack(x) = Stack(y) /\ FamilyIn(x) = FamilyIn(y)
    BY <1>4, <2>1, <2>2, RowOfRun DEF Seat, Stack, FamilyIn
  <2>4. x \in Supplied /\ y \in Supplied /\ x.run = r /\ y.run = s
    BY <2>1, RowOfRun
  <2>5. QED
    BY <1>4, <2>3, <2>4 DEF AcceptableDetailed
<1>5. ASSUME NEW r \in input.runs
      PROVE  MetadataValid(r)
  <2>1. \A row \in RowsOf(r) : row.proven
    BY RowOfRun DEF AcceptableDetailed
  <2>2. QED
    BY <1>1, <1>2, <2>1, OneRowEach DEF MetadataValid
<1>6. ASSUME NEW r \in input.runs
      PROVE  OriginsValid(r)
  <2>1. OriginsIn(r) = {OriginOf(x) : x \in RowsOf(r)}
    <3>1. {o \in input.origins : o.run \in input.runs} = {OriginOf(x) : x \in Supplied}
      BY DEF AcceptableDetailed, OriginOf
    <3>2. \A x \in Supplied : OriginOf(x).run = x.run
      BY DEF OriginOf
    <3>3. ASSUME NEW o \in OriginsIn(r)
          PROVE  \E x \in RowsOf(r) : o = OriginOf(x)
      BY <3>1, <3>2, RowOfRun DEF OriginsIn
    <3>4. ASSUME NEW x \in RowsOf(r)
          PROVE  OriginOf(x) \in OriginsIn(r)
      BY <3>1, <3>2, RowOfRun DEF OriginsIn
    <3>5. QED
      BY <3>3, <3>4
  <2>2. QED
    BY <1>1, <1>2, <2>1, OriginsAsSupplied
<1>7. QED
  BY <1>3, <1>4, <1>5, <1>6 DEF DetailedSound, Seated

LEMMA DetailedSufficient ==
    ASSUME input \in Inputs, DetailedSound
    PROVE  AcceptableDetailed
<1>1. /\ \A r \in input.runs : Tagged(r)
      /\ \A r \in input.runs : MetadataValid(r) /\ OriginsValid(r)
  BY DEF DetailedSound, Seated
<1>2. ASSUME NEW r \in input.runs
      PROVE  /\ Complete(r, RowsOf(r))
             /\ \A x, y \in RowsOf(r) : Tags(x) = Tags(y)
             /\ \A x, y \in RowsOf(r) : x.execution = y.execution => x = y
  BY <1>1, TagsFinite, OneRowEach DEF MetadataValid, Tagged
<1>3. RowsSpeakForRuns(Supplied)
  BY <1>2, RunsSpeak
<1>4. \A x, y \in Supplied : (x # y /\ x.run = y.run) =>
          x.execution # y.execution /\ Tags(x) = Tags(y)
  BY <1>2, RowOfRun
<1>5. ASSUME NEW x \in Supplied, NEW y \in Supplied, x.run # y.run, FamilyIn(x) = FamilyIn(y)
      PROVE  <<Base(x), x.config, Stack(x)>> # <<Base(y), y.config, Stack(y)>>
  <2>1. SeatOf(x.run) = Seat(x.run, x) /\ SeatOf(y.run) = Seat(y.run, y)
    BY <1>1, RowOfRun, SeatOfAny
  <2>2. \/ SeatOf(x.run).cell # SeatOf(y.run).cell
        \/ SeatOf(x.run).slot # SeatOf(y.run).slot
    BY <1>5, RowOfRun DEF DetailedSound, Seated
  <2>3. QED
    BY <1>5, <2>1, <2>2 DEF Seat, Stack, FamilyIn
<1>6. ASSUME NEW x \in Supplied
      PROVE  x.proven /\ x.config \in Configs
  <2>1. x.run \in input.runs /\ x \in RowsOf(x.run)
    BY RowOfRun
  <2>2. Tags(x) \in TagsOf(x.run) /\ Tags(x)[3] = x.config
    BY <2>1 DEF TagsOf, Tags
  <2>3. QED
    BY <1>1, <2>1, <2>2 DEF MetadataValid, Tagged
<1>7. {o \in input.origins : o.run \in input.runs} = {OriginOf(x) : x \in Supplied}
  <2>1. \A r \in input.runs : OriginsIn(r) = {OriginOf(x) : x \in RowsOf(r)}
    BY <1>1, <1>2, OriginsAsSupplied
  <2>2. ASSUME NEW o \in input.origins, o.run \in input.runs
        PROVE  \E x \in Supplied : o = OriginOf(x)
    <3>1. o \in OriginsIn(o.run)
      BY DEF OriginsIn
    <3>2. PICK x \in RowsOf(o.run) : o = OriginOf(x)
      BY <2>1, <2>2, <3>1
    <3>3. QED
      BY <2>2, <3>2, RowOfRun
  <2>3. ASSUME NEW x \in Supplied
        PROVE  OriginOf(x) \in {o \in input.origins : o.run \in input.runs}
    <3>1. OriginOf(x) \in OriginsIn(x.run)
      BY <2>1, RowOfRun
    <3>2. QED
      BY <3>1, RowOfRun DEF OriginsIn
  <2>4. QED
    BY <2>2, <2>3
<1>8. QED
  BY <1>3, <1>4, <1>5, <1>6, <1>7 DEF AcceptableDetailed, OriginOf

----------------------------------------------------------------------------
(* Comparison modes: the place of a row says what it measured and with     *)
(* what settings, and no more.                                             *)
SamePlace(x, y) == Place(x).cell = Place(y).cell /\ Place(x).slot = Place(y).slot

LEMMA PlaceOf ==
    ASSUME NEW x
    PROVE  /\ Place(x).content = x
           /\ Place(x).slot = <<Scenario(x), Stack(x), Repeat(x)>>
           /\ Place(x).cell.config = x.config /\ Place(x).cell.settings = x.settings
           /\ Profile(x) = <<Place(x).cell.family, Place(x).cell.profile>>
           /\ Place(x).cell.family = FamilyIn(x)
BY DEF Place, PlaceIn, Scenario, Stack, Repeat, Profile, FamilyIn

LEMMA SameCell ==
    ASSUME NEW x, NEW y
    PROVE  /\ Place(x).cell = Place(y).cell
                <=> x.config = y.config /\ Profile(x) = Profile(y) /\ x.settings = y.settings
           /\ Place(x).slot = Place(y).slot
                <=> Scenario(x) = Scenario(y) /\ Stack(x) = Stack(y) /\ Repeat(x) = Repeat(y)
           /\ SamePlace(x, y) <=> Measurement(x) = Measurement(y) /\ x.settings = y.settings
<1>1. Place(x).cell = Place(y).cell
        <=> x.config = y.config /\ Profile(x) = Profile(y) /\ x.settings = y.settings
  BY DEF Place, PlaceIn, Profile, FamilyIn
<1>2. Place(x).slot = Place(y).slot
        <=> Scenario(x) = Scenario(y) /\ Stack(x) = Stack(y) /\ Repeat(x) = Repeat(y)
  BY DEF Place, PlaceIn, Scenario, Stack, Repeat, FamilyIn
<1>3. QED
  BY <1>1, <1>2 DEF SamePlace, Measurement

Placeable ==
    /\ ~Ambiguous(input.rows)
    /\ \A r \in input.runs : Complete(r, RowsOf(r))
    /\ \A x \in input.rows : RowValid(x)
    /\ \A x, y \in input.rows : SamePlace(x, y) => x = y

LEMMA TogetherNecessary ==
    ASSUME input \in Inputs, AcceptableTogether
    PROVE  Placeable
<1>1. \A x \in input.rows : RowValid(x)
  BY AllSupplied DEF AcceptableTogether, RowValid, Stack
<1>2. \A x, y \in input.rows : SamePlace(x, y) => x = y
  BY AllSupplied, SameCell DEF AcceptableTogether
<1>3. QED
  BY <1>1, <1>2, AllSupplied, RunsSpeak DEF AcceptableTogether, Placeable

LEMMA TogetherSufficient ==
    ASSUME input \in Inputs, Placeable,
           \A x, y \in Supplied : (x.config = y.config /\ Profile(x) = Profile(y)) => x.settings = y.settings
    PROVE  AcceptableTogether
<1>1. \A x \in Supplied : x.proven /\ x.config \in Configs /\ x.scenario.suffix = Stack(x)
  BY AllSupplied DEF Placeable, RowValid, Stack
<1>2. \A x, y \in Supplied : x # y => Measurement(x) # Measurement(y)
  <2>1. SUFFICES ASSUME NEW x \in Supplied, NEW y \in Supplied, Measurement(x) = Measurement(y)
                 PROVE  x = y
    OBVIOUS
  <2>2. x.config = y.config /\ Profile(x) = Profile(y)
    BY <2>1 DEF Measurement
  <2>3. SamePlace(x, y)
    BY <2>1, <2>2, SameCell
  <2>4. QED
    BY <2>3, AllSupplied DEF Placeable
<1>3. QED
  BY <1>1, <1>2, AllSupplied, RunsSpeak DEF AcceptableTogether, Placeable

(* Once all rows have their places, a cell is known by the rows in it.     *)
AllPlaced == placed = {Place(x) : x \in Supplied}
PlacedCells == {p.cell : p \in placed}
CellRows(c) == {x \in Supplied : Place(x).cell = c}

LEMMA CellContents ==
    ASSUME AllPlaced, NEW c
    PROVE  /\ In(c) = {Place(x) : x \in CellRows(c)}
           /\ ScenariosIn(c) = {Scenario(x) : x \in CellRows(c)}
           /\ \A s : StacksIn(c, s) = {Stack(x) : x \in {x \in CellRows(c) : Scenario(x) = s}}
           /\ \A s, k : RepeatsIn(c, s, k) =
                 {Repeat(x) : x \in {x \in CellRows(c) : Scenario(x) = s /\ Stack(x) = k}}
           /\ c \in PlacedCells <=> \E x : x \in CellRows(c)
<1>1. In(c) = {Place(x) : x \in CellRows(c)}
  BY DEF In, AllPlaced, CellRows
<1>2. \A x : /\ Place(x).slot[1] = Scenario(x) /\ Place(x).slot[2] = Stack(x)
             /\ Place(x).slot[3] = Repeat(x)
  BY PlaceOf
<1>3. ScenariosIn(c) = {Scenario(x) : x \in CellRows(c)}
  BY <1>1, <1>2 DEF ScenariosIn
<1>4. \A s : StacksIn(c, s) = {Stack(x) : x \in {x \in CellRows(c) : Scenario(x) = s}}
  BY <1>1, <1>2 DEF StacksIn
<1>5. \A s, k : RepeatsIn(c, s, k) =
                   {Repeat(x) : x \in {x \in CellRows(c) : Scenario(x) = s /\ Stack(x) = k}}
  BY <1>1, <1>2 DEF RepeatsIn
<1>6. c \in PlacedCells <=> \E x : x \in CellRows(c)
  BY DEF PlacedCells, AllPlaced, CellRows
<1>7. QED
  BY <1>1, <1>3, <1>4, <1>5, <1>6

----------------------------------------------------------------------------
(* Scenario mode: what is asked of a cell, and of the cells together.      *)
ScenarioCell(c) ==
    /\ Cardinality(ScenariosIn(c)) >= 2
    /\ \A s, t \in ScenariosIn(c) : StacksIn(c, s) = StacksIn(c, t)
    /\ PoolsComplete(c)

ScenarioGroups ==
    \A c, d \in PlacedCells : (c # d /\ c.config = d.config) =>
        /\ <<c.family, c.profile>> # <<d.family, d.profile>>
        /\ ScenariosIn(c) = ScenariosIn(d)

SlotOf(x) == <<Scenario(x), Stack(x), Repeat(x)>>
GroupOf(x) == {y \in Supplied : y.config = x.config}
ChartOf(x) == {y \in GroupOf(x) : Profile(y) = Profile(x)}

(* Scenarios with the same stacks and full pools are a product.            *)
LEMMA CellProduct ==
    ASSUME AllPlaced, NEW c
    PROVE  ((\A s, t \in ScenariosIn(c) : StacksIn(c, s) = StacksIn(c, t)) /\ PoolsComplete(c))
             <=> {SlotOf(x) : x \in CellRows(c)}
                   = ScenariosIn(c) \X {Stack(x) : x \in CellRows(c)} \X Repeats
<1> DEFINE stacks == {Stack(x) : x \in CellRows(c)}
           slots == {SlotOf(x) : x \in CellRows(c)}
<1>0. /\ ScenariosIn(c) = {Scenario(x) : x \in CellRows(c)}
      /\ \A s : StacksIn(c, s) = {Stack(x) : x \in {x \in CellRows(c) : Scenario(x) = s}}
      /\ \A s, k : RepeatsIn(c, s, k) =
            {Repeat(x) : x \in {x \in CellRows(c) : Scenario(x) = s /\ Stack(x) = k}}
  BY CellContents
<1>1. ASSUME \A s, t \in ScenariosIn(c) : StacksIn(c, s) = StacksIn(c, t), PoolsComplete(c)
      PROVE  slots = ScenariosIn(c) \X stacks \X Repeats
  <2>1. ASSUME NEW x \in CellRows(c)
        PROVE  Scenario(x) \in ScenariosIn(c) /\ Stack(x) \in stacks /\ Repeat(x) \in Repeats
    <3>1. Scenario(x) \in ScenariosIn(c) /\ Stack(x) \in StacksIn(c, Scenario(x))
      BY <1>0
    <3>2. Repeat(x) \in RepeatsIn(c, Scenario(x), Stack(x))
      BY <1>0
    <3>3. QED
      BY <1>1, <3>1, <3>2 DEF PoolsComplete
  <2>2. ASSUME NEW s \in ScenariosIn(c), NEW k \in stacks, NEW n \in Repeats
        PROVE  \E x \in CellRows(c) : SlotOf(x) = <<s, k, n>>
    <3>1. PICK y \in CellRows(c) : Stack(y) = k
      OBVIOUS
    <3>2. k \in StacksIn(c, Scenario(y)) /\ Scenario(y) \in ScenariosIn(c)
      BY <1>0, <3>1
    <3>3. k \in StacksIn(c, s)
      BY <1>1, <3>2
    <3>4. n \in RepeatsIn(c, s, k)
      BY <1>1, <3>3 DEF PoolsComplete
    <3>5. QED
      BY <1>0, <3>4 DEF SlotOf
  <2>3. QED
    BY <2>1, <2>2 DEF SlotOf
<1>2. ASSUME slots = ScenariosIn(c) \X stacks \X Repeats
      PROVE  /\ \A s, t \in ScenariosIn(c) : StacksIn(c, s) = StacksIn(c, t)
             /\ PoolsComplete(c)
  <2>1. 1 \in Repeats
    BY DEF Repeats
  <2>2. ASSUME NEW s \in ScenariosIn(c), NEW k \in stacks, NEW n \in Repeats
        PROVE  \E x \in CellRows(c) : Scenario(x) = s /\ Stack(x) = k /\ Repeat(x) = n
    <3>1. <<s, k, n>> \in slots
      BY <1>2
    <3>2. QED
      BY <3>1 DEF SlotOf
  <2>3. ASSUME NEW s \in ScenariosIn(c)
        PROVE  StacksIn(c, s) = stacks
    <3>1. StacksIn(c, s) = {Stack(x) : x \in {x \in CellRows(c) : Scenario(x) = s}}
      BY <1>0
    <3>2. \A k \in stacks : \E x \in CellRows(c) : Scenario(x) = s /\ Stack(x) = k
      BY <2>1, <2>2
    <3>3. QED
      BY <3>1, <3>2
  <2>4. \A x \in CellRows(c) : Repeat(x) \in Repeats
    <3>1. \A x \in CellRows(c) : SlotOf(x) \in ScenariosIn(c) \X stacks \X Repeats
      BY <1>2
    <3>2. QED
      BY <3>1 DEF SlotOf
  <2>5. ASSUME NEW s \in ScenariosIn(c), NEW k \in stacks
        PROVE  RepeatsIn(c, s, k) = Repeats
    <3>1. RepeatsIn(c, s, k) =
            {Repeat(x) : x \in {x \in CellRows(c) : Scenario(x) = s /\ Stack(x) = k}}
      BY <1>0
    <3>2. \A n \in Repeats : \E x \in CellRows(c) : Scenario(x) = s /\ Stack(x) = k /\ Repeat(x) = n
      BY <2>2
    <3>3. QED
      BY <2>4, <3>1, <3>2
  <2>6. QED
    BY <2>3, <2>5 DEF PoolsComplete
<1>3. QED
  BY <1>1, <1>2

(* A chart with one set of settings is a cell.                             *)
LEMMA ChartIsCell ==
    ASSUME NEW x \in Supplied,
           \A y \in Supplied : (y.config = x.config /\ Profile(y) = Profile(x)) => y.settings = x.settings
    PROVE  CellRows(Place(x).cell) = ChartOf(x)
BY SameCell DEF CellRows, ChartOf, GroupOf

LEMMA ScenarioNecessary ==
    ASSUME input \in Inputs, AllPlaced, AcceptableScenario
    PROVE  Placeable /\ ScenarioGroups /\ \A c \in PlacedCells : ScenarioCell(c)
<1> DEFINE scenarios(x) == {Scenario(y) : y \in GroupOf(x)}
<1>1. Placeable
  BY TogetherNecessary DEF AcceptableScenario
<1>2. ASSUME NEW x \in Supplied
      PROVE  /\ \A y \in ChartOf(x) : y.settings = x.settings
             /\ Cardinality(scenarios(x)) >= 2
             /\ {SlotOf(y) : y \in ChartOf(x)} = scenarios(x) \X {Stack(y) : y \in ChartOf(x)} \X Repeats
  BY DEF AcceptableScenario, ChartOf, GroupOf, SlotOf
<1>3. ASSUME NEW x \in Supplied
      PROVE  CellRows(Place(x).cell) = ChartOf(x)
  BY <1>2, ChartIsCell DEF ChartOf, GroupOf
<1>4. ASSUME NEW x \in Supplied
      PROVE  ScenariosIn(Place(x).cell) = scenarios(x)
  <2>1. ScenariosIn(Place(x).cell) = {Scenario(y) : y \in ChartOf(x)}
    BY <1>3, CellContents
  <2>2. ASSUME NEW s \in scenarios(x)
        PROVE  \E y \in ChartOf(x) : s = Scenario(y)
    <3>1. x \in ChartOf(x) /\ 0 \in Repeats
      BY DEF ChartOf, GroupOf, Repeats
    <3>2. <<s, Stack(x), 0>> \in scenarios(x) \X {Stack(y) : y \in ChartOf(x)} \X Repeats
      BY <3>1
    <3>3. PICK y \in ChartOf(x) : SlotOf(y) = <<s, Stack(x), 0>>
      BY <1>2, <3>2
    <3>4. QED
      BY <3>3 DEF SlotOf
  <2>3. QED
    BY <2>1, <2>2 DEF ChartOf
<1>5. ASSUME NEW c \in PlacedCells
      PROVE  \E x \in Supplied : c = Place(x).cell
  BY CellContents DEF CellRows
<1>6. ASSUME NEW c \in PlacedCells
      PROVE  ScenarioCell(c)
  <2>1. PICK x \in Supplied : c = Place(x).cell
    BY <1>5
  <2>2. {SlotOf(y) : y \in CellRows(c)} = ScenariosIn(c) \X {Stack(y) : y \in CellRows(c)} \X Repeats
    BY <1>2, <1>3, <1>4, <2>1
  <2>3. Cardinality(ScenariosIn(c)) >= 2
    BY <1>2, <1>4, <2>1
  <2>4. QED
    BY <2>2, <2>3, CellProduct DEF ScenarioCell
<1>7. ASSUME NEW c \in PlacedCells, NEW d \in PlacedCells, c # d, c.config = d.config
      PROVE  /\ <<c.family, c.profile>> # <<d.family, d.profile>>
             /\ ScenariosIn(c) = ScenariosIn(d)
  <2>1. PICK x \in Supplied, y \in Supplied : c = Place(x).cell /\ d = Place(y).cell
    BY <1>5
  <2>2. x.config = y.config
    BY <1>7, <2>1, PlaceOf
  <2>3. scenarios(x) = scenarios(y)
    BY <2>2 DEF GroupOf
  <2>4. Profile(x) # Profile(y)
    <3>1. SUFFICES ASSUME Profile(x) = Profile(y)
                   PROVE  FALSE
      OBVIOUS
    <3>2. y \in ChartOf(x)
      BY <2>2, <3>1 DEF ChartOf, GroupOf
    <3>3. QED
      BY <1>2, <1>7, <2>1, <2>2, <3>1, <3>2, SameCell
  <2>5. Profile(x) = <<c.family, c.profile>> /\ Profile(y) = <<d.family, d.profile>>
    BY <2>1, PlaceOf
  <2>6. ScenariosIn(c) = scenarios(x) /\ ScenariosIn(d) = scenarios(y)
    BY <1>4, <2>1
  <2>7. QED
    BY <2>3, <2>4, <2>5, <2>6
<1>8. QED
  BY <1>1, <1>6, <1>7 DEF ScenarioGroups

LEMMA ScenarioSufficient ==
    ASSUME input \in Inputs, AllPlaced, Placeable, ScenarioGroups,
           \A c \in PlacedCells : ScenarioCell(c)
    PROVE  AcceptableScenario
<1>1. ASSUME NEW x \in Supplied
      PROVE  Place(x).cell \in PlacedCells
  BY DEF PlacedCells, AllPlaced
<1>2. ASSUME NEW x \in Supplied, NEW y \in Supplied, x.config = y.config
      PROVE  /\ Profile(x) = Profile(y) => x.settings = y.settings
             /\ ScenariosIn(Place(x).cell) = ScenariosIn(Place(y).cell)
  <2>1. CASE Place(x).cell = Place(y).cell
    BY <2>1, SameCell
  <2>2. CASE Place(x).cell # Place(y).cell
    BY <1>1, <1>2, <2>2, PlaceOf DEF ScenarioGroups
  <2>3. QED
    BY <2>1, <2>2
<1>3. AcceptableTogether
  BY <1>2, TogetherSufficient
<1>4. ASSUME NEW x \in Supplied
      PROVE  /\ \A y \in ChartOf(x) : y.settings = x.settings
             /\ Cardinality({Scenario(y) : y \in GroupOf(x)}) >= 2
             /\ {SlotOf(y) : y \in ChartOf(x)}
                  = {Scenario(y) : y \in GroupOf(x)} \X {Stack(y) : y \in ChartOf(x)} \X Repeats
  <2> DEFINE c == Place(x).cell
  <2>1. CellRows(c) = ChartOf(x)
    BY <1>2, ChartIsCell
  <2>2. ScenariosIn(c) = {Scenario(y) : y \in GroupOf(x)}
    <3>1. ScenariosIn(c) = {Scenario(y) : y \in ChartOf(x)}
      BY <2>1, CellContents
    <3>2. ASSUME NEW y \in GroupOf(x)
          PROVE  Scenario(y) \in ScenariosIn(c)
      <4>1. y \in Supplied /\ y.config = x.config
        BY DEF GroupOf
      <4>2. Scenario(y) \in ScenariosIn(Place(y).cell)
        BY <4>1, CellContents DEF CellRows
      <4>3. QED
        BY <1>2, <4>1, <4>2
    <3>3. QED
      BY <3>1, <3>2 DEF ChartOf
  <2>3. c \in PlacedCells /\ ScenarioCell(c)
    BY <1>1
  <2>4. {SlotOf(y) : y \in CellRows(c)} = ScenariosIn(c) \X {Stack(y) : y \in CellRows(c)} \X Repeats
    BY <2>3, CellProduct DEF ScenarioCell
  <2>5. \A y \in ChartOf(x) : y.settings = x.settings
    BY <1>2 DEF ChartOf, GroupOf
  <2>6. QED
    BY <2>1, <2>2, <2>3, <2>4, <2>5 DEF ScenarioCell
<1>5. QED
  BY <1>3, <1>4 DEF AcceptableScenario, ChartOf, GroupOf, SlotOf

(* TLS mode: what is asked of a cell, and what all cells say together.     *)
TlsCell(c) == PoolsComplete(c) /\ \A p \in In(c) : Measured(p)

AllSaid == UNION {Said(c) : c \in PlacedCells}

SaidBy(x) ==
    {<<<<"profile", Profile(x)>>, x.settings>>,
     <<<<"run", x.run>>, Tags(x)>>,
     <<<<"pair", Profile(x), Scenario(x), Stack(x)>>, x.stack>>}

Agree(x, y) ==
    /\ Profile(x) = Profile(y) => x.settings = y.settings
    /\ x.run = y.run => Tags(x) = Tags(y)
    /\ (Profile(x) = Profile(y) /\ Scenario(x) = Scenario(y) /\ Stack(x) = Stack(y)) => x.stack = y.stack

LEMMA CellSays ==
    ASSUME AllPlaced, NEW c \in PlacedCells
    PROVE  Said(c) = UNION {SaidBy(x) : x \in CellRows(c)}
<1>1. PICK z : z \in CellRows(c)
  BY CellContents
<1>2. ASSUME NEW x \in CellRows(c)
      PROVE  /\ Profile(x) = <<c.family, c.profile>> /\ x.settings = c.settings
             /\ Place(x).slot[1] = Scenario(x) /\ Place(x).slot[2] = Stack(x) /\ Place(x).content = x
  BY PlaceOf DEF CellRows
<1>3. In(c) = {Place(x) : x \in CellRows(c)}
  BY CellContents
<1>4. ASSUME NEW f \in Said(c)
      PROVE  \E x \in CellRows(c) : f \in SaidBy(x)
  <2>1. CASE f = <<<<"profile", <<c.family, c.profile>>>>, c.settings>>
    BY <1>1, <1>2, <2>1 DEF SaidBy
  <2>2. CASE f # <<<<"profile", <<c.family, c.profile>>>>, c.settings>>
    <3>1. PICK p \in In(c) :
            \/ f = <<<<"run", p.content.run>>, Tags(p.content)>>
            \/ f = <<<<"pair", <<c.family, c.profile>>, p.slot[1], p.slot[2]>>, p.content.stack>>
      BY <2>2 DEF Said
    <3>2. PICK x \in CellRows(c) : p = Place(x)
      BY <1>3
    <3>3. QED
      BY <1>2, <3>1, <3>2 DEF SaidBy
  <2>3. QED
    BY <2>1, <2>2
<1>5. ASSUME NEW x \in CellRows(c)
      PROVE  SaidBy(x) \subseteq Said(c)
  <2>1. Place(x) \in In(c)
    BY <1>3
  <2>2. QED
    BY <1>2, <2>1 DEF Said, SaidBy
<1>6. QED
  BY <1>4, <1>5

LEMMA CellsSay ==
    ASSUME AllPlaced
    PROVE  AllSaid = UNION {SaidBy(x) : x \in Supplied}
<1>1. \A x \in Supplied : Place(x).cell \in PlacedCells /\ x \in CellRows(Place(x).cell)
  BY DEF AllPlaced, PlacedCells, CellRows
<1>2. \A c \in PlacedCells : Said(c) = UNION {SaidBy(x) : x \in CellRows(c)}
  BY CellSays
<1>3. QED
  BY <1>1, <1>2 DEF AllSaid, CellRows

LEMMA WhenConsistent ==
    ASSUME AllPlaced
    PROVE  Consistent(AllSaid) <=> \A x, y \in Supplied : Agree(x, y)
<1>1. AllSaid = UNION {SaidBy(x) : x \in Supplied}
  BY CellsSay
<1>2. ASSUME Consistent(AllSaid), NEW x \in Supplied, NEW y \in Supplied
      PROVE  Agree(x, y)
  <2>1. SaidBy(x) \subseteq AllSaid /\ SaidBy(y) \subseteq AllSaid
    BY <1>1
  <2>2. Profile(x) = Profile(y) => x.settings = y.settings
    BY <1>2, <2>1 DEF Consistent, SaidBy
  <2>3. x.run = y.run => Tags(x) = Tags(y)
    BY <1>2, <2>1 DEF Consistent, SaidBy
  <2>4. (Profile(x) = Profile(y) /\ Scenario(x) = Scenario(y) /\ Stack(x) = Stack(y)) => x.stack = y.stack
    BY <1>2, <2>1 DEF Consistent, SaidBy
  <2>5. QED
    BY <2>2, <2>3, <2>4 DEF Agree
<1>3. ASSUME \A x, y \in Supplied : Agree(x, y), NEW f \in AllSaid, NEW g \in AllSaid, f[1] = g[1]
      PROVE  f[2] = g[2]
  <2>1. PICK x \in Supplied, y \in Supplied : f \in SaidBy(x) /\ g \in SaidBy(y)
    BY <1>1
  <2>2. Agree(x, y)
    BY <1>3
  <2>3. QED
    BY <1>3, <2>1, <2>2 DEF Agree, SaidBy
<1>4. QED
  BY <1>2, <1>3 DEF Consistent

LEMMA MeasuredRow ==
    ASSUME AllPlaced, NEW c
    PROVE  (\A p \in In(c) : Measured(p))
             <=> \A x \in CellRows(c) : /\ x.elapsed > 0
                                        /\ Profile(x) = <<"baseline", "Flat">> => x.requests > 0
<1>1. In(c) = {Place(x) : x \in CellRows(c)}
  BY CellContents
<1>2. ASSUME NEW x
      PROVE  Measured(Place(x)) <=> /\ x.elapsed > 0
                                    /\ Profile(x) = <<"baseline", "Flat">> => x.requests > 0
  <2>1. Profile(x) = <<"baseline", "Flat">>
          <=> Place(x).cell.family = "baseline" /\ Place(x).cell.profile = "Flat"
    BY PlaceOf
  <2>2. QED
    BY <2>1, PlaceOf DEF Measured
<1>3. QED
  BY <1>1, <1>2

PairOf(x) ==
    {y \in Supplied : Profile(y) = Profile(x) /\ Scenario(y) = Scenario(x) /\ Stack(y) = Stack(x)}

(* Pools are complete when the repeats of each row's pool are.             *)
LEMMA PoolsOfRows ==
    ASSUME AllPlaced, \A x, y \in Supplied : Agree(x, y), NEW c
    PROVE  PoolsComplete(c)
             <=> \A x \in CellRows(c) :
                   {Repeat(y) : y \in {y \in PairOf(x) : y.config = x.config}} = Repeats
<1>1. ASSUME NEW x \in CellRows(c)
      PROVE  {Repeat(y) : y \in {y \in PairOf(x) : y.config = x.config}}
               = RepeatsIn(c, Scenario(x), Stack(x))
  <2>1. \A y \in Supplied :
            y \in CellRows(c) <=> y.config = x.config /\ Profile(y) = Profile(x)
    BY SameCell DEF CellRows, Agree
  <2>2. {y \in PairOf(x) : y.config = x.config}
          = {y \in CellRows(c) : Scenario(y) = Scenario(x) /\ Stack(y) = Stack(x)}
    BY <2>1 DEF PairOf, CellRows
  <2>3. QED
    BY <2>2, CellContents
<1>2. PoolsComplete(c) <=> \A x \in CellRows(c) : RepeatsIn(c, Scenario(x), Stack(x)) = Repeats
  <2>1. ScenariosIn(c) = {Scenario(x) : x \in CellRows(c)}
    BY CellContents
  <2>2. ASSUME NEW s, NEW k
        PROVE  k \in StacksIn(c, s) <=> \E x \in CellRows(c) : Scenario(x) = s /\ Stack(x) = k
    BY CellContents
  <2>3. QED
    BY <2>1, <2>2 DEF PoolsComplete
<1>3. QED
  BY <1>1, <1>2

LEMMA TlsNecessary ==
    ASSUME input \in Inputs, AllPlaced, AcceptableTls
    PROVE  Placeable /\ Consistent(AllSaid) /\ \A c \in PlacedCells : TlsCell(c)
<1>1. Placeable
  BY TogetherNecessary DEF AcceptableTls
<1>2. ASSUME NEW x \in Supplied
      PROVE  /\ x.elapsed > 0
             /\ Profile(x) = <<"baseline", "Flat">> => x.requests > 0
             /\ {Repeat(y) : y \in {y \in PairOf(x) : y.config = x.config}} = Repeats
  <2>1. PairOf(x) = {y \in {y \in Supplied : Profile(y) = Profile(x)} :
                        Scenario(y) = Scenario(x) /\ Stack(y) = Stack(x)}
    BY DEF PairOf
  <2>2. QED
    BY <2>1 DEF AcceptableTls
<1>3. ASSUME NEW x \in Supplied, NEW y \in Supplied
      PROVE  Agree(x, y)
  BY DEF AcceptableTls, Agree
<1>4. ASSUME NEW c \in PlacedCells
      PROVE  TlsCell(c)
  <2>1. PoolsComplete(c)
    BY <1>2, <1>3, PoolsOfRows DEF CellRows
  <2>2. \A p \in In(c) : Measured(p)
    BY <1>2, MeasuredRow DEF CellRows
  <2>3. QED
    BY <2>1, <2>2 DEF TlsCell
<1>5. QED
  BY <1>1, <1>3, <1>4, WhenConsistent

LEMMA TlsSufficient ==
    ASSUME input \in Inputs, AllPlaced, Placeable, Consistent(AllSaid),
           \A c \in PlacedCells : TlsCell(c)
    PROVE  AcceptableTls
<1>1. \A x, y \in Supplied : Agree(x, y)
  BY WhenConsistent
<1>2. AcceptableTogether
  BY <1>1, TogetherSufficient DEF Agree
<1>3. ASSUME NEW x \in Supplied
      PROVE  /\ x.elapsed > 0
             /\ Profile(x) = <<"baseline", "Flat">> => x.requests > 0
             /\ {Repeat(y) : y \in {y \in PairOf(x) : y.config = x.config}} = Repeats
  <2> DEFINE c == Place(x).cell
  <2>1. c \in PlacedCells /\ x \in CellRows(c)
    BY DEF AllPlaced, PlacedCells, CellRows
  <2>2. PoolsComplete(c) /\ \A p \in In(c) : Measured(p)
    BY <2>1 DEF TlsCell
  <2>3. QED
    BY <1>1, <2>1, <2>2, PoolsOfRows, MeasuredRow
<1>4. ASSUME NEW x \in Supplied
      PROVE  PairOf(x) = {y \in {y \in Supplied : Profile(y) = Profile(x)} :
                             Scenario(y) = Scenario(x) /\ Stack(y) = Stack(x)}
  BY DEF PairOf
<1>5. ASSUME NEW x \in Supplied, NEW y \in Supplied
      PROVE  /\ y.run = x.run => Tags(y) = Tags(x)
             /\ Profile(y) = Profile(x) => y.settings = x.settings
             /\ (Profile(y) = Profile(x) /\ Scenario(y) = Scenario(x) /\ Stack(y) = Stack(x))
                  => y.stack = x.stack
  BY <1>1 DEF Agree
<1>6. QED
  BY <1>2, <1>3, <1>4, <1>5 DEF AcceptableTls

----------------------------------------------------------------------------
(* The inductive invariant.  Whatever the order of reading, what has been  *)
(* put in place is a function of what has been read, it has stood every    *)
(* test so far, and a rejection is always deserved.                        *)
Shape ==
    /\ input \in Inputs
    /\ todo \subseteq input.runs
    /\ verdict \in {"runs", "rows", "cells", "accepted", "rejected"}

SeatsTaken ==
    input.mode = "detailed" =>
        /\ left = {} /\ waiting = {} /\ agreed = {}
        /\ verdict \in {"runs", "accepted", "rejected"}
        /\ placed = {SeatOf(r) : r \in input.runs \ todo}
        /\ Seated(input.runs \ todo)
        /\ verdict = "accepted" => todo = {} /\ DetailedSound

Taken == {row \in input.rows : row.run \notin todo /\ row \notin left}

RowsTaken ==
    input.mode # "detailed" =>
        /\ placed = {Place(x) : x \in Taken}
        /\ \A x \in Taken : RowValid(x)
        /\ \A x, y \in Taken : SamePlace(x, y) => x = y
        /\ \A r \in input.runs \ todo : Complete(r, RowsOf(r))
        /\ \A x \in left : x \in input.rows /\ x.run \notin todo
        /\ verdict \in {"runs", "cells", "accepted"} => left = {}
        /\ verdict \in {"cells", "accepted"} => todo = {}
        /\ verdict # "rejected" => ~Ambiguous(input.rows)

CellsJudged ==
    input.mode # "detailed" =>
        /\ waiting \subseteq PlacedCells
        /\ agreed \subseteq AllSaid
        /\ verdict \in {"runs", "rows"} => waiting = {} /\ agreed = {}
        /\ (verdict \in {"cells", "accepted"} /\ input.mode = "scenario") =>
              \A c \in PlacedCells \ waiting : ScenarioCell(c)
        /\ (verdict \in {"cells", "accepted"} /\ input.mode = "tls") =>
              /\ agreed = UNION {Said(c) : c \in PlacedCells \ waiting}
              /\ Consistent(agreed)
              /\ \A c \in PlacedCells \ waiting : TlsCell(c)
        /\ verdict = "accepted" => waiting = {}
        /\ (verdict = "accepted" /\ input.mode = "scenario") => ScenarioGroups

RejectionDeserved == verdict = "rejected" => ~Acceptable

IInv == Shape /\ SeatsTaken /\ RowsTaken /\ CellsJudged /\ RejectionDeserved

(* The input never changes, and what it says does not.                     *)
LEMMA InputKept ==
    ASSUME input' = input
    PROVE  /\ \A r : RowsOf(r)' = RowsOf(r) /\ SeatOf(r)' = SeatOf(r)
           /\ \A R : Seated(R)' <=> Seated(R)
           /\ DetailedSound' <=> DetailedSound
           /\ Supplied' = Supplied
           /\ Acceptable' <=> Acceptable
<1>1. \A r : RowsOf(r)' = RowsOf(r) /\ TagsOf(r)' = TagsOf(r)
  BY DEF RowsOf, TagsOf
<1>2. \A r : SeatOf(r)' = SeatOf(r)
  BY <1>1 DEF SeatOf, Seat
<1>3. \A r : Tagged(r)' <=> Tagged(r)
  BY <1>1 DEF Tagged
<1>4. \A R : Seated(R)' <=> Seated(R)
  BY <1>2, <1>3 DEF Seated
<1>5. Supplied' = Supplied
  BY <1>1 DEF Supplied
<1>6. \A r : (MetadataValid(r)' <=> MetadataValid(r)) /\ (OriginsValid(r)' <=> OriginsValid(r))
  BY <1>1 DEF MetadataValid, OriginsValid
<1>7. DetailedSound' <=> DetailedSound
  BY <1>4, <1>6 DEF DetailedSound
<1>8. \A rows : RowsSpeakForRuns(rows)' <=> RowsSpeakForRuns(rows)
  BY DEF RowsSpeakForRuns
<1>9. Acceptable' <=> Acceptable
  BY <1>5, <1>8 DEF Acceptable, AcceptableDetailed, AcceptableScenario, AcceptableTls, AcceptableTogether
<1>10. QED
  BY <1>1, <1>2, <1>4, <1>5, <1>7, <1>9

LEMMA PlacedKept ==
    ASSUME placed' = placed
    PROVE  /\ PlacedCells' = PlacedCells /\ AllSaid' = AllSaid
           /\ \A c : /\ Said(c)' = Said(c)
                     /\ ScenarioCell(c)' <=> ScenarioCell(c)
                     /\ TlsCell(c)' <=> TlsCell(c)
           /\ ScenarioGroups' <=> ScenarioGroups
<1>1. \A c : In(c)' = In(c)
  BY DEF In
<1>2. /\ \A c : ScenariosIn(c)' = ScenariosIn(c)
      /\ \A c, s : StacksIn(c, s)' = StacksIn(c, s)
      /\ \A c, s, k : RepeatsIn(c, s, k)' = RepeatsIn(c, s, k)
  BY <1>1 DEF ScenariosIn, StacksIn, RepeatsIn
<1>3. \A c : PoolsComplete(c)' <=> PoolsComplete(c)
  BY <1>2 DEF PoolsComplete
<1>4. \A c : Said(c)' = Said(c)
  BY <1>1 DEF Said
<1>5. PlacedCells' = PlacedCells /\ AllSaid' = AllSaid
  BY <1>4 DEF PlacedCells, AllSaid
<1>6. \A c : ScenarioCell(c)' <=> ScenarioCell(c)
  BY <1>2, <1>3 DEF ScenarioCell
<1>7. \A c : TlsCell(c)' <=> TlsCell(c)
  BY <1>1, <1>3 DEF TlsCell
<1>8. ScenarioGroups' <=> ScenarioGroups
  BY <1>2, <1>5 DEF ScenarioGroups
<1>9. QED
  BY <1>4, <1>5, <1>6, <1>7, <1>8

LEMMA SelectionStarts == Init => IInv
<1> SUFFICES ASSUME Init
             PROVE  IInv
  OBVIOUS
<1>1. Shape
  BY DEF Init, Shape
<1>2. SeatsTaken
  <2>1. input.runs \ todo = {}
    BY DEF Init
  <2>2. QED
    BY <2>1 DEF Init, SeatsTaken, Seated
<1>3. Taken = {} /\ PlacedCells = {}
  BY SelectionAssumption DEF Init, Taken, PlacedCells
<1>4. RowsTaken
  BY <1>3 DEF Init, RowsTaken
<1>5. CellsJudged
  BY <1>3 DEF Init, CellsJudged
<1>6. RejectionDeserved
  <2>1. SUFFICES ASSUME input.mode # "detailed", Ambiguous(input.rows)
                 PROVE  ~Acceptable
    BY DEF Init, RejectionDeserved
  <2>2. input \in Inputs /\ ~Placeable
    BY <2>1 DEF Init, Placeable
  <2>3. QED
    BY <2>1, <2>2, TogetherNecessary DEF Acceptable, AcceptableScenario, AcceptableTls
<1>7. QED
  BY <1>1, <1>2, <1>4, <1>5, <1>6 DEF IInv

(* A deserved rejection leaves everything else as it was.                  *)
LEMMA RejectKeeps ==
    ASSUME IInv, Reject, ~Acceptable
    PROVE  IInv'
<1> USE DEF Reject
<1>1. Shape'
  BY DEF IInv, Shape
<1>2. SeatsTaken'
  BY InputKept DEF IInv, SeatsTaken
<1>3. RowsTaken'
  <2>1. Taken' = Taken
    BY DEF Taken
  <2>2. QED
    BY <2>1, InputKept DEF IInv, RowsTaken
<1>4. CellsJudged'
  BY PlacedKept DEF IInv, CellsJudged
<1>5. RejectionDeserved'
  BY InputKept DEF RejectionDeserved
<1>6. QED
  BY <1>1, <1>2, <1>3, <1>4, <1>5 DEF IInv

LEMMA StutterKeeps ==
    ASSUME IInv, UNCHANGED vars
    PROVE  IInv'
<1> USE DEF vars
<1>1. Shape' /\ SeatsTaken' /\ RejectionDeserved'
  BY InputKept DEF IInv, Shape, SeatsTaken, RejectionDeserved
<1>2. RowsTaken'
  <2>1. Taken' = Taken
    BY DEF Taken
  <2>2. QED
    BY <2>1, InputKept DEF IInv, RowsTaken
<1>3. CellsJudged'
  BY PlacedKept DEF IInv, CellsJudged
<1>4. QED
  BY <1>1, <1>2, <1>3 DEF IInv

(* A place is occupied when a run that was read has the same seat.         *)
LEMMA SeatRunKeeps ==
    ASSUME IInv, SeatRun
    PROVE  IInv'
<1>0. input \in Inputs /\ input.mode = "detailed" /\ verdict = "runs"
  BY DEF IInv, Shape, SeatRun
<1>a. /\ left = {} /\ waiting = {} /\ agreed = {}
      /\ placed = {SeatOf(r) : r \in input.runs \ todo}
      /\ Seated(input.runs \ todo) /\ todo \subseteq input.runs
  BY <1>0 DEF IInv, Shape, SeatsTaken
<1>1. PICK r \in todo :
        IF Cardinality(TagsOf(r)) # 1 \/ \E t \in TagsOf(r) : t[3] \notin Configs
        THEN Reject
        ELSE IF Occupied(SeatOf(r)) THEN Reject
             ELSE /\ placed' = placed \cup {SeatOf(r)}
                  /\ todo' = todo \ {r}
                  /\ UNCHANGED <<input, left, waiting, agreed, verdict>>
  BY DEF SeatRun, TagsOf, SeatOf
<1>2. Acceptable => Seated(input.runs)
  BY <1>0, DetailedNecessary DEF Acceptable, DetailedSound
<1>3. CASE ~Tagged(r)
  <2>1. Reject
    BY <1>1, <1>3 DEF Tagged
  <2>2. ~Acceptable
    BY <1>2, <1>3, <1>a DEF Seated
  <2>3. QED
    BY <2>1, <2>2, RejectKeeps
<1>4. CASE Tagged(r) /\ Occupied(SeatOf(r))
  <2>1. Reject
    BY <1>1, <1>4 DEF Tagged
  <2>2. PICK s \in input.runs \ todo : SeatOf(s).cell = SeatOf(r).cell /\ SeatOf(s).slot = SeatOf(r).slot
    BY <1>4, <1>a DEF Occupied
  <2>3. s # r
    BY <2>2
  <2>4. ~Acceptable
    BY <1>2, <1>a, <2>2, <2>3 DEF Seated
  <2>5. QED
    BY <2>1, <2>4, RejectKeeps
<1>5. CASE Tagged(r) /\ ~Occupied(SeatOf(r))
  <2>1. /\ placed' = placed \cup {SeatOf(r)}
        /\ todo' = todo \ {r}
        /\ UNCHANGED <<input, left, waiting, agreed, verdict>>
    BY <1>1, <1>5 DEF Tagged
  <2>2. input.runs \ todo' = (input.runs \ todo) \cup {r}
    BY <2>1, <1>a
  <2>3. Seated(input.runs \ todo')
    <3>1. \A s \in input.runs \ todo : SeatOf(s).cell # SeatOf(r).cell \/ SeatOf(s).slot # SeatOf(r).slot
      BY <1>5, <1>a DEF Occupied
    <3>2. QED
      BY <1>5, <1>a, <2>2, <3>1 DEF Seated
  <2>4. placed' = {SeatOf(s) : s \in input.runs \ todo'}
    BY <1>a, <2>1, <2>2
  <2>5. SeatsTaken'
    BY <1>0, <1>a, <2>1, <2>3, <2>4, InputKept DEF SeatsTaken
  <2>6. Shape' /\ RowsTaken' /\ CellsJudged' /\ RejectionDeserved'
    BY <1>0, <2>1 DEF IInv, Shape, RowsTaken, CellsJudged, RejectionDeserved
  <2>7. QED
    BY <2>5, <2>6 DEF IInv
<1>6. QED
  BY <1>3, <1>4, <1>5

LEMMA ConcludeDetailedKeeps ==
    ASSUME IInv, ConcludeDetailed
    PROVE  IInv'
<1>1. /\ input \in Inputs /\ input.mode = "detailed" /\ todo = {} /\ verdict = "runs"
      /\ UNCHANGED <<input, todo, left, placed, waiting, agreed>>
  BY DEF IInv, Shape, ConcludeDetailed
<1>2. input.runs \ todo = input.runs
  BY <1>1
<1>3. /\ verdict' = "accepted" <=> DetailedSound
      /\ verdict' \in {"accepted", "rejected"}
  BY <1>1, <1>2 DEF ConcludeDetailed, IInv, SeatsTaken, DetailedSound
<1>4. Acceptable => DetailedSound
  BY <1>1, DetailedNecessary DEF Acceptable
<1>5. SeatsTaken'
  BY <1>1, <1>3, InputKept DEF IInv, SeatsTaken
<1>6. RejectionDeserved'
  BY <1>1, <1>3, <1>4, InputKept DEF RejectionDeserved
<1>7. Shape' /\ RowsTaken' /\ CellsJudged'
  BY <1>1, <1>3 DEF IInv, Shape, RowsTaken, CellsJudged
<1>8. QED
  BY <1>5, <1>6, <1>7 DEF IInv

(* What cannot all be placed is never acceptable in a comparison.          *)
LEMMA Misplaced ==
    ASSUME input \in Inputs, input.mode # "detailed", ~Placeable
    PROVE  ~Acceptable
BY TogetherNecessary DEF Acceptable, AcceptableScenario, AcceptableTls

LEMMA OpenRunKeeps ==
    ASSUME IInv, OpenRun
    PROVE  IInv'
<1>0. input \in Inputs /\ input.mode # "detailed" /\ verdict = "runs" /\ todo \subseteq input.runs
  BY DEF IInv, Shape, OpenRun
<1>1. PICK r \in todo :
        IF Complete(r, RowsOf(r))
        THEN /\ left' = RowsOf(r)
             /\ todo' = todo \ {r}
             /\ verdict' = "rows"
             /\ UNCHANGED <<input, placed, waiting, agreed>>
        ELSE Reject
  BY DEF OpenRun
<1>2. CASE ~Complete(r, RowsOf(r))
  <2>1. Reject
    BY <1>1, <1>2
  <2>2. ~Acceptable
    BY <1>0, <1>2, Misplaced DEF Placeable
  <2>3. QED
    BY <2>1, <2>2, RejectKeeps
<1>3. CASE Complete(r, RowsOf(r))
  <2>1. /\ left' = RowsOf(r) /\ todo' = todo \ {r} /\ verdict' = "rows"
        /\ UNCHANGED <<input, placed, waiting, agreed>>
    BY <1>1, <1>3
  <2>2. left = {}
    BY <1>0 DEF IInv, RowsTaken
  <2>3. Taken' = Taken
    <3>1. \A x \in input.rows : (x.run \notin todo' /\ x \notin left') <=> x.run \notin todo
      BY <2>1 DEF RowsOf
    <3>2. QED
      BY <2>1, <2>2, <3>1 DEF Taken
  <2>4. Shape'
    BY <2>1 DEF IInv, Shape
  <2>5. RowsTaken'
    <3>1. \A s \in input.runs \ todo' : Complete(s, RowsOf(s))
      BY <1>0, <1>3, <2>1 DEF IInv, RowsTaken
    <3>2. \A x \in left' : x \in input.rows /\ x.run \notin todo'
      BY <2>1 DEF RowsOf
    <3>3. QED
      BY <1>0, <2>1, <2>3, <3>1, <3>2, InputKept DEF IInv, RowsTaken
  <2>6. CellsJudged'
    BY <1>0, <2>1, PlacedKept DEF IInv, CellsJudged
  <2>7. SeatsTaken' /\ RejectionDeserved'
    BY <1>0, <2>1 DEF SeatsTaken, RejectionDeserved
  <2>8. QED
    BY <2>4, <2>5, <2>6, <2>7 DEF IInv
<1>4. QED
  BY <1>2, <1>3

LEMMA TakeRowKeeps ==
    ASSUME IInv, TakeRow
    PROVE  IInv'
<1>0. input \in Inputs /\ input.mode # "detailed" /\ verdict = "rows"
  BY DEF IInv, Shape, SeatsTaken, TakeRow
<1>a. /\ placed = {Place(x) : x \in Taken}
      /\ \A x \in Taken : RowValid(x)
      /\ \A x, y \in Taken : SamePlace(x, y) => x = y
      /\ \A r \in input.runs \ todo : Complete(r, RowsOf(r))
      /\ \A x \in left : x \in input.rows /\ x.run \notin todo
      /\ ~Ambiguous(input.rows)
      /\ waiting = {} /\ agreed = {}
  BY <1>0 DEF IInv, RowsTaken, CellsJudged
<1>1. PICK row \in left :
        IF ~RowValid(row) \/ Occupied(Place(row)) THEN Reject
        ELSE /\ placed' = placed \cup {Place(row)}
             /\ left' = left \ {row}
             /\ verdict' = IF left' = {} THEN "runs" ELSE "rows"
             /\ UNCHANGED <<input, todo, waiting, agreed>>
  BY DEF TakeRow
<1>2. row \in input.rows /\ row \notin Taken
  BY <1>a DEF Taken
<1>3. Occupied(Place(row)) <=> \E x \in Taken : SamePlace(x, row)
  BY <1>a DEF Occupied, SamePlace
<1>4. CASE ~RowValid(row) \/ Occupied(Place(row))
  <2>1. Reject
    BY <1>1, <1>4
  <2>2. ~Placeable
    BY <1>2, <1>3, <1>4 DEF Placeable, Taken
  <2>3. QED
    BY <1>0, <2>1, <2>2, Misplaced, RejectKeeps
<1>5. CASE RowValid(row) /\ ~Occupied(Place(row))
  <2>1. /\ placed' = placed \cup {Place(row)} /\ left' = left \ {row}
        /\ verdict' = IF left' = {} THEN "runs" ELSE "rows"
        /\ UNCHANGED <<input, todo, waiting, agreed>>
    BY <1>1, <1>5
  <2>2. Taken' = Taken \cup {row}
    BY <1>2, <1>a, <2>1 DEF Taken
  <2>3. Shape'
    BY <2>1 DEF IInv, Shape
  <2>4. RowsTaken'
    <3>1. placed' = {Place(x) : x \in Taken'}
      BY <1>a, <2>1, <2>2
    <3>2. \A x \in Taken' : RowValid(x)
      BY <1>5, <1>a, <2>2
    <3>3. \A x, y \in Taken' : SamePlace(x, y) => x = y
      <4>1. \A x \in Taken : ~SamePlace(x, row) /\ ~SamePlace(row, x)
        BY <1>3, <1>5 DEF SamePlace
      <4>2. QED
        BY <1>a, <2>2, <4>1
    <3>4. \A x \in left' : x \in input.rows' /\ x.run \notin todo'
      BY <1>a, <2>1
    <3>5. \A r \in input.runs' \ todo' : Complete(r, RowsOf(r)')
      BY <1>a, <2>1, InputKept
    <3>6. verdict' \in {"runs", "rows"} /\ (verdict' = "runs" => left' = {})
      BY <2>1
    <3>7. QED
      BY <1>a, <2>1, <3>1, <3>2, <3>3, <3>4, <3>5, <3>6 DEF RowsTaken
  <2>5. CellsJudged'
    BY <1>a, <2>1 DEF CellsJudged
  <2>6. SeatsTaken' /\ RejectionDeserved'
    BY <1>0, <2>1 DEF SeatsTaken, RejectionDeserved
  <2>7. QED
    BY <2>3, <2>4, <2>5, <2>6 DEF IInv
<1>6. QED
  BY <1>4, <1>5

LEMMA AllReadKeeps ==
    ASSUME IInv, AllRead
    PROVE  IInv'
<1>1. /\ input.mode # "detailed" /\ verdict = "runs" /\ todo = {}
      /\ waiting' = PlacedCells /\ verdict' = "cells"
      /\ UNCHANGED <<input, todo, left, placed, agreed>>
  BY DEF AllRead, PlacedCells
<1>2. left = {} /\ agreed = {}
  BY <1>1 DEF IInv, RowsTaken, CellsJudged
<1>3. RowsTaken'
  <2>1. Taken' = Taken
    BY <1>1 DEF Taken
  <2>2. QED
    BY <1>1, <1>2, <2>1, InputKept DEF IInv, RowsTaken
<1>4. CellsJudged'
  <2>1. PlacedCells' = PlacedCells /\ PlacedCells' \ waiting' = {}
    BY <1>1, PlacedKept
  <2>2. QED
    BY <1>1, <1>2, <2>1 DEF CellsJudged, Consistent
<1>5. Shape' /\ SeatsTaken' /\ RejectionDeserved'
  BY <1>1 DEF IInv, Shape, SeatsTaken, RejectionDeserved
<1>6. QED
  BY <1>3, <1>4, <1>5 DEF IInv

(* Once every run is read, every row has its place.                        *)
LEMMA WhenAllRead ==
    ASSUME IInv, input.mode # "detailed", verdict \in {"cells", "accepted"}
    PROVE  AllPlaced /\ Placeable
<1>1. Taken = Supplied
  BY AllSupplied DEF IInv, Shape, RowsTaken, Taken
<1>2. QED
  BY <1>1, AllSupplied DEF IInv, Shape, RowsTaken, AllPlaced, Placeable

(* Looking at a cell moves no row.                                         *)
LEMMA JudgingMovesNothing ==
    ASSUME IInv, input.mode # "detailed", verdict = "cells", verdict' \in {"cells", "accepted"},
           UNCHANGED <<input, todo, left, placed>>
    PROVE  Shape' /\ SeatsTaken' /\ RowsTaken' /\ RejectionDeserved'
<1>1. Taken' = Taken
  BY DEF Taken
<1>2. RowsTaken'
  BY <1>1, InputKept DEF IInv, RowsTaken
<1>3. QED
  BY <1>2 DEF IInv, Shape, SeatsTaken, RejectionDeserved

LEMMA CompareScenariosKeeps ==
    ASSUME IInv, CompareScenarios
    PROVE  IInv'
<1>0. /\ input \in Inputs /\ input.mode = "scenario" /\ verdict = "cells"
      /\ waiting \subseteq PlacedCells /\ agreed \subseteq AllSaid
  BY DEF IInv, Shape, CellsJudged, CompareScenarios
<1>1. PICK c \in waiting :
        IF ScenarioCell(c)
        THEN waiting' = waiting \ {c} /\ UNCHANGED <<input, todo, left, placed, agreed, verdict>>
        ELSE Reject
  BY DEF CompareScenarios, ScenarioCell
<1>2. CASE ~ScenarioCell(c)
  <2>1. Reject
    BY <1>1, <1>2
  <2>2. ~AcceptableScenario
    BY <1>0, <1>2, WhenAllRead, ScenarioNecessary
  <2>3. QED
    BY <1>0, <2>1, <2>2, RejectKeeps DEF Acceptable
<1>3. CASE ScenarioCell(c)
  <2>1. waiting' = waiting \ {c} /\ UNCHANGED <<input, todo, left, placed, agreed, verdict>>
    BY <1>1, <1>3
  <2>2. \A d \in PlacedCells \ waiting' : ScenarioCell(d)
    BY <1>0, <1>3, <2>1 DEF IInv, CellsJudged
  <2>3. CellsJudged'
    BY <1>0, <2>1, <2>2, PlacedKept DEF CellsJudged
  <2>4. QED
    BY <1>0, <2>1, <2>3, JudgingMovesNothing DEF IInv
<1>4. QED
  BY <1>2, <1>3

LEMMA ConcludeScenarioKeeps ==
    ASSUME IInv, ConcludeScenario
    PROVE  IInv'
<1>0. /\ input \in Inputs /\ input.mode = "scenario" /\ verdict = "cells" /\ waiting = {}
      /\ UNCHANGED <<input, todo, left, placed, waiting, agreed>>
      /\ agreed \subseteq AllSaid
      /\ verdict' = IF ScenarioGroups THEN "accepted" ELSE "rejected"
  BY DEF IInv, Shape, CellsJudged, ConcludeScenario, ScenarioGroups, PlacedCells
<1>1. CASE ~ScenarioGroups
  <2>1. Reject
    BY <1>0, <1>1 DEF Reject
  <2>2. ~AcceptableScenario
    BY <1>0, <1>1, WhenAllRead, ScenarioNecessary
  <2>3. QED
    BY <1>0, <2>1, <2>2, RejectKeeps DEF Acceptable
<1>2. CASE ScenarioGroups
  <2>1. verdict' = "accepted"
    BY <1>0, <1>2
  <2>2. CellsJudged'
    BY <1>0, <1>2, <2>1, PlacedKept DEF IInv, CellsJudged
  <2>3. QED
    BY <1>0, <2>1, <2>2, JudgingMovesNothing DEF IInv
<1>3. QED
  BY <1>1, <1>2

LEMMA CompareConfigurationsKeeps ==
    ASSUME IInv, CompareConfigurations
    PROVE  IInv'
<1>0. /\ input \in Inputs /\ input.mode = "tls" /\ verdict = "cells"
      /\ waiting \subseteq PlacedCells
      /\ agreed = UNION {Said(d) : d \in PlacedCells \ waiting}
      /\ \A d \in PlacedCells \ waiting : TlsCell(d)
  BY DEF IInv, Shape, CellsJudged, CompareConfigurations
<1>1. PICK c \in waiting :
        IF Consistent(agreed \cup Said(c)) /\ TlsCell(c)
        THEN /\ waiting' = waiting \ {c}
             /\ agreed' = agreed \cup Said(c)
             /\ UNCHANGED <<input, todo, left, placed, verdict>>
        ELSE Reject
  BY DEF CompareConfigurations, TlsCell
<1>2. agreed \cup Said(c) \subseteq AllSaid
  BY <1>0 DEF AllSaid
<1>3. CASE ~(Consistent(agreed \cup Said(c)) /\ TlsCell(c))
  <2>1. Reject
    BY <1>1, <1>3
  <2>2. Consistent(AllSaid) => Consistent(agreed \cup Said(c))
    BY <1>2 DEF Consistent
  <2>3. ~AcceptableTls
    BY <1>0, <1>3, <2>2, WhenAllRead, TlsNecessary
  <2>4. QED
    BY <1>0, <2>1, <2>3, RejectKeeps DEF Acceptable
<1>4. CASE Consistent(agreed \cup Said(c)) /\ TlsCell(c)
  <2>1. /\ waiting' = waiting \ {c} /\ agreed' = agreed \cup Said(c)
        /\ UNCHANGED <<input, todo, left, placed, verdict>>
    BY <1>1, <1>4
  <2>2. PlacedCells \ waiting' = (PlacedCells \ waiting) \cup {c}
    BY <1>0, <2>1
  <2>3. agreed' = UNION {Said(d) : d \in PlacedCells \ waiting'}
    BY <1>0, <2>1, <2>2
  <2>4. \A d \in PlacedCells \ waiting' : TlsCell(d)
    BY <1>0, <1>4, <2>2
  <2>5. CellsJudged'
    <3>1. /\ PlacedCells' = PlacedCells /\ AllSaid' = AllSaid
          /\ \A d : Said(d)' = Said(d) /\ (TlsCell(d)' <=> TlsCell(d))
      BY <2>1, PlacedKept
    <3>2. agreed' = UNION {Said(d)' : d \in PlacedCells' \ waiting'}
      BY <2>3, <3>1
    <3>3. agreed' \subseteq AllSaid' /\ Consistent(agreed')
      BY <1>2, <1>4, <2>1, <3>1
    <3>4. QED
      BY <1>0, <2>1, <2>4, <3>1, <3>2, <3>3 DEF CellsJudged, Consistent
  <2>6. QED
    BY <1>0, <2>1, <2>5, JudgingMovesNothing DEF IInv
<1>5. QED
  BY <1>3, <1>4

LEMMA ConcludeTlsKeeps ==
    ASSUME IInv, ConcludeTls
    PROVE  IInv'
<1>1. /\ input.mode = "tls" /\ verdict = "cells" /\ waiting = {} /\ verdict' = "accepted"
      /\ UNCHANGED <<input, todo, left, placed, waiting, agreed>>
  BY DEF ConcludeTls
<1>2. CellsJudged'
  BY <1>1, PlacedKept DEF IInv, CellsJudged, Consistent
<1>3. QED
  BY <1>1, <1>2, JudgingMovesNothing DEF IInv

LEMMA SelectionSteps == IInv /\ [Next]_vars => IInv'
<1> SUFFICES ASSUME IInv, [Next]_vars
             PROVE  IInv'
  OBVIOUS
<1>1. CASE SeatRun
  BY <1>1, SeatRunKeeps
<1>2. CASE ConcludeDetailed
  BY <1>2, ConcludeDetailedKeeps
<1>3. CASE OpenRun
  BY <1>3, OpenRunKeeps
<1>4. CASE TakeRow
  BY <1>4, TakeRowKeeps
<1>5. CASE AllRead
  BY <1>5, AllReadKeeps
<1>6. CASE CompareScenarios
  BY <1>6, CompareScenariosKeeps
<1>7. CASE ConcludeScenario
  BY <1>7, ConcludeScenarioKeeps
<1>8. CASE CompareConfigurations
  BY <1>8, CompareConfigurationsKeeps
<1>9. CASE ConcludeTls
  BY <1>9, ConcludeTlsKeeps
<1>10. CASE Ended \/ UNCHANGED vars
  BY <1>10, StutterKeeps DEF Ended
<1>11. QED
  BY <1>1, <1>2, <1>3, <1>4, <1>5, <1>6, <1>7, <1>8, <1>9, <1>10 DEF Next

(* The invariant holds of every selection (runs.py), however the rows and  *)
(* the runs happen to be ordered.                                          *)
THEOREM SelectionInvariant == Spec => []IInv
<1>1. QED
  BY SelectionStarts, SelectionSteps, PTL DEF Spec

----------------------------------------------------------------------------
LEMMA IInvTypes == IInv => TypeOK
<1> SUFFICES ASSUME IInv
             PROVE  TypeOK
  OBVIOUS
<1>0. Supplied = input.rows /\ input \in Inputs
  BY AllSupplied DEF IInv, Shape
<1>1. input.runs \subseteq DOMAIN FamilyOf
  BY <1>0, SelectionAssumption
<1>2. todo \subseteq input.runs /\ verdict \in {"runs", "rows", "cells", "accepted", "rejected"}
  BY DEF IInv, Shape
<1>3. CASE input.mode = "detailed"
  <2>1. \A r : SeatOf(r).content = r
    BY DEF SeatOf, Seat
  <2>2. QED
    BY <1>1, <1>2, <1>3, <2>1 DEF IInv, SeatsTaken, TypeOK
<1>4. CASE input.mode # "detailed"
  <2>1. \A x : Place(x).content = x
    BY PlaceOf
  <2>2. \A p \in placed : p.content \in Supplied
    BY <1>0, <1>4, <2>1 DEF IInv, RowsTaken, Taken
  <2>3. left \subseteq Supplied /\ waiting \subseteq {p.cell : p \in placed}
    BY <1>0, <1>4 DEF IInv, RowsTaken, CellsJudged, PlacedCells
  <2>4. ASSUME NEW f \in agreed, f[1][1] = "run"
        PROVE  \E row \in RowsOf(f[1][2]) : f[2] = Tags(row)
    <3>1. PICK c \in PlacedCells : f \in Said(c)
      BY <1>4 DEF IInv, CellsJudged, AllSaid
    <3>2. PICK p \in In(c) : f = <<<<"run", p.content.run>>, Tags(p.content)>>
      BY <2>4, <3>1 DEF Said
    <3>3. p.content \in RowsOf(p.content.run)
      BY <1>0, <2>2 DEF In, RowsOf
    <3>4. QED
      BY <3>2, <3>3
  <2>5. QED
    BY <1>1, <1>2, <2>2, <2>3, <2>4 DEF TypeOK
<1>5. QED
  BY <1>3, <1>4

(* Type correctness of the selection (runs.py): nothing is put in place    *)
(* but what was supplied, and what is agreed of a run is what a row of     *)
(* this run says.                                                          *)
THEOREM SelectionTypes == Spec => []TypeOK
<1>1. QED
  BY SelectionInvariant, IInvTypes, PTL

LEMMA IInvVerdict == IInv => OrderNeverMatters
<1> SUFFICES ASSUME IInv, verdict = "accepted"
             PROVE  Acceptable
  BY DEF OrderNeverMatters, IInv, RejectionDeserved
<1>0. input \in Inputs /\ input.mode \in {"detailed", "scenario", "tls"}
  BY SelectionAssumption DEF IInv, Shape
<1>1. CASE input.mode = "detailed"
  BY <1>0, <1>1, DetailedSufficient DEF IInv, SeatsTaken, Acceptable
<1>2. CASE input.mode = "scenario"
  <2>1. AllPlaced /\ Placeable
    BY <1>2, WhenAllRead
  <2>2. ScenarioGroups /\ \A c \in PlacedCells : ScenarioCell(c)
    BY <1>2 DEF IInv, CellsJudged
  <2>3. QED
    BY <1>0, <1>2, <2>1, <2>2, ScenarioSufficient DEF Acceptable
<1>3. CASE input.mode = "tls"
  <2>1. AllPlaced /\ Placeable
    BY <1>3, WhenAllRead
  <2>2. PlacedCells \ waiting = PlacedCells
    BY <1>3 DEF IInv, CellsJudged
  <2>3. Consistent(AllSaid) /\ \A c \in PlacedCells : TlsCell(c)
    BY <1>3, <2>2 DEF IInv, CellsJudged, AllSaid
  <2>4. QED
    BY <1>0, <1>3, <2>1, <2>3, TlsSufficient DEF Acceptable
<1>4. QED
  BY <1>0, <1>1, <1>2, <1>3

(* Whatever the order in which run ids were typed and rows were read, the  *)
(* verdict of runs.py is the one the set of runs and its data deserve.     *)
THEOREM VerdictByDataAlone == Spec => []OrderNeverMatters
<1>1. QED
  BY SelectionInvariant, IInvVerdict, PTL

LEMMA IInvCounted == IInv => EveryRowCounted
<1> SUFFICES ASSUME IInv, verdict = "accepted"
             PROVE  /\ \A r \in input.runs :
                         Cardinality(RowsOf(r)) >= Cardinality(ExpectedExecutions(FamilyOf[r]))
                    /\ Cardinality(placed) = Cardinality({p.content : p \in placed})
                    /\ {p.content : p \in placed}
                         = IF input.mode = "detailed" THEN input.runs ELSE Supplied
  BY DEF EveryRowCounted
<1> DEFINE subjects == IF input.mode = "detailed" THEN input.runs ELSE Supplied
           at == [s \in subjects |-> IF input.mode = "detailed" THEN SeatOf(s) ELSE Place(s)]
           content == [p \in placed |-> p.content]
<1>0. input \in Inputs /\ Supplied = input.rows
  BY AllSupplied DEF IInv, Shape
<1>1. IsFiniteSet(subjects)
  BY <1>0, SelectionAssumption
<1>2. placed = {at[s] : s \in subjects}
  <2>1. CASE input.mode = "detailed"
    <3>1. input.runs \ todo = input.runs
      BY <2>1 DEF IInv, SeatsTaken
    <3>2. QED
      BY <2>1, <3>1 DEF IInv, SeatsTaken
  <2>2. CASE input.mode # "detailed"
    BY <2>2, WhenAllRead DEF AllPlaced
  <2>3. QED
    BY <2>1, <2>2
<1>3. \A s \in subjects : at[s].content = s
  BY PlaceOf DEF SeatOf, Seat
<1>4. IsFiniteSet(placed)
  <2>1. at \in [subjects -> placed]
    BY <1>2
  <2>2. QED
    <3> HIDE DEF at, subjects
    <3> QED
      BY <1>1, <1>2, <2>1, Image
<1>5. {p.content : p \in placed} = subjects
  <2> HIDE DEF at, subjects
  <2> QED
    BY <1>2, <1>3
<1>6. \A p, q \in placed : p.content = q.content => p = q
  <2> HIDE DEF at, subjects
  <2> QED
    BY <1>2, <1>3
<1>7. Cardinality(placed) = Cardinality({p.content : p \in placed})
  <2> DEFINE contents == {p.content : p \in placed}
  <2>1. /\ content \in [placed -> contents] /\ contents = {content[p] : p \in placed}
        /\ \A p, q \in placed : content[p] = content[q] => p = q
    BY <1>6
  <2>2. Cardinality(contents) = Cardinality(placed)
          <=> \A p, q \in placed : content[p] = content[q] => p = q
    <3> HIDE DEF content, contents
    <3> QED
      BY <1>4, <2>1, Image
  <2>3. QED
    BY <2>1, <2>2
<1>8. \A r \in input.runs : Complete(r, RowsOf(r))
  <2>1. CASE input.mode = "detailed"
    BY <2>1 DEF IInv, SeatsTaken, DetailedSound, MetadataValid
  <2>2. CASE input.mode # "detailed"
    BY <2>2, WhenAllRead DEF Placeable
  <2>3. QED
    BY <2>1, <2>2
<1>9. QED
  BY <1>0, <1>5, <1>7, <1>8, OneRowEach

(* A chart drawn by runs.py rests on every row of every run supplied, each *)
(* in a place of its own.                                                  *)
THEOREM NothingPassedOver == Spec => []EveryRowCounted
<1>1. QED
  BY SelectionInvariant, IInvCounted, PTL

----------------------------------------------------------------------------
LEMMA ComparedAlike ==
    ASSUME input \in Inputs, input.mode # "detailed", Acceptable,
           NEW x \in Supplied, NEW y \in Supplied, Profile(x) = Profile(y),
           input.mode = "tls" \/ x.config = y.config
    PROVE  x.settings = y.settings
<1>1. CASE input.mode = "tls"
  BY <1>1 DEF Acceptable, AcceptableTls
<1>2. CASE input.mode # "tls"
  <2>1. AcceptableScenario /\ x.config = y.config
    BY <1>2, SelectionAssumption DEF Acceptable
  <2>2. QED
    BY <2>1 DEF AcceptableScenario
<1>3. QED
  BY <1>1, <1>2

LEMMA RunsTagged ==
    ASSUME input \in Inputs, input.mode # "detailed", Acceptable, TaggedOnce,
           NEW x \in Supplied, NEW y \in Supplied, x.run = y.run
    PROVE  Tags(x) = Tags(y)
<1>1. CASE input.mode = "tls"
  BY <1>1 DEF Acceptable, AcceptableTls
<1>2. CASE input.mode # "tls"
  BY <1>2, SelectionAssumption DEF TaggedOnce
<1>3. QED
  BY <1>1, <1>2

(* Were two runs pooled, the first would have a row in the place of each   *)
(* row of the second: it is complete, and all its rows bear the same tags. *)
LEMMA PooledInOneRun ==
    ASSUME input \in Inputs, input.mode # "detailed", Acceptable, TaggedOnce,
           NEW x \in Supplied, NEW y \in Supplied, Place(x).cell = Place(y).cell,
           Scenario(x) = Scenario(y), Stack(x) = Stack(y)
    PROVE  x.run = y.run
<1>1. Placeable
  BY Misplaced
<1>2. x.config = y.config /\ Profile(x) = Profile(y) /\ x.settings = y.settings
  BY SameCell
<1>3. FamilyIn(x) = FamilyIn(y)
  BY <1>2 DEF Profile
<1>4. PICK z \in RowsOf(x.run) : z.execution = y.execution
  <2>1. y.execution \in ExpectedExecutions(FamilyIn(y))
    BY <1>1, RowOfRun DEF Placeable, Complete, ExecutionsOf, FamilyIn
  <2>2. y.execution \in ExecutionsOf(RowsOf(x.run))
    BY <1>1, <1>3, <2>1, RowOfRun DEF Placeable, Complete, FamilyIn
  <2>3. QED
    BY <2>2 DEF ExecutionsOf
<1>5. z \in Supplied /\ z.run = x.run
  BY RowOfRun
<1>6. Tags(z) = Tags(x)
  BY <1>5, RunsTagged
<1>7. z.config = y.config /\ Scenario(z) = Scenario(y) /\ Stack(z) = Stack(y)
  BY <1>2, <1>6 DEF Tags, Scenario, Stack
<1>8. Profile(z) = Profile(y) /\ Repeat(z) = Repeat(y)
  BY <1>3, <1>4, <1>5 DEF Profile, Repeat, FamilyIn
<1>9. z.settings = y.settings
  BY <1>5, <1>7, <1>8, ComparedAlike
<1>10. SamePlace(z, y)
  BY <1>7, <1>8, <1>9, SameCell DEF SamePlace
<1>11. z = y
  BY <1>1, <1>5, <1>10, AllSupplied DEF Placeable
<1>12. QED
  BY <1>5, <1>11

LEMMA IInvComparable == IInv => OnlyComparablePooled
<1> SUFFICES ASSUME IInv, TaggedOnce, verdict = "accepted", input.mode # "detailed",
                    NEW p \in placed, NEW q \in placed
             PROVE  LET x == p.content
                        y == q.content
                        pooled == p.cell = q.cell /\ p.slot[1] = q.slot[1] /\ p.slot[2] = q.slot[2]
                        compared == Profile(x) = Profile(y) /\ (input.mode = "tls" \/ x.config = y.config)
                    IN  /\ pooled => x.run = y.run /\ x.stack = y.stack /\ (p # q => Repeat(x) # Repeat(y))
                        /\ compared => x.settings = y.settings
                        /\ (compared /\ input.mode = "tls") =>
                             /\ (p.slot[1] = q.slot[1] /\ p.slot[2] = q.slot[2]) => x.stack = y.stack
                             /\ x.config # y.config => x.run # y.run
  BY DEF OnlyComparablePooled
<1>0. input \in Inputs /\ Acceptable /\ AllPlaced /\ Placeable
  BY IInvVerdict, WhenAllRead DEF IInv, Shape, OrderNeverMatters
<1>1. PICK x \in Supplied, y \in Supplied : p = Place(x) /\ q = Place(y)
  BY <1>0 DEF AllPlaced
<1>2. p.content = x /\ q.content = y
  BY <1>1, PlaceOf
<1>3. p.slot = SlotOf(x) /\ q.slot = SlotOf(y)
  BY <1>1, PlaceOf DEF SlotOf
<1>4. /\ p.slot[1] = Scenario(x) /\ p.slot[2] = Stack(x)
      /\ q.slot[1] = Scenario(y) /\ q.slot[2] = Stack(y)
  BY <1>3 DEF SlotOf
<1>5. ASSUME p.cell = q.cell, Scenario(x) = Scenario(y), Stack(x) = Stack(y)
      PROVE  x.run = y.run /\ x.stack = y.stack /\ (p # q => Repeat(x) # Repeat(y))
  <2>1. x.run = y.run
    BY <1>0, <1>1, <1>5, PooledInOneRun
  <2>2. Tags(x) = Tags(y)
    BY <1>0, <2>1, RunsTagged
  <2>3. Repeat(x) = Repeat(y) => SamePlace(x, y)
    BY <1>1, <1>5, SameCell DEF SamePlace
  <2>4. Repeat(x) = Repeat(y) => x = y
    BY <1>0, <2>3, AllSupplied DEF Placeable
  <2>5. QED
    BY <1>1, <2>1, <2>2, <2>4 DEF Tags
<1>6. (Profile(x) = Profile(y) /\ (input.mode = "tls" \/ x.config = y.config)) => x.settings = y.settings
  BY <1>0, ComparedAlike
<1>7. ASSUME input.mode = "tls", Profile(x) = Profile(y)
      PROVE  /\ (Scenario(x) = Scenario(y) /\ Stack(x) = Stack(y)) => x.stack = y.stack
             /\ x.config # y.config => x.run # y.run
  <2>1. AcceptableTls
    BY <1>0, <1>7 DEF Acceptable
  <2>2. (Scenario(x) = Scenario(y) /\ Stack(x) = Stack(y)) => x.stack = y.stack
    BY <1>7, <2>1 DEF AcceptableTls
  <2>3. x.run = y.run => x.config = y.config
    BY <1>0, RunsTagged DEF Tags
  <2>4. QED
    BY <2>2, <2>3
<1>8. QED
  BY <1>2, <1>4, <1>5, <1>6, <1>7

(* In a comparison of runs.py, what is pooled are repeats of one run, and  *)
(* what stands side by side had the same settings and, in TLS mode, the    *)
(* same runtime and a run of its own: always in TLS mode, and in scenario  *)
(* mode when each supplied run has been stored under one set of tags.      *)
THEOREM PooledIsComparable == Spec => []OnlyComparablePooled
<1>1. QED
  BY SelectionInvariant, IInvComparable, PTL

=============================================================================
