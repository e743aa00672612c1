---------------------------- MODULE DataPlaneProofs ----------------------------
(***************************************************************************)
(* Proofs about DataPlane: boots, for whatever the files held at first and *)
(* wherever the boots before ended, the answers of markets, derivatives,   *)
(* quotes, the backfill of charts, and volumes.  Each topic has an         *)
(* inductive invariant of its own; a step of another topic leaves its      *)
(* variables alone.  Sums of rows are reasoned about by the smallest set   *)
(* that would be a counterexample.                                         *)
(***************************************************************************)
EXTENDS DataPlane, RowOrder, FiniteSetTheorems, TLAPS

-----------------------------------------------------------------------------
(* Boots.  The inductive invariant. *)

\* What is no database with tables holds nothing.
RowsNeedTables == \A f \in File : disk[f].kind # "tables" => disk[f] = NoRows(disk[f].kind)

\* The files yet to be made whole, and the stages that wait for them: the fallback
\* first, and the default database only for a process that works in memory.
QueueKept ==
    /\ boot.todo \in {<<>>, <<Validation>>, <<Validation, Default>>, <<Default>>}
    /\ boot.todo # <<>> => boot.stage \in {"access", "resolve"}
    /\ boot.todo = <<>> => boot.step = "check"
    /\ boot.url # Memory => boot.todo \in {<<>>, <<Validation>>}

\* A file under construction was looked at, then given its tables, then its snapshots.
BuildKept ==
    boot.todo # <<>> =>
        /\ boot.step = "build" => disk[Target].kind \in {"absent", "blank", "tables"}
        /\ boot.step \in {"snapshots", "tickers"} => disk[Target].kind = "tables"
        /\ boot.step = "tickers" => disk[Target].live = Coins

\* Who writes to a file has one with tables.
WritersHaveTables ==
    /\ boot.held => boot.url \in File /\ disk[boot.url].kind = "tables"
    /\ main = "attached" => disk[Default].kind = "tables"

\* The stages behind the check of the fallback.
Importing == boot.stage \in {"resolve", "seed", "sync", "finish"} /\ boot.access = "seeded_bootstrap"

FallbackKept == Importing /\ boot.todo \in {<<>>, <<Default>>} => Whole(disk[Validation])

\* The source chosen is one with live snapshots, and the process's own file if that
\* has any: the fallback's, which is whole by then, or its own default database,
\* which was admitted for them.
SourceKept ==
    /\ boot.stage = "seed" => /\ boot.access = "seeded_bootstrap"
                              /\ boot.from \in File /\ disk[boot.from].live # {}
                              /\ boot.url = Validation => boot.from = Validation
    /\ boot.url = Default /\ ~boot.rebuild /\ boot.access = "seeded_bootstrap"
         /\ boot.stage \in {"open", "resolve", "seed"}
       => /\ disk[Default].live # {}
          /\ boot.stage = "seed" => boot.from = Default

BootInv ==
    /\ TypeOK
    /\ RowsNeedTables
    /\ QueueKept
    /\ BuildKept
    /\ WritersHaveTables
    /\ FallbackKept
    /\ SourceKept

-----------------------------------------------------------------------------
(* What the operations on a file keep. *)

Sound(c) == c.kind # "tables" => c = NoRows(c.kind)

LEMMA NothingInside ==
    \A k \in {"absent", "corrupt", "blank", "tables"} : NoRows(k) \in Content /\ Sound(NoRows(k))
BY DEF NoRows, Content, Sound

LEMMA OpeningKeeps ==
    ASSUME NEW c \in Content, Sound(c)
    PROVE  /\ Opened(c) \in Content /\ Sound(Opened(c))
           /\ Looked(c) \in Content /\ Sound(Looked(c)) /\ Looked(c).kind # "corrupt"
           /\ Opened(c).live = c.live /\ Opened(c).rich = c.rich
           /\ Looked(c).live = c.live /\ Looked(c).rich = c.rich
           /\ c.kind = "tables" => Opened(c) = c /\ Looked(c) = c
           /\ c.kind # "corrupt" => Opened(c).kind \in {"blank", "tables"}
<1>1. Absent \in Content /\ Sound(Absent) /\ Absent.kind = "absent"
    BY NothingInside DEF Absent, NoRows
<1>2. NoRows("blank") \in Content /\ Sound(NoRows("blank")) /\ NoRows("blank").kind = "blank"
    BY NothingInside DEF NoRows
<1>3. c.kind # "tables" => c.live = {} /\ c.rich = FALSE
    BY DEF Sound, NoRows
<1>4. Absent.live = {} /\ NoRows("blank").live = {} /\ Absent.rich = FALSE /\ NoRows("blank").rich = FALSE
    BY DEF Absent, NoRows
<1>5. c.kind \in {"absent", "corrupt", "blank", "tables"}
    BY DEF Content
<1>6. CASE c.kind = "absent"
    BY <1>2, <1>3, <1>4, <1>6 DEF Opened, Looked
<1>7. CASE c.kind = "corrupt"
    BY <1>1, <1>3, <1>4, <1>7 DEF Opened, Looked
<1>8. CASE c.kind \in {"blank", "tables"}
    BY <1>8 DEF Opened, Looked
<1> QED
    BY <1>5, <1>6, <1>7, <1>8

LEMMA SeedingKeeps ==
    ASSUME NEW c \in Content, Sound(c)
    PROVE  /\ Migrated(c) \in Content /\ Sound(Migrated(c))
           /\ ReferenceSeeded(c) \in Content
           /\ Migrated(c).live = c.live /\ Migrated(c).rich = c.rich
           /\ ReferenceSeeded(c).live = c.live /\ ReferenceSeeded(c).rich = c.rich
           /\ c.kind \in {"blank", "tables"} => /\ Migrated(c).kind = "tables"
                                               /\ ReferenceSeeded(c).kind = "tables"
BY DEF Content, Sound, Migrated, ReferenceSeeded, NoRows

-----------------------------------------------------------------------------
(* The initial states and the steps. *)

LEMMA BootInit == Init => BootInv
<1> SUFFICES ASSUME Init PROVE BootInv
    OBVIOUS
<1>1. \A f \in File : disk[f] \in Content /\ Sound(disk[f])
    <2>1. {Absent, NoRows("corrupt"), NoRows("tables")} \subseteq {c \in Content : Sound(c)}
        BY NothingInside DEF Absent
    <2>2. [kind : {"tables"}, live : {Coins, Other}, rich : BOOLEAN, charts : {Canonical}]
             \subseteq {c \in Content : Sound(c)}
        BY DEF Content, Sound, Coins
    <2> QED
        BY <2>1, <2>2 DEF Init
<1>2. Idle \in Boot
    BY DEF Idle, Boot
<1>3. TypeOK
    BY <1>1, <1>2 DEF Init, TypeOK
<1> QED
    BY <1>1, <1>3 DEF Init, Idle, BootInv, RowsNeedTables, Sound, QueueKept, BuildKept,
        WritersHaveTables, FallbackKept, Importing, SourceKept

LEMMA DiskKept ==
    ASSUME BootInv, NEW f \in File, NEW c \in Content, Sound(c), disk' = [disk EXCEPT ![f] = c]
    PROVE  /\ disk' \in [File -> Content] /\ RowsNeedTables'
           /\ disk'[f] = c /\ \A g \in File : g # f => disk'[g] = disk[g]
<1>1. disk \in [File -> Content] /\ \A g \in File : Sound(disk[g])
    BY DEF BootInv, TypeOK, RowsNeedTables, Sound
<1>2. \A g \in File : disk'[g] = IF g = f THEN c ELSE disk[g]
    BY <1>1
<1>3. \A g \in File : Sound(disk'[g])
    BY <1>1, <1>2
<1> QED
    BY <1>1, <1>2, <1>3 DEF RowsNeedTables, Sound

\* What the invariant says of a file, and of the one at the head of the queue.
LEMMA FileFacts ==
    ASSUME BootInv
    PROVE  /\ \A f \in File : disk[f] \in Content /\ Sound(disk[f])
           /\ \A f \in File : disk[f].live # {} \/ disk[f].rich => disk[f].kind = "tables"
           /\ boot.todo # <<>> => Target \in File
<1>1. \A f \in File : disk[f] \in Content /\ Sound(disk[f])
    BY DEF BootInv, TypeOK, RowsNeedTables, Sound
<1>2. \A f \in File : disk[f].live # {} \/ disk[f].rich => disk[f].kind = "tables"
    <2> SUFFICES ASSUME NEW f \in File, disk[f].kind # "tables"
                 PROVE  disk[f].live = {} /\ disk[f].rich = FALSE
        BY <1>1 DEF Content
    <2> QED
        <3>1. disk[f] = NoRows(disk[f].kind)
            BY <1>1 DEF Sound
        <3>2. \A k : NoRows(k).live = {} /\ NoRows(k).rich = FALSE
            BY DEF NoRows
        <3> QED
            BY <3>1, <3>2
<1>3. boot.todo # <<>> => Target \in File
    BY DEF BootInv, QueueKept, Target, File
<1> QED
    BY <1>1, <1>2, <1>3

LEMMA QueuesAreOfFiles ==
    {<<>>, <<Validation>>, <<Validation, Default>>, <<Default>>} \subseteq Seq(File)
BY DEF File

LEMMA QueueFacts ==
    ASSUME BootInv, boot.todo # <<>>
    PROVE  /\ Target \in File
           /\ Tail(boot.todo) \in {<<>>, <<Default>>}
           /\ Tail(boot.todo) # <<>> => Target = Validation
           /\ Target = Validation <=> boot.todo # <<Default>>
           /\ boot.url # Memory => Target = Validation /\ Tail(boot.todo) = <<>>
           /\ boot.stage \in {"access", "resolve"}
<1>1. /\ boot.todo \in {<<Validation>>, <<Validation, Default>>, <<Default>>}
      /\ boot.url # Memory => boot.todo = <<Validation>>
      /\ boot.stage \in {"access", "resolve"}
    BY BootstrapAssumption DEF BootInv, QueueKept
<1>2. CASE boot.todo = <<Validation>>
    <2>1. Target = Validation /\ Tail(boot.todo) = <<>> /\ boot.todo # <<Default>>
        BY <1>2, BootstrapAssumption DEF Target
    <2> QED
        BY <1>1, <2>1 DEF File
<1>3. CASE boot.todo = <<Validation, Default>>
    <2>1. Target = Validation /\ Tail(boot.todo) = <<Default>> /\ boot.todo # <<Default>>
             /\ boot.todo # <<Validation>>
        BY <1>3, BootstrapAssumption DEF Target
    <2> QED
        BY <1>1, <2>1 DEF File
<1>4. CASE boot.todo = <<Default>>
    <2>1. Target = Default /\ Tail(boot.todo) = <<>> /\ boot.todo # <<Validation>>
        BY <1>4, BootstrapAssumption DEF Target
    <2> QED
        BY <1>1, <1>4, <2>1, BootstrapAssumption DEF File
<1> QED
    BY <1>1, <1>2, <1>3, <1>4

LEMMA CheckStep == BootInv /\ CheckCorpus => BootInv'
<1> SUFFICES ASSUME BootInv, CheckCorpus PROVE BootInv'
    OBVIOUS
<1>1. /\ Target \in File /\ boot.todo # <<>> /\ boot.step = "check" /\ main' = main
      /\ disk' = [disk EXCEPT ![Target] = Looked(disk[Target])]
      /\ boot' = IF Whole(disk[Target]) THEN [boot EXCEPT !.todo = Tail(@)]
                 ELSE [boot EXCEPT !.step = "build"]
    BY FileFacts DEF CheckCorpus, Building
<1>2. /\ disk' \in [File -> Content] /\ RowsNeedTables'
      /\ disk'[Target] = Looked(disk[Target])
      /\ \A f \in File : f # Target => disk'[f] = disk[f]
    BY <1>1, FileFacts, OpeningKeeps, DiskKept
<1>3. \A f \in File : /\ disk'[f].live = disk[f].live /\ disk'[f].rich = disk[f].rich
                      /\ disk[f].kind = "tables" => disk'[f].kind = "tables"
    BY <1>1, <1>2, FileFacts, OpeningKeeps
<1>4. boot' \in Boot
    BY <1>1, QueueFacts, QueuesAreOfFiles DEF BootInv, TypeOK, Boot
<1>5. QueueKept' /\ BuildKept'
    <2>1. CASE Whole(disk[Target])
        BY <1>1, <2>1, QueueFacts DEF BootInv, QueueKept, BuildKept, TypeOK, Boot
    <2>2. CASE ~Whole(disk[Target])
        <3>1. Looked(disk[Target]).kind \in {"absent", "blank", "tables"}
            BY <1>1, FileFacts, OpeningKeeps DEF Content
        <3>2. Target' = Target /\ boot'.step = "build"
            BY <1>1, <2>2 DEF Target, BootInv, TypeOK, Boot
        <3> QED
            BY <1>1, <1>2, <2>2, <3>1, <3>2 DEF BootInv, QueueKept, BuildKept, TypeOK, Boot
    <2> QED
        BY <2>1, <2>2
<1>6. WritersHaveTables'
    BY <1>1, <1>3 DEF BootInv, WritersHaveTables, TypeOK, Boot, File
<1>7. FallbackKept'
    BY <1>1, <1>3 DEF BootInv, FallbackKept, QueueKept, Importing, Whole, hasUsableLiveSnapshots,
        hasCanonicalPersistentSnapshotCorpus, TypeOK, Boot, Target, File
<1>8. SourceKept'
    BY <1>1, <1>3 DEF BootInv, SourceKept, TypeOK, Boot, File
<1> QED
    BY <1>1, <1>2, <1>4, <1>5, <1>6, <1>7, <1>8 DEF BootInv, TypeOK

LEMMA BuildStep == BootInv /\ (BuildCorpus \/ BuildOverOld) => BootInv'
<1> SUFFICES ASSUME BootInv, BuildCorpus \/ BuildOverOld PROVE BootInv'
    OBVIOUS
<1>1. /\ Target \in File /\ boot.todo # <<>> /\ boot.step = "build"
      /\ disk[Target] \in Content /\ Sound(disk[Target])
      /\ disk[Target].kind \in {"absent", "blank", "tables"}
    BY FileFacts DEF BuildCorpus, BuildOverOld, Building, BootInv, BuildKept
<1>2. PICK old \in {Absent, disk[Target]} :
        /\ disk' = [disk EXCEPT ![Target] = ReferenceSeeded(Opened(old))]
        /\ boot'.held => boot.held /\ (boot.url = Target => old = disk[Target])
        /\ main' = "attached" => main = "attached"
        /\ main' \in {main, "orphaned"}
    BY DEF BuildCorpus, BuildOverOld, Orphans, BootInv, TypeOK, Boot
<1>3. /\ boot' \in Boot /\ boot'.step = "snapshots"
      /\ \A k \in DOMAIN boot \ {"step", "held"} : boot'[k] = boot[k]
    BY DEF BuildCorpus, BuildOverOld, BootInv, TypeOK, Boot
<1>4. old \in Content /\ Sound(old) /\ old.kind \in {"absent", "blank", "tables"}
    <2>1. Absent \in Content /\ Sound(Absent)
        BY NothingInside DEF Absent
    <2>2. Absent.kind = "absent"
        BY DEF Absent, NoRows
    <2> QED
        BY <1>1, <2>1, <2>2
<1>5. /\ ReferenceSeeded(Opened(old)) \in Content /\ ReferenceSeeded(Opened(old)).kind = "tables"
      /\ ReferenceSeeded(Opened(old)).live = old.live
    BY <1>4, OpeningKeeps, SeedingKeeps
<1>6. /\ disk' \in [File -> Content] /\ RowsNeedTables' /\ disk'[Target].kind = "tables"
      /\ \A f \in File : f # Target => disk'[f] = disk[f]
    BY <1>1, <1>2, <1>5, DiskKept DEF Sound
<1>7. /\ boot'.todo = boot.todo /\ boot'.stage = boot.stage /\ boot'.url = boot.url /\ Target' = Target
      /\ boot'.access = boot.access /\ boot'.rebuild = boot.rebuild /\ boot'.from = boot.from
    BY <1>3 DEF BootInv, TypeOK, Boot, Target
<1>8. QueueKept' /\ BuildKept'
    BY <1>1, <1>3, <1>6, <1>7 DEF BootInv, QueueKept, BuildKept
<1>9. WritersHaveTables'
    BY <1>1, <1>2, <1>6, <1>7 DEF BootInv, WritersHaveTables, File
<1>10. FallbackKept' /\ SourceKept'
    BY <1>1, <1>6, <1>7, QueueFacts, BootstrapAssumption DEF BootInv, FallbackKept, SourceKept, Importing,
        File, Whole, hasUsableLiveSnapshots, hasCanonicalPersistentSnapshotCorpus
<1> QED
    BY <1>2, <1>3, <1>6, <1>8, <1>9, <1>10 DEF BootInv, TypeOK

LEMMA AddStep == BootInv /\ (AddSnapshots \/ AddTickers) => BootInv'
<1> SUFFICES ASSUME BootInv, AddSnapshots \/ AddTickers PROVE BootInv'
    OBVIOUS
<1>1. /\ Target \in File /\ boot.todo # <<>> /\ main' = main
      /\ disk[Target] \in Content /\ disk[Target].kind = "tables"
      /\ boot.stage \in {"access", "resolve"}
    BY FileFacts, QueueFacts DEF AddSnapshots, AddTickers, Building, BootInv, BuildKept
<1>2. PICK c \in {[disk[Target] EXCEPT !.live = Coins], [disk[Target] EXCEPT !.rich = TRUE]} :
        disk' = [disk EXCEPT ![Target] = c]
    BY DEF AddSnapshots, AddTickers
<1>3. c \in Content /\ Sound(c) /\ c.kind = "tables"
    BY <1>1 DEF Content, Sound
<1>4. /\ disk' \in [File -> Content] /\ RowsNeedTables' /\ disk'[Target] = c
      /\ \A f \in File : f # Target => disk'[f] = disk[f]
    BY <1>1, <1>2, <1>3, DiskKept
<1>5. /\ boot' \in Boot /\ boot'.stage = boot.stage /\ boot'.url = boot.url /\ boot'.held = boot.held
      /\ boot'.access = boot.access /\ boot'.rebuild = boot.rebuild /\ boot'.from = boot.from
    <2>1. CASE AddSnapshots
        BY <2>1 DEF AddSnapshots, BootInv, TypeOK, Boot
    <2>2. CASE AddTickers
        BY <1>1, <2>2, QueueFacts, QueuesAreOfFiles DEF AddTickers, BootInv, TypeOK, Boot
    <2> QED
        BY <2>1, <2>2
<1>6. WritersHaveTables'
    BY <1>1, <1>3, <1>4, <1>5 DEF BootInv, WritersHaveTables, File
<1>7. SourceKept'
    BY <1>1, <1>4, <1>5, QueueFacts, BootstrapAssumption DEF BootInv, SourceKept, File
<1>8. QueueKept' /\ BuildKept' /\ FallbackKept'
    <2>1. CASE AddSnapshots
        <3>1. boot'.todo = boot.todo /\ boot'.step = "tickers" /\ Target' = Target
            BY <2>1 DEF AddSnapshots, Target, BootInv, TypeOK, Boot
        <3>2. disk'[Target].live = Coins /\ disk'[Target].kind = "tables"
            BY <1>1, <1>4, <2>1 DEF AddSnapshots, BootInv, TypeOK, Content
        <3> QED
            BY <1>1, <1>4, <1>5, <3>1, <3>2, QueueFacts DEF BootInv, QueueKept, BuildKept, FallbackKept,
                Importing, File
    <2>2. CASE AddTickers
        <3>1. boot'.todo = Tail(boot.todo) /\ boot'.step = "check"
            BY <2>2 DEF AddTickers, BootInv, TypeOK, Boot
        <3>2. Whole(disk'[Target])
            BY <1>1, <1>4, <2>2, BootstrapAssumption DEF AddTickers, Building, BootInv, BuildKept, TypeOK,
                Content, Whole, hasUsableLiveSnapshots, hasCanonicalPersistentSnapshotCorpus, Coins
        <3>3. FallbackKept'
            BY <1>1, <1>4, <1>5, <3>1, <3>2, QueueFacts DEF BootInv, FallbackKept, QueueKept, Importing, File
        <3> QED
            BY <1>1, <1>5, <3>1, <3>3, QueueFacts DEF BootInv, QueueKept, BuildKept
    <2> QED
        BY <2>1, <2>2
<1> QED
    BY <1>1, <1>4, <1>5, <1>6, <1>7, <1>8 DEF BootInv, TypeOK

\* A boot that ends, however it does, leaves nothing to rely on.
LEMMA EndKeeps == BootInv /\ (Fails \/ boot' = Idle) /\ UNCHANGED disk /\ main' \in {main, "down"} => BootInv'
<1> SUFFICES ASSUME BootInv, Fails \/ boot' = Idle, UNCHANGED disk, main' \in {main, "down"}
             PROVE  BootInv'
    OBVIOUS
<1>1. /\ boot' \in Boot /\ boot'.stage = "down" /\ boot'.todo = <<>> /\ boot'.step = "check"
      /\ ~boot'.held
    <2>1. CASE Fails
        <3>1. boot.url \in File \cup {Memory} /\ boot.rebuild \in BOOLEAN
            BY DEF BootInv, TypeOK, Boot
        <3>2. boot' = [Idle EXCEPT !.url = boot.url, !.rebuild = boot.rebuild]
            BY <2>1 DEF Fails
        <3> QED
            BY <3>1, <3>2, QueuesAreOfFiles DEF Idle, Boot
    <2>2. CASE boot' = Idle
        BY <2>2 DEF Idle, Boot
    <2> QED
        BY <2>1, <2>2
<1>2. TypeOK' /\ RowsNeedTables' /\ WritersHaveTables'
    BY <1>1 DEF BootInv, TypeOK, RowsNeedTables, WritersHaveTables
<1> QED
    BY <1>1, <1>2 DEF BootInv, QueueKept, BuildKept, FallbackKept, Importing, SourceKept

LEMMA StartStep == BootInv /\ Start => BootInv'
<1> SUFFICES ASSUME BootInv, Start PROVE BootInv'
    OBVIOUS
<1>1. PICK url \in File \cup {Memory}, jobs, local, rebuild, validation \in BOOLEAN :
        /\ jobs /\ url = Default => main = "down"
        /\ LET gate == ~jobs \/ validation \/ local IN
           boot' = [Idle EXCEPT !.stage = "access", !.url = url, !.jobs = jobs, !.gate = gate,
                                !.rebuild = rebuild, !.validation = ~jobs /\ validation,
                                !.todo = IF gate /\ url = Memory THEN Corpora(Memory) ELSE <<>>]
    BY Zenon DEF Start
<1>2. /\ boot' \in Boot /\ boot'.stage = "access" /\ boot'.step = "check"
      /\ ~boot'.held /\ boot'.url = url
      /\ boot'.todo \in {<<>>, <<Validation, Default>>}
      /\ boot'.todo # <<>> => url = Memory
    <2> DEFINE gate == ~jobs \/ validation \/ local
               todo == IF gate /\ url = Memory THEN Corpora(Memory) ELSE <<>>
    <2>1. /\ todo \in {<<>>, <<Validation, Default>>}
          /\ todo # <<>> => url = Memory
          /\ todo \in Seq(File)
        BY QueuesAreOfFiles DEF Corpora
    <2>2. gate \in BOOLEAN /\ (~jobs /\ validation) \in BOOLEAN
        OBVIOUS
    <2>3. boot' = [Idle EXCEPT !.stage = "access", !.url = url, !.jobs = jobs, !.gate = gate,
                               !.rebuild = rebuild, !.validation = ~jobs /\ validation, !.todo = todo]
        BY <1>1
    <2> HIDE DEF todo, gate
    <2>4. boot' = [stage |-> "access", todo |-> todo, step |-> "check", url |-> url,
                   jobs |-> jobs, gate |-> gate, rebuild |-> rebuild, validation |-> ~jobs /\ validation,
                   access |-> "disabled", held |-> FALSE, from |-> Nowhere, rows |-> {},
                   preserved |-> FALSE, completed |-> FALSE, zeroLive |-> FALSE, stale |-> FALSE,
                   mode |-> "off"]
        BY <2>3 DEF Idle
    <2>5. boot' \in Boot
        BY <2>1, <2>2, <2>4 DEF Boot
    <2> QED
        BY <2>1, <2>4, <2>5
<1>3. disk' = disk /\ main' = main
    BY DEF Start
<1>4. TypeOK' /\ RowsNeedTables' /\ WritersHaveTables'
    BY <1>2, <1>3 DEF BootInv, TypeOK, RowsNeedTables, WritersHaveTables
<1>5. QueueKept' /\ BuildKept'
    BY <1>2, BootstrapAssumption DEF QueueKept, BuildKept
<1> QED
    BY <1>2, <1>4, <1>5 DEF BootInv, FallbackKept, Importing, SourceKept

LEMMA AccessStep == BootInv /\ resolveBootstrapSnapshotAccessMode => BootInv'
<1> SUFFICES ASSUME BootInv, resolveBootstrapSnapshotAccessMode PROVE BootInv'
    OBVIOUS
<1> DEFINE f == boot.url
           looks == boot.gate /\ f # Memory /\ disk[f].kind # "absent"
<1>1. /\ boot.stage = "access" /\ boot.todo = <<>> /\ main' = main
      /\ disk' = IF looks THEN [disk EXCEPT ![f] = Looked(disk[f])] ELSE disk
    BY DEF resolveBootstrapSnapshotAccessMode, At
<1>2. /\ boot' \in Boot /\ boot'.stage = "open" /\ boot'.todo = <<>> /\ boot'.step = boot.step
      /\ boot'.url = boot.url /\ boot'.held = boot.held
      /\ boot.url \in File \cup {Memory}
      /\ boot'.access = "seeded_bootstrap" /\ boot.url = Default
           => looks /\ hasUsableLiveSnapshots(disk[f])
    BY BootstrapAssumption DEF resolveBootstrapSnapshotAccessMode, At, BootInv, TypeOK, Boot
<1>3. /\ disk' \in [File -> Content] /\ RowsNeedTables'
      /\ \A g \in File : /\ disk'[g].live = disk[g].live
                         /\ disk[g].kind = "tables" => disk'[g].kind = "tables"
    <2>1. CASE looks
        <3>1. f \in File /\ disk' = [disk EXCEPT ![f] = Looked(disk[f])]
            BY <1>1, <1>2, <2>1
        <3>2. disk[f] \in Content /\ Sound(disk[f])
            BY <3>1, FileFacts
        <3> HIDE DEF f
        <3> QED
            BY <3>1, <3>2, OpeningKeeps, DiskKept
    <2>2. CASE ~looks
        BY <1>1, <2>2 DEF BootInv, TypeOK, RowsNeedTables
    <2> QED
        BY <2>1, <2>2
<1>4. WritersHaveTables'
    BY <1>1, <1>2, <1>3 DEF BootInv, WritersHaveTables, File
<1>5. QueueKept' /\ BuildKept' /\ FallbackKept'
    BY <1>1, <1>2 DEF BootInv, QueueKept, BuildKept, FallbackKept, Importing
<1>6. SourceKept'
    BY <1>2, <1>3 DEF SourceKept, hasUsableLiveSnapshots, File
<1> QED
    BY <1>1, <1>2, <1>3, <1>4, <1>5, <1>6 DEF BootInv, TypeOK

LEMMA OpenStep == BootInv /\ OpenDatabase => BootInv'
<1> SUFFICES ASSUME BootInv, OpenDatabase PROVE BootInv'
    OBVIOUS
<1> DEFINE f == boot.url
           found == IF f = Memory \/ boot.rebuild THEN Absent ELSE disk[f]
<1>1. boot.stage = "open" /\ boot.todo = <<>> /\ f \in File \cup {Memory}
    BY DEF OpenDatabase, At, BootInv, TypeOK, Boot
<1>2. CASE found.kind = "corrupt"
    <2>1. UNCHANGED disk /\ UNCHANGED main /\ Fails
        BY <1>2 DEF OpenDatabase
    <2> QED
        BY <2>1, EndKeeps
<1>3. CASE found.kind # "corrupt"
    <2>1. found \in Content /\ Sound(found)
        <3>1. Absent \in Content /\ Sound(Absent)
            BY NothingInside DEF Absent
        <3> QED
            BY <1>1, <3>1, FileFacts
    <2>2. /\ disk' = IF f = Memory THEN disk ELSE [disk EXCEPT ![f] = Migrated(Opened(found))]
          /\ boot' = [boot EXCEPT !.stage = IF boot.jobs THEN "up" ELSE "resolve",
                                  !.held = f # Memory,
                                  !.rows = IF f = Memory THEN {} ELSE found.live,
                                  !.todo = IF boot.jobs \/ boot.access = "disabled" THEN <<>>
                                           ELSE Corpora(f)]
          /\ main' = "attached" => main = "attached" \/ f = Default
          /\ main' \in {main, "attached", "orphaned"}
        BY <1>3, BootstrapAssumption DEF OpenDatabase, Orphans, File
    <2> HIDE DEF found
    <2>3. /\ Opened(found) \in Content /\ Sound(Opened(found))
          /\ Opened(found).kind \in {"blank", "tables"} /\ Opened(found).live = found.live
        BY <1>3, <2>1, OpeningKeeps
    <2>4. /\ Migrated(Opened(found)) \in Content /\ Migrated(Opened(found)).kind = "tables"
          /\ Sound(Migrated(Opened(found))) /\ Migrated(Opened(found)).live = found.live
        BY <2>3, SeedingKeeps
    <2>5. /\ disk' \in [File -> Content] /\ RowsNeedTables'
          /\ \A g \in File : IF g = f THEN disk'[g] = Migrated(Opened(found)) ELSE disk'[g] = disk[g]
        <3>1. CASE f = Memory
            BY <2>2, <3>1, BootstrapAssumption DEF BootInv, TypeOK, RowsNeedTables, File
        <3>2. CASE f # Memory
            BY <1>1, <2>2, <2>4, <3>2, DiskKept
        <3> QED
            BY <3>1, <3>2
    <2>6. /\ Corpora(f) \in Seq(File) /\ Corpora(f) \in {<<Validation, Default>>, <<Validation>>}
          /\ f # Memory => Corpora(f) = <<Validation>>
        BY QueuesAreOfFiles DEF Corpora
    <2>7. found.live \in SUBSET Coins
        BY <2>1 DEF Content
    <2>8. /\ boot' \in Boot /\ boot'.held = (f # Memory) /\ boot'.url = f /\ boot'.access = boot.access
          /\ boot'.stage = (IF boot.jobs THEN "up" ELSE "resolve") /\ boot'.rebuild = boot.rebuild
          /\ boot'.todo = (IF boot.jobs \/ boot.access = "disabled" THEN <<>> ELSE Corpora(f))
          /\ boot'.step = boot.step
        <3>1. boot \in Boot /\ f \in File \cup {Memory}
            BY <1>1 DEF BootInv, TypeOK
        <3> DEFINE todo == IF boot.jobs \/ boot.access = "disabled" THEN <<>> ELSE Corpora(f)
                   lives == IF f = Memory THEN {} ELSE found.live
                   stage == IF boot.jobs THEN "up" ELSE "resolve"
                   own == f # Memory
        <3>2. todo \in Seq(File) /\ lives \in SUBSET Coins /\ stage \in {"up", "resolve"}
            BY <2>6, <2>7, QueuesAreOfFiles
        <3>3. own \in BOOLEAN
            OBVIOUS
        <3>4. boot' = [boot EXCEPT !.stage = stage, !.held = own, !.rows = lives, !.todo = todo]
            BY <2>2
        <3> HIDE DEF todo, lives, stage, own
        <3>5. boot' \in Boot
            BY <3>1, <3>2, <3>3, <3>4 DEF Boot
        <3>6. boot'.held = own /\ boot'.url = boot.url /\ boot'.access = boot.access
              /\ boot'.stage = stage /\ boot'.rebuild = boot.rebuild /\ boot'.todo = todo
              /\ boot'.step = boot.step
            BY <3>1, <3>4 DEF Boot
        <3> QED
            BY <1>1, <3>5, <3>6 DEF todo, stage, own
    <2>9. boot'.todo # <<>> => boot'.todo = Corpora(f) /\ boot'.stage = "resolve"
        BY <2>8
    <2>10. boot.step = "check"
        BY <1>1 DEF BootInv, QueueKept
    <2>11. WritersHaveTables'
        BY <1>1, <2>2, <2>4, <2>5, <2>8 DEF BootInv, WritersHaveTables, File
    <2>12. QueueKept' /\ BuildKept'
        BY <2>6, <2>8, <2>9, <2>10 DEF QueueKept, BuildKept
    <2>13. FallbackKept'
        <3>1. <<Validation>> # <<>> /\ <<Validation, Default>> # <<>> /\ <<Validation>> # <<Default>>
              /\ <<Validation, Default>> # <<Default>>
            BY BootstrapAssumption
        <3>2. ASSUME Importing' PROVE boot'.todo = Corpora(f)
            BY <2>8, <3>2 DEF Importing
        <3> QED
            BY <2>6, <3>1, <3>2 DEF FallbackKept
    <2>14. SourceKept'
        <3>1. ASSUME f = Default, ~boot.rebuild PROVE found = disk[Default]
            BY <3>1, BootstrapAssumption DEF found, File
        <3> QED
            BY <1>1, <2>4, <2>5, <2>8, <3>1 DEF BootInv, SourceKept, File
    <2> QED
        BY <2>2, <2>5, <2>8, <2>11, <2>12, <2>13, <2>14 DEF BootInv, TypeOK
<1> QED
    BY <1>2, <1>3

LEMMA ResolveStep == BootInv /\ resolvePersistentSnapshotDatabaseUrl => BootInv'
<1> SUFFICES ASSUME BootInv, resolvePersistentSnapshotDatabaseUrl PROVE BootInv'
    OBVIOUS
<1> DEFINE first == IF boot.url = Memory THEN Validation ELSE boot.url
           second == IF boot.url = Memory THEN Default ELSE Validation
           from == IF boot.access = "disabled" THEN Nowhere
                   ELSE IF hasUsableLiveSnapshots(disk[first]) THEN first
                   ELSE IF hasUsableLiveSnapshots(disk[second]) THEN second
                   ELSE Nowhere
<1>1. /\ boot.stage = "resolve" /\ boot.todo = <<>> /\ disk' = disk /\ main' = main
      /\ boot' = [boot EXCEPT !.from = from, !.stage = IF from = Nowhere THEN "sync" ELSE "seed"]
    BY DEF resolvePersistentSnapshotDatabaseUrl, At
<1>2. /\ boot.url \in File \cup {Memory} /\ boot.access \in {"disabled", "seeded_bootstrap"}
      /\ Nowhere \notin File
    BY BootstrapAssumption DEF BootInv, TypeOK, Boot, Nowhere, File
<1>3. /\ from # Nowhere => /\ boot.access = "seeded_bootstrap" /\ from \in File
                            /\ disk[from].live # {}
      /\ from \in File \cup {Nowhere}
    BY <1>2 DEF hasUsableLiveSnapshots, File
<1>4. boot.access = "seeded_bootstrap" /\ boot.url = Validation => from = Validation
    BY <1>1, <1>2, BootstrapAssumption DEF BootInv, FallbackKept, Importing, Whole, hasUsableLiveSnapshots
<1>5. boot.access = "seeded_bootstrap" /\ boot.url = Default /\ ~boot.rebuild => from = Default
    BY <1>1, <1>2, BootstrapAssumption DEF BootInv, SourceKept, hasUsableLiveSnapshots
<1> HIDE DEF from
<1>6. /\ boot' \in Boot /\ boot'.stage = (IF from = Nowhere THEN "sync" ELSE "seed")
      /\ boot'.from = from /\ boot'.todo = <<>> /\ boot'.step = boot.step /\ boot'.held = boot.held
      /\ boot'.url = boot.url /\ boot'.access = boot.access /\ boot'.rebuild = boot.rebuild
    BY <1>1, <1>3 DEF BootInv, TypeOK, Boot
<1>7. TypeOK' /\ RowsNeedTables' /\ WritersHaveTables'
    BY <1>1, <1>6 DEF BootInv, TypeOK, RowsNeedTables, WritersHaveTables
<1>8. QueueKept' /\ BuildKept' /\ FallbackKept'
    BY <1>1, <1>6 DEF BootInv, QueueKept, BuildKept, FallbackKept, Importing
<1>9. SourceKept'
    BY <1>1, <1>3, <1>4, <1>5, <1>6 DEF BootInv, SourceKept
<1> QED
    BY <1>7, <1>8, <1>9 DEF BootInv

\* What an import makes of a database with tables.
LEMMA ImportKeeps ==
    ASSUME NEW c \in Content, NEW source \in Content, c.kind = "tables"
    PROVE  LET into == WithImport([c EXCEPT !.charts = {}], source) IN
           /\ into \in Content /\ into.kind = "tables"
           /\ c.live \subseteq into.live /\ into.rich = c.rich
<1> DEFINE cleared == [c EXCEPT !.charts = {}]
<1>1. /\ cleared \in Content /\ cleared.kind = "tables" /\ cleared.live = c.live
      /\ cleared.rich = c.rich
    BY DEF Content
<1>2. /\ source.live \cap Importable(source) \in SUBSET Coins
      /\ source.charts \cap Importable(source) \in SUBSET Canonical
    BY DEF Content, Importable
<1> HIDE DEF cleared
<1> QED
    BY <1>1, <1>2 DEF WithImport, Content

\* The import into the open database: it starts from the file chosen, which is the
\* database's own or replaces it.
LEMMA SeedFacts ==
    ASSUME BootInv, SeedRuntime
    PROVE  /\ boot.stage = "seed" /\ boot.todo = <<>> /\ boot.from \in File
           /\ boot.held => boot.url \in File
           /\ \E c \in Content :
                /\ c.kind = "tables" /\ disk[boot.from].live \subseteq c.live
                /\ c.rich = disk[boot.from].rich
                /\ disk' = IF boot.held THEN [disk EXCEPT ![boot.url] = c] ELSE disk
           /\ boot' \in Boot
           /\ boot'.todo = boot.todo /\ boot'.step = boot.step /\ boot'.held = boot.held
           /\ boot'.url = boot.url /\ boot'.access = boot.access /\ boot'.stage = "finish"
           /\ main' \in {main, "orphaned"}
<1> DEFINE cleared == [Restored EXCEPT !.charts = {}]
           source == IF boot.held /\ boot.url = boot.from THEN cleared ELSE disk[boot.from]
           c == WithImport(cleared, source)
<1>1. boot.stage = "seed" /\ boot.todo = <<>> /\ boot.from \in File /\ disk[boot.from].live # {}
    BY DEF SeedRuntime, At, BootInv, SourceKept
<1>2. Restored = disk[boot.from] /\ disk[boot.from] \in Content /\ disk[boot.from].kind = "tables"
    BY <1>1, FileFacts DEF Restored
<1>3. source \in Content
    BY <1>2 DEF Content
<1>4. /\ c \in Content /\ c.kind = "tables" /\ disk[boot.from].live \subseteq c.live
      /\ c.rich = disk[boot.from].rich
    <2> HIDE DEF source
    <2> QED
        BY <1>2, <1>3, ImportKeeps
<1>5. /\ disk' = IF boot.held THEN [disk EXCEPT ![boot.url] = c] ELSE disk
      /\ boot' = [boot EXCEPT !.stage = "finish", !.preserved = TRUE,
                              !.rows = @ \cup (source.live \cap Importable(source))]
    BY DEF SeedRuntime
<1>6. main' \in {main, "orphaned"}
    BY DEF SeedRuntime, Orphans
<1>7. source.live \cap Importable(source) \in SUBSET Coins
    BY <1>3 DEF Content, Importable
<1> HIDE DEF c, source
<1>8. /\ boot' \in Boot /\ boot'.stage = "finish"
      /\ boot'.todo = boot.todo /\ boot'.step = boot.step /\ boot'.held = boot.held
      /\ boot'.url = boot.url /\ boot'.access = boot.access
    BY <1>5, <1>7 DEF BootInv, TypeOK, Boot
<1>9. boot.held => boot.url \in File
    BY DEF BootInv, WritersHaveTables
<1> QED
    BY <1>1, <1>4, <1>5, <1>6, <1>8, <1>9

LEMMA SeedStep == BootInv /\ SeedRuntime => BootInv'
<1> SUFFICES ASSUME BootInv, SeedRuntime PROVE BootInv'
    OBVIOUS
<1>1. /\ boot.stage = "seed" /\ boot.todo = <<>> /\ boot.from \in File
      /\ boot.held => boot.url \in File
      /\ main' \in {main, "orphaned"}
    BY SeedFacts
<1>2. PICK c \in Content :
        /\ c.kind = "tables" /\ disk[boot.from].live \subseteq c.live
        /\ c.rich = disk[boot.from].rich
        /\ disk' = IF boot.held THEN [disk EXCEPT ![boot.url] = c] ELSE disk
    BY SeedFacts
<1>3. /\ boot' \in Boot /\ boot'.stage = "finish" /\ boot'.todo = <<>> /\ boot'.step = boot.step
      /\ boot'.held = boot.held /\ boot'.url = boot.url /\ boot'.access = boot.access
    BY <1>1, SeedFacts
<1>4. /\ disk' \in [File -> Content] /\ RowsNeedTables'
      /\ \A f \in File : disk'[f] = IF boot.held /\ f = boot.url THEN c ELSE disk[f]
    <2>1. CASE boot.held
        BY <1>1, <1>2, <2>1, DiskKept DEF Sound
    <2>2. CASE ~boot.held
        BY <1>2, <2>2 DEF BootInv, TypeOK, RowsNeedTables
    <2> QED
        BY <2>1, <2>2
<1>5. WritersHaveTables'
    BY <1>1, <1>2, <1>3, <1>4 DEF BootInv, WritersHaveTables, File
<1>6. FallbackKept'
    <2> SUFFICES ASSUME Importing' PROVE Whole(disk'[Validation])
        BY DEF FallbackKept
    <2>1. Whole(disk[Validation])
        BY <1>1, <1>3 DEF BootInv, FallbackKept, Importing
    <2>2. CASE boot.held /\ boot.url = Validation
        <3>1. boot.from = Validation /\ disk'[Validation] = c
            BY <1>1, <1>4, <2>2 DEF BootInv, SourceKept, File
        <3> QED
            BY <1>2, <2>1, <3>1 DEF Whole, hasUsableLiveSnapshots, hasCanonicalPersistentSnapshotCorpus
    <2>3. CASE ~(boot.held /\ boot.url = Validation)
        BY <1>4, <2>1, <2>3 DEF File
    <2> QED
        BY <2>2, <2>3
<1>7. QueueKept' /\ BuildKept' /\ SourceKept'
    BY <1>1, <1>3 DEF BootInv, QueueKept, BuildKept, SourceKept
<1> QED
    BY <1>1, <1>3, <1>4, <1>5, <1>6, <1>7 DEF BootInv, TypeOK

\* What only adds to a file with tables, between two stages or beside them.
LEMMA AddingKeeps ==
    ASSUME BootInv,
           /\ disk' \in [File -> Content] /\ RowsNeedTables'
           /\ \A f \in File : /\ disk[f].live \subseteq disk'[f].live
                              /\ disk[f].rich => disk'[f].rich
                              /\ disk'[f].kind = disk[f].kind,
           /\ boot' \in Boot /\ boot'.todo = boot.todo /\ boot'.step = boot.step
           /\ boot'.held = boot.held /\ boot'.url = boot.url /\ boot'.access = boot.access
           /\ boot'.from = boot.from /\ boot'.rebuild = boot.rebuild
           /\ \/ boot'.stage = boot.stage
              \/ boot.todo = <<>> /\ boot.stage = "sync" /\ boot'.stage = "finish"
              \/ boot.todo = <<>> /\ boot.stage = "finish" /\ boot'.stage = "up",
           main' \in {main, "down"}
    PROVE  BootInv'
<1>1. TypeOK'
    BY DEF BootInv, TypeOK
<1>2. QueueKept'
    BY DEF BootInv, QueueKept
<1>3. BuildKept'
    <2> SUFFICES ASSUME boot.todo # <<>> PROVE BuildKept'
        BY DEF BuildKept
    <2>1. Target' = Target /\ Target \in File
        BY FileFacts DEF Target
    <2>2. disk[Target].live \subseteq disk'[Target].live /\ disk'[Target].live \subseteq Coins
          /\ disk'[Target].kind = disk[Target].kind
        BY <2>1 DEF Content
    <2>3. disk[Target].live = Coins => disk'[Target].live = Coins
        BY <2>2
    <2>4. /\ boot.step = "build" => disk[Target].kind \in {"absent", "blank", "tables"}
          /\ boot.step \in {"snapshots", "tickers"} => disk[Target].kind = "tables"
          /\ boot.step = "tickers" => disk[Target].live = Coins
        BY DEF BootInv, BuildKept
    <2> QED
        BY <2>1, <2>2, <2>3, <2>4 DEF BuildKept
<1>4. WritersHaveTables'
    BY DEF BootInv, WritersHaveTables, File
<1>5. FallbackKept'
    BY DEF BootInv, FallbackKept, Importing, Whole, hasUsableLiveSnapshots,
        hasCanonicalPersistentSnapshotCorpus, File
<1>6. SourceKept'
    <2>1. \A f \in File : disk[f].live # {} => disk'[f].live # {}
        OBVIOUS
    <2> QED
        BY <2>1 DEF BootInv, SourceKept, File
<1> QED
    BY <1>1, <1>2, <1>3, <1>4, <1>5, <1>6 DEF BootInv

LEMMA SyncStep == ASSUME BootInv, NEW found \in {{}, Coins}, RunInitialSync(found) PROVE BootInv'
<1> DEFINE c == [disk[boot.url] EXCEPT !.live = @ \cup found]
<1>1. /\ boot.stage = "sync" /\ boot.todo = <<>> /\ main' = main
      /\ disk' = IF boot.held THEN [disk EXCEPT ![boot.url] = c] ELSE disk
      /\ boot.held => boot.url \in File /\ disk[boot.url].kind = "tables"
    BY DEF RunInitialSync, At, BootInv, WritersHaveTables
<1>2. /\ boot' \in Boot /\ boot'.todo = boot.todo /\ boot'.step = boot.step
      /\ boot'.held = boot.held /\ boot'.url = boot.url /\ boot'.access = boot.access
      /\ boot'.from = boot.from /\ boot'.rebuild = boot.rebuild /\ boot'.stage = "finish"
    BY DEF RunInitialSync, BootInv, TypeOK, Boot
<1>3. CASE boot.held
    <2>1. /\ c \in Content /\ Sound(c) /\ disk[boot.url].live \subseteq c.live
          /\ c.rich = disk[boot.url].rich /\ c.kind = disk[boot.url].kind
        BY <1>1, <1>3, FileFacts DEF Content, Sound
    <2> HIDE DEF c
    <2>2. /\ disk' \in [File -> Content] /\ RowsNeedTables' /\ disk'[boot.url] = c
          /\ \A f \in File : f # boot.url => disk'[f] = disk[f]
        BY <1>1, <1>3, <2>1, DiskKept
    <2> QED
        BY <1>1, <1>2, <2>1, <2>2, AddingKeeps
<1>4. CASE ~boot.held
    BY <1>1, <1>2, <1>4, AddingKeeps DEF BootInv, TypeOK, RowsNeedTables
<1> QED
    BY <1>3, <1>4

LEMMA FinishStep == BootInv /\ Finish => BootInv'
<1> SUFFICES ASSUME BootInv, Finish PROVE BootInv'
    OBVIOUS
<1>1. /\ boot.stage = "finish" /\ boot.todo = <<>> /\ main' = main
      /\ disk' = IF ~boot.held \/ boot.from # Nowhere THEN disk
                 ELSE [disk EXCEPT ![boot.url] = ReferenceSeeded(disk[boot.url])]
      /\ boot.held => boot.url \in File /\ disk[boot.url].kind = "tables"
    BY DEF Finish, At, BootInv, WritersHaveTables
<1>2. /\ boot' \in Boot /\ boot'.todo = boot.todo /\ boot'.step = boot.step
      /\ boot'.held = boot.held /\ boot'.url = boot.url /\ boot'.access = boot.access
      /\ boot'.from = boot.from /\ boot'.rebuild = boot.rebuild /\ boot'.stage = "up"
    <2> DEFINE completed == ~boot.preserved \/ ~boot.validation
               stale == IF boot.preserved THEN TRUE ELSE boot.validation /\ boot.zeroLive
               mode == IF boot.preserved THEN (IF boot.validation THEN "seeded_bootstrap" ELSE "off")
                       ELSE IF boot.validation /\ boot.url # Memory /\ ~boot.zeroLive
                       THEN "stale_allowed" ELSE "off"
    <2>1. boot' = [boot EXCEPT !.stage = "up", !.completed = completed, !.stale = stale, !.mode = mode]
        BY DEF Finish
    <2>2. /\ completed \in BOOLEAN /\ mode \in {"off", "stale_allowed", "seeded_bootstrap"}
          /\ stale \in BOOLEAN
        BY DEF BootInv, TypeOK, Boot
    <2>3. boot \in Boot
        BY DEF BootInv, TypeOK
    <2> HIDE DEF completed, stale, mode
    <2> QED
        BY <2>1, <2>2, <2>3 DEF Boot
<1>3. CASE boot.held /\ boot.from = Nowhere
    <2>1. boot.url \in File /\ disk[boot.url] \in Content /\ Sound(disk[boot.url])
        BY <1>1, <1>3, FileFacts
    <2>2. ReferenceSeeded(disk[boot.url]).kind = "tables" /\ Sound(ReferenceSeeded(disk[boot.url]))
        BY <1>1, <1>3, <2>1, SeedingKeeps DEF Sound
    <2>3. /\ disk' \in [File -> Content] /\ RowsNeedTables'
          /\ disk'[boot.url] = ReferenceSeeded(disk[boot.url])
          /\ \A f \in File : f # boot.url => disk'[f] = disk[f]
        BY <1>1, <1>3, <2>1, <2>2, SeedingKeeps, DiskKept
    <2> QED
        BY <1>1, <1>2, <1>3, <2>1, <2>2, <2>3, SeedingKeeps, AddingKeeps
<1>4. CASE ~(boot.held /\ boot.from = Nowhere)
    BY <1>1, <1>2, <1>4, AddingKeeps DEF BootInv, TypeOK, RowsNeedTables
<1> QED
    BY <1>3, <1>4

LEMMA WorldStep == BootInv /\ (MainPersists \/ MainStops \/ PowerLoss) => BootInv'
<1> SUFFICES ASSUME BootInv, MainPersists \/ MainStops \/ PowerLoss PROVE BootInv'
    OBVIOUS
<1>1. CASE MainPersists
    <2>1. PICK rich \in BOOLEAN :
            disk' = [disk EXCEPT ![Default] = [disk[Default] EXCEPT !.live = Coins, !.rich = @ \/ rich]]
        BY <1>1, FileFacts DEF MainPersists, BootInv, TypeOK, File
    <2> DEFINE c == [disk[Default] EXCEPT !.live = Coins, !.rich = @ \/ rich]
    <2>2. main = "attached" /\ UNCHANGED <<boot, main>> /\ Default \in File
             /\ disk[Default] \in Content /\ disk[Default].kind = "tables"
        BY <1>1, FileFacts DEF MainPersists, BootInv, WritersHaveTables, File
    <2>3. /\ c \in Content /\ Sound(c) /\ disk[Default].live \subseteq c.live
          /\ disk[Default].rich => c.rich
          /\ c.kind = disk[Default].kind
        BY <2>2 DEF Content, Sound
    <2> HIDE DEF c
    <2>4. /\ disk' \in [File -> Content] /\ RowsNeedTables' /\ disk'[Default] = c
          /\ \A f \in File : f # Default => disk'[f] = disk[f]
        BY <2>1, <2>2, <2>3, DiskKept DEF c
    <2>5. boot \in Boot
        BY DEF BootInv, TypeOK
    <2> QED
        BY <2>2, <2>3, <2>4, <2>5, AddingKeeps
<1>2. CASE MainStops
    BY <1>2, AddingKeeps DEF MainStops, BootInv, TypeOK, RowsNeedTables
<1>3. CASE PowerLoss
    <2>1. PICK f \in File : disk' = [disk EXCEPT ![f] = NoRows("corrupt")]
        BY <1>3 DEF PowerLoss
    <2>2. boot' = Idle /\ main' = "down" /\ Idle \in Boot
        BY <1>3, QueuesAreOfFiles DEF PowerLoss, Idle, Boot
    <2>3. disk' \in [File -> Content] /\ RowsNeedTables'
        BY <2>1, NothingInside, DiskKept
    <2> QED
        BY <2>2, <2>3 DEF Idle, BootInv, TypeOK, QueueKept, BuildKept, WritersHaveTables, FallbackKept,
            Importing, SourceKept
<1> QED
    BY <1>1, <1>2, <1>3

LEMMA BootStep == BootInv /\ [Next]_vars => BootInv'
<1> SUFFICES ASSUME BootInv, [Next]_vars PROVE BootInv'
    OBVIOUS
<1>1. CASE Ends \/ SyncTimesOut
    BY <1>1, EndKeeps DEF Ends, SyncTimesOut
<1>2. CASE UNCHANGED vars
    BY <1>2 DEF vars, BootInv, TypeOK, RowsNeedTables, QueueKept, BuildKept, WritersHaveTables,
        FallbackKept, Importing, SourceKept, Target
<1> QED
    BY <1>1, <1>2, CheckStep, BuildStep, AddStep, StartStep, AccessStep, OpenStep, ResolveStep, SeedStep,
        SyncStep, FinishStep, WorldStep DEF Next

-----------------------------------------------------------------------------
(* Theorems. *)

\* Every file is one of those a boot knows, and every boot is at one of its stages
\* with a list of files yet to be made whole (services/bootstrap.ts).
THEOREM TypeCorrect == Spec => []TypeOK
<1>1. BootInv => TypeOK
    BY DEF BootInv
<1> QED
    BY <1>1, BootInit, BootStep, PTL DEF Spec

\* A boot that may import never chooses its source, or imports, while the fallback is
\* less than whole, whatever a crash, a loss of power or a file that could not be
\* removed left of it (ensureCanonicalPersistentSnapshotDatabase).
THEOREM FallbackStaysWhole == Spec => []FallbackIsWhole
<1>1. BootInv => FallbackIsWhole
    BY DEF BootInv, FallbackKept, Importing, FallbackIsWhole
<1> QED
    BY <1>1, BootInit, BootStep, PTL DEF Spec

\* A process on the default database keeps the live rows of its file through every
\* step of its start, unless it was told to rebuild it: the corpus it makes whole is
\* the fallback's, and the file it imports is its own if that has live rows.
THEOREM OwnRowsAreKept == Spec => OwnRowsSurviveBoot
<1>1. ASSUME BootInv, Next, boot.url = Default, ~boot.rebuild, boot' # Idle
      PROVE  disk[Default].live \subseteq disk'[Default].live
    <2>f. /\ disk[Default] \in Content /\ Sound(disk[Default]) /\ Default \in File
          /\ disk \in [File -> Content] /\ Default # Memory
        BY <1>1, FileFacts, BootstrapAssumption DEF File, BootInv, TypeOK
    <2>1. CASE CheckCorpus \/ BuildCorpus \/ BuildOverOld \/ AddSnapshots \/ AddTickers
        <3>1. Target = Validation
            BY <1>1, <2>1, <2>f, QueueFacts DEF CheckCorpus, BuildCorpus, BuildOverOld, AddSnapshots,
                AddTickers, Building
        <3>2. disk'[Default] = disk[Default]
            BY <2>1, <3>1, <2>f, BootstrapAssumption DEF CheckCorpus, BuildCorpus, BuildOverOld,
                AddSnapshots, AddTickers
        <3> QED
            BY <3>2
    <2>2. CASE resolveBootstrapSnapshotAccessMode
        <3>1. disk'[Default] \in {disk[Default], Looked(disk[Default])}
            BY <1>1, <2>2, <2>f DEF resolveBootstrapSnapshotAccessMode
        <3> QED
            BY <3>1, <2>f, OpeningKeeps
    <2>3. CASE OpenDatabase
        <3>1. disk'[Default] \in {disk[Default], Migrated(Opened(disk[Default]))}
            BY <1>1, <2>3, <2>f DEF OpenDatabase
        <3> QED
            BY <3>1, <2>f, OpeningKeeps, SeedingKeeps
    <2>4. CASE SeedRuntime
        <3>1. boot.from = Default
            BY <1>1, <2>4 DEF SeedRuntime, At, BootInv, SourceKept
        <3>2. PICK c \in Content :
                /\ disk[boot.from].live \subseteq c.live
                /\ disk' = IF boot.held THEN [disk EXCEPT ![boot.url] = c] ELSE disk
            BY <1>1, <2>4, SeedFacts
        <3> QED
            BY <1>1, <2>f, <3>1, <3>2
    <2>5. CASE \E found \in {{}, Coins} : RunInitialSync(found)
        BY <1>1, <2>5, <2>f DEF RunInitialSync, Content
    <2>6. CASE Finish
        BY <1>1, <2>6, <2>f, SeedingKeeps DEF Finish
    <2>7. CASE MainPersists
        BY <2>7, <2>f DEF MainPersists, Content
    <2>8. CASE PowerLoss
        BY <1>1, <2>8 DEF PowerLoss
    <2>9. CASE UNCHANGED disk
        BY <2>9
    <2> QED
        BY <1>1, <2>1, <2>2, <2>3, <2>4, <2>5, <2>6, <2>7, <2>8, <2>9 DEF Next, Start,
            resolvePersistentSnapshotDatabaseUrl, SyncTimesOut, Ends, MainStops
<1>2. BootInv /\ [Next]_vars =>
        [ boot.url = Default /\ ~boot.rebuild /\ boot' # Idle
            => disk[Default].live \subseteq disk'[Default].live ]_vars
    BY <1>1
<1> QED
    BY <1>2, BootInit, BootStep, PTL DEF Spec, OwnRowsSurviveBoot

-----------------------------------------------------------------------------
(***************************************************************************)
(* Finite sets, orders and lists.                                          *)
(***************************************************************************)

\* No more of them than there are to make them of.
LEMMA ImageIsFinite ==
    ASSUME NEW S, IsFiniteSet(S), NEW f, f = [x \in S |-> f[x]]
    PROVE  IsFiniteSet({f[x] : x \in S}) /\ Cardinality({f[x] : x \in S}) <= Cardinality(S)
<1> DEFINE T == {f[x] : x \in S}
<1>1. f \in [S -> T] /\ \A t \in T : \E x \in S : f[x] = t
    OBVIOUS
<1> HIDE DEF T
<1>2. f \in Surjection(S, T)
    BY <1>1 DEF Surjection
<1>3. IsFiniteSet(T) /\ Cardinality(T) <= Cardinality(S)
    BY <1>2, FS_Surjection
<1> QED
    BY <1>3 DEF T

\* How many come before a member of a finite order is a number of its own for each.
LEMMA EachHasItsNumber ==
    ASSUME NEW S, IsFiniteSet(S), NEW below, below \in [S -> SUBSET S],
           \A c \in S : c \notin below[c],
           \A c, d \in S : c \in below[d] => below[c] \subseteq below[d],
           \A c, d \in S : c # d => c \in below[d] \/ d \in below[c]
    PROVE  /\ \A c \in S : Cardinality(below[c]) \in 0..(Cardinality(S) - 1)
           /\ \A c, d \in S : c \in below[d] => Cardinality(below[c]) < Cardinality(below[d])
           /\ \A c, d \in S : Cardinality(below[c]) = Cardinality(below[d]) => c = d
           /\ \A k \in 0..(Cardinality(S) - 1) : \E c \in S : Cardinality(below[c]) = k
<1> DEFINE n == Cardinality(S)
           number == [c \in S |-> Cardinality(below[c])]
<1>1. n \in Nat
    BY FS_CardinalityType
<1>2. ASSUME NEW c \in S
      PROVE  IsFiniteSet(below[c]) /\ Cardinality(below[c]) \in 0..(n - 1)
    <2>1. below[c] \in SUBSET S /\ c \notin below[c]
        OBVIOUS
    <2>2. IsFiniteSet(below[c]) /\ Cardinality(below[c]) <= n /\ Cardinality(below[c]) # n
        BY <2>1, FS_Subset
    <2>3. Cardinality(below[c]) \in Nat
        BY <2>2, FS_CardinalityType
    <2> QED
        BY <1>1, <2>2, <2>3
<1>3. ASSUME NEW c \in S, NEW d \in S, c \in below[d]
      PROVE  Cardinality(below[c]) < Cardinality(below[d])
    <2>1. below[c] \in SUBSET below[d] /\ c \notin below[c]
        BY <1>3
    <2>2. IsFiniteSet(below[d])
        BY <1>2
    <2>3. Cardinality(below[c]) <= Cardinality(below[d]) /\ Cardinality(below[c]) # Cardinality(below[d])
        BY <1>3, <2>1, <2>2, FS_Subset
    <2> QED
        BY <1>1, <1>2, <2>3
<1> HIDE DEF n
<1>4. number \in [S -> 0..(n - 1)]
    BY <1>2
<1>5. ASSUME NEW c \in S, NEW d \in S, number[c] = number[d] PROVE c = d
    <2>1. Cardinality(below[c]) = Cardinality(below[d])
        BY <1>5
    <2>2. Cardinality(below[c]) \in Int /\ Cardinality(below[d]) \in Int
        BY <1>2
    <2>3. c \notin below[d] /\ d \notin below[c]
        BY <1>3, <2>1, <2>2
    <2> QED
        BY <2>3
<1>6. number \in Injection(S, 0..(n - 1))
    BY <1>4, <1>5 DEF Injection, IsInjective
<1>7. IsFiniteSet(0..(n - 1)) /\ Cardinality(0..(n - 1)) = n
    BY <1>1, FS_Interval
<1>8. number \in Surjection(S, 0..(n - 1))
    BY <1>6, <1>7, FS_Injection DEF n
<1>9. \A k \in 0..(n - 1) : \E c \in S : number[c] = k
    BY <1>8 DEF Surjection
<1>10. \A c, d \in S : Cardinality(below[c]) = Cardinality(below[d]) => c = d
    BY <1>5
<1>11. \A k \in 0..(n - 1) : \E c \in S : Cardinality(below[c]) = k
    BY <1>9
<1> QED
    BY <1>2, <1>3, <1>10, <1>11 DEF n

\* A set of numbers has a least one.
LEMMA LeastNumber ==
    ASSUME NEW T, T \subseteq Nat, T # {}
    PROVE  \E m \in T : \A k \in T : m <= k
<1>1. PICK n \in T : n \in Nat
    OBVIOUS
<1> DEFINE below == {k \in T : k <= n}
<1>2. \A k \in below : k \in Nat /\ k <= n
    OBVIOUS
<1>3. below \in SUBSET Nat
    OBVIOUS
<1>4. n \in below
    BY <1>1
<1> HIDE DEF below
<1>5. IsFiniteSet(below)
    BY <1>1, <1>2, <1>3, FS_BoundedSetOfNaturals
<1> DEFINE before == [c \in below |-> {d \in below : d < c}]
<1>6. \E m \in below : Cardinality(before[m]) = 0
    <2>1. Cardinality(below) \in Nat /\ Cardinality(below) # 0
        BY <1>4, <1>5, FS_CardinalityType, FS_EmptySet
    <2>2. 0 \in 0..(Cardinality(below) - 1)
        BY <2>1
    <2>3. before \in [below -> SUBSET below]
        OBVIOUS
    <2>4. /\ \A c \in below : c \notin before[c]
          /\ \A c, d \in below : c # d => c \in before[d] \/ d \in before[c]
        BY <1>2
    <2>5. \A c, d \in below : c \in before[d] => before[c] \subseteq before[d]
        BY <1>2
    <2> HIDE DEF before
    <2>6. \A k \in 0..(Cardinality(below) - 1) : \E m \in below : Cardinality(before[m]) = k
        BY <1>5, <2>3, <2>4, <2>5, EachHasItsNumber
    <2> QED
        BY <2>2, <2>6
<1>7. PICK m \in below : Cardinality(before[m]) = 0
    BY <1>6
<1>8. before[m] = {}
    <2>1. before[m] \in SUBSET below
        BY <1>7
    <2> HIDE DEF before
    <2> QED
        BY <1>5, <1>7, <2>1, FS_Subset, FS_EmptySet
<1>9. \A k \in below : m <= k
    BY <1>2, <1>8
<1> QED
    BY <1>1, <1>2, <1>7, <1>9 DEF below

\* Of sets of members of a finite set one has no smaller one among them.
LEMMA SmallestSet ==
    ASSUME NEW S, IsFiniteSet(S), NEW B, B \subseteq SUBSET S, B # {}
    PROVE  \E s \in B : IsFiniteSet(s) /\ \A x \in s : s \ {x} \notin B
<1> DEFINE sizes == {Cardinality(s) : s \in B}
<1>1. \A s \in B : IsFiniteSet(s) /\ Cardinality(s) \in Nat
    BY FS_Subset, FS_CardinalityType
<1>2. sizes \subseteq Nat /\ sizes # {}
    BY <1>1
<1>3. PICK n \in sizes : \A k \in sizes : n <= k
    <2> HIDE DEF sizes
    <2> QED
        BY <1>2, LeastNumber
<1>4. PICK s \in B : Cardinality(s) = n
    BY <1>3
<1>5. ASSUME NEW x \in s, s \ {x} \in B PROVE FALSE
    <2>1. Cardinality(s \ {x}) = Cardinality(s) - 1
        BY <1>1, FS_RemoveElement
    <2>2. n <= Cardinality(s \ {x})
        BY <1>3, <1>5
    <2> QED
        BY <1>1, <1>4, <2>1, <2>2
<1> QED
    BY <1>1, <1>5

\* Of finitely many ordered ones one comes first.
LEMMA FirstOf ==
    ASSUME NEW S, IsFiniteSet(S), S # {}, NEW below, below \in [S -> SUBSET S],
           \A c \in S : c \notin below[c],
           \A c, d \in S : c \in below[d] => below[c] \subseteq below[d],
           \A c, d \in S : c # d => c \in below[d] \/ d \in below[c]
    PROVE  \E c \in S : below[c] = {}
<1>1. \A k \in 0..(Cardinality(S) - 1) : \E c \in S : Cardinality(below[c]) = k
    BY EachHasItsNumber
<1>2. Cardinality(S) \in Nat /\ Cardinality(S) # 0
    BY FS_CardinalityType, FS_EmptySet
<1>3. PICK c \in S : Cardinality(below[c]) = 0
    BY <1>1, <1>2
<1>4. IsFiniteSet(below[c])
    <2>1. below[c] \in SUBSET S
        OBVIOUS
    <2> QED
        BY <2>1, FS_Subset
<1> QED
    BY <1>3, <1>4, FS_EmptySet

\* Tuples of numbers of one length are ordered totally.
LEMMA BeforeIsOrder ==
    ASSUME NEW k \in Nat, NEW a \in [1..k -> Int], NEW b \in [1..k -> Int], NEW c \in [1..k -> Int]
    PROVE  /\ ~Before(a, a)
           /\ Before(a, b) /\ Before(b, c) => Before(a, c)
           /\ a # b => Before(a, b) \/ Before(b, a)
<1>1. ~Before(a, a)
    BY DEF Before
<1>2. ASSUME Before(a, b), Before(b, c) PROVE Before(a, c)
    <2>1. PICK i \in 1..k : a[i] > b[i] /\ \A l \in 1..(i - 1) : a[l] = b[l]
        BY <1>2 DEF Before
    <2>2. PICK j \in 1..k : b[j] > c[j] /\ \A l \in 1..(j - 1) : b[l] = c[l]
        BY <1>2 DEF Before
    <2>3. PICK m \in 1..k : m <= i /\ m <= j /\ (m = i \/ m = j)
        <3>1. i \in Int /\ j \in Int /\ i <= i /\ j <= j /\ (i <= j \/ j <= i)
            BY <2>1, <2>2
        <3> QED
            BY <3>1
    <2>4. \A l \in 1..(m - 1) : l \in 1..(i - 1) /\ l \in 1..(j - 1)
        BY <2>3
    <2>5. \A l \in 1..(m - 1) : a[l] = c[l]
        BY <2>1, <2>2, <2>4
    <2>6. m < i => m \in 1..(i - 1)
        BY <2>3
    <2>7. m < j => m \in 1..(j - 1)
        BY <2>3
    <2>8. a[m] > c[m]
        BY <2>1, <2>2, <2>3, <2>6, <2>7
    <2> QED
        BY <2>5, <2>8 DEF Before
<1>3. ASSUME a # b PROVE Before(a, b) \/ Before(b, a)
    <2> DEFINE differ == {i \in 1..k : a[i] # b[i]}
    <2>a. \E i \in 1..k : a[i] # b[i]
        BY <1>3
    <2>b. differ # {}
        BY <2>a
    <2>c. \A i \in differ : i \in Nat
        OBVIOUS
    <2>1. differ # {} /\ differ \subseteq Nat
        <3> HIDE DEF differ
        <3> QED
            BY <2>b, <2>c
    <2>2. PICK m \in differ : \A i \in differ : m <= i
        <3> HIDE DEF differ
        <3> QED
            BY <2>1, LeastNumber
    <2>3. m \in 1..k /\ a[m] # b[m]
        OBVIOUS
    <2>4. \A l \in 1..(m - 1) : a[l] = b[l]
        BY <2>2, <2>3
    <2>5. a[m] \in Int /\ b[m] \in Int
        BY <2>3
    <2>6. a[m] > b[m] \/ b[m] > a[m]
        BY <2>3, <2>5
    <2>7. m \in DOMAIN a /\ m \in DOMAIN b
        BY <2>3
    <2>8. \A l \in 1..(m - 1) : b[l] = a[l]
        BY <2>4
    <2> HIDE DEF differ
    <2>9. CASE a[m] > b[m]
        BY <2>4, <2>7, <2>9 DEF Before
    <2>10. CASE b[m] > a[m]
        BY <2>7, <2>8, <2>10 DEF Before
    <2> QED
        BY <2>6, <2>9, <2>10
<1> QED
    BY <1>1, <1>2, <1>3

\* Every member once.
ListOf(list, S) ==
    /\ Cardinality(S) \in Nat /\ list \in [1..Cardinality(S) -> S]
    /\ \A i, j \in 1..Cardinality(S) : list[i] = list[j] => i = j
    /\ \A r \in S : \E i \in 1..Cardinality(S) : list[i] = r

RankedBy(S, k, rank) ==
    /\ IsFiniteSet(S) /\ k \in Nat
    /\ \A r \in S : rank[r] \in [1..k -> Int]
    /\ \A r, s \in S : rank[r] = rank[s] => r = s

\* Ranks order rows totally, so that a list has every row once, in their order.
LEMMA OrderedIsList ==
    ASSUME NEW S, NEW k, NEW rank, RankedBy(S, k, rank)
    PROVE  /\ ListOf(Ordered(S, rank), S)
           /\ \A i, j \in 1..Cardinality(S) :
                 i < j => Before(rank[Ordered(S, rank)[i]], rank[Ordered(S, rank)[j]])
<1> USE DEF RankedBy
<1> DEFINE n == Cardinality(S)
           list == Ordered(S, rank)
           below == [r \in S |-> {s \in S : Before(rank[s], rank[r])}]
<1>1. n \in Nat
    BY FS_CardinalityType
<1>2. \A r \in S : NumberBefore(r, S, rank) = Cardinality(below[r])
    BY DEF NumberBefore
<1>3. \A r, s \in S : s \in below[r] <=> Before(rank[s], rank[r])
    OBVIOUS
<1>4. below \in [S -> SUBSET S]
    OBVIOUS
<1> HIDE DEF below
<1>5. \A c \in S : c \notin below[c]
    BY <1>3, BeforeIsOrder
<1>6. \A c, d \in S : c \in below[d] => below[c] \subseteq below[d]
    <2> SUFFICES ASSUME NEW c \in S, NEW d \in S, c \in below[d], NEW s \in below[c] PROVE s \in below[d]
        OBVIOUS
    <2>1. s \in S
        BY <1>4
    <2>2. Before(rank[s], rank[c]) /\ Before(rank[c], rank[d])
        BY <1>3, <2>1
    <2>3. Before(rank[s], rank[d])
        BY <2>1, <2>2, BeforeIsOrder
    <2> QED
        BY <1>3, <2>1, <2>3
<1>7. \A c, d \in S : c # d => c \in below[d] \/ d \in below[c]
    <2> SUFFICES ASSUME NEW c \in S, NEW d \in S, c # d PROVE c \in below[d] \/ d \in below[c]
        OBVIOUS
    <2>1. Before(rank[c], rank[d]) \/ Before(rank[d], rank[c])
        BY BeforeIsOrder
    <2> QED
        BY <1>3, <2>1
<1>8. /\ \A c \in S : Cardinality(below[c]) \in 0..(n - 1)
      /\ \A c, d \in S : c \in below[d] => Cardinality(below[c]) < Cardinality(below[d])
      /\ \A c, d \in S : Cardinality(below[c]) = Cardinality(below[d]) => c = d
      /\ \A m \in 0..(n - 1) : \E c \in S : Cardinality(below[c]) = m
    BY <1>4, <1>5, <1>6, <1>7, EachHasItsNumber
<1> DEFINE number(r) == NumberBefore(r, S, rank)
<1>9. /\ \A c \in S : number(c) \in 0..(n - 1)
      /\ \A c, d \in S : Before(rank[c], rank[d]) => number(c) < number(d)
      /\ \A c, d \in S : number(c) = number(d) => c = d
      /\ \A m \in 0..(n - 1) : \E c \in S : number(c) = m
    BY <1>2, <1>3, <1>8
<1>10. list = [i \in 1..n |-> CHOOSE r \in S : number(r) = i - 1]
    BY DEF Ordered
<1> HIDE DEF n, list, number
<1>11. ASSUME NEW i \in 1..n PROVE list[i] \in S /\ number(list[i]) = i - 1
    <2>1. i - 1 \in 0..(n - 1)
        BY <1>1
    <2>2. list[i] = CHOOSE r \in S : number(r) = i - 1
        BY <1>10
    <2>3. \E r \in S : number(r) = i - 1
        BY <1>9, <2>1
    <2> QED
        BY <2>2, <2>3
<1>12. list \in [1..n -> S]
    BY <1>10, <1>11
<1>13. \A i, j \in 1..n : list[i] = list[j] => i = j
    <2> SUFFICES ASSUME NEW i \in 1..n, NEW j \in 1..n, list[i] = list[j] PROVE i = j
        OBVIOUS
    <2>1. i - 1 = j - 1
        BY <1>11
    <2> QED
        BY <1>1, <2>1
<1>14. ASSUME NEW r \in S PROVE \E i \in 1..n : list[i] = r
    <2>1. number(r) \in 0..(n - 1)
        BY <1>9
    <2>2. number(r) + 1 \in 1..n /\ (number(r) + 1) - 1 = number(r)
        BY <1>1, <2>1
    <2>3. list[number(r) + 1] = r
        BY <1>9, <1>11, <2>2
    <2> QED
        BY <2>2, <2>3
<1>15. ASSUME NEW i \in 1..n, NEW j \in 1..n, i < j PROVE Before(rank[list[i]], rank[list[j]])
    <2>1. list[i] \in S /\ list[j] \in S /\ number(list[i]) = i - 1 /\ number(list[j]) = j - 1
        BY <1>11
    <2>2. ~(number(list[j]) < number(list[i])) /\ number(list[i]) # number(list[j])
        BY <1>1, <1>15, <2>1
    <2>3. ~Before(rank[list[j]], rank[list[i]])
        BY <1>9, <2>1, <2>2
    <2>4. list[i] # list[j]
        BY <2>2
    <2>5. rank[list[i]] # rank[list[j]]
        BY <2>1, <2>4
    <2> QED
        BY <2>1, <2>3, <2>5, BeforeIsOrder
<1> QED
    BY <1>1, <1>12, <1>13, <1>14, <1>15 DEF ListOf, n, list

\* Two sequences, one after the other.
Follows(list, a, n, b, m) ==
    /\ DOMAIN list = 1..(n + m)
    /\ \A i \in 1..n : list[i] = a[i]
    /\ \A i \in 1..m : list[n + i] = b[i]
    /\ \A i \in 1..(n + m) : i \in 1..n \/ \E j \in 1..m : i = n + j

LEMMA JoinedSequences ==
    ASSUME NEW S, NEW n \in Nat, NEW m \in Nat, NEW a \in [1..n -> S], NEW b \in [1..m -> S]
    PROVE  Follows(a \o b, a, n, b, m)
<1>1. a \in Seq(S) /\ b \in Seq(S) /\ Len(a) = n /\ Len(b) = m
    OBVIOUS
<1>2. DOMAIN (a \o b) = 1..(n + m)
    BY <1>1
<1>3. ASSUME NEW i \in 1..n PROVE (a \o b)[i] = a[i]
    BY <1>1
<1>4. ASSUME NEW i \in 1..m PROVE (a \o b)[n + i] = b[i]
    BY <1>1
<1>5. ASSUME NEW i \in 1..(n + m) PROVE i \in 1..n \/ \E j \in 1..m : i = n + j
    <2>1. i \notin 1..n => i - n \in 1..m /\ i = n + (i - n)
        OBVIOUS
    <2> QED
        BY <2>1
<1> QED
    BY <1>2, <1>3, <1>4, <1>5 DEF Follows

LEMMA TimesGrows ==
    ASSUME NEW a \in Nat, NEW b \in Nat, a <= b, NEW n \in Nat
    PROVE  a * n <= b * n /\ a * n \in Nat /\ b * n \in Nat
<1>1. PICK d \in Nat : b = a + d
    <2>1. b - a \in Nat /\ b = a + (b - a)
        OBVIOUS
    <2> QED
        BY <2>1
<1>2. b * n = a * n + d * n
    BY <1>1
<1>3. a * n \in Nat /\ d * n \in Nat
    BY <1>1
<1> QED
    BY <1>2, <1>3

\* A place on a page is one place of the list, and each is on some page.
LEMMA PlacesFollow ==
    ASSUME NEW n \in Nat \ {0}, NEW p \in Nat \ {0}, NEW q \in Nat \ {0}, NEW i \in 1..n, NEW j \in 1..n, p < q
    PROVE  (p - 1) * n + i < (q - 1) * n + j
<1>1. p <= q - 1 /\ p \in Nat /\ q - 1 \in Nat /\ p - 1 \in Nat
    OBVIOUS
<1>2. p * n <= (q - 1) * n /\ p * n \in Nat /\ (q - 1) * n \in Nat
    BY <1>1, TimesGrows
<1>3. p * n = (p - 1) * n + n /\ (p - 1) * n \in Nat
    BY <1>1
<1> DEFINE x == (p - 1) * n
           y == (q - 1) * n
<1>4. x + n <= y /\ x \in Int /\ y \in Int
    BY <1>2, <1>3
<1> HIDE DEF x, y
<1>5. x + i < y + j
    BY <1>4
<1> QED
    BY <1>5 DEF x, y

LEMMA EveryPlaceHasPage ==
    ASSUME NEW n \in Nat \ {0}, NEW k \in Nat \ {0}
    PROVE  \E p \in 1..k, i \in 1..n : (p - 1) * n + i = k
<1> DEFINE T == {p \in Nat : k <= p * n}
<1>1. k <= k * n
    <2>1. k * 1 <= n * k
        <3>1. 1 * k <= n * k
            BY TimesGrows
        <3> QED
            BY <3>1
    <2> QED
        BY <2>1
<1>2. T \subseteq Nat /\ k \in T
    BY <1>1
<1>3. \A p \in Nat : p \in T <=> k <= p * n
    OBVIOUS
<1> HIDE DEF T
<1>4. PICK m \in T : \A q \in T : m <= q
    BY <1>2, LeastNumber
<1>5. m \in Nat /\ k <= m * n /\ m <= k
    BY <1>2, <1>3, <1>4
<1>6. m # 0
    BY <1>5
<1>7. m - 1 \in Nat /\ ~(k <= (m - 1) * n)
    BY <1>3, <1>4, <1>5, <1>6
<1>8. m * n = (m - 1) * n + n /\ (m - 1) * n \in Nat
    BY <1>5, <1>6
<1> DEFINE x == (m - 1) * n
<1>9. x < k /\ k <= x + n /\ x \in Int
    BY <1>5, <1>7, <1>8
<1> HIDE DEF x
<1>10. k - x \in 1..n /\ x + (k - x) = k
    BY <1>9
<1>11. m \in 1..k
    BY <1>5, <1>6
<1> QED
    BY <1>10, <1>11 DEF x

-----------------------------------------------------------------------------
(***************************************************************************)
(* Members in the order of their places.  How many come before a member is *)
(* a number below the number of members, another one for each.             *)
(***************************************************************************)

\* Finitely many members, each at a place of its own.
Placed(S, place) ==
    /\ IsFiniteSet(S)
    /\ \A c \in S : place[c] \in Int
    /\ \A c, d \in S : place[c] = place[d] => c = d

Ahead(S, place, c) == Cardinality({d \in S : place[d] < place[c]})

LEMMA AheadIsOnto ==
    ASSUME NEW S, NEW place, Placed(S, place)
    PROVE  /\ \A c \in S : Ahead(S, place, c) \in 0..(Cardinality(S) - 1)
           /\ \A c, d \in S : Ahead(S, place, c) = Ahead(S, place, d) => c = d
           /\ \A k \in 0..(Cardinality(S) - 1) : \E c \in S : Ahead(S, place, c) = k
<1>p. /\ IsFiniteSet(S) /\ \A c \in S : place[c] \in Int
      /\ \A c, d \in S : place[c] = place[d] => c = d
    BY DEF Placed
<1> DEFINE below == [c \in S |-> {d \in S : place[d] < place[c]}]
<1>1. below \in [S -> SUBSET S] /\ \A c \in S : Cardinality(below[c]) = Ahead(S, place, c)
    BY DEF Ahead
<1>2. \A c, d \in S : c \in below[d] <=> place[c] < place[d]
    OBVIOUS
<1> HIDE DEF below
<1>3. \A c \in S : c \notin below[c]
    BY <1>p, <1>2
<1>4. \A c, d \in S : c \in below[d] => below[c] \subseteq below[d]
    <2> SUFFICES ASSUME NEW c \in S, NEW d \in S, c \in below[d], NEW e \in below[c] PROVE e \in below[d]
        OBVIOUS
    <2>1. e \in S
        BY <1>1
    <2>2. place[e] < place[d]
        BY <1>p, <1>2, <2>1
    <2> QED
        BY <1>2, <2>1, <2>2
<1>5. \A c, d \in S : c # d => c \in below[d] \/ d \in below[c]
    BY <1>p, <1>2
<1>6. /\ \A c \in S : Cardinality(below[c]) \in 0..(Cardinality(S) - 1)
      /\ \A c, d \in S : Cardinality(below[c]) = Cardinality(below[d]) => c = d
      /\ \A k \in 0..(Cardinality(S) - 1) : \E c \in S : Cardinality(below[c]) = k
    BY <1>p, <1>1, <1>3, <1>4, <1>5, EachHasItsNumber
<1> QED
    BY <1>1, <1>6

\* A list by places has every member, and nothing else.
LEMMA InOrderHasAll ==
    ASSUME NEW S, NEW place, Placed(S, place)
    PROVE  /\ Elements(InOrder(S, place)) = S
           /\ \A i \in DOMAIN InOrder(S, place) : InOrder(S, place)[i] \in S
<1> DEFINE n == Cardinality(S)
           at(i) == CHOOSE c \in S : Ahead(S, place, c) = i - 1
<1>1. n \in Nat
    BY FS_CardinalityType DEF Placed
<1>2. /\ \A c \in S : Ahead(S, place, c) \in 0..(n - 1)
      /\ \A c, d \in S : Ahead(S, place, c) = Ahead(S, place, d) => c = d
      /\ \A k \in 0..(n - 1) : \E c \in S : Ahead(S, place, c) = k
    BY AheadIsOnto DEF n
<1>3. InOrder(S, place) = [i \in 1..n |-> at(i)]
    BY DEF InOrder, Ahead
<1> HIDE DEF n
<1>4. ASSUME NEW i \in 1..n PROVE at(i) \in S /\ Ahead(S, place, at(i)) = i - 1
    <2>1. i - 1 \in 0..(n - 1)
        BY <1>1
    <2> QED
        BY <1>2, <2>1
<1>5. ASSUME NEW c \in S PROVE \E i \in 1..n : at(i) = c
    <2>1. Ahead(S, place, c) + 1 \in 1..n
        BY <1>1, <1>2
    <2>2. Ahead(S, place, at(Ahead(S, place, c) + 1)) = Ahead(S, place, c) /\ at(Ahead(S, place, c) + 1) \in S
        BY <1>1, <1>2, <1>4, <2>1
    <2> QED
        BY <1>2, <2>1, <2>2
<1> HIDE DEF at
<1> QED
    BY <1>3, <1>4, <1>5 DEF Elements

\* Numbers are in their own order.
LEMMA NumbersAhead ==
    ASSUME NEW S, \A x \in S : x \in Int, IsFiniteSet(S)
    PROVE  \A k \in 0..(Cardinality(S) - 1) : \E c \in S : Cardinality({d \in S : d < c}) = k
<1>1. \E place : Placed(S, place) /\ \A x \in S : place[x] = x
    <2>1. Placed(S, [x \in S |-> x])
        BY DEF Placed
    <2> QED
        BY <2>1
<1>2. PICK place : Placed(S, place) /\ \A x \in S : place[x] = x
    BY <1>1
<1>3. ASSUME NEW c \in S PROVE {d \in S : place[d] < place[c]} = {d \in S : d < c}
    BY <1>2
<1>4. Placed(S, place)
    BY <1>2
<1>5. \A k \in 0..(Cardinality(S) - 1) : \E c \in S : Ahead(S, place, c) = k
    BY <1>4, AheadIsOnto
<1> QED
    BY <1>3, <1>5 DEF Ahead

\* The greatest of some numbers is one of them.
LEMMA MaxIsOne ==
    ASSUME NEW S, \A x \in S : x \in Int, IsFiniteSet(S), S # {}
    PROVE  Max(S) \in S /\ \A x \in S : x <= Max(S)
<1> DEFINE below(c) == {d \in S : d < c}
           n == Cardinality(S)
<1>1. n \in Nat /\ n - 1 \in 0..(n - 1)
    BY FS_CardinalityType, FS_EmptySet
<1>3. PICK c \in S : Cardinality(below(c)) = n - 1
    BY <1>1, NumbersAhead
<1>4. IsFiniteSet(S \ {c}) /\ Cardinality(S \ {c}) = n - 1
    BY FS_RemoveElement
<1>5. below(c) \in SUBSET (S \ {c})
    OBVIOUS
<1>6. below(c) = S \ {c}
    <2> HIDE DEF below, n
    <2> QED
        BY <1>3, <1>4, <1>5, FS_Subset
<1>7. \A x \in S : c >= x
    <2>1. ASSUME NEW x \in S PROVE c >= x
        <3>1. x # c => x \in below(c)
            BY <1>6
        <3> QED
            BY <3>1
    <2> QED
        BY <2>1
<1> QED
    BY <1>7 DEF Max

\* The least of some numbers is one of them.
LEMMA MinIsOne ==
    ASSUME NEW S, \A x \in S : x \in Int, IsFiniteSet(S), S # {}
    PROVE  Min(S) \in S
<1> DEFINE below(c) == {d \in S : d < c}
           n == Cardinality(S)
<1>1. n \in Nat /\ 0 \in 0..(n - 1)
    BY FS_CardinalityType, FS_EmptySet
<1>3. PICK c \in S : Cardinality(below(c)) = 0
    BY <1>1, NumbersAhead
<1>4. IsFiniteSet(below(c))
    BY FS_Subset
<1>5. below(c) = {}
    BY <1>3, <1>4, FS_EmptySet
<1>6. \A x \in S : c =< x
    <2>1. ASSUME NEW x \in S PROVE ~(x < c)
        <3>1. x \notin below(c)
            BY <1>5
        <3> QED
            BY <3>1
    <2> QED
        BY <2>1
<1> QED
    BY <1>6 DEF Min

-----------------------------------------------------------------------------
(***************************************************************************)
(* The types the state has, and what a price that is live is.              *)
(***************************************************************************)

RowsTyped ==
    /\ rows \in [Coin -> StoredRow]
    /\ \A c \in Coin : rows[c].live => rows[c].price > 0
    /\ override \in [mode : Mode, at : Int]
    /\ flags \in [completed : BOOLEAN, stale : BOOLEAN]
    /\ now \in Nat

\* What a route may use is a row, or the row that stands for none.
LEMMA UsableIsTyped ==
    ASSUME RowsTyped, NEW c \in Coin
    PROVE  Usable(c) \in StoredRow
<1>1. rows[c] \in StoredRow /\ override.at \in Int /\ Epoch \in Int
    BY ThresholdAssumption DEF RowsTyped, Epoch
<1>2. NoRow \in StoredRow
    BY DEF NoRow, StoredRow
<1>3. Nothing \in Int
    BY DEF Nothing
<1> DEFINE r == rows[c]
           at == IF override.mode \in {"stale_disallowed", "stale_allowed"} THEN Epoch ELSE override.at
           s == getEffectiveSnapshot(AsSnapshot(r), [mode |-> override.mode, age |-> Aged(override.at)])
<1>4. at \in Int
    BY <1>1
<1>5. (s.kind = "live") \in BOOLEAN
    OBVIOUS
<1>6. Effective(r) = IF r = NoRow \/ override.mode = "off" THEN r
                     ELSE IF override.mode = "degraded_seeded_bootstrap"
                     THEN [r EXCEPT !.live = FALSE, !.at = at, !.cap = Nothing, !.volume = Nothing, !.change = Nothing]
                     ELSE [r EXCEPT !.live = s.kind = "live", !.at = at]
    BY DEF Effective
<1>7. r \in StoredRow
    BY <1>1
<1> HIDE DEF at, s, r
<1>8. Effective(r) \in StoredRow
    BY <1>3, <1>4, <1>5, <1>6, <1>7 DEF StoredRow
<1> QED
    BY <1>2, <1>8 DEF Usable, UsableOf, r

-----------------------------------------------------------------------------
(***************************************************************************)
(* The order of a list.  It compares by figures, then by a number that may *)
(* be unknown, then by the coin: any two coins differ, and whoever is      *)
(* before another has all before itself that the other has.                *)
(***************************************************************************)

Lexical(valued, key, up, down, l, r) ==
    IF valued[l] # valued[r] THEN (IF valued[l] THEN -1 ELSE 1)
    ELSE IF compareOptionalNumbers(key[l], key[r], up) # 0 THEN compareOptionalNumbers(key[l], key[r], up)
    ELSE IF down THEN r - l ELSE l - r

LEMMA NumbersAreOrdered ==
    ASSUME NEW a \in Int, NEW b \in Int, NEW c \in Int, NEW up \in BOOLEAN
    PROVE  /\ compareOptionalNumbers(a, b, up) \in Int
           /\ compareOptionalNumbers(a, b, up) = 0 <=> a = b
           /\ compareOptionalNumbers(a, b, up) < 0 <=> compareOptionalNumbers(b, a, up) > 0
           /\ compareOptionalNumbers(a, b, up) < 0 /\ compareOptionalNumbers(b, c, up) < 0
              => compareOptionalNumbers(a, c, up) < 0
    BY DEF compareOptionalNumbers, IsKnown, Nothing

LEMMA LexicalIsTotal ==
    ASSUME NEW valued \in [Coin -> BOOLEAN], NEW key \in [Coin -> Int], NEW up \in BOOLEAN, NEW down \in BOOLEAN,
           NEW a \in Coin, NEW b \in Coin, NEW c \in Coin
    PROVE  /\ ~(Lexical(valued, key, up, down, a, a) < 0)
           /\ a # b => Lexical(valued, key, up, down, a, b) < 0 \/ Lexical(valued, key, up, down, b, a) < 0
           /\ Lexical(valued, key, up, down, a, b) < 0 /\ Lexical(valued, key, up, down, b, c) < 0
              => Lexical(valued, key, up, down, a, c) < 0
           /\ valued[a] /\ ~valued[b] => Lexical(valued, key, up, down, a, b) < 0
<1>1. a \in Nat /\ b \in Nat /\ c \in Nat
    BY AnswersAssumption
<1> DEFINE cmp(l, r) == compareOptionalNumbers(key[l], key[r], up)
<1>2. \A l, r \in {a, b, c} :
        /\ cmp(l, r) \in Int
        /\ cmp(l, r) = 0 <=> key[l] = key[r]
        /\ cmp(l, r) < 0 <=> cmp(r, l) > 0
    BY NumbersAreOrdered
<1>3. cmp(a, b) < 0 /\ cmp(b, c) < 0 => cmp(a, c) < 0
    BY NumbersAreOrdered
<1>4. \A l, r \in {a, b, c} :
        Lexical(valued, key, up, down, l, r) =
          IF valued[l] # valued[r] THEN (IF valued[l] THEN -1 ELSE 1)
          ELSE IF cmp(l, r) # 0 THEN cmp(l, r) ELSE IF down THEN r - l ELSE l - r
    BY DEF Lexical
<1>5. /\ key[a] = key[b] => cmp(a, c) = cmp(b, c)
      /\ key[b] = key[c] => cmp(a, b) = cmp(a, c)
    OBVIOUS
<1> HIDE DEF cmp
<1>6. ~(Lexical(valued, key, up, down, a, a) < 0)
    BY <1>1, <1>2, <1>4
<1>7. a # b => Lexical(valued, key, up, down, a, b) < 0 \/ Lexical(valued, key, up, down, b, a) < 0
    BY <1>1, <1>2, <1>4
<1>8. Lexical(valued, key, up, down, a, b) < 0 /\ Lexical(valued, key, up, down, b, c) < 0
      => Lexical(valued, key, up, down, a, c) < 0
    BY <1>1, <1>2, <1>3, <1>4, <1>5
<1>9. valued[a] /\ ~valued[b] => Lexical(valued, key, up, down, a, b) < 0
    <2> SUFFICES ASSUME valued[a], ~valued[b] PROVE Lexical(valued, key, up, down, a, b) = -1
        OBVIOUS
    <2>1. valued[a] # valued[b]
        BY Zenon
    <2> QED
        BY <1>4, <2>1
<1> QED
    BY <1>6, <1>7, <1>8, <1>9

hasFigures(c) == hasPositiveMarketEvidence(Usable(c))

LEMMA RowsCompareLexically ==
    ASSUME RowsTyped, NEW order \in Orders
    PROVE  \E key \in [Coin -> Int], up \in BOOLEAN, down \in BOOLEAN : \A l, r \in Coin :
             compareMarketRowsForRouteOrder(l, r, order) =
               Lexical([c \in Coin |-> hasFigures(c)], key, up, down, l, r)
<1>1. \A c \in Coin : Usable(c) \in StoredRow
    BY UsableIsTyped
<1>2. Nothing \in Int
    BY DEF Nothing
<1>3. \A c \in Coin : RankIn(c) \in Int
    <2> TAKE c \in Coin
    <2>1. Usable(c).rank \in Int /\ RankOf[c] \in Int /\ 1 \in Int
        BY <1>1, AnswersAssumption DEF StoredRow
    <2> QED
        BY <1>2, <2>1, Zenon DEF RankIn, getReferenceMarketCapRank
<1>4. \A c \in Coin : VolumeOf(c) \in Int
    BY <1>1, <1>2 DEF VolumeOf, StoredRow
<1> DEFINE valued == [c \in Coin |-> hasFigures(c)]
           ranks == [c \in Coin |-> RankIn(c)]
           traded == [c \in Coin |-> VolumeOf(c)]
           none == [c \in Coin |-> 0]
<1>5. compareOptionalNumbers(0, 0, TRUE) = 0
    BY DEF compareOptionalNumbers, IsKnown, Nothing
<1>6. ranks \in [Coin -> Int] /\ traded \in [Coin -> Int] /\ none \in [Coin -> Int]
    BY <1>3, <1>4
<1>7. CASE order \in {"market_cap_desc", "market_cap_asc"}
    <2>1. \A l, r \in Coin : compareMarketRowsForRouteOrder(l, r, order) =
                              Lexical(valued, ranks, order = "market_cap_desc", FALSE, l, r)
        BY <1>7 DEF compareMarketRowsForRouteOrder, Lexical, hasFigures
    <2> DEFINE up == order = "market_cap_desc"
    <2>2. up \in BOOLEAN
        OBVIOUS
    <2>3. \A l, r \in Coin : compareMarketRowsForRouteOrder(l, r, order) = Lexical(valued, ranks, up, FALSE, l, r)
        BY <2>1
    <2>4. ranks \in [Coin -> Int]
        BY <1>6
    <2> HIDE DEF ranks, up
    <2> USE <2>2, <2>4
    <2> WITNESS ranks \in [Coin -> Int], up \in BOOLEAN, FALSE \in BOOLEAN
    <2> QED
        BY <2>3
<1>8. CASE order \in {"volume_desc", "volume_asc"}
    <2>1. \A l, r \in Coin : compareMarketRowsForRouteOrder(l, r, order) =
                              Lexical(valued, traded, order = "volume_asc", FALSE, l, r)
        BY <1>8 DEF compareMarketRowsForRouteOrder, Lexical, hasFigures
    <2> DEFINE down == order = "volume_asc"
    <2>2. down \in BOOLEAN
        OBVIOUS
    <2>3. \A l, r \in Coin : compareMarketRowsForRouteOrder(l, r, order) = Lexical(valued, traded, down, FALSE, l, r)
        BY <2>1
    <2>4. traded \in [Coin -> Int]
        BY <1>6
    <2> HIDE DEF traded, down
    <2> USE <2>2, <2>4
    <2> WITNESS traded \in [Coin -> Int], down \in BOOLEAN, FALSE \in BOOLEAN
    <2> QED
        BY <2>3
<1>9. CASE order \in {"id_desc", "id_asc"}
    <2>1. \A l, r \in Coin : compareMarketRowsForRouteOrder(l, r, order) =
                              Lexical(valued, none, TRUE, order = "id_desc", l, r)
        BY <1>5, <1>9 DEF compareMarketRowsForRouteOrder, Lexical, hasFigures
    <2> QED
        BY <1>6, <2>1
<1> QED
    BY <1>7, <1>8, <1>9 DEF Orders

\* Places are 1 to the number of coins, each of one coin, and coins with figures come first.
LEMMA PlacesAreOnce ==
    ASSUME RowsTyped, NEW order \in Orders
    PROVE  LET place == [c \in Coin |-> Place(c, order)] IN
           /\ Placed(Coin, place)
           /\ {place[c] : c \in Coin} = 1..Cardinality(Coin)
           /\ \A c, d \in Coin : hasFigures(c) /\ ~hasFigures(d) => place[c] < place[d]
<1> DEFINE before(l, r) == compareMarketRowsForRouteOrder(l, r, order) < 0
           ahead(c) == {d \in Coin \ {c} : before(d, c)}
           place == [c \in Coin |-> Place(c, order)]
           n == Cardinality(Coin)
           valued == [c \in Coin |-> hasFigures(c)]
<1>1. /\ \A a \in Coin : ~before(a, a)
      /\ \A a, b \in Coin : a # b => before(a, b) \/ before(b, a)
      /\ \A a, b, c \in Coin : before(a, b) /\ before(b, c) => before(a, c)
      /\ \A a, b \in Coin : hasFigures(a) /\ ~hasFigures(b) => before(a, b)
    <2>1. PICK key \in [Coin -> Int], up \in BOOLEAN, down \in BOOLEAN : \A l, r \in Coin :
             compareMarketRowsForRouteOrder(l, r, order) = Lexical(valued, key, up, down, l, r)
        BY RowsCompareLexically
    <2>2. valued \in [Coin -> BOOLEAN] /\ \A c \in Coin : valued[c] = hasFigures(c)
        BY DEF hasFigures, hasPositiveMarketEvidence
    <2> HIDE DEF valued
    <2>3. \A a, b, c \in Coin :
             /\ ~(Lexical(valued, key, up, down, a, a) < 0)
             /\ a # b => Lexical(valued, key, up, down, a, b) < 0 \/ Lexical(valued, key, up, down, b, a) < 0
             /\ Lexical(valued, key, up, down, a, b) < 0 /\ Lexical(valued, key, up, down, b, c) < 0
                => Lexical(valued, key, up, down, a, c) < 0
             /\ valued[a] /\ ~valued[b] => Lexical(valued, key, up, down, a, b) < 0
        BY <2>2, LexicalIsTotal
    <2> QED
        BY <2>1, <2>2, <2>3
<1>2. IsFiniteSet(Coin) /\ n \in Nat
    BY AnswersAssumption, FS_CardinalityType
<1> HIDE DEF before
<1>3. ASSUME NEW c \in Coin
      PROVE  /\ IsFiniteSet(ahead(c)) /\ Cardinality(ahead(c)) \in 0..(n - 1)
             /\ place[c] = 1 + Cardinality(ahead(c))
    <2>1. IsFiniteSet(Coin \ {c}) /\ Cardinality(Coin \ {c}) = n - 1
        BY <1>2, FS_RemoveElement
    <2>2. ahead(c) \in SUBSET (Coin \ {c})
        OBVIOUS
    <2>3. place[c] = 1 + Cardinality(ahead(c))
        BY DEF Place, before
    <2> HIDE DEF ahead, n
    <2>4. IsFiniteSet(ahead(c)) /\ Cardinality(ahead(c)) <= n - 1
        BY <2>1, <2>2, FS_Subset
    <2> QED
        BY <1>2, <2>3, <2>4, FS_CardinalityType
<1>4. ASSUME NEW a \in Coin, NEW b \in Coin, before(a, b)
      PROVE  place[a] < place[b]
    <2>1. ahead(a) \in SUBSET ahead(b) /\ a \in ahead(b) /\ a \notin ahead(a)
        BY <1>1, <1>4
    <2> HIDE DEF ahead, place
    <2>2. Cardinality(ahead(a)) <= Cardinality(ahead(b)) /\ Cardinality(ahead(a)) # Cardinality(ahead(b))
        BY <1>3, <2>1, FS_Subset
    <2> QED
        BY <1>2, <1>3, <2>2
<1> HIDE DEF ahead, n, valued
<1>5. \A c \in Coin : place[c] \in 1..n
    BY <1>2, <1>3
<1>6. \A a, b \in Coin : place[a] = place[b] => a = b
    BY <1>1, <1>4, <1>5
<1>7. Placed(Coin, place)
    BY <1>2, <1>5, <1>6 DEF Placed
<1>8. place \in Injection(Coin, 1..n)
    BY <1>5, <1>6 DEF Injection, IsInjective
<1>9. IsFiniteSet(1..n) /\ Cardinality(1..n) = n
    BY <1>2, FS_Interval
<1>10. place \in Surjection(Coin, 1..n)
    BY <1>8, <1>9, FS_Injection DEF n
<1>11. {place[c] : c \in Coin} = 1..n
    BY <1>5, <1>10 DEF Surjection
<1>12. \A c, d \in Coin : hasFigures(c) /\ ~hasFigures(d) => place[c] < place[d]
    BY <1>1, <1>4
<1> QED
    BY <1>7, <1>11, <1>12 DEF n

-----------------------------------------------------------------------------
(***************************************************************************)
(* What time does to answers: nothing, unless a row of the usd snapshots   *)
(* grows too old.  An overridden instant is too old at any time, or is of  *)
(* a mode that does not look at it.                                        *)
(***************************************************************************)

TimeAlone ==
    /\ UNCHANGED <<rows, closes, fiat, override>>
    /\ policy' = policy /\ Told' = Told /\ flags'.completed = flags.completed

LEMMA UsableStays ==
    ASSUME RowsTyped, RowsTyped', TimeAlone, NEW c \in Coin
    PROVE  Usable(c)' = Usable(c) /\ UsableOf(rows[c])' = UsableOf(rows[c])
<1> DEFINE r == rows[c]
           E == Effective(r)
<1>1. /\ rows' = rows /\ override' = override /\ policy' = policy
      /\ r \in StoredRow /\ override.at \in Int /\ override.mode \in Mode /\ now \in Nat /\ now' \in Nat
    BY DEF TimeAlone, RowsTyped
<1>2. (Aged(r.at) <= Threshold)' <=> Aged(r.at) <= Threshold
    <2>1. {d \in Coin : Aged(rows[d].at) > Threshold}' = {d \in Coin : Aged(rows[d].at) > Threshold}
        BY DEF TimeAlone, Told
    <2>2. (Aged(r.at) > Threshold)' <=> Aged(r.at) > Threshold
        BY <2>1
    <2>3. Aged(r.at) \in Int /\ Aged(r.at)' \in Int
        BY <1>1, ThresholdAssumption DEF Aged, StoredRow
    <2> QED
        BY <2>2, <2>3, ThresholdAssumption
<1>3. E' = E
    BY <1>1 DEF Effective, getEffectiveSnapshot, AsSnapshot, Epoch
<1>4. E.live => \/ E = r
                \/ E.at = Epoch
                \/ policy.stale
    BY <1>1 DEF Effective, getEffectiveSnapshot, AsSnapshot, policy, getSnapshotAccessPolicy, Mode, StoredRow, NoRow
<1>5. Aged(Epoch) = TooOld /\ Aged(Epoch)' = TooOld
    <2>1. ASSUME NEW t \in Nat PROVE t - Epoch >= TooOld /\ (~(t - Epoch > TooOld) => t - Epoch = TooOld)
        BY ThresholdAssumption DEF Epoch
    <2>2. Aged(Epoch) = TooOld
        BY <1>1, <2>1 DEF Aged
    <2>3. Aged(Epoch)' = TooOld
        BY <1>1, <2>1 DEF Aged
    <2> QED
        BY <2>2, <2>3
<1>6. E.live /\ E # NoRow => (getUsableSnapshot(AsSnapshot(E), policy)' <=> getUsableSnapshot(AsSnapshot(E), policy))
    <2> SUFFICES ASSUME E.live, E # NoRow
                 PROVE  (Aged(E.at) <= Threshold \/ policy.stale)' <=> (Aged(E.at) <= Threshold \/ policy.stale)
        BY <1>1, <1>3 DEF getUsableSnapshot, AsSnapshot
    <2>1. CASE E = r
        BY <1>1, <1>2, <1>3, <2>1
    <2>2. CASE E.at = Epoch
        BY <1>1, <1>3, <1>5, <2>2, ThresholdAssumption
    <2>3. CASE policy.stale
        BY <1>1, <2>3
    <2> QED
        BY <1>4, <2>1, <2>2, <2>3
<1>7. ~(E.live /\ E # NoRow) => (getUsableSnapshot(AsSnapshot(E), policy)' <=> getUsableSnapshot(AsSnapshot(E), policy))
    BY <1>1, <1>3 DEF getUsableSnapshot, AsSnapshot
<1>8. Usable(c)' = Usable(c)
    <2>1. Usable(c) = IF getUsableSnapshot(AsSnapshot(E), policy) THEN E ELSE NoRow
        BY DEF Usable, UsableOf
    <2>2. Usable(c)' = IF getUsableSnapshot(AsSnapshot(E), policy)' THEN E ELSE NoRow
        BY <1>1, <1>3 DEF Usable, UsableOf
    <2> QED
        BY <1>6, <1>7, <2>1, <2>2
<1>9. getUsableSnapshot(AsSnapshot(r), policy)' <=> getUsableSnapshot(AsSnapshot(r), policy)
    BY <1>1, <1>2 DEF getUsableSnapshot, AsSnapshot
<1>10. UsableOf(rows[c])' = UsableOf(rows[c])
    BY <1>1, <1>9 DEF UsableOf
<1> QED
    BY <1>8, <1>10

\* So the lists stay as they are,
LEMMA ListsStay ==
    ASSUME RowsTyped, RowsTyped', TimeAlone, NEW q \in Queries
    PROVE  Chosen(q)' = Chosen(q)
<1>1. \A c \in Coin : Usable(c)' = Usable(c)
    BY UsableStays
<1>2. \A c \in Coin : /\ RankIn(c)' = RankIn(c)
                       /\ VolumeOf(c)' = VolumeOf(c)
                       /\ hasFigures(c)' = hasFigures(c)
    BY <1>1 DEF RankIn, getReferenceMarketCapRank, VolumeOf, hasFigures, hasPositiveMarketEvidence
<1>3. \A l, r \in Coin, order \in Orders :
        compareMarketRowsForRouteOrder(l, r, order)' = compareMarketRowsForRouteOrder(l, r, order)
    <2> TAKE l, r \in Coin, order \in Orders
    <2>1. /\ RankIn(l)' = RankIn(l)
          /\ RankIn(r)' = RankIn(r)
          /\ VolumeOf(l)' = VolumeOf(l) /\ VolumeOf(r)' = VolumeOf(r)
          /\ hasPositiveMarketEvidence(Usable(l))' = hasPositiveMarketEvidence(Usable(l))
          /\ hasPositiveMarketEvidence(Usable(r))' = hasPositiveMarketEvidence(Usable(r))
        BY <1>2 DEF hasFigures
    <2>2. \A up \in BOOLEAN :
             /\ compareOptionalNumbers(RankIn(l), RankIn(r), up)'
                = compareOptionalNumbers(RankIn(l), RankIn(r), up)
             /\ compareOptionalNumbers(VolumeOf(l), VolumeOf(r), up)'
                = compareOptionalNumbers(VolumeOf(l), VolumeOf(r), up)
        BY <2>1 DEF compareOptionalNumbers, IsKnown
    <2> QED
        BY <2>1, <2>2 DEF compareMarketRowsForRouteOrder
<1>4. \A c \in Coin, order \in Orders : Place(c, order)' = Place(c, order)
    <2> TAKE c \in Coin, order \in Orders
    <2>1. {d \in Coin \ {c} : compareMarketRowsForRouteOrder(d, c, order) < 0}'
          = {d \in Coin \ {c} : compareMarketRowsForRouteOrder(d, c, order) < 0}
        BY <1>3
    <2> QED
        BY <2>1 DEF Place
<1>5. q.order \in Orders
    BY AnswersAssumption
<1>6. [c \in Coin |-> Place(c, q.order)]' = [c \in Coin |-> Place(c, q.order)]
    BY <1>4, <1>5
<1>7. Listed(q)' = Listed(q)
    BY <1>6 DEF Listed
<1> QED
    BY <1>7 DEF Chosen, Selected

\* and whoever is in a list is a coin,
LEMMA ListsAreOfCoins ==
    ASSUME RowsTyped, NEW q \in Queries
    PROVE  /\ \A i \in DOMAIN Chosen(q) : Chosen(q)[i] \in Coin
           /\ q.ids # <<>> => Elements(Chosen(q)) = Elements(q.ids) \cap Coin
<1>1. q.ids \in Seq(Nat) /\ q.order \in Orders
    BY AnswersAssumption
<1>2. CASE q.ids = <<>>
    <2> DEFINE place == [c \in Coin |-> Place(c, q.order)]
               page == Page(place, q.page, q.per)
    <2>1. Placed(Coin, place)
        BY <1>1, PlacesAreOnce
    <2>2. page \in SUBSET Coin
        BY DEF Page
    <2> HIDE DEF page, place
    <2>3. Placed(page, place)
        BY <2>1, <2>2, FS_Subset DEF Placed
    <2>4. \A i \in DOMAIN InOrder(page, place) : InOrder(page, place)[i] \in page
        BY <2>3, InOrderHasAll
    <2>5. Chosen(q) = InOrder(page, place)
        BY <1>2 DEF Chosen, Listed, page, place
    <2> QED
        BY <1>2, <2>2, <2>4, <2>5
<1>3. CASE q.ids # <<>>
    <2> DEFINE known == Elements(q.ids) \cap Coin
               at(c) == {i \in DOMAIN q.ids : q.ids[i] = c}
               place == [c \in known |-> Max(at(c))]
    <2>1. known \in SUBSET Coin /\ IsFiniteSet(known)
        BY AnswersAssumption, FS_Subset
    <2>2. ASSUME NEW c \in known PROVE Max(at(c)) \in at(c) /\ Max(at(c)) \in Int
        <3>1. at(c) # {} /\ (\A x \in at(c) : x \in Int) /\ at(c) \in SUBSET (1..Len(q.ids))
            BY <1>1 DEF Elements
        <3>2. IsFiniteSet(at(c))
            BY <1>1, <3>1, FS_Interval, FS_Subset
        <3> HIDE DEF at
        <3> QED
            BY <3>1, <3>2, MaxIsOne
    <2>3. \A c \in known : place[c] \in Int /\ q.ids[place[c]] = c
        BY <2>2
    <2>4. Placed(known, place)
        <3> HIDE DEF place, known
        <3> QED
            BY <2>1, <2>3 DEF Placed
    <2>5. Chosen(q) = InOrder(known, place)
        BY <1>3 DEF Chosen, Selected
    <2> HIDE DEF known, place
    <2>6. Elements(InOrder(known, place)) = known
          /\ \A i \in DOMAIN InOrder(known, place) : InOrder(known, place)[i] \in known
        BY <2>4, InOrderHasAll
    <2> QED
        BY <2>1, <2>5, <2>6 DEF known
<1> QED
    BY <1>2, <1>3

\* so that rows of answers stay as they are.
LEMMA PayloadStays ==
    ASSUME RowsTyped, RowsTyped', TimeAlone, NEW q \in Queries
    PROVE  MarketsPayload(q)' = MarketsPayload(q)
<1>1. /\ rows' = rows /\ closes' = closes /\ fiat' = fiat /\ override' = override
      /\ flags'.completed = flags.completed
    BY DEF TimeAlone
<1>2. \A c \in Coin : Usable(c)' = Usable(c) /\ UsableOf(rows[c])' = UsableOf(rows[c])
    BY UsableStays
<1>3. Rate(q.vs)' = Rate(q.vs)
    BY <1>1, <1>2, AnswersAssumption DEF Rate
<1>4. ASSUME NEW c \in Coin PROVE MarketRow(c, q.vs, q.windows)' = MarketRow(c, q.vs, q.windows)
    <2>1. getReferenceMarketCapRank(c, Usable(c))' = getReferenceMarketCapRank(c, Usable(c))
        BY <1>2 DEF getReferenceMarketCapRank
    <2>2. getSeriesExtremes(c, Usable(c))' = getSeriesExtremes(c, Usable(c))
        BY <1>1, <1>2 DEF getSeriesExtremes
    <2>3. buildMarketPriceChangeFields(c, Usable(c), q.windows)' = buildMarketPriceChangeFields(c, Usable(c), q.windows)
        BY <1>1, <1>2 DEF buildMarketPriceChangeFields, getSeriesChangePercentageForWindowDays
    <2> QED
        BY <1>1, <1>2, <1>3, <2>1, <2>2, <2>3 DEF MarketRow, buildMarketRow
<1>5. Chosen(q)' = Chosen(q) /\ \A i \in DOMAIN Chosen(q) : Chosen(q)[i] \in Coin
    BY ListsStay, ListsAreOfCoins
<1> QED
    BY <1>4, <1>5 DEF MarketsPayload

-----------------------------------------------------------------------------
(***************************************************************************)
(* Requests of one key are answered with the same rows: the key tells all  *)
(* of a request but the order of its ids.                                  *)
(***************************************************************************)

LEMMA OneKeyOneAnswer ==
    ASSUME RowsTyped, NEW p \in Queries, NEW q \in Queries, Key(p) = Key(q)
    PROVE  Elements(MarketsPayload(p)) = Elements(MarketsPayload(q))
<1> DEFINE Asked == [ids : Seq(Nat), order : Orders, page : Nat \ {0}, per : Nat \ {0},
                     vs : {"usd", "eur", "btc"}, windows : SUBSET (Nat \ {0})]
<1>1. p \in Asked /\ q \in Asked
    BY AnswersAssumption
<1>2. [p EXCEPT !.ids = Elements(p.ids)] = [q EXCEPT !.ids = Elements(q.ids)]
    BY DEF Key
<1>3. /\ Elements(p.ids) = Elements(q.ids) /\ p.order = q.order /\ p.page = q.page
      /\ p.per = q.per /\ p.vs = q.vs /\ p.windows = q.windows
    BY <1>1, <1>2
<1>4. /\ p.ids = <<>> <=> Elements(p.ids) = {}
      /\ q.ids = <<>> <=> Elements(q.ids) = {}
    <2>1. ASSUME NEW s \in Seq(Nat) PROVE s = <<>> <=> Elements(s) = {}
        <3>1. CASE s = <<>>
            BY <3>1 DEF Elements
        <3>2. CASE s # <<>>
            <4>1. s[1] \in Elements(s)
                BY <3>2 DEF Elements
            <4> QED
                BY <3>2, <4>1
        <3> QED
            BY <3>1, <3>2
    <2> QED
        BY <1>1, <2>1
<1>5. CASE p.ids = <<>>
    <2>1. q.ids = <<>>
        BY <1>3, <1>4, <1>5
    <2>2. Chosen(p) = Chosen(q)
        BY <1>3, <1>5, <2>1 DEF Chosen, Listed
    <2> QED
        BY <1>3, <2>2 DEF MarketsPayload
<1>6. CASE p.ids # <<>>
    <2>1. q.ids # <<>>
        BY <1>3, <1>4, <1>6
    <2>2. Elements(Chosen(p)) = Elements(Chosen(q))
        BY <1>3, <1>6, <2>1, ListsAreOfCoins
    <2>3. ASSUME NEW r \in Queries
          PROVE  Elements(MarketsPayload(r)) = {MarketRow(c, r.vs, r.windows) : c \in Elements(Chosen(r))}
        BY DEF Elements, MarketsPayload
    <2> QED
        BY <1>3, <2>2, <2>3
<1> QED
    BY <1>5, <1>6

-----------------------------------------------------------------------------
(***************************************************************************)
(* The entries there are.  All are of the present revision.  Without stale *)
(* service they are also of the present policy: it can be turned on, after *)
(* which entries of the policy before are never asked for, and turned off  *)
(* only with a new revision.                                               *)
(***************************************************************************)

StateTyped ==
    RowsTyped /\ fiat \in Nat \ {0} /\ revision \in Nat /\ touched \in 0..now

EntriesTimed ==
    \A e \in cache : /\ e.revision = revision
                     /\ e.expires \in Int /\ e.expires >= now /\ e.expires - CacheTtl <= now

PolicyAsKeyed == flags.stale = FALSE => \A e \in cache : e.key.policy = policy

EntriesCurrent ==
    \A e \in cache, q \in Queries :
      e.key = Key(q) => \/ Elements(e.value) = Elements(MarketsPayload(q))
                       \/ touched >= e.expires - CacheTtl

AnswersInv == StateTyped /\ EntriesTimed /\ PolicyAsKeyed /\ EntriesCurrent

LEMMA InitAnswers == AnswersInit => AnswersInv
<1> SUFFICES ASSUME AnswersInit PROVE AnswersInv
    OBVIOUS
<1>1. Min(Fiat) \in Fiat
    <2>1. Fiat # {} /\ IsFiniteSet(Fiat) /\ \A x \in Fiat : x \in Int
        BY AnswersAssumption
    <2> QED
        BY <2>1, MinIsOne
<1>2. /\ rows = Seeds /\ fiat = Min(Fiat) /\ flags = [completed |-> FALSE, stale |-> FALSE]
      /\ override = [mode |-> "off", at |-> 0] /\ revision = 0 /\ now = 0 /\ cache = {} /\ touched = 0
    BY DEF AnswersInit
<1>3. RowsTyped
    BY <1>2, AnswersAssumption DEF RowsTyped, Mode
<1>4. StateTyped
    BY <1>1, <1>2, <1>3, AnswersAssumption DEF StateTyped
<1> QED
    BY <1>2, <1>4 DEF AnswersInv, EntriesTimed, PolicyAsKeyed, EntriesCurrent

\* What changes the answers without a new revision either tells nothing that they are
\* made of or is noticed; entries are kept but for those of an earlier revision or past
\* their expiry.
LEMMA ChangesKeep ==
    ASSUME AnswersInv, RowsTyped', Changes,
           revision' = revision, now' \in {now, now + 1}, UNCHANGED override,
           flags.stale = TRUE => UNCHANGED flags, flags'.completed = flags.completed,
           flags'.stale = FALSE => UNCHANGED flags
    PROVE  touched' \in 0..now' /\ EntriesTimed' /\ PolicyAsKeyed' /\ EntriesCurrent'
<1>1. /\ RowsTyped /\ revision \in Nat /\ touched \in 0..now /\ now \in Nat /\ now' \in Nat
      /\ EntriesTimed /\ PolicyAsKeyed /\ EntriesCurrent
    BY DEF AnswersInv, StateTyped, RowsTyped
<1>2. /\ cache' \in SUBSET cache
      /\ \A e \in cache' : e.revision = revision' /\ e.expires > now'
    BY DEF Changes, Served
<1>3. touched' = IF Told' # Told THEN now' ELSE touched
    BY DEF Changes
<1>4. touched' \in 0..now' /\ touched' >= touched
    BY <1>1, <1>3
<1>5. EntriesTimed'
    BY <1>1, <1>2, AnswersAssumption DEF EntriesTimed
<1>6. UNCHANGED flags => policy' = policy
    BY DEF policy
<1>7. PolicyAsKeyed'
    BY <1>1, <1>2, <1>6 DEF PolicyAsKeyed
<1>8. EntriesCurrent'
    <2> SUFFICES ASSUME NEW e \in cache', NEW q \in Queries, e.key = Key(q)'
                 PROVE  \/ Elements(e.value) = Elements(MarketsPayload(q)')
                        \/ touched' >= e.expires - CacheTtl
        BY DEF EntriesCurrent
    <2>1. e \in cache /\ e.expires \in Int /\ e.expires - CacheTtl <= now /\ CacheTtl \in Nat
        BY <1>1, <1>2, AnswersAssumption DEF EntriesTimed
    <2>2. CASE Told' # Told
        BY <1>1, <1>3, <2>1, <2>2
    <2>3. CASE Told' = Told
        <3>1. UNCHANGED <<rows, closes, fiat, override>>
            BY <2>3 DEF Told
        <3>2. e.key.policy = policy'
            BY DEF Key
        <3>3. policy' = policy
            <4>1. CASE UNCHANGED flags
                BY <1>6, <4>1
            <4>2. CASE ~UNCHANGED flags
                <5>1. flags.stale = FALSE
                    BY <1>1, <4>2 DEF RowsTyped
                <5> QED
                    BY <1>1, <2>1, <3>2, <5>1 DEF PolicyAsKeyed
            <4> QED
                BY <4>1, <4>2
        <3>4. TimeAlone
            BY <2>3, <3>1, <3>3 DEF TimeAlone
        <3>5. MarketsPayload(q)' = MarketsPayload(q)
            BY <1>1, <3>4, PayloadStays
        <3>6. e.key = Key(q)
            BY <3>1, <3>3 DEF Key
        <3>7. \/ Elements(e.value) = Elements(MarketsPayload(q))
              \/ touched >= e.expires - CacheTtl
            BY <1>1, <2>1, <3>6 DEF EntriesCurrent
        <3> QED
            BY <1>1, <1>4, <2>1, <3>5, <3>7
    <2> QED
        BY <2>2, <2>3
<1> QED
    BY <1>4, <1>5, <1>7, <1>8

\* A new revision leaves no entry.
LEMMA RevisionEmpties ==
    ASSUME AnswersInv, Changes, revision' = revision + 1, now' = now
    PROVE  touched' \in 0..now' /\ EntriesTimed' /\ PolicyAsKeyed' /\ EntriesCurrent'
<1>1. revision \in Nat /\ touched \in 0..now /\ \A e \in cache : e.revision = revision
    BY DEF AnswersInv, StateTyped, EntriesTimed
<1>2. cache' = {}
    BY <1>1 DEF Changes, Served
<1>3. touched' = touched
    BY <1>1 DEF Changes
<1> QED
    BY <1>1, <1>2, <1>3 DEF EntriesTimed, PolicyAsKeyed, EntriesCurrent

\* A request keeps the entries of other keys and adds what it was answered with.
LEMMA AskMarketsKeeps ==
    ASSUME AnswersInv, NEW p \in Queries, AskMarkets(p)
    PROVE  AnswersInv'
<1> DEFINE new == [key |-> Key(p), value |-> MarketsPayload(p), revision |-> revision, expires |-> now + CacheTtl]
<1>1. /\ StateTyped /\ EntriesTimed /\ PolicyAsKeyed /\ EntriesCurrent
      /\ RowsTyped /\ now \in Nat /\ CacheTtl \in Nat
    BY AnswersAssumption DEF AnswersInv, StateTyped, RowsTyped
<1>2. /\ UNCHANGED <<rows, closes, fiat, flags, override, revision, now, touched>>
      /\ \A e \in cache' : e \in cache \/ e = new
    BY DEF AskMarkets
<1>3. /\ new.key = Key(p) /\ new.value = MarketsPayload(p) /\ new.revision = revision
      /\ new.expires = now + CacheTtl
    OBVIOUS
<1> HIDE DEF new
<1>4. StateTyped'
    BY <1>1, <1>2 DEF StateTyped, RowsTyped
<1>5. EntriesTimed'
    BY <1>1, <1>2, <1>3 DEF EntriesTimed
<1>6. policy' = policy
    BY <1>2 DEF policy
<1>7. Key(p).policy = policy
    BY DEF Key
<1>8. PolicyAsKeyed'
    BY <1>1, <1>2, <1>3, <1>6, <1>7 DEF PolicyAsKeyed
<1>9. TimeAlone
    BY <1>2, <1>6 DEF TimeAlone, Told, Aged
<1>10. RowsTyped'
    BY <1>4 DEF StateTyped
<1>11. \A q \in Queries : MarketsPayload(q)' = MarketsPayload(q) /\ Key(q)' = Key(q)
    <2> TAKE q \in Queries
    <2>1. MarketsPayload(q)' = MarketsPayload(q)
        BY <1>1, <1>9, <1>10, PayloadStays
    <2>2. Key(q)' = Key(q)
        BY <1>2, <1>6 DEF Key
    <2> QED
        BY <2>1, <2>2
<1>12. EntriesCurrent'
    <2> SUFFICES ASSUME NEW e \in cache', NEW q \in Queries, e.key = Key(q)
                 PROVE  \/ Elements(e.value) = Elements(MarketsPayload(q))
                        \/ touched >= e.expires - CacheTtl
        BY <1>2, <1>11 DEF EntriesCurrent
    <2>1. CASE e \in cache
        BY <1>1, <2>1 DEF EntriesCurrent
    <2>2. CASE e = new
        BY <1>1, <1>3, <2>2, OneKeyOneAnswer
    <2> QED
        BY <1>2, <2>1, <2>2
<1> QED
    BY <1>4, <1>5, <1>8, <1>12 DEF AnswersInv

LEMMA NextAnswers == AnswersInv /\ [AnswersNext]_answersVars => AnswersInv'
<1> SUFFICES ASSUME AnswersInv, [AnswersNext]_answersVars PROVE AnswersInv'
    OBVIOUS
<1>1. StateTyped /\ RowsTyped /\ now \in Nat /\ revision \in Nat /\ touched \in 0..now /\ fiat \in Nat \ {0}
    BY DEF AnswersInv, StateTyped, RowsTyped
<1>2. CASE Refresh
    <2>1. PICK c \in Coin, s \in Snapshots, own \in BOOLEAN :
            /\ rows' = [rows EXCEPT ![c] = [s EXCEPT !.at = now]]
            /\ revision' = IF own THEN revision + 1 ELSE revision
            /\ flags' = IF own THEN [completed |-> TRUE, stale |-> FALSE] ELSE flags
        BY <1>2, Zenon DEF Refresh
    <2>2. now' = now /\ fiat' = fiat /\ override' = override /\ Changes
        BY <1>2 DEF Refresh, Spends
    <2>3. RowsTyped'
        <3> DEFINE row == [s EXCEPT !.at = now]
        <3>1. s \in StoredRow /\ (s.live => s.price > 0)
            BY AnswersAssumption
        <3>2. row \in StoredRow /\ (row.live => row.price > 0)
            BY <1>1, <3>1 DEF StoredRow
        <3> HIDE DEF row
        <3>3. rows' = [rows EXCEPT ![c] = row]
            BY <2>1 DEF row
        <3>4. rows' \in [Coin -> StoredRow] /\ \A d \in Coin : rows'[d].live => rows'[d].price > 0
            BY <1>1, <3>2, <3>3 DEF RowsTyped
        <3> QED
            BY <1>1, <2>1, <2>2, <3>4 DEF RowsTyped
    <2>4. revision' \in Nat
        BY <1>1, <2>1
    <2>5. touched' \in 0..now' /\ EntriesTimed' /\ PolicyAsKeyed' /\ EntriesCurrent'
        <3>1. CASE own
            BY <2>1, <2>2, <3>1, RevisionEmpties
        <3>2. CASE ~own
            BY <2>1, <2>2, <2>3, <3>2, ChangesKeep
        <3> QED
            BY <3>1, <3>2
    <2> QED
        BY <1>1, <2>2, <2>3, <2>4, <2>5 DEF AnswersInv, StateTyped
<1>3. CASE RefreshFails
    <2>1. /\ now' = now /\ flags' = [flags EXCEPT !.stale = TRUE] /\ Changes
          /\ UNCHANGED <<rows, closes, fiat, override, revision>>
        BY <1>3 DEF RefreshFails, Spends
    <2>2. /\ flags' \in [completed : BOOLEAN, stale : BOOLEAN] /\ flags'.stale = TRUE
          /\ flags'.completed = flags.completed
          /\ flags.stale = TRUE => flags' = flags
        BY <1>1, <2>1 DEF RowsTyped
    <2>3. RowsTyped'
        BY <1>1, <2>1, <2>2 DEF RowsTyped
    <2>4. touched' \in 0..now' /\ EntriesTimed' /\ PolicyAsKeyed' /\ EntriesCurrent'
        BY <2>1, <2>2, <2>3, ChangesKeep
    <2> QED
        BY <1>1, <2>1, <2>3, <2>4 DEF AnswersInv, StateTyped
<1>4. CASE RatesFetched
    <2>1. /\ now' = now /\ Changes /\ fiat' \in Fiat
          /\ UNCHANGED <<rows, closes, flags, override, revision>>
        BY <1>4 DEF RatesFetched, Spends
    <2>2. RowsTyped'
        BY <1>1, <2>1 DEF RowsTyped
    <2>3. touched' \in 0..now' /\ EntriesTimed' /\ PolicyAsKeyed' /\ EntriesCurrent'
        BY <2>1, <2>2, ChangesKeep
    <2> QED
        BY <1>1, <2>1, <2>2, <2>3, AnswersAssumption DEF AnswersInv, StateTyped
<1>5. CASE CloseWritten
    <2>1. /\ now' = now /\ Changes /\ UNCHANGED <<rows, fiat, flags, override, revision>>
        BY <1>5 DEF CloseWritten, Spends
    <2>2. RowsTyped'
        BY <1>1, <2>1 DEF RowsTyped
    <2>3. touched' \in 0..now' /\ EntriesTimed' /\ PolicyAsKeyed' /\ EntriesCurrent'
        BY <2>1, <2>2, ChangesKeep
    <2> QED
        BY <1>1, <2>1, <2>2, <2>3 DEF AnswersInv, StateTyped
<1>6. CASE Tick
    <2>1. /\ now' = now + 1 /\ Changes /\ UNCHANGED <<rows, closes, fiat, flags, override, revision>>
        BY <1>6 DEF Tick
    <2>2. RowsTyped'
        BY <1>1, <2>1 DEF RowsTyped
    <2>3. touched' \in 0..now' /\ EntriesTimed' /\ PolicyAsKeyed' /\ EntriesCurrent'
        BY <2>1, <2>2, ChangesKeep
    <2> QED
        BY <1>1, <2>1, <2>2, <2>3 DEF AnswersInv, StateTyped
<1>7. CASE \E mode \in Modes : OverridePosted(mode)
    <2>1. PICK mode \in Modes : OverridePosted(mode)
        BY <1>7
    <2>2. /\ now' = now /\ Changes /\ revision' = revision + 1 /\ UNCHANGED <<rows, closes, fiat>>
          /\ override' = [mode |-> mode, at |-> now]
          /\ flags' = IF mode \in {"seeded_bootstrap", "degraded_seeded_bootstrap"}
                      THEN [flags EXCEPT !.completed = FALSE]
                      ELSE IF mode = "zero_live_completed_boot" THEN [completed |-> TRUE, stale |-> FALSE]
                      ELSE flags
        BY <2>1, Zenon DEF OverridePosted, Spends
    <2>3. flags' \in [completed : BOOLEAN, stale : BOOLEAN]
        BY <1>1, <2>2 DEF RowsTyped
    <2>4. override' \in [mode : Mode, at : Int]
        BY <1>1, <2>2, AnswersAssumption
    <2>5. RowsTyped'
        BY <1>1, <2>2, <2>3, <2>4 DEF RowsTyped
    <2>6. touched' \in 0..now' /\ EntriesTimed' /\ PolicyAsKeyed' /\ EntriesCurrent'
        BY <2>2, RevisionEmpties
    <2> QED
        BY <1>1, <2>2, <2>5, <2>6 DEF AnswersInv, StateTyped
<1>8. CASE \E q \in Queries : AskMarkets(q)
    BY <1>8, AskMarketsKeeps
<1>9. CASE UNCHANGED answersVars
    <2>1. /\ UNCHANGED <<rows, closes, fiat, flags, override, revision, now, cache, touched>>
        BY <1>9 DEF answersVars
    <2>2. policy' = policy
        BY <2>1 DEF policy
    <2>3. TimeAlone /\ RowsTyped'
        BY <1>1, <2>1, <2>2 DEF TimeAlone, Told, Aged, RowsTyped
    <2>4. \A q \in Queries : MarketsPayload(q)' = MarketsPayload(q) /\ Key(q)' = Key(q)
        <3> TAKE q \in Queries
        <3>1. MarketsPayload(q)' = MarketsPayload(q)
            BY <1>1, <2>3, PayloadStays
        <3>2. Key(q)' = Key(q)
            BY <2>1, <2>2 DEF Key
        <3> QED
            BY <3>1, <3>2
    <2>5. EntriesCurrent'
        BY <2>1, <2>4 DEF AnswersInv, EntriesCurrent
    <2>6. EntriesTimed' /\ PolicyAsKeyed'
        BY <2>1, <2>2 DEF AnswersInv, EntriesTimed, PolicyAsKeyed
    <2> QED
        BY <1>1, <2>1, <2>3, <2>5, <2>6 DEF AnswersInv, StateTyped
<1> QED
    BY <1>2, <1>3, <1>4, <1>5, <1>6, <1>7, <1>8, <1>9 DEF AnswersNext

LEMMA InvariantHolds == AnswersSpec => []AnswersInv
    BY InitAnswers, NextAnswers, PTL DEF AnswersSpec

-----------------------------------------------------------------------------
(* What the routes promise. *)

\* What the cache of /coins/markets would answer has the rows the request would get
\* without it, unless something without a revision changed within the time to live
\* (createCoinMarketsCacheKey and the lookup in modules/coins.ts).
THEOREM CacheIsCurrent == AnswersSpec => []AnswersCurrent
<1>1. AnswersInv => AnswersCurrent
    <2> SUFFICES ASSUME AnswersInv, NEW q \in Queries, NEW e \in Hits(q),
                        Elements(e.value) # Elements(MarketsPayload(q))
                 PROVE  now - touched < CacheTtl
        BY DEF AnswersCurrent
    <2>1. e \in cache /\ e.expires > now /\ e.key = Key(q)
        BY DEF Hits, Served
    <2>2. touched >= e.expires - CacheTtl
        BY <2>1 DEF AnswersInv, EntriesCurrent
    <2>3. now \in Nat /\ touched \in 0..now /\ e.expires \in Int /\ CacheTtl \in Nat
        BY <2>1, AnswersAssumption DEF AnswersInv, StateTyped, RowsTyped, EntriesTimed
    <2> QED
        BY <2>1, <2>2, <2>3
<1> QED
    BY <1>1, InvariantHolds, PTL

LEMMA AnswersInvPages == AnswersInv => PagesCoverOnce
<1> SUFFICES ASSUME AnswersInv, NEW order \in Orders
             PROVE  LET place == [c \in Coin |-> Place(c, order)]
                        valued == {c \in Coin : hasPositiveMarketEvidence(Usable(c))} IN
                    /\ {place[c] : c \in Coin} = 1..Cardinality(Coin)
                    /\ \A c \in valued, d \in Coin \ valued : place[c] < place[d]
    BY DEF PagesCoverOnce
<1>1. RowsTyped
    BY DEF AnswersInv, StateTyped
<1> QED
    BY <1>1, PlacesAreOnce DEF hasFigures

\* In every order the pages of a list have every coin once, and no coin without figures
\* before one with (compareMarketRowsForRouteOrder).
THEOREM PagesAreWhole == AnswersSpec => []PagesCoverOnce
    BY AnswersInvPages, InvariantHolds, PTL

\* A coin that may be used has one price and one time on all routes, another none.
LEMMA PricesAgree ==
    ASSUME NEW vs, NEW c \in Coin
    PROVE  /\ buildCoinDetail(c, vs).price = MarketRow(c, vs, {}).price
           /\ c \in DOMAIN buildSimplePayload(Coin, vs)
              => /\ buildSimplePayload(Coin, vs)[c].price = MarketRow(c, vs, {}).price
                 /\ buildSimplePayload(Coin, vs)[c].updated = buildCoinDetail(c, vs).updated
                 /\ MarketRow(c, vs, {}).updated \in {Nothing, buildCoinDetail(c, vs).updated}
           /\ c \notin DOMAIN buildSimplePayload(Coin, vs)
              => MarketRow(c, vs, {}).price = Zero /\ buildCoinDetail(c, vs) = NoMarketData
<1>1. CASE Usable(c) = NoRow
    <2>1. c \notin DOMAIN buildSimplePayload(Coin, vs)
        BY <1>1 DEF buildSimplePayload
    <2>2. buildCoinDetail(c, vs) = NoMarketData
        BY <1>1 DEF buildCoinDetail
    <2>3. MarketRow(c, vs, {}).price = Zero
        BY <1>1 DEF MarketRow, buildMarketRow
    <2>4. NoMarketData.price = Zero
        BY DEF NoMarketData
    <2> QED
        BY <2>1, <2>2, <2>3, <2>4
<1>2. CASE Usable(c) # NoRow
    <2>1. /\ c \in DOMAIN buildSimplePayload(Coin, vs)
          /\ buildSimplePayload(Coin, vs)[c].price = In(Usable(c).price, Rate(vs))
          /\ buildSimplePayload(Coin, vs)[c].updated = Usable(c).at
        BY <1>2 DEF buildSimplePayload
    <2>2. buildCoinDetail(c, vs).price = In(Usable(c).price, Rate(vs)) /\ buildCoinDetail(c, vs).updated = Usable(c).at
        BY <1>2 DEF buildCoinDetail
    <2>3. /\ MarketRow(c, vs, {}).price = In(Usable(c).price, Rate(vs))
          /\ MarketRow(c, vs, {}).updated \in {Nothing, Usable(c).at}
        BY <1>2 DEF MarketRow, buildMarketRow
    <2> QED
        BY <2>1, <2>2, <2>3
<1> QED
    BY <1>1, <1>2

\* Movers are of the universe, whose rows are live and have a price.
LEMMA LiveMoversHaveAPrice ==
    ASSUME StateTyped, NEW vs \in {"eur", "btc"}, TopMovers(2, 1, vs).meta.live,
           NEW r \in TopMovers(2, 1, vs).gainers \cup TopMovers(2, 1, vs).losers
    PROVE  r.price # Zero
<1>1. \A c \in Universe(2) : c \in Coin /\ UsableOf(rows[c]).live
    <2>1. \A c \in Universe(2) : UsableOf(rows[c]).live
        BY DEF TopMovers, buildMoverMeta
    <2>2. Universe(2) \in SUBSET Active
        BY DEF Universe
    <2> QED
        BY <2>1, <2>2, AnswersAssumption
<1>2. PICK c \in Universe(2) : r = buildMarketRow(c, UsableOf(rows[c]), vs, {1})
    BY DEF TopMovers
<1>3. c \in Coin /\ rows[c] \in StoredRow /\ (rows[c].live => rows[c].price > 0) /\ fiat \in Nat \ {0}
    BY <1>1 DEF StateTyped, RowsTyped
<1>4. UsableOf(rows[c]) = rows[c] /\ rows[c] # NoRow /\ rows[c].live
    <2>1. UsableOf(rows[c]).live
        BY <1>1
    <2>2. NoRow.live = FALSE
        BY DEF NoRow
    <2> QED
        BY <2>1, <2>2 DEF UsableOf
<1>6. r.price = In(rows[c].price, Rate(vs))
    BY <1>2, <1>4 DEF buildMarketRow
<1>7. Rate(vs).num \in Nat \ {0}
    BY <1>3 DEF Rate, Quotient
<1>8. rows[c].price \in Nat \ {0}
    BY <1>3, <1>4 DEF StoredRow
<1>9. ASSUME NEW a \in Nat \ {0}, NEW b \in Nat \ {0} PROVE a * b # 0
    OBVIOUS
<1>10. r.price = Quotient(rows[c].price * Rate(vs).num, Rate(vs).den)
    BY <1>6, <1>8 DEF In, Nothing
<1> QED
    BY <1>7, <1>8, <1>9, <1>10 DEF Quotient, Zero

LEMMA RoutesFollow == AnswersInv => AnswersAgree
<1> SUFFICES ASSUME AnswersInv PROVE AnswersAgree
    OBVIOUS
<1>1. StateTyped
    BY DEF AnswersInv
<1>2. PagesCoverOnce
    BY AnswersInvPages
<1>3. ASSUME NEW vs \in {"eur", "btc"}, TopMovers(2, 1, vs).meta.live,
             NEW r \in TopMovers(2, 1, vs).gainers \cup TopMovers(2, 1, vs).losers
      PROVE  r.price # Zero
    BY <1>1, <1>3, LiveMoversHaveAPrice
<1> QED
    BY <1>2, <1>3, PricesAgree DEF AnswersAgree

\* Routes that are asked at once agree on the price of a coin and its time, and movers
\* that are called live have a price (modules/simple.ts, modules/coins/detail.ts,
\* modules/coins/market-data.ts).
THEOREM RoutesTellTheSame == AnswersSpec => []AnswersAgree
    BY RoutesFollow, InvariantHolds, PTL

\* Of finitely many things one has the largest number.
LEMMA LargestNumber ==
    ASSUME NEW S, IsFiniteSet(S), S # {}, NEW f, \A x \in S : f[x] \in Int
    PROVE  \E x \in S : \A y \in S : f[y] <= f[x]
<1> DEFINE above(x) == {y \in S : f[y] > f[x]}
           sizes == {Cardinality(above(x)) : x \in S}
<1>1. \A x \in S : IsFiniteSet(above(x)) /\ Cardinality(above(x)) \in Nat
    <2>1. \A x \in S : above(x) \subseteq S
        OBVIOUS
    <2> HIDE DEF above
    <2> QED
        BY <2>1, FS_Subset, FS_CardinalityType
<1>2. sizes \subseteq Nat /\ sizes # {}
    <2> HIDE DEF above
    <2> QED
        BY <1>1
<1>3. PICK m \in sizes : \A n \in sizes : m <= n
    <2> HIDE DEF sizes
    <2> QED
        BY <1>2, LeastNumber
<1>4. PICK x \in S : Cardinality(above(x)) = m
    BY <1>3
<1>5. ASSUME NEW y \in S, f[y] > f[x] PROVE FALSE
    <2>1. above(y) \subseteq above(x) /\ y \in above(x) /\ y \notin above(y)
        BY <1>5
    <2>2. m <= Cardinality(above(y))
        BY <1>3
    <2> HIDE DEF above
    <2>3. Cardinality(above(y)) < Cardinality(above(x))
        <3>1. above(y) # above(x)
            BY <2>1
        <3> QED
            BY <1>1, <2>1, <3>1, FS_Subset
    <2> QED
        BY <1>1, <1>4, <2>2, <2>3
<1> QED
    BY <1>5

-----------------------------------------------------------------------------
(***************************************************************************)
(* Sums.  A sum over a set is a function on its subsets that takes one     *)
(* member after the other; there is one such function, and no order of     *)
(* the members makes a difference.                                         *)
(***************************************************************************)

OneOf(s) == CHOOSE x \in s : TRUE

AddsUp(g, f, s) == IF s = {} THEN 0 ELSE f[OneOf(s)] + g[s \ {OneOf(s)}]

IsSum(g, f, S) == g = [s \in SUBSET S |-> AddsUp(g, f, s)]

LEMMA ChosenIsOne == \A s : s # {} => OneOf(s) \in s
BY DEF OneOf

LEMMA SumsExist ==
    ASSUME NEW S, IsFiniteSet(S), NEW f
    PROVE  \E g : IsSum(g, f, S)
<1> DEFINE upto(g, k) == /\ g = [s \in SUBSET S |-> g[s]]
                         /\ \A s \in SUBSET S : Cardinality(s) <= k => g[s] = AddsUp(g, f, s)
           missed == {k \in Nat : ~ \E g : upto(g, k)}
<1>1. \A s \in SUBSET S : IsFiniteSet(s) /\ Cardinality(s) \in Nat /\ Cardinality(s) <= Cardinality(S)
    BY FS_Subset, FS_CardinalityType
<1>2. missed = {}
    <2> SUFFICES ASSUME missed # {} PROVE FALSE
        OBVIOUS
    <2>1. PICK n \in missed : \A k \in missed : n <= k
        <3>1. missed \subseteq Nat /\ missed # {}
            OBVIOUS
        <3> HIDE DEF missed
        <3> QED
            BY <3>1, LeastNumber
    <2>2. n # 0
        <3>1. upto([s \in SUBSET S |-> 0], 0)
            <4>1. ASSUME NEW s \in SUBSET S, Cardinality(s) <= 0 PROVE s = {}
                BY <1>1, <4>1, FS_EmptySet
            <4> QED
                BY <4>1 DEF AddsUp
        <3> HIDE DEF upto
        <3> QED
            BY <2>1, <3>1
    <2>3. n \in Nat /\ n - 1 \in Nat /\ n - 1 \notin missed
        <3>1. n \in Nat
            BY <2>1
        <3> HIDE DEF missed
        <3> QED
            BY <2>1, <2>2, <3>1
    <2>4. PICK g : upto(g, n - 1)
        BY <2>3
    <2> DEFINE h == [s \in SUBSET S |-> AddsUp(g, f, s)]
    <2>5. ASSUME NEW s \in SUBSET S, Cardinality(s) <= n PROVE h[s] = AddsUp(h, f, s)
        <3>1. CASE s = {}
            BY <3>1 DEF AddsUp
        <3>2. CASE s # {}
            <4> DEFINE t == s \ {OneOf(s)}
            <4>1. t \in SUBSET S /\ Cardinality(t) = Cardinality(s) - 1
                BY <1>1, <3>2, ChosenIsOne, FS_RemoveElement
            <4>2. Cardinality(t) <= n - 1
                BY <1>1, <2>1, <2>5, <4>1
            <4>3. g[t] = h[t]
                BY <2>4, <4>1, <4>2
            <4> QED
                BY <3>2, <4>3 DEF AddsUp
        <3> QED
            BY <3>1, <3>2
    <2>6. upto(h, n)
        BY <2>5
    <2> HIDE DEF upto
    <2> QED
        BY <2>1, <2>6
<1>3. Cardinality(S) \in Nat
    BY FS_CardinalityType
<1>4. PICK g : upto(g, Cardinality(S))
    BY <1>2, <1>3
<1> QED
    BY <1>1, <1>4 DEF IsSum

LEMMA SumsAreUnique ==
    ASSUME NEW S, IsFiniteSet(S), NEW f, NEW g, IsSum(g, f, S), NEW h, IsSum(h, f, S)
    PROVE  g = h
<1> DEFINE apart == {s \in SUBSET S : g[s] # h[s]}
<1>1. apart = {}
    <2> SUFFICES ASSUME apart # {} PROVE FALSE
        OBVIOUS
    <2>1. PICK s \in apart : \A x \in s : s \ {x} \notin apart
        <3>1. apart \subseteq SUBSET S
            OBVIOUS
        <3> HIDE DEF apart
        <3> QED
            BY <3>1, SmallestSet
    <2>2. g[s] = AddsUp(g, f, s) /\ h[s] = AddsUp(h, f, s)
        BY <2>1 DEF IsSum
    <2>3. s # {} => s \ {OneOf(s)} \in SUBSET S /\ g[s \ {OneOf(s)}] = h[s \ {OneOf(s)}]
        BY <2>1, ChosenIsOne
    <2> QED
        BY <2>1, <2>2, <2>3 DEF AddsUp
<1>2. \A s \in SUBSET S : g[s] = h[s]
    BY <1>1
<1>3. g = [s \in SUBSET S |-> g[s]] /\ h = [s \in SUBSET S |-> h[s]]
    BY DEF IsSum
<1> QED
    BY <1>2, <1>3

\* What there is of a function adds up to that on a set.
SumOf(f, S) == (CHOOSE g : IsSum(g, f, S))[S]

LEMMA SumOfSubsets ==
    ASSUME NEW S, IsFiniteSet(S), NEW f, NEW g, IsSum(g, f, S)
    PROVE  \A T \in SUBSET S : g[T] = SumOf(f, T)
<1> SUFFICES ASSUME NEW T \in SUBSET S PROVE g[T] = SumOf(f, T)
    OBVIOUS
<1> DEFINE h == [s \in SUBSET T |-> g[s]]
<1>1. IsFiniteSet(T)
    BY FS_Subset
<1>2. IsSum(h, f, T)
    <2>1. ASSUME NEW s \in SUBSET T PROVE g[s] = AddsUp(h, f, s)
        <3>1. g[s] = AddsUp(g, f, s)
            BY <2>1 DEF IsSum
        <3>2. s # {} => s \ {OneOf(s)} \in SUBSET T
            BY <2>1
        <3> QED
            BY <3>1, <3>2 DEF AddsUp
    <2> QED
        BY <2>1 DEF IsSum
<1>3. \A k : IsSum(k, f, T) => k = h
    <2> HIDE DEF h
    <2> QED
        BY <1>1, <1>2, SumsAreUnique
<1> HIDE DEF h
<1>4. (CHOOSE k : IsSum(k, f, T)) = h
    BY <1>2, <1>3
<1>5. h[T] = g[T]
    BY DEF h
<1> QED
    BY <1>4, <1>5 DEF SumOf

LEMMA SumOfNone == \A f : SumOf(f, {}) = 0
<1> SUFFICES ASSUME NEW f PROVE SumOf(f, {}) = 0
    OBVIOUS
<1>1. PICK g : IsSum(g, f, {})
    BY FS_EmptySet, SumsExist
<1>2. g[{}] = SumOf(f, {})
    BY <1>1, FS_EmptySet, SumOfSubsets
<1>3. g[{}] = 0
    BY <1>1 DEF IsSum, AddsUp
<1> QED
    BY <1>2, <1>3

LEMMA SumOfChosen ==
    ASSUME NEW S, IsFiniteSet(S), S # {}, NEW f
    PROVE  SumOf(f, S) = f[OneOf(S)] + SumOf(f, S \ {OneOf(S)})
<1>1. PICK g : IsSum(g, f, S)
    BY SumsExist
<1>2. g[S] = SumOf(f, S) /\ g[S \ {OneOf(S)}] = SumOf(f, S \ {OneOf(S)})
    BY <1>1, SumOfSubsets
<1>3. g[S] = AddsUp(g, f, S)
    BY <1>1 DEF IsSum
<1> QED
    BY <1>2, <1>3 DEF AddsUp

LEMMA SumIsInt ==
    ASSUME NEW S, IsFiniteSet(S), NEW f, \A x \in S : f[x] \in Int
    PROVE  SumOf(f, S) \in Int
<1> DEFINE odd == {s \in SUBSET S : SumOf(f, s) \notin Int}
<1>1. odd = {}
    <2> SUFFICES ASSUME odd # {} PROVE FALSE
        OBVIOUS
    <2>1. PICK s \in odd : IsFiniteSet(s) /\ \A x \in s : s \ {x} \notin odd
        <3>1. odd \subseteq SUBSET S
            OBVIOUS
        <3> HIDE DEF odd
        <3> QED
            BY <3>1, SmallestSet
    <2>2. s # {}
        BY <2>1, SumOfNone
    <2>3. OneOf(s) \in s /\ SumOf(f, s) = f[OneOf(s)] + SumOf(f, s \ {OneOf(s)})
        BY <2>1, <2>2, ChosenIsOne, SumOfChosen
    <2>4. SumOf(f, s \ {OneOf(s)}) \in Int
        BY <2>1, <2>3
    <2> QED
        BY <2>1, <2>3, <2>4
<1> QED
    BY <1>1

\* Any member may be taken first.
LEMMA SumOfOneMore ==
    ASSUME NEW S, IsFiniteSet(S), NEW f, \A x \in S : f[x] \in Int, NEW x \in S
    PROVE  SumOf(f, S) = f[x] + SumOf(f, S \ {x})
<1> DEFINE odd == {s \in SUBSET S : \E y \in s : SumOf(f, s) # f[y] + SumOf(f, s \ {y})}
<1>1. \A s \in SUBSET S : IsFiniteSet(s) /\ SumOf(f, s) \in Int
    BY FS_Subset, SumIsInt
<1>2. odd = {}
    <2> SUFFICES ASSUME odd # {} PROVE FALSE
        OBVIOUS
    <2>1. PICK s \in odd : IsFiniteSet(s) /\ \A y \in s : s \ {y} \notin odd
        <3>1. odd \subseteq SUBSET S
            OBVIOUS
        <3> HIDE DEF odd
        <3> QED
            BY <3>1, SmallestSet
    <2>2. PICK y \in s : SumOf(f, s) # f[y] + SumOf(f, s \ {y})
        BY <2>1
    <2> DEFINE c == OneOf(s)
    <2>3. c \in s /\ SumOf(f, s) = f[c] + SumOf(f, s \ {c})
        BY <2>1, <2>2, ChosenIsOne, SumOfChosen
    <2>4. c # y
        BY <2>2, <2>3
    <2> HIDE DEF c
    <2>5. SumOf(f, s \ {c}) = f[y] + SumOf(f, (s \ {c}) \ {y})
        BY <2>1, <2>2, <2>3, <2>4
    <2>6. SumOf(f, s \ {y}) = f[c] + SumOf(f, (s \ {y}) \ {c})
        BY <2>1, <2>2, <2>3, <2>4
    <2>7. (s \ {c}) \ {y} = (s \ {y}) \ {c}
        OBVIOUS
    <2>8. SumOf(f, (s \ {c}) \ {y}) \in Int /\ f[c] \in Int /\ f[y] \in Int
        BY <1>1, <2>1, <2>2, <2>3
    <2> QED
        BY <2>2, <2>3, <2>5, <2>6, <2>7, <2>8
<1> QED
    BY <1>2

LEMMA SumsOfSame ==
    ASSUME NEW S, IsFiniteSet(S), NEW f, NEW h, \A x \in S : f[x] = h[x]
    PROVE  SumOf(f, S) = SumOf(h, S)
<1>1. PICK g : IsSum(g, f, S)
    BY SumsExist
<1>2. IsSum(g, h, S)
    <2>1. ASSUME NEW s \in SUBSET S PROVE AddsUp(g, f, s) = AddsUp(g, h, s)
        <3>1. s # {} => f[OneOf(s)] = h[OneOf(s)]
            BY ChosenIsOne
        <3> QED
            BY <3>1 DEF AddsUp
    <2> QED
        BY <1>1, <2>1 DEF IsSum
<1>3. g[S] = SumOf(f, S)
    BY <1>1, SumOfSubsets
<1>4. g[S] = SumOf(h, S)
    BY <1>2, SumOfSubsets
<1> QED
    BY <1>3, <1>4

\* A sum of so many is between as many of the least and as many of the most.
LEMMA SumIsBetween ==
    ASSUME NEW S, IsFiniteSet(S), NEW f, NEW lo \in Int, NEW hi \in Int,
           \A x \in S : f[x] \in Int /\ lo <= f[x] /\ f[x] <= hi
    PROVE  /\ SumOf(f, S) \in Int
           /\ lo * Cardinality(S) <= SumOf(f, S) /\ SumOf(f, S) <= hi * Cardinality(S)
<1> DEFINE fine(s) == lo * Cardinality(s) <= SumOf(f, s) /\ SumOf(f, s) <= hi * Cardinality(s)
           odd == {s \in SUBSET S : ~ fine(s)}
<1>1. \A s \in SUBSET S : IsFiniteSet(s) /\ SumOf(f, s) \in Int
    BY FS_Subset, SumIsInt
<1>2. odd = {}
    <2> SUFFICES ASSUME odd # {} PROVE FALSE
        OBVIOUS
    <2>1. PICK s \in odd : \A y \in s : s \ {y} \notin odd
        <3>1. odd \subseteq SUBSET S
            OBVIOUS
        <3> HIDE DEF odd
        <3> QED
            BY <3>1, SmallestSet
    <2>2. s # {}
        <3>1. fine({})
            BY SumOfNone, FS_EmptySet
        <3> HIDE DEF fine
        <3> QED
            BY <2>1, <3>1
    <2> DEFINE c == OneOf(s)
               t == s \ {c}
               n == Cardinality(t)
    <2>3. c \in S /\ SumOf(f, s) = f[c] + SumOf(f, t)
        BY <1>1, <2>1, <2>2, ChosenIsOne, SumOfChosen
    <2>4. t \in SUBSET S /\ fine(t)
        BY <2>1, <2>2, ChosenIsOne
    <2>5. n \in Nat /\ Cardinality(s) = n + 1
        <3>1. IsFiniteSet(s) /\ c \in s
            BY <1>1, <2>1, <2>2, ChosenIsOne
        <3>2. IsFiniteSet(t) /\ Cardinality(t) = Cardinality(s) - 1
            BY <3>1, FS_RemoveElement
        <3> QED
            BY <3>1, <3>2, FS_CardinalityType
    <2>6. SumOf(f, t) \in Int /\ f[c] \in Int /\ lo <= f[c] /\ f[c] <= hi
        BY <1>1, <2>3, <2>4
    <2>7. ~ (lo * (n + 1) <= f[c] + SumOf(f, t) /\ f[c] + SumOf(f, t) <= hi * (n + 1))
        BY <2>1, <2>3, <2>5
    <2>8. lo * n <= SumOf(f, t) /\ SumOf(f, t) <= hi * n
        BY <2>4
    <2> HIDE DEF c, t, n
    <2>9. lo * (n + 1) = lo * n + lo /\ hi * (n + 1) = hi * n + hi /\ lo * n \in Int /\ hi * n \in Int
        BY <2>5
    <2> QED
        BY <2>6, <2>7, <2>8, <2>9
<1> QED
    BY <1>1, <1>2

\* The sums of the model.
LEMMA MappedSum ==
    ASSUME NEW S, IsFiniteSet(S), NEW f
    PROVE  MapThenSumSet(LAMBDA t : f[t], S) = SumOf(f, S)
<1>1. PICK g : IsSum(g, f, S)
    BY SumsExist
<1>2. \A h : IsSum(h, f, S) => h = g
    BY <1>1, SumsAreUnique
<1>3. g = CHOOSE h : IsSum(h, f, S)
    BY <1>1, <1>2
<1> QED
    BY <1>3 DEF MapThenSumSet, MapThenFoldSet, IsSum, AddsUp, OneOf, SumOf

-----------------------------------------------------------------------------
(***************************************************************************)
(* Derivatives.  The inductive invariant.                                  *)
(***************************************************************************)

VenueRow == [venue : Venue, symbol : Symbols, kind : {"seed", "live"}, fetched : Int]

VenuesTyped ==
    /\ venueTickers \subseteq VenueRow
    /\ figures \in [Venue -> [listed : BOOLEAN, seeded : BOOLEAN, of : SUBSET VenueRow]]
    /\ venueState \in [Venue -> {"none", "success", "error", "unsupported_or_empty"}]
    /\ venueRun \in [queue : Seq(Venue), at : Int, rest : SUBSET VenueRow,
                     wrote : BOOLEAN, written : BOOLEAN]
    /\ venueDay \in Nat /\ venueRun.at <= venueDay

\* Of a contract there is one row, and a venue's figures are of its own rows, none of
\* them beside one of another kind.
VenueRowsKept ==
    /\ \A r, s \in venueTickers : r.venue = s.venue /\ r.symbol = s.symbol => r = s
    /\ \A v \in Venue :
          /\ \A r \in figures[v].of : r.venue = v
          /\ \A r, s \in figures[v].of : r.symbol = s.symbol => r = s
          /\ \A r, s \in figures[v].of : r.kind # "seed" => s.kind # "seed"

\* What is being written is of the venue that was asked.
Writing == venueRun.rest # {} \/ venueRun.wrote

Ingesting(v) == venueRun.queue # <<>> /\ Head(venueRun.queue) = v /\ Writing

WritesKept ==
    /\ Writing => venueRun.queue # <<>>
    /\ \A r \in venueRun.rest : r.venue = Head(venueRun.queue) /\ r.kind = "live"

\* A venue that succeeded counts what there is of it, but for what retention took.
SuccessCounts ==
    \A v \in Venue : venueState[v] = "success" /\ ~Ingesting(v) =>
        /\ \A r \in venueTickers : r.venue = v /\ r.kind # "seed" => r \in figures[v].of
        /\ \A r \in figures[v].of \ venueTickers : r.fetched <= venueDay - Retention

VenuesInv == VenuesTyped /\ VenueRowsKept /\ WritesKept /\ SuccessCounts

LEMMA VenueConstants ==
    /\ ConfiguredVenues \in Seq(Venue) /\ SeededVenues \subseteq Venue
    /\ SeededTickers \subseteq [venue : Venue, symbol : Symbols]
    /\ Retention \in Nat \ {0}
BY PlaneAssumption DEF Venues!VenuesAssumption

LEMMA VenuesBegin == Venues!Init => VenuesInv
<1> SUFFICES ASSUME Venues!Init PROVE VenuesInv
    OBVIOUS
<1> USE DEF Venues!Init, Venues!Idle
<1>1. \A r \in venueTickers : /\ r \in VenueRow /\ r.kind = "seed"
                              /\ \E s \in SeededTickers : r = Venues!Ticker(s.venue, s.symbol, "seed", -1)
    BY VenueConstants DEF Venues!SeededRows, Venues!Ticker, VenueRow
<1>2. venueRun = [queue |-> <<>>, at |-> -1, rest |-> {}, wrote |-> FALSE, written |-> FALSE]
    OBVIOUS
<1>3. VenuesTyped
    <2>1. venueRun \in [queue : Seq(Venue), at : Int, rest : SUBSET VenueRow, wrote : BOOLEAN, written : BOOLEAN]
        BY <1>2
    <2>2. figures \in [Venue -> [listed : BOOLEAN, seeded : BOOLEAN, of : SUBSET VenueRow]]
        OBVIOUS
    <2> QED
        BY <1>1, <1>2, <2>1, <2>2 DEF VenuesTyped
<1>4. VenueRowsKept
    <2>1. \A r, s \in venueTickers : r.venue = s.venue /\ r.symbol = s.symbol => r = s
        <3> SUFFICES ASSUME NEW r \in venueTickers, NEW s \in venueTickers,
                            r.venue = s.venue, r.symbol = s.symbol
                     PROVE  r = s
            OBVIOUS
        <3>1. PICK p \in SeededTickers : r = Venues!Ticker(p.venue, p.symbol, "seed", -1)
            BY <1>1
        <3>2. PICK q \in SeededTickers : s = Venues!Ticker(q.venue, q.symbol, "seed", -1)
            BY <1>1
        <3> QED
            BY <3>1, <3>2 DEF Venues!Ticker
    <2>2. \A v \in Venue : figures[v].of = {}
        OBVIOUS
    <2> QED
        BY <2>1, <2>2 DEF VenueRowsKept
<1>5. WritesKept /\ SuccessCounts
    BY <1>2 DEF WritesKept, SuccessCounts, Writing
<1> QED
    BY <1>3, <1>4, <1>5 DEF VenuesInv

LEMMA PassBeginsKeepsVenues == VenuesInv /\ Venues!PassBegins => VenuesInv'
<1> SUFFICES ASSUME VenuesInv, Venues!PassBegins PROVE VenuesInv'
    OBVIOUS
<1>1. /\ venueRun' = [queue |-> ConfiguredVenues, at |-> venueDay, rest |-> {}, wrote |-> FALSE, written |-> FALSE]
      /\ venueRun = Venues!Idle
      /\ UNCHANGED <<venueTickers, figures, venueState, venueDay>>
    BY DEF Venues!PassBegins, Venues!Idle
<1>2. ~Writing /\ ~Writing'
    BY <1>1 DEF Writing, Venues!Idle
<1>3. VenuesTyped'
    BY <1>1, VenueConstants DEF VenuesInv, VenuesTyped
<1>4. VenueRowsKept' /\ WritesKept'
    BY <1>1, <1>2 DEF VenuesInv, VenueRowsKept, WritesKept
<1>5. SuccessCounts'
    BY <1>1, <1>2 DEF VenuesInv, SuccessCounts, Ingesting
<1> QED
    BY <1>3, <1>4, <1>5 DEF VenuesInv

LEMMA HeadAndTail ==
    ASSUME NEW S, NEW q \in Seq(S), q # <<>>
    PROVE  Head(q) \in S /\ Tail(q) \in Seq(S)
OBVIOUS

\* The next venue is asked, and what is said of this one changes at most.
LEMMA NextVenueKeeps ==
    ASSUME VenuesInv, venueRun.queue # <<>>,
           NEW status \in {"success", "error", "unsupported_or_empty"},
           NEW written \in BOOLEAN,
           venueState' = [venueState EXCEPT ![Head(venueRun.queue)] = status],
           venueRun' = [venueRun EXCEPT !.queue = Tail(@), !.rest = {}, !.wrote = FALSE, !.written = written],
           UNCHANGED <<venueTickers, venueDay>>,
           figures' \in [Venue -> [listed : BOOLEAN, seeded : BOOLEAN, of : SUBSET VenueRow]],
           \A v \in Venue \ {Head(venueRun.queue)} : figures'[v] = figures[v],
           VenueRowsKept',
           status = "success" =>
               /\ \A r \in venueTickers : r.venue = Head(venueRun.queue) /\ r.kind # "seed"
                                             => r \in figures'[Head(venueRun.queue)].of
               /\ figures'[Head(venueRun.queue)].of \subseteq venueTickers
    PROVE  VenuesInv'
<1> DEFINE h == Head(venueRun.queue)
<1>1. h \in Venue /\ Tail(venueRun.queue) \in Seq(Venue)
    BY HeadAndTail DEF VenuesInv, VenuesTyped
<1>2. venueRun' \in [queue : Seq(Venue), at : Int, rest : SUBSET VenueRow, wrote : BOOLEAN, written : BOOLEAN]
      /\ venueRun'.at = venueRun.at /\ venueRun'.rest = {} /\ ~venueRun'.wrote
    BY <1>1 DEF VenuesInv, VenuesTyped
<1>3. VenuesTyped'
    BY <1>1, <1>2 DEF VenuesInv, VenuesTyped
<1>4. ~Writing'
    BY <1>2 DEF Writing
<1>5. WritesKept'
    BY <1>2, <1>4 DEF WritesKept
<1>6. SuccessCounts'
    <2> SUFFICES ASSUME NEW v \in Venue, venueState'[v] = "success"
                 PROVE  /\ \A r \in venueTickers : r.venue = v /\ r.kind # "seed" => r \in figures'[v].of
                        /\ \A r \in figures'[v].of \ venueTickers : r.fetched <= venueDay - Retention
        BY DEF SuccessCounts
    <2>1. CASE v = h
        BY <1>1, <2>1 DEF VenuesInv, VenuesTyped
    <2>2. CASE v # h
        <3>1. venueState[v] = "success" /\ ~Ingesting(v) /\ figures'[v] = figures[v]
            BY <2>2 DEF Ingesting
        <3> QED
            BY <3>1 DEF VenuesInv, SuccessCounts
    <2> QED
        BY <2>1, <2>2
<1> QED
    BY <1>3, <1>5, <1>6 DEF VenuesInv

LEMMA VenueAnsweredKeeps == VenuesInv /\ Venues!VenueAnswered => VenuesInv'
<1> SUFFICES ASSUME VenuesInv, Venues!VenueAnswered PROVE VenuesInv'
    OBVIOUS
<1> DEFINE h == Head(venueRun.queue)
<1>1. PICK told \in (SUBSET Symbols) \ {{}} :
         /\ figures' = [figures EXCEPT ![h] = Venues!Ensured(h)]
         /\ venueRun' = [venueRun EXCEPT !.rest = {Venues!Ticker(h, s, "live", venueRun.at) : s \in told}]
    BY DEF Venues!VenueAnswered
<1>2. /\ venueRun.queue # <<>> /\ venueRun.rest = {} /\ ~venueRun.wrote
      /\ UNCHANGED <<venueTickers, venueState, venueDay>>
    BY DEF Venues!VenueAnswered, Venues!Asking
<1>3. h \in Venue
    BY <1>2, HeadAndTail DEF VenuesInv, VenuesTyped
<1>4. /\ Venues!Ensured(h) \in [listed : BOOLEAN, seeded : BOOLEAN, of : SUBSET VenueRow]
      /\ Venues!Ensured(h).of \in {figures[h].of, {}}
    BY <1>3 DEF VenuesInv, VenuesTyped, Venues!Ensured, Venues!Unlisted
<1>5. \A r \in venueRun'.rest : r \in VenueRow /\ r.venue = h /\ r.kind = "live"
    BY <1>1, <1>3 DEF VenuesInv, VenuesTyped, Venues!Ticker, VenueRow
<1>6. /\ venueRun'.queue = venueRun.queue /\ venueRun'.at = venueRun.at /\ venueRun'.wrote = venueRun.wrote
      /\ venueRun' \in [queue : Seq(Venue), at : Int, rest : SUBSET VenueRow, wrote : BOOLEAN, written : BOOLEAN]
    BY <1>1, <1>5 DEF VenuesInv, VenuesTyped
<1>7. VenuesTyped'
    BY <1>1, <1>2, <1>4, <1>6 DEF VenuesInv, VenuesTyped
<1>8. \A v \in Venue : figures'[v].of = figures[v].of \/ (v = h /\ figures'[v].of = {})
    BY <1>1, <1>3, <1>4 DEF VenuesInv, VenuesTyped
<1>9. VenueRowsKept'
    BY <1>2, <1>8 DEF VenuesInv, VenueRowsKept
<1>10. WritesKept'
    BY <1>2, <1>5, <1>6 DEF WritesKept, Writing
<1>11. Ingesting(h)'
    <2>1. PICK told2 \in (SUBSET Symbols) \ {{}} : venueRun'.rest = {Venues!Ticker(h, s, "live", venueRun.at) : s \in told2}
        BY <1>1, <1>6 DEF VenuesInv, VenuesTyped
    <2>2. venueRun'.rest # {}
        BY <2>1
    <2> QED
        BY <1>2, <1>6, <2>2 DEF Ingesting, Writing
<1>12. SuccessCounts'
    <2>1. \A v \in Venue : ~Ingesting(v)' => ~Ingesting(v) /\ figures'[v].of = figures[v].of
        BY <1>2, <1>6, <1>8, <1>11 DEF Ingesting, Writing
    <2>2. venueState' = venueState /\ venueTickers' = venueTickers /\ venueDay' = venueDay
        BY <1>2
    <2> QED
        BY <2>1, <2>2 DEF VenuesInv, SuccessCounts
<1> QED
    BY <1>7, <1>9, <1>10, <1>12 DEF VenuesInv

LEMMA VenueWithoutKeeps == VenuesInv /\ Venues!VenueWithout => VenuesInv'
<1> SUFFICES ASSUME VenuesInv, Venues!VenueWithout PROVE VenuesInv'
    OBVIOUS
<1>1. PICK status \in {"unsupported_or_empty", "error"} :
          venueState' = [venueState EXCEPT ![Head(venueRun.queue)] = status]
    BY DEF Venues!VenueWithout
<1>2. /\ venueRun.queue # <<>> /\ venueRun.rest = {} /\ ~venueRun.wrote
      /\ venueRun' = [venueRun EXCEPT !.queue = Tail(@)]
      /\ UNCHANGED <<venueTickers, figures, venueDay>>
    BY DEF Venues!VenueWithout, Venues!Asking
<1>3. venueRun' = [venueRun EXCEPT !.queue = Tail(@), !.rest = {}, !.wrote = FALSE, !.written = venueRun.written]
      /\ venueRun.written \in BOOLEAN
    BY <1>2 DEF VenuesInv, VenuesTyped
<1>4. VenueRowsKept'
    BY <1>2 DEF VenuesInv, VenueRowsKept
<1>5. figures' \in [Venue -> [listed : BOOLEAN, seeded : BOOLEAN, of : SUBSET VenueRow]]
      /\ \A v \in Venue \ {Head(venueRun.queue)} : figures'[v] = figures[v]
    BY <1>2 DEF VenuesInv, VenuesTyped
<1> QED
    BY <1>1, <1>2, <1>3, <1>4, <1>5, NextVenueKeeps

LEMMA IngestionFailsKeeps == VenuesInv /\ Venues!IngestionFails => VenuesInv'
<1> SUFFICES ASSUME VenuesInv, Venues!IngestionFails PROVE VenuesInv'
    OBVIOUS
<1>1. /\ venueRun.queue # <<>>
      /\ venueState' = [venueState EXCEPT ![Head(venueRun.queue)] = "error"]
      /\ venueRun' = [venueRun EXCEPT !.queue = Tail(@), !.rest = {}, !.wrote = FALSE]
      /\ UNCHANGED <<venueTickers, figures, venueDay>>
    BY DEF Venues!IngestionFails
<1>2. venueRun' = [venueRun EXCEPT !.queue = Tail(@), !.rest = {}, !.wrote = FALSE, !.written = venueRun.written]
      /\ venueRun.written \in BOOLEAN
    BY <1>1 DEF VenuesInv, VenuesTyped
<1>3. VenueRowsKept'
    BY <1>1 DEF VenuesInv, VenueRowsKept
<1>4. figures' \in [Venue -> [listed : BOOLEAN, seeded : BOOLEAN, of : SUBSET VenueRow]]
      /\ \A v \in Venue \ {Head(venueRun.queue)} : figures'[v] = figures[v]
    BY <1>1 DEF VenuesInv, VenuesTyped
<1> QED
    BY <1>1, <1>2, <1>3, <1>4, NextVenueKeeps

LEMMA VenueSummedKeeps == VenuesInv /\ Venues!VenueSummed => VenuesInv'
<1> SUFFICES ASSUME VenuesInv, Venues!VenueSummed PROVE VenuesInv'
    OBVIOUS
<1> DEFINE h == Head(venueRun.queue)
           counted == Venues!Summed(Venues!TickersOf(h))
<1>1. /\ venueRun.rest = {} /\ venueRun.queue # <<>>
      /\ figures' = [figures EXCEPT ![h] = [listed |-> TRUE, seeded |-> FALSE, of |-> counted]]
      /\ venueState' = [venueState EXCEPT ![h] = "success"]
      /\ venueRun' = [venueRun EXCEPT !.queue = Tail(@), !.wrote = FALSE, !.written = TRUE]
      /\ UNCHANGED <<venueTickers, venueDay>>
    BY DEF Venues!VenueSummed, VenuesInv, WritesKept, Writing
<1>2. venueRun' = [venueRun EXCEPT !.queue = Tail(@), !.rest = {}, !.wrote = FALSE, !.written = TRUE]
    BY <1>1 DEF VenuesInv, VenuesTyped
<1>3. h \in Venue
    BY <1>1, HeadAndTail DEF VenuesInv, VenuesTyped
<1>4. /\ counted \subseteq {r \in venueTickers : r.venue = h}
      /\ \A r \in venueTickers : r.venue = h /\ r.kind # "seed" => r \in counted
      /\ \A r, s \in counted : r.kind # "seed" => s.kind # "seed"
    BY DEF Venues!Summed, Venues!TickersOf, Venues!SourceBacked
<1> HIDE DEF counted
<1>5. figures' \in [Venue -> [listed : BOOLEAN, seeded : BOOLEAN, of : SUBSET VenueRow]]
      /\ figures'[h].of = counted
      /\ \A v \in Venue \ {h} : figures'[v] = figures[v]
    BY <1>1, <1>3, <1>4 DEF VenuesInv, VenuesTyped
<1>6. VenueRowsKept'
    <2>1. \A v \in Venue : figures'[v].of \in {figures[v].of, counted} /\ (figures'[v].of = figures[v].of \/ v = h)
        BY <1>5
    <2> QED
        BY <1>1, <1>4, <1>5, <2>1 DEF VenuesInv, VenueRowsKept
<1> QED
    BY <1>1, <1>2, <1>4, <1>5, <1>6, NextVenueKeeps

LEMMA RowWrittenKeeps == VenuesInv /\ Venues!RowWritten => VenuesInv'
<1> SUFFICES ASSUME VenuesInv, Venues!RowWritten PROVE VenuesInv'
    OBVIOUS
<1>1. PICK r \in venueRun.rest :
         /\ venueTickers' = {s \in venueTickers : ~(r.venue = s.venue /\ r.symbol = s.symbol)} \cup {r}
         /\ venueRun' = [venueRun EXCEPT !.rest = @ \ {r}, !.wrote = TRUE]
    BY DEF Venues!RowWritten, Venues!Upserted, Venues!SameContract
<1>2. UNCHANGED <<figures, venueState, venueDay>>
    BY DEF Venues!RowWritten
<1> DEFINE h == Head(venueRun.queue)
<1>3. /\ r \in VenueRow /\ r.venue = h /\ r.kind = "live"
      /\ venueRun.queue # <<>> /\ Writing
    BY DEF VenuesInv, VenuesTyped, WritesKept, Writing
<1>4. /\ venueRun'.queue = venueRun.queue /\ venueRun'.at = venueRun.at
      /\ venueRun'.rest = venueRun.rest \ {r} /\ venueRun'.wrote
      /\ venueRun' \in [queue : Seq(Venue), at : Int, rest : SUBSET VenueRow, wrote : BOOLEAN, written : BOOLEAN]
    BY <1>1 DEF VenuesInv, VenuesTyped
<1>5. VenuesTyped'
    <2>1. venueTickers' \subseteq VenueRow
        BY <1>1, <1>3 DEF VenuesInv, VenuesTyped
    <2> QED
        BY <1>2, <1>4, <2>1 DEF VenuesInv, VenuesTyped
<1>6. VenueRowsKept'
    <2>1. \A s, t \in venueTickers' : s.venue = t.venue /\ s.symbol = t.symbol => s = t
        BY <1>1 DEF VenuesInv, VenueRowsKept
    <2> QED
        BY <1>2, <2>1 DEF VenuesInv, VenueRowsKept
<1>7. WritesKept'
    BY <1>3, <1>4 DEF VenuesInv, WritesKept, Writing
<1>8. SuccessCounts'
    <2>1. \A v \in Venue : ~Ingesting(v)' => v # h /\ ~Ingesting(v)
        BY <1>3, <1>4 DEF Ingesting, Writing
    <2>2. \A s : s \in VenueRow /\ s.venue # h => (s \in venueTickers' <=> s \in venueTickers)
        BY <1>1, <1>3
    <2> SUFFICES ASSUME NEW v \in Venue, venueState[v] = "success", ~Ingesting(v), v # h
                 PROVE  /\ \A s \in venueTickers' : s.venue = v /\ s.kind # "seed" => s \in figures[v].of
                        /\ \A s \in figures[v].of \ venueTickers' : s.fetched <= venueDay - Retention
        BY <1>2, <2>1 DEF SuccessCounts
    <2>3. \A s \in figures[v].of : s \in VenueRow /\ s.venue = v
        BY DEF VenuesInv, VenuesTyped, VenueRowsKept
    <2>4. venueTickers' \subseteq VenueRow
        BY <1>5 DEF VenuesTyped
    <2> QED
        BY <2>2, <2>3, <2>4 DEF VenuesInv, SuccessCounts
<1> QED
    BY <1>5, <1>6, <1>7, <1>8 DEF VenuesInv

\* Retention at an instant up to now.
LEMMA RetentionKeepsVenues ==
    ASSUME VenuesInv, NEW at \in Int, at <= venueDay,
           venueTickers' \in {venueTickers, Venues!Kept(venueTickers, at)},
           UNCHANGED <<figures, venueState, venueDay>>,
           venueRun' = venueRun \/ (venueRun.queue = <<>> /\ venueRun' = Venues!Idle)
    PROVE  VenuesInv'
<1>1. /\ venueTickers' \subseteq venueTickers
      /\ \A r \in venueTickers \ venueTickers' : r.fetched <= venueDay - Retention
    BY VenueConstants DEF VenuesInv, VenuesTyped, Venues!Kept, VenueRow
<1>2. /\ venueRun' \in [queue : Seq(Venue), at : Int, rest : SUBSET VenueRow, wrote : BOOLEAN, written : BOOLEAN]
      /\ venueRun'.at <= venueDay
      /\ venueRun' = venueRun \/ ~Writing'
    <2>1. CASE venueRun' = venueRun
        BY <2>1 DEF VenuesInv, VenuesTyped
    <2>2. CASE venueRun' = [queue |-> <<>>, at |-> -1, rest |-> {}, wrote |-> FALSE, written |-> FALSE]
        BY <2>2 DEF VenuesInv, VenuesTyped, Writing
    <2> QED
        BY <2>1, <2>2 DEF Venues!Idle
<1>3. \A v \in Venue : Ingesting(v)' <=> Ingesting(v)
    <2>1. CASE venueRun' = venueRun
        BY <2>1 DEF Ingesting, Writing
    <2>2. CASE venueRun.queue = <<>> /\ venueRun' = Venues!Idle
        BY <2>2 DEF Venues!Idle, Ingesting
    <2> QED
        BY <2>1, <2>2
<1>4. VenuesTyped'
    BY <1>1, <1>2 DEF VenuesInv, VenuesTyped
<1>5. VenueRowsKept'
    BY <1>1 DEF VenuesInv, VenueRowsKept
<1>6. WritesKept'
    <2>1. CASE venueRun' = venueRun
        BY <2>1 DEF VenuesInv, WritesKept, Writing
    <2>2. CASE venueRun' = Venues!Idle
        BY <2>2 DEF Venues!Idle, WritesKept, Writing
    <2> QED
        BY <2>1, <2>2
<1>7. SuccessCounts'
    BY <1>1, <1>3 DEF VenuesInv, SuccessCounts
<1> QED
    BY <1>4, <1>5, <1>6, <1>7 DEF VenuesInv

LEMMA PassEndsKeepsVenues == VenuesInv /\ Venues!PassEnds => VenuesInv'
<1> SUFFICES ASSUME VenuesInv, Venues!PassEnds PROVE VenuesInv'
    OBVIOUS
<1>1. venueRun.at \in Int /\ venueRun.at <= venueDay
    BY DEF VenuesInv, VenuesTyped
<1> QED
    BY <1>1, RetentionKeepsVenues DEF Venues!PassEnds

LEMMA OthersRetainKeepsVenues == VenuesInv /\ Venues!OthersRetain => VenuesInv'
<1> SUFFICES ASSUME VenuesInv, Venues!OthersRetain PROVE VenuesInv'
    OBVIOUS
<1>1. venueDay \in Int /\ venueDay <= venueDay
    BY DEF VenuesInv, VenuesTyped
<1> QED
    BY <1>1, RetentionKeepsVenues DEF Venues!OthersRetain

LEMMA RestartKeepsVenues == VenuesInv /\ Venues!Restart => VenuesInv'
<1> SUFFICES ASSUME VenuesInv, Venues!Restart PROVE VenuesInv'
    OBVIOUS
<1> DEFINE back == {s \in Venues!SeededRows : \A r \in venueTickers : ~(s.venue = r.venue /\ s.symbol = r.symbol)}
<1>1. /\ venueTickers' = venueTickers \cup back
      /\ venueState' = [v \in Venue |-> "none"]
      /\ venueRun' = [queue |-> <<>>, at |-> -1, rest |-> {}, wrote |-> FALSE, written |-> FALSE]
      /\ UNCHANGED <<figures, venueDay>>
    BY DEF Venues!Restart, Venues!Idle, Venues!SameContract
<1>2. \A r \in back : r \in VenueRow /\ \A s \in back : s.venue = r.venue /\ s.symbol = r.symbol => s = r
    <2> SUFFICES ASSUME NEW r \in back
                 PROVE  r \in VenueRow /\ \A s \in back : s.venue = r.venue /\ s.symbol = r.symbol => s = r
        OBVIOUS
    <2>1. PICK p \in SeededTickers : r = Venues!Ticker(p.venue, p.symbol, "seed", -1)
        BY DEF Venues!SeededRows
    <2>2. r \in VenueRow
        BY <2>1, VenueConstants DEF Venues!Ticker, VenueRow
    <2>3. ASSUME NEW s \in back, s.venue = r.venue, s.symbol = r.symbol PROVE s = r
        <3>1. PICK q \in SeededTickers : s = Venues!Ticker(q.venue, q.symbol, "seed", -1)
            BY DEF Venues!SeededRows
        <3> QED
            BY <2>1, <2>3, <3>1 DEF Venues!Ticker
    <2> QED
        BY <2>2, <2>3
<1>3. VenuesTyped'
    <2>1. venueTickers' \subseteq VenueRow
        BY <1>1, <1>2 DEF VenuesInv, VenuesTyped
    <2> QED
        BY <1>1, <2>1 DEF VenuesInv, VenuesTyped
<1>4. VenueRowsKept'
    <2>1. \A r, s \in venueTickers' : r.venue = s.venue /\ r.symbol = s.symbol => r = s
        <3> SUFFICES ASSUME NEW r \in venueTickers', NEW s \in venueTickers',
                            r.venue = s.venue, r.symbol = s.symbol
                     PROVE  r = s
            OBVIOUS
        <3> QED
            BY <1>1, <1>2 DEF VenuesInv, VenueRowsKept
    <2> QED
        BY <1>1, <2>1 DEF VenuesInv, VenueRowsKept
<1>5. WritesKept' /\ SuccessCounts'
    BY <1>1 DEF WritesKept, SuccessCounts, Writing
<1> QED
    BY <1>3, <1>4, <1>5 DEF VenuesInv

LEMMA TickKeepsVenues == VenuesInv /\ Venues!Tick => VenuesInv'
<1> SUFFICES ASSUME VenuesInv, Venues!Tick PROVE VenuesInv'
    OBVIOUS
<1>1. venueDay' = venueDay + 1 /\ UNCHANGED <<venueTickers, figures, venueState, venueRun>>
    BY DEF Venues!Tick
<1>2. VenuesTyped'
    BY <1>1 DEF VenuesInv, VenuesTyped
<1>3. VenueRowsKept' /\ WritesKept'
    BY <1>1 DEF VenuesInv, VenueRowsKept, WritesKept, Writing
<1>4. SuccessCounts'
    <2>1. \A v \in Venue : \A r \in figures[v].of : r.fetched \in Int
        BY DEF VenuesInv, VenuesTyped, VenueRow
    <2>2. \A v \in Venue : Ingesting(v)' <=> Ingesting(v)
        BY <1>1 DEF Ingesting, Writing
    <2> SUFFICES ASSUME NEW v \in Venue, venueState'[v] = "success", ~Ingesting(v)'
                 PROVE  /\ \A r \in venueTickers' : r.venue = v /\ r.kind # "seed" => r \in figures'[v].of
                        /\ \A r \in figures'[v].of \ venueTickers' : r.fetched <= venueDay' - Retention
        BY DEF SuccessCounts
    <2>3. ASSUME NEW r \in figures[v].of \ venueTickers PROVE r.fetched <= venueDay' - Retention
        <3>1. r.fetched <= venueDay - Retention
            BY <1>1, <2>2 DEF VenuesInv, SuccessCounts
        <3> QED
            BY <1>1, <2>1, <3>1, VenueConstants DEF VenuesInv, VenuesTyped
    <2> QED
        BY <1>1, <2>2, <2>3 DEF VenuesInv, SuccessCounts
<1> QED
    BY <1>2, <1>3, <1>4 DEF VenuesInv

LEMMA VenuesStep == VenuesInv /\ [Venues!Next]_venueVars => VenuesInv'
<1> SUFFICES ASSUME VenuesInv, [Venues!Next]_venueVars PROVE VenuesInv'
    OBVIOUS
<1>1. CASE UNCHANGED venueVars
    BY <1>1 DEF venueVars, VenuesInv, VenuesTyped, VenueRowsKept, WritesKept, SuccessCounts,
                Ingesting, Writing
<1>2. CASE Venues!Next
    BY <1>2, PassBeginsKeepsVenues, VenueAnsweredKeeps, VenueWithoutKeeps, RowWrittenKeeps, VenueSummedKeeps,
       IngestionFailsKeeps, PassEndsKeepsVenues, OthersRetainKeepsVenues, RestartKeepsVenues, TickKeepsVenues
    DEF Venues!Next
<1> QED
    BY <1>1, <1>2

\* The instances count as the modules do.
LEMMA VenuesCount == \A S : Venues!Cardinality(S) = Cardinality(S) /\ Venues!IsFiniteSet(S) = IsFiniteSet(S)
BY DEF Venues!Cardinality, Cardinality, Venues!IsFiniteSet, IsFiniteSet

LEMMA InterestIsBounded ==
    ASSUME NEW kept, kept \subseteq VenueRow,
           \A r, s \in kept : r.symbol = s.symbol => r = s
    PROVE  Venues!MapThenSumSet(LAMBDA r : Interest[r.symbol], kept) \in 0..(MaxSafeInteger - 1)
<1> DEFINE f == [r \in kept |-> Interest[r.symbol]]
           name == [r \in kept |-> r.symbol]
           n == Cardinality(Symbols)
<1>1. /\ IsFiniteSet(Symbols) /\ n \in Nat
      /\ \A s \in Symbols : Interest[s] \in Nat /\ Interest[s] * n < MaxSafeInteger
      /\ MaxSafeInteger \in Nat /\ 0 < MaxSafeInteger
    BY PlaneAssumption, VenuesCount, FS_CardinalityType DEF Venues!VenuesAssumption
<1>2. name \in Injection(kept, Symbols)
    <2>1. name \in [kept -> Symbols]
        BY DEF VenueRow
    <2>2. \A r, s \in kept : name[r] = name[s] => r = s
        OBVIOUS
    <2> HIDE DEF name
    <2> QED
        BY <2>1, <2>2 DEF Injection, IsInjective
<1>3. IsFiniteSet(kept) /\ Cardinality(kept) \in Nat /\ Cardinality(kept) <= n
    BY <1>1, <1>2, FS_Injection, FS_CardinalityType
<1>4. \A r \in kept : f[r] \in Nat /\ f[r] = Interest[r.symbol] /\ r.symbol \in Symbols
    BY <1>1 DEF VenueRow
<1>5. Venues!MapThenSumSet(LAMBDA r : Interest[r.symbol], kept) = SumOf(f, kept)
    <2>1. PICK g : IsSum(g, f, kept)
        BY <1>3, SumsExist
    <2>2. g = CHOOSE h : IsSum(h, f, kept)
        BY <1>3, <2>1, SumsAreUnique
    <2>3. \A h : IsSum(h, f, kept) <=> h = [s \in SUBSET kept |->
                        IF s = {} THEN 0 ELSE Interest[OneOf(s).symbol] + h[s \ {OneOf(s)}]]
        <3>1. \A h : \A s \in SUBSET kept :
                 AddsUp(h, f, s) = IF s = {} THEN 0 ELSE Interest[OneOf(s).symbol] + h[s \ {OneOf(s)}]
            BY <1>4, ChosenIsOne DEF AddsUp
        <3> QED
            BY <3>1 DEF IsSum
    <2>4. g = CHOOSE h : h = [s \in SUBSET kept |->
                        IF s = {} THEN 0 ELSE Interest[OneOf(s).symbol] + h[s \ {OneOf(s)}]]
        BY <2>2, <2>3
    <2> QED
        BY <2>2, <2>4 DEF Venues!MapThenSumSet, Venues!MapThenFoldSet, OneOf, SumOf
<1> HIDE DEF f, name, n
<1>6. CASE kept = {}
    BY <1>1, <1>5, <1>6, SumOfNone
<1>7. CASE kept # {}
    <2>1. PICK r \in kept : \A s \in kept : f[s] <= f[r]
        BY <1>3, <1>4, <1>7, LargestNumber
    <2>2. /\ SumOf(f, kept) \in Int /\ 0 * Cardinality(kept) <= SumOf(f, kept)
          /\ SumOf(f, kept) <= f[r] * Cardinality(kept)
        <3>1. \A x \in kept : f[x] \in Int /\ 0 <= f[x] /\ f[x] <= f[r]
            BY <1>4, <2>1
        <3>2. f[r] \in Int /\ 0 \in Int
            BY <1>4
        <3> QED
            BY <1>3, <3>1, <3>2, SumIsBetween
    <2>3. f[r] * Cardinality(kept) <= f[r] * n
        BY <1>1, <1>3, <1>4
    <2>4. f[r] * n < MaxSafeInteger /\ f[r] * n \in Int /\ f[r] * Cardinality(kept) \in Int
        BY <1>1, <1>3, <1>4 DEF n
    <2> QED
        BY <1>1, <1>3, <1>5, <2>2, <2>3, <2>4
<1> QED
    BY <1>6, <1>7

LEMMA VenuesAddUp == VenuesInv => Venues!FiguresAddUp
<1> SUFFICES ASSUME VenuesInv PROVE Venues!FiguresAddUp
    OBVIOUS
<1>1. ASSUME NEW v \in Venue
      PROVE  LET ingesting == venueRun.queue # <<>> /\ Head(venueRun.queue) = v
                              /\ (venueRun.wrote \/ venueRun.rest # {})
                 counted == figures[v].of
                 status == Venues!resolveConfiguredVenueStatus(v) IN
             /\ venueState[v] = "success" /\ ~ingesting
                => /\ Venues!SourceBacked(Venues!TickersOf(v)) \subseteq counted
                   /\ \A r \in counted \ venueTickers : r.fetched <= venueDay - Retention
             /\ Venues!SourceBacked(counted) \in {{}, counted}
             /\ status = "source_backed" => ~Venues!buildDerivativesMeta(Venues!TickersOf(v)).fixture
             /\ status \in {"fixture_only", "configured_pending", "missing"}
                => Venues!buildDerivativesMeta(Venues!TickersOf(v)).fixture
    <2>1. venueState[v] = "success" /\ ~Ingesting(v)
            => /\ Venues!SourceBacked(Venues!TickersOf(v)) \subseteq figures[v].of
               /\ \A r \in figures[v].of \ venueTickers : r.fetched <= venueDay - Retention
        BY DEF VenuesInv, SuccessCounts, Venues!SourceBacked, Venues!TickersOf
    <2>2. Venues!SourceBacked(figures[v].of) \in {{}, figures[v].of}
        BY DEF VenuesInv, VenueRowsKept, Venues!SourceBacked
    <2>3. LET status == Venues!resolveConfiguredVenueStatus(v) IN
          /\ status = "source_backed" => ~Venues!buildDerivativesMeta(Venues!TickersOf(v)).fixture
          /\ status \in {"fixture_only", "configured_pending", "missing"}
             => Venues!buildDerivativesMeta(Venues!TickersOf(v)).fixture
        BY DEF Venues!resolveConfiguredVenueStatus, Venues!buildDerivativesMeta
    <2> QED
        BY <2>1, <2>2, <2>3 DEF Ingesting, Writing
<1>2. \A v \in Venue : Venues!open_interest_btc(v) \in {-1} \cup 0..(MaxSafeInteger - 1)
    <2> SUFFICES ASSUME NEW v \in Venue
                 PROVE  Venues!open_interest_btc(v) \in {-1} \cup 0..(MaxSafeInteger - 1)
        OBVIOUS
    <2>1. figures[v].of \subseteq VenueRow
          /\ \A r, s \in figures[v].of : r.symbol = s.symbol => r = s
        BY DEF VenuesInv, VenuesTyped, VenueRowsKept
    <2>2. Venues!MapThenSumSet(LAMBDA r : Interest[r.symbol], figures[v].of) \in 0..(MaxSafeInteger - 1)
        BY <2>1, InterestIsBounded
    <2>3. SeededInterest \in 0..(MaxSafeInteger - 1)
        BY PlaneAssumption DEF Venues!VenuesAssumption
    <2> QED
        BY <2>2, <2>3 DEF Venues!open_interest_btc, Venues!Unknown
<1>3. ASSUME NEW order \in {"asc", "desc"}, NEW list \in Venues!sortDerivativesExchangeRows(order),
             NEW i \in DOMAIN list, NEW j \in DOMAIN list, i < j,
             Venues!open_interest_btc(list[i]) = Venues!Unknown
      PROVE  Venues!open_interest_btc(list[j]) = Venues!Unknown
    <2>1. list[i] \in Venue /\ list[j] \in Venue
        BY DEF Venues!sortDerivativesExchangeRows, Venues!Listed
    <2>2. IF order = "desc" THEN Venues!sortNumber(order, list[i]) >= Venues!sortNumber(order, list[j])
          ELSE Venues!sortNumber(order, list[i]) <= Venues!sortNumber(order, list[j])
        BY <1>3 DEF Venues!sortDerivativesExchangeRows
    <2>3. MaxSafeInteger \in Nat
        BY PlaneAssumption DEF Venues!VenuesAssumption
    <2> QED
        BY <1>2, <1>3, <2>1, <2>2, <2>3 DEF Venues!sortNumber, Venues!Unknown
<1> QED
    BY <1>1, <1>3 DEF Venues!FiguresAddUp

-----------------------------------------------------------------------------

LEMMA PlaneTakesVenueSteps == [PlaneNext]_planeVars => [Venues!Next]_venueVars
BY DEF PlaneNext, planeVars

\* The figures of a venue add up what there is of it, and lists put what is not known
\* last, for any venues, contracts and interests (services/derivatives-ingestion.ts).
THEOREM FiguresAreSums == PlaneSpec => []FiguresAddUp
<1>1. PlaneInit => VenuesInv
    BY VenuesBegin DEF PlaneInit
<1>2. VenuesInv /\ [PlaneNext]_planeVars => VenuesInv'
    BY PlaneTakesVenueSteps, VenuesStep
<1>3. VenuesInv => FiguresAddUp
    BY VenuesAddUp DEF FiguresAddUp
<1> QED
    BY <1>1, <1>2, <1>3, PTL DEF PlaneSpec

-----------------------------------------------------------------------------
(***************************************************************************)
(* Quotes.  Places among prices, and the mean.                             *)
(***************************************************************************)

LEMMA QuotesCount == \A S : Quotes!Cardinality(S) = Cardinality(S) /\ Quotes!IsFiniteSet(S) = IsFiniteSet(S)
BY DEF Quotes!Cardinality, Cardinality, Quotes!IsFiniteSet, IsFiniteSet

Cheaper(X, p) == {t \in X : t.last < p}
NotDearer(X, p) == {t \in X : t.last <= p}

LEMMA PriceSets ==
    ASSUME NEW X, IsFiniteSet(X), NEW p
    PROVE  /\ IsFiniteSet(Cheaper(X, p)) /\ Cardinality(Cheaper(X, p)) \in Nat
           /\ IsFiniteSet(NotDearer(X, p)) /\ Cardinality(NotDearer(X, p)) \in Nat
           /\ IsFiniteSet(X) /\ Cardinality(X) \in Nat
<1>1. Cheaper(X, p) \subseteq X /\ NotDearer(X, p) \subseteq X
    BY DEF Cheaper, NotDearer
<1> QED
    BY <1>1, FS_Subset, FS_CardinalityType

\* There is a price in each place.
LEMMA NthIsOne ==
    ASSUME NEW X, IsFiniteSet(X), \A t \in X : t.last \in Nat, NEW k \in 1..Cardinality(X)
    PROVE  /\ \E t \in X : Quotes!Nth(X, k) = t.last
           /\ Cardinality(Cheaper(X, Quotes!Nth(X, k))) < k
           /\ k <= Cardinality(NotDearer(X, Quotes!Nth(X, k)))
<1> DEFINE enough == {p \in {t.last : t \in X} : k <= Cardinality(NotDearer(X, p))}
<1>1. Cardinality(X) \in Nat
    BY FS_CardinalityType
<1>2. enough \subseteq Nat
    OBVIOUS
<1>3. enough # {}
    <2>1. X # {}
        BY <1>1, FS_EmptySet
    <2>2. PICK t \in X : \A u \in X : u.last <= t.last
        <3> DEFINE f == [t \in X |-> t.last]
        <3>1. \A t \in X : f[t] \in Int
            OBVIOUS
        <3>2. \E t \in X : \A u \in X : f[u] <= f[t]
            <4> HIDE DEF f
            <4> QED
                BY <2>1, <3>1, LargestNumber
        <3> QED
            BY <3>2
    <2>3. NotDearer(X, t.last) = X
        BY <2>2 DEF NotDearer
    <2> QED
        BY <1>1, <2>2, <2>3
<1>4. PICK p \in enough : \A q \in enough : p <= q
    <2> HIDE DEF enough
    <2> QED
        BY <1>2, <1>3, LeastNumber
<1>5. Cardinality(Cheaper(X, p)) < k
    <2> SUFFICES ASSUME k <= Cardinality(Cheaper(X, p)) PROVE FALSE
        BY PriceSets
    <2> DEFINE f == [t \in Cheaper(X, p) |-> t.last]
    <2>1. Cardinality(Cheaper(X, p)) # 0 /\ IsFiniteSet(Cheaper(X, p))
        BY PriceSets, <1>1
    <2>2. Cheaper(X, p) # {} /\ \A t \in Cheaper(X, p) : f[t] \in Int
        BY <2>1, FS_EmptySet DEF Cheaper
    <2>3. \E t \in Cheaper(X, p) : \A u \in Cheaper(X, p) : f[u] <= f[t]
        <3> HIDE DEF f
        <3> QED
            BY <2>1, <2>2, LargestNumber
    <2>4. PICK t \in Cheaper(X, p) : \A u \in Cheaper(X, p) : u.last <= t.last
        BY <2>3
    <2>6. NotDearer(X, t.last) = Cheaper(X, p)
        BY <1>2, <2>4 DEF Cheaper, NotDearer
    <2>7. t.last \in enough /\ t.last < p
        BY <2>4, <2>6 DEF Cheaper
    <2> QED
        BY <1>2, <1>4, <2>7
<1>6. \E q \in {t.last : t \in X} : /\ Quotes!Cardinality({t \in X : t.last < q}) < k
                                    /\ k <= Quotes!Cardinality({t \in X : t.last <= q})
    BY <1>4, <1>5, QuotesCount DEF Cheaper, NotDearer
<1>7. /\ Quotes!Nth(X, k) \in {t.last : t \in X}
      /\ Quotes!Cardinality({t \in X : t.last < Quotes!Nth(X, k)}) < k
      /\ k <= Quotes!Cardinality({t \in X : t.last <= Quotes!Nth(X, k)})
    BY <1>6 DEF Quotes!Nth
<1> QED
    BY <1>7, QuotesCount DEF Cheaper, NotDearer

LEMMA NthAscends ==
    ASSUME NEW X, IsFiniteSet(X), \A t \in X : t.last \in Nat,
           NEW j \in 1..Cardinality(X), NEW k \in 1..Cardinality(X), j <= k
    PROVE  Quotes!Nth(X, j) <= Quotes!Nth(X, k)
<1> DEFINE a == Quotes!Nth(X, j)
           b == Quotes!Nth(X, k)
<1>1. a \in Nat /\ b \in Nat /\ Cardinality(Cheaper(X, a)) < j /\ k <= Cardinality(NotDearer(X, b))
    BY NthIsOne
<1>2. Cardinality(X) \in Nat
    BY FS_CardinalityType
<1> SUFFICES ASSUME b < a PROVE FALSE
    BY <1>1
<1>3. NotDearer(X, b) \subseteq Cheaper(X, a)
    BY <1>1 DEF NotDearer, Cheaper
<1>4. Cardinality(NotDearer(X, b)) <= Cardinality(Cheaper(X, a))
    BY <1>3, PriceSets, FS_Subset
<1> QED
    BY <1>1, <1>2, <1>4, PriceSets

\* The places in the middle of n.
LEMMA MiddlePlaces ==
    ASSUME NEW n \in Nat, n # 0
    PROVE  /\ (n + 1) \div 2 \in 1..n /\ (n \div 2) + 1 \in 1..n
           /\ (n + 1) \div 2 <= (n \div 2) + 1
           /\ n < (n \div 2) + 1 + (n + 1) \div 2
OBVIOUS

\* Twice the median is a price and one that is not lower.
LEMMA MedianIsAmong ==
    ASSUME NEW X, IsFiniteSet(X), X # {}, \A t \in X : t.last \in Nat
    PROVE  \E t, u \in X : t.last <= u.last /\ Quotes!TwiceMedian(X) = t.last + u.last
<1> DEFINE n == Cardinality(X)
<1>1. n \in Nat /\ n # 0
    BY FS_CardinalityType, FS_EmptySet
<1>2. Quotes!TwiceMedian(X) = Quotes!Nth(X, (n + 1) \div 2) + Quotes!Nth(X, (n \div 2) + 1)
    BY QuotesCount DEF Quotes!TwiceMedian
<1>3. /\ (n + 1) \div 2 \in 1..n /\ (n \div 2) + 1 \in 1..n
      /\ (n + 1) \div 2 <= (n \div 2) + 1
    BY <1>1, MiddlePlaces
<1> HIDE DEF n
<1>4. Quotes!Nth(X, (n + 1) \div 2) <= Quotes!Nth(X, (n \div 2) + 1)
    BY <1>3, NthAscends DEF n
<1>5. PICK t \in X : Quotes!Nth(X, (n + 1) \div 2) = t.last
    BY <1>3, NthIsOne DEF n
<1>6. PICK u \in X : Quotes!Nth(X, (n \div 2) + 1) = u.last
    BY <1>3, NthIsOne DEF n
<1> QED
    BY <1>2, <1>4, <1>5, <1>6

\* A majority holds the middle.
LEMMA MajorityHoldsMedian ==
    ASSUME NEW X, IsFiniteSet(X), \A t \in X : t.last \in Nat, NEW lo \in Nat, NEW hi \in Nat,
           2 * Cardinality(Quotes!Within(X, lo, hi)) > Cardinality(X)
    PROVE  2 * lo <= Quotes!TwiceMedian(X) /\ Quotes!TwiceMedian(X) <= 2 * hi
<1> DEFINE n == Cardinality(X)
           W == Quotes!Within(X, lo, hi)
           m == Cardinality(W)
<1>1. W \subseteq X
    BY DEF Quotes!Within
<1>2. IsFiniteSet(W) /\ m \in Nat /\ n \in Nat /\ m <= n /\ n # 0
    BY <1>1, FS_Subset, FS_CardinalityType
<1>3. /\ (n + 1) \div 2 \in 1..n /\ (n \div 2) + 1 \in 1..n
      /\ (n + 1) \div 2 <= (n \div 2) + 1
      /\ n < (n \div 2) + 1 + (n + 1) \div 2
      /\ (n \div 2) + 1 <= m
    BY <1>2, MiddlePlaces
<1>4. ASSUME NEW k \in 1..n, k <= (n \div 2) + 1, n < (n \div 2) + 1 + k
      PROVE  Quotes!Nth(X, k) \in Nat /\ lo <= Quotes!Nth(X, k) /\ Quotes!Nth(X, k) <= hi
    <2> DEFINE p == Quotes!Nth(X, k)
    <2>1. p \in Nat /\ Cardinality(Cheaper(X, p)) < k /\ k <= Cardinality(NotDearer(X, p))
        BY NthIsOne
    <2>2. p <= hi
        <3> SUFFICES ASSUME hi < p PROVE FALSE
            BY <2>1
        <3>1. W \subseteq Cheaper(X, p)
            BY <2>1 DEF Quotes!Within, Cheaper
        <3>2. m <= Cardinality(Cheaper(X, p))
            BY <3>1, PriceSets, FS_Subset
        <3> QED
            BY <1>2, <1>3, <1>4, <2>1, <3>2, PriceSets
    <2>3. lo <= p
        <3> SUFFICES ASSUME p < lo PROVE FALSE
            BY <2>1
        <3> DEFINE low == NotDearer(X, p)
        <3>1. low \cap W = {} /\ low \cup W \subseteq X
            BY <1>1, <2>1 DEF Quotes!Within, NotDearer
        <3>2. IsFiniteSet(low) /\ Cardinality(low) \in Nat
            BY PriceSets
        <3>3. Cardinality(low \cup W) = Cardinality(low) + m
            <4> HIDE DEF low, W, m
            <4>1. /\ Cardinality(low \cap W) = 0
                  /\ Cardinality(low \cup W) = Cardinality(low) + Cardinality(W) - Cardinality(low \cap W)
                BY <1>2, <3>1, <3>2, FS_EmptySet, FS_Union
            <4> QED
                BY <1>2, <3>2, <4>1 DEF m
        <3>4. Cardinality(low \cup W) <= n
            BY <3>1, FS_Subset
        <3> QED
            BY <1>2, <1>3, <1>4, <2>1, <3>2, <3>3, <3>4
    <2> QED
        BY <2>1, <2>2, <2>3
<1>5. Quotes!TwiceMedian(X) = Quotes!Nth(X, (n + 1) \div 2) + Quotes!Nth(X, (n \div 2) + 1)
    BY QuotesCount DEF Quotes!TwiceMedian
<1> HIDE DEF n, m, W
<1>6. /\ Quotes!Nth(X, (n + 1) \div 2) \in Nat
      /\ lo <= Quotes!Nth(X, (n + 1) \div 2) /\ Quotes!Nth(X, (n + 1) \div 2) <= hi
    BY <1>3, <1>4
<1>7. /\ Quotes!Nth(X, (n \div 2) + 1) \in Nat
      /\ lo <= Quotes!Nth(X, (n \div 2) + 1) /\ Quotes!Nth(X, (n \div 2) + 1) <= hi
    <2>1. n < (n \div 2) + 1 + ((n \div 2) + 1)
        BY <1>2
    <2> QED
        BY <1>2, <1>3, <1>4, <2>1
<1> QED
    BY <1>5, <1>6, <1>7

\* The mean lies among its numbers.
LEMMA QuotientIsBetween ==
    ASSUME NEW sum \in Int, NEW n \in Nat, n # 0, NEW lo \in Int, NEW hi \in Int,
           lo * n <= sum, sum <= hi * n
    PROVE  sum \div n \in Int /\ lo <= sum \div n /\ sum \div n <= hi
<1>1. sum \div n \in Int /\ n * (sum \div n) <= sum /\ sum < n * (sum \div n) + n
    OBVIOUS
<1> DEFINE q == sum \div n
<1> HIDE DEF q
<1>2. q \in Int /\ n * q <= sum /\ sum < n * q + n
    BY <1>1 DEF q
<1>3. lo <= q
    <2> SUFFICES ASSUME q + 1 <= lo PROVE FALSE
        BY <1>2
    <2>1. n * (q + 1) <= n * lo /\ n * (q + 1) = n * q + n /\ n * lo = lo * n
        BY <1>2
    <2> QED
        BY <1>2, <2>1
<1>4. q <= hi
    <2> SUFFICES ASSUME hi + 1 <= q PROVE FALSE
        BY <1>2
    <2>1. n * (hi + 1) <= n * q /\ n * (hi + 1) = hi * n + n /\ hi * n \in Int
        BY <1>2
    <2> QED
        BY <1>2, <2>1
<1> QED
    BY <1>2, <1>3, <1>4 DEF q

LEMMA AverageIsBetween ==
    ASSUME NEW X, IsFiniteSet(X), X # {}, NEW lo \in Int, NEW hi \in Int,
           \A t \in X : t.last \in Int /\ lo <= t.last /\ t.last <= hi
    PROVE  Quotes!Average(X) \in Int /\ lo <= Quotes!Average(X) /\ Quotes!Average(X) <= hi
<1> DEFINE f == [t \in X |-> t.last]
           n == Cardinality(X)
<1>1. Quotes!MapThenSumSet(LAMBDA t : t.last, X) = SumOf(f, X)
    <2>1. PICK g : IsSum(g, f, X)
        BY SumsExist
    <2>2. g = CHOOSE h : IsSum(h, f, X)
        BY <2>1, SumsAreUnique
    <2>3. \A h : IsSum(h, f, X) <=> h = [s \in SUBSET X |->
                        IF s = {} THEN 0 ELSE OneOf(s).last + h[s \ {OneOf(s)}]]
        <3>1. \A h : \A s \in SUBSET X :
                 AddsUp(h, f, s) = IF s = {} THEN 0 ELSE OneOf(s).last + h[s \ {OneOf(s)}]
            BY ChosenIsOne DEF AddsUp
        <3> QED
            BY <3>1 DEF IsSum
    <2> DEFINE takes(h) == h = [s \in SUBSET X |->
                        IF s = {} THEN 0 ELSE OneOf(s).last + h[s \ {OneOf(s)}]]
    <2>5. \A h : IsSum(h, f, X) <=> takes(h)
        BY <2>3
    <2> HIDE DEF takes
    <2>6. g = CHOOSE h : takes(h)
        BY <2>2, <2>5
    <2>4. g = CHOOSE h : h = [s \in SUBSET X |->
                        IF s = {} THEN 0 ELSE OneOf(s).last + h[s \ {OneOf(s)}]]
        BY <2>6 DEF takes
    <2> QED
        BY <2>2, <2>4 DEF Quotes!MapThenSumSet, Quotes!MapThenFoldSet, OneOf, SumOf
<1>2. n \in Nat /\ n # 0
    BY FS_CardinalityType, FS_EmptySet
<1>3. /\ SumOf(f, X) \in Int
      /\ lo * n <= SumOf(f, X) /\ SumOf(f, X) <= hi * n
    <2>1. \A t \in X : f[t] \in Int /\ lo <= f[t] /\ f[t] <= hi
        OBVIOUS
    <2> HIDE DEF f
    <2> QED
        BY <2>1, SumIsBetween
<1>4. Quotes!Average(X) = SumOf(f, X) \div n
    BY <1>1, QuotesCount DEF Quotes!Average
<1> QED
    BY <1>2, <1>3, <1>4, QuotientIsBetween

-----------------------------------------------------------------------------
(***************************************************************************)
(* Quotes.  What passes the filter, and the rows of a refresh.             *)
(***************************************************************************)

Filtered(X) == Quotes!filterMarketQuoteSamplesForConsensus(X)

LEMMA FilterIsPart == \A X : Filtered(X) \subseteq X
BY DEF Filtered, Quotes!filterMarketQuoteSamplesForConsensus

\* What passed is near the median, where there is more than one provider.
LEMMA FilterIsNear ==
    ASSUME NEW X, IsFiniteSet(X), Cardinality({t.exchange : t \in X}) > 1
    PROVE  \A t \in Filtered(X) : /\ 8 * t.last <= 5 * Quotes!TwiceMedian(X)
                                  /\ 4 * Quotes!TwiceMedian(X) <= 10 * t.last
<1>1. ~ (Quotes!Cardinality({t.exchange : t \in X}) <= 1)
    <2> DEFINE E == {t.exchange : t \in X}
               f == [t \in X |-> t.exchange]
    <2>1. f \in Surjection(X, E)
        <3>1. f \in [X -> E] /\ \A e \in E : \E t \in X : f[t] = e
            OBVIOUS
        <3> HIDE DEF f, E
        <3> QED
            BY <3>1 DEF Surjection
    <2>2. Cardinality(E) \in Nat
        <3> HIDE DEF f, E
        <3> QED
            BY <2>1, FS_Surjection, FS_CardinalityType
    <2>3. Quotes!Cardinality(E) = Cardinality(E)
        BY QuotesCount
    <2> QED
        BY <2>2, <2>3
<1> QED
    BY <1>1 DEF Filtered, Quotes!filterMarketQuoteSamplesForConsensus, Quotes!isPriceSampleWithinConsensus

\* What passed once is not refused altogether the second time: of the two prices in
\* the middle the higher one stays, as none is more than 25/16 of another.
LEMMA SecondFilterLeavesSome ==
    ASSUME NEW X, IsFiniteSet(X), \A t \in X : t.last \in Nat, Filtered(X) # {}
    PROVE  Filtered(Filtered(X)) # {}
<1> DEFINE Y == Filtered(X)
<1>1. Y \subseteq X
    BY FilterIsPart
<1>2. IsFiniteSet(Y) /\ \A t \in Y : t.last \in Nat
    BY <1>1, FS_Subset
<1>3. PICK t \in Y, u \in Y : t.last <= u.last /\ Quotes!TwiceMedian(Y) = t.last + u.last
    BY <1>2, MedianIsAmong
<1>4. CASE Quotes!Cardinality({s.exchange : s \in Y}) <= 1
    BY <1>4 DEF Filtered, Quotes!filterMarketQuoteSamplesForConsensus
<1>5. CASE ~ (Quotes!Cardinality({s.exchange : s \in X}) <= 1) /\ ~ (Quotes!Cardinality({s.exchange : s \in Y}) <= 1)
    <2>1. PICK v \in X, w \in X : Quotes!TwiceMedian(X) = v.last + w.last
        BY <1>1, MedianIsAmong
    <2>2. \A s \in Y : 8 * s.last <= 5 * Quotes!TwiceMedian(X) /\ 4 * Quotes!TwiceMedian(X) <= 10 * s.last
        BY <1>5 DEF Filtered, Quotes!filterMarketQuoteSamplesForConsensus, Quotes!isPriceSampleWithinConsensus
    <2>3. 8 * u.last <= 5 * (t.last + u.last) /\ 4 * (t.last + u.last) <= 10 * u.last
        <3>1. t.last \in Nat /\ u.last \in Nat /\ v.last \in Nat /\ w.last \in Nat
            BY <1>2
        <3> HIDE DEF Y
        <3>2. 8 * u.last <= 5 * (v.last + w.last) /\ 4 * (v.last + w.last) <= 10 * t.last
            BY <2>1, <2>2
        <3> QED
            BY <1>3, <3>1, <3>2
    <2>4. Quotes!isPriceSampleWithinConsensus(u.last, Quotes!TwiceMedian(Y))
        BY <1>3, <2>3 DEF Quotes!isPriceSampleWithinConsensus
    <2> QED
        BY <1>5, <2>4 DEF Filtered, Quotes!filterMarketQuoteSamplesForConsensus
<1>6. CASE Quotes!Cardinality({s.exchange : s \in X}) <= 1
    <2>1. Y = X
        BY <1>6 DEF Filtered, Quotes!filterMarketQuoteSamplesForConsensus
    <2> QED
        BY <2>1
<1> QED
    BY <1>4, <1>5, <1>6

\* The samples of a refresh.
LEMMA SamplesAreFinite ==
    ASSUME NEW ts \in Offers
    PROVE  IsFiniteSet(Quotes!Samples(ts)) /\ \A t \in Quotes!Samples(ts) : t.last \in Nat
<1>1. IsFiniteSet(ts) /\ \A t \in ts : t.last \in QuotePrices \cup {0}
    BY PlaneAssumption, QuotesCount DEF Quotes!QuotesAssumption
<1>2. QuotePrices \subseteq Nat
    BY PlaneAssumption DEF Quotes!QuotesAssumption
<1>3. Quotes!Samples(ts) \subseteq ts
    BY DEF Quotes!Samples
<1>4. \A t \in ts : t.last \in Nat
    <2>1. QuotePrices \cup {0} \subseteq Nat
        BY <1>2
    <2> QED
        BY <1>1, <2>1
<1>5. \A t \in Quotes!Samples(ts) : t.last \in Nat
    BY <1>3, <1>4
<1> QED
    BY <1>1, <1>3, <1>5, FS_Subset

\* The rows of the last refresh agree.
QuoteRowsKept ==
    /\ \A r \in tickers : r.usd = snapshot.price /\ \E q \in quotes : Quotes!Pending(q) = r.ticker
    /\ backed \subseteq {r.ticker.exchange : r \in tickers}

LEMMA QuotesBegin == Quotes!Init => QuoteRowsKept
BY DEF Quotes!Init, QuoteRowsKept

LEMMA RefreshAgrees ==
    ASSUME NEW ts \in Offers, Quotes!Refresh(ts)
    PROVE  /\ QuoteRowsKept'
           /\ snapshot' # snapshot => snapshot'.sources \subseteq {q.exchange : q \in quotes'}
           /\ samples' = Quotes!Samples(ts)
           /\ snapshot' # snapshot => /\ Filtered(Filtered(samples')) # {}
                                      /\ snapshot'.price = Quotes!Average(Filtered(Filtered(samples')))
<1> DEFINE pending == Quotes!Samples(ts)
           accepted == Filtered(pending)
           agreed == Filtered(accepted)
           live == Quotes!buildLiveSnapshotValue(agreed, Quotes!mergeSourceBackedSupplyEvidence(snapshot))
<1>1. /\ samples' = pending /\ quotes' = accepted
      /\ backed' = Quotes!writeExchangeTickerIngestionDiagnostics(pending, accepted)
      /\ IF agreed = {} THEN snapshot' = snapshot /\ tickers' = {}
         ELSE snapshot' = live /\ tickers' = Quotes!upsertPendingCoinTickers(pending, accepted, live.price)
    BY DEF Quotes!Refresh, Quotes!AcceptedPlan, Quotes!buildMarketQuoteAccumulator, Filtered
<1>2. accepted # {} => agreed # {}
    BY SamplesAreFinite, SecondFilterLeavesSome
<1>3. live.price = Quotes!Average(agreed) /\ live.sources = {t.exchange : t \in agreed}
    BY DEF Quotes!buildLiveSnapshotValue
<1>4. agreed \subseteq accepted
    BY FilterIsPart
<1> HIDE DEF pending, accepted, agreed, live
<1>5. \A e \in backed' : e \in KnownExchange /\ \E t \in accepted : Quotes!Pending(t).exchange = e
    BY <1>1 DEF Quotes!writeExchangeTickerIngestionDiagnostics
<1>6. QuoteRowsKept'
    <2>1. CASE agreed = {}
        <3>1. tickers' = {} /\ backed' = {}
            BY <1>1, <1>2, <1>5, <2>1
        <3> QED
            BY <3>1 DEF QuoteRowsKept
    <2>2. CASE agreed # {}
        <3>1. tickers' = {[ticker |-> Quotes!Pending(t), usd |-> live.price]
                              : t \in {u \in accepted : Quotes!Pending(u).exchange \in KnownExchange}}
            BY <1>1, <2>2 DEF Quotes!upsertPendingCoinTickers
        <3>2. \A r \in tickers' : r.usd = snapshot'.price /\ \E q \in quotes' : Quotes!Pending(q) = r.ticker
            BY <1>1, <2>2, <3>1
        <3>3. ASSUME NEW e \in backed' PROVE \E r \in tickers' : r.ticker.exchange = e
            <4>1. PICK t \in accepted : Quotes!Pending(t).exchange = e /\ e \in KnownExchange
                BY <1>5
            <4> DEFINE r == [ticker |-> Quotes!Pending(t), usd |-> live.price]
            <4>2. r \in tickers' /\ r.ticker.exchange = e
                BY <3>1, <4>1
            <4> QED
                BY <4>2
        <3> QED
            BY <3>2, <3>3 DEF QuoteRowsKept
    <2> QED
        BY <2>1, <2>2
<1>7. snapshot' # snapshot => snapshot'.sources \subseteq {q.exchange : q \in quotes'}
    BY <1>1, <1>3, <1>4
<1>8. snapshot' # snapshot => /\ Filtered(Filtered(samples')) # {}
                              /\ snapshot'.price = Quotes!Average(Filtered(Filtered(samples')))
    BY <1>1, <1>3 DEF agreed, accepted
<1> QED
    BY <1>1, <1>6, <1>7, <1>8 DEF pending

\* A majority of the samples holds the mean of those that passed both filters.
LEMMA MeanIsHeld ==
    ASSUME NEW X, IsFiniteSet(X), \A t \in X : t.last \in Nat,
           Cardinality({t.exchange : t \in X}) > 1, Filtered(Filtered(X)) # {},
           NEW lo \in Nat, NEW hi \in Nat,
           2 * Cardinality(Quotes!Within(X, lo, hi)) > Cardinality(X)
    PROVE  /\ 4 * lo <= 5 * Quotes!Average(Filtered(Filtered(X)))
           /\ 4 * Quotes!Average(Filtered(Filtered(X))) <= 5 * hi
<1> DEFINE Z == Filtered(Filtered(X))
<1>1. Z \subseteq Filtered(X) /\ Z \subseteq X
    BY FilterIsPart
<1>2. IsFiniteSet(Z) /\ \A t \in Z : t.last \in Nat
    BY <1>1, FS_Subset
<1>3. 2 * lo <= Quotes!TwiceMedian(X) /\ Quotes!TwiceMedian(X) <= 2 * hi
    BY MajorityHoldsMedian
<1>4. Quotes!TwiceMedian(X) \in Nat
    <2>1. X # {}
        BY <1>1
    <2>2. PICK t \in X, u \in X : Quotes!TwiceMedian(X) = t.last + u.last
        BY <2>1, MedianIsAmong
    <2> QED
        BY <2>2
<1>5. \A t \in Z : 8 * t.last <= 5 * Quotes!TwiceMedian(X) /\ 4 * Quotes!TwiceMedian(X) <= 10 * t.last
    BY <1>1, FilterIsNear
<1>6. \A t \in Z : (4 * lo + 4) \div 5 <= t.last /\ t.last <= (5 * hi) \div 4
    <2> SUFFICES ASSUME NEW t \in Z PROVE (4 * lo + 4) \div 5 <= t.last /\ t.last <= (5 * hi) \div 4
        OBVIOUS
    <2>1. t.last \in Nat /\ 8 * t.last <= 5 * Quotes!TwiceMedian(X) /\ 4 * Quotes!TwiceMedian(X) <= 10 * t.last
        BY <1>2, <1>5
    <2> QED
        BY <1>3, <1>4, <2>1
<1> HIDE DEF Z
<1>7. /\ Quotes!Average(Z) \in Int
      /\ (4 * lo + 4) \div 5 <= Quotes!Average(Z) /\ Quotes!Average(Z) <= (5 * hi) \div 4
    <2>1. Z # {} /\ (4 * lo + 4) \div 5 \in Int /\ (5 * hi) \div 4 \in Int
        BY DEF Z
    <2>2. \A t \in Z : t.last \in Int
        BY <1>2
    <2> QED
        BY <1>2, <1>6, <2>1, <2>2, AverageIsBetween
<1> QED
    BY <1>7 DEF Z

LEMMA PlaneTakesQuoteSteps == [PlaneNext]_planeVars => [Quotes!Next]_quoteVars
BY DEF PlaneNext, planeVars

LEMMA QuotesStep ==
    ASSUME QuoteRowsKept, [Quotes!Next]_quoteVars
    PROVE  /\ QuoteRowsKept'
           /\ snapshot' # snapshot => /\ snapshot'.sources \subseteq {q.exchange : q \in quotes'}
                                      /\ \E ts \in Offers : samples' = Quotes!Samples(ts)
                                      /\ Filtered(Filtered(samples')) # {}
                                      /\ snapshot'.price = Quotes!Average(Filtered(Filtered(samples')))
<1>1. CASE UNCHANGED <<snapshot, samples, quotes, tickers, backed>>
    BY <1>1 DEF QuoteRowsKept
<1>2. CASE \E ts \in Offers : Quotes!Refresh(ts)
    <2>1. PICK ts \in Offers : Quotes!Refresh(ts)
        BY <1>2
    <2> QED
        BY <2>1, RefreshAgrees
<1> QED
    BY <1>1, <1>2 DEF Quotes!Next, Quotes!SupplyTold, Quotes!HistoryTold, quoteVars

\* The rows of a refresh tell of the same samples, however the two filters cut them
\* (services/market-refresh.ts, services/market-ingestion-acceptance-plan.ts).
THEOREM RowsTellTheSame == PlaneSpec => RowsAgree
<1>1. PlaneInit => QuoteRowsKept
    BY QuotesBegin DEF PlaneInit
<1>2. QuoteRowsKept /\ [PlaneNext]_planeVars => QuoteRowsKept'
    BY PlaneTakesQuoteSteps, QuotesStep
<1>3. QuoteRowsKept /\ [PlaneNext]_planeVars
      => [ /\ snapshot' # snapshot => snapshot'.sources \subseteq {q.exchange : q \in quotes'}
           /\ \A r \in tickers' : r.usd = snapshot'.price /\ \E q \in quotes' : Quotes!Pending(q) = r.ticker
           /\ backed' \subseteq {r.ticker.exchange : r \in tickers'} ]_quoteVars
    BY PlaneTakesQuoteSteps, QuotesStep DEF QuoteRowsKept
<1> QED
    BY <1>1, <1>2, <1>3, PTL DEF PlaneSpec, RowsAgree, Quotes!RowsAgree, Quotes!vars, quoteVars

\* A majority of the samples decides the price, for any samples and any band
\* (services/market-snapshots.ts).
THEOREM MajorityHolds == PlaneSpec => MajorityDecides
<1> DEFINE A == snapshot' # snapshot /\ Cardinality({t.exchange : t \in samples'}) > 1 =>
                  \A lo, hi \in QuotePrices :
                    2 * Cardinality(Quotes!Within(samples', lo, hi)) > Cardinality(samples')
                  => 4 * lo <= 5 * snapshot'.price /\ 4 * snapshot'.price <= 5 * hi
<1>1. PlaneInit => QuoteRowsKept
    BY QuotesBegin DEF PlaneInit
<1>2. QuoteRowsKept /\ [PlaneNext]_planeVars => QuoteRowsKept'
    BY PlaneTakesQuoteSteps, QuotesStep
<1>3. QuoteRowsKept /\ [PlaneNext]_planeVars => A
    <2> SUFFICES ASSUME QuoteRowsKept, [PlaneNext]_planeVars,
                        snapshot' # snapshot, Cardinality({t.exchange : t \in samples'}) > 1,
                        NEW lo \in QuotePrices, NEW hi \in QuotePrices,
                        2 * Cardinality(Quotes!Within(samples', lo, hi)) > Cardinality(samples')
                 PROVE  4 * lo <= 5 * snapshot'.price /\ 4 * snapshot'.price <= 5 * hi
        OBVIOUS
    <2>1. /\ \E ts \in Offers : samples' = Quotes!Samples(ts)
          /\ Filtered(Filtered(samples')) # {}
          /\ snapshot'.price = Quotes!Average(Filtered(Filtered(samples')))
        BY PlaneTakesQuoteSteps, QuotesStep
    <2>2. IsFiniteSet(samples') /\ \A t \in samples' : t.last \in Nat
        BY <2>1, SamplesAreFinite
    <2>3. lo \in Nat /\ hi \in Nat
        BY PlaneAssumption DEF Quotes!QuotesAssumption
    <2> QED
        BY <2>1, <2>2, <2>3, MeanIsHeld
<1>4. A => [ snapshot' # snapshot /\ Quotes!Cardinality({t.exchange : t \in samples'}) > 1 =>
          \A lo, hi \in QuotePrices :
            2 * Quotes!Cardinality(Quotes!Within(samples', lo, hi)) > Quotes!Cardinality(samples')
          => 4 * lo <= 5 * snapshot'.price /\ 4 * snapshot'.price <= 5 * hi ]_quoteVars
    BY QuotesCount
<1> HIDE DEF A
<1> QED
    BY <1>1, <1>2, <1>3, <1>4, PTL DEF PlaneSpec, MajorityDecides, Quotes!MajorityDecides, Quotes!vars, quoteVars

-----------------------------------------------------------------------------
(***************************************************************************)
(* Charts.  The rows that are live, and the plan of a backfill.            *)
(***************************************************************************)

LEMMA ChartsCount == \A S : Charts!Cardinality(S) = Cardinality(S) /\ Charts!IsFiniteSet(S) = IsFiniteSet(S)
BY DEF Charts!Cardinality, Cardinality, Charts!IsFiniteSet, IsFiniteSet

LiveOf(kept) == {r \in kept : r.kind = "live"}

LiveTyped(kept) ==
    /\ IsFiniteSet(LiveOf(kept))
    /\ \A r \in LiveOf(kept) : r.at \in Int /\ r.fetched \in Int

LEMMA LiveRowsUpserted ==
    ASSUME NEW kept, LiveTyped(kept), NEW days, IsFiniteSet(days), days \subseteq Int, NEW at \in Int
    PROVE  LET new == Charts!Upserted(kept, Charts!LiveRows(days, at)) IN
           /\ LiveTyped(new)
           /\ \A d \in days : \E r \in LiveOf(new) : r.at = d /\ r.fetched = at
           /\ \A r \in LiveOf(kept) : \E s \in LiveOf(new) : s.at = r.at /\ s.fetched \in {r.fetched, at}
<1> DEFINE batch == Charts!LiveRows(days, at)
           new == Charts!Upserted(kept, batch)
           row(t) == Charts!SourceRow(t, "live", "custom", ChartTold[t], at)
           f == [t \in days |-> row(t)]
<1>1. batch = {row(t) : t \in days}
    BY DEF Charts!LiveRows
<1>2. \A t \in days : row(t).at = t /\ row(t).fetched = at /\ row(t).kind = "live"
    BY DEF Charts!SourceRow
<1> HIDE DEF row
<1>3. f \in Surjection(days, batch)
    <2>1. f \in [days -> batch] /\ \A r \in batch : \E t \in days : f[t] = r
        BY <1>1
    <2> HIDE DEF f, batch
    <2> QED
        BY <2>1 DEF Surjection
<1>4. IsFiniteSet(batch) /\ IsFiniteSet(LiveOf(kept))
    <2> HIDE DEF f, batch
    <2> QED
        BY <1>3, FS_Surjection DEF LiveTyped
<1>5. new = {r \in kept : \A s \in batch : ~Charts!SameKey(r, s)} \cup batch
    BY DEF Charts!Upserted
<1>6. \A r \in batch : r.at \in days /\ r.fetched = at /\ r.kind = "live"
    BY <1>1, <1>2
<1>7. \A t \in days : row(t) \in batch
    BY <1>1
<1> HIDE DEF batch, new, f
<1>8. LiveOf(new) \subseteq LiveOf(kept) \cup batch
    BY <1>5 DEF LiveOf
<1>9. IsFiniteSet(LiveOf(new))
    <2>1. IsFiniteSet(LiveOf(kept) \cup batch)
        BY <1>4, FS_Union
    <2> QED
        BY <1>8, <2>1, FS_Subset
<1>10. \A r \in LiveOf(new) : r.at \in Int /\ r.fetched \in Int
    BY <1>6, <1>8 DEF LiveTyped
<1>11. \A d \in days : \E r \in LiveOf(new) : r.at = d /\ r.fetched = at
    BY <1>2, <1>5, <1>7 DEF LiveOf
<1>12. ASSUME NEW r \in LiveOf(kept)
       PROVE  \E s \in LiveOf(new) : s.at = r.at /\ s.fetched \in {r.fetched, at}
    <2>1. CASE \E s \in batch : Charts!SameKey(r, s)
        BY <1>5, <1>6, <2>1 DEF LiveOf, Charts!SameKey
    <2>2. CASE \A s \in batch : ~Charts!SameKey(r, s)
        BY <1>5, <2>2 DEF LiveOf
    <2> QED
        BY <2>1, <2>2
<1> QED
    BY <1>9, <1>10, <1>11, <1>12 DEF LiveTyped, new, batch

LEMMA LiveRowsKept ==
    ASSUME NEW kept, LiveTyped(kept), NEW at \in Int
    PROVE  /\ LiveTyped(Charts!Kept(kept, at))
           /\ \A r \in LiveOf(kept) : r.fetched > at - Retention => r \in LiveOf(Charts!Kept(kept, at))
<1>1. LiveOf(Charts!Kept(kept, at)) \subseteq LiveOf(kept)
    BY DEF LiveOf, Charts!Kept
<1> QED
    BY <1>1, FS_Subset DEF LiveOf, Charts!Kept, LiveTyped

LEMMA ReplaysLeaveLive ==
    ASSUME NEW kept, NEW b
    PROVE  LiveOf(Charts!Upserted(kept, Charts!ReplayRows(b))) = LiveOf(kept)
BY DEF LiveOf, Charts!Upserted, Charts!ReplayRows, Charts!SourceRow, Charts!SameKey

\* The newest and the oldest row.
LEMMA NewestAndOldest ==
    ASSUME NEW kept, IsFiniteSet(kept), kept # {}, \A r \in kept : r.at \in Int
    PROVE  /\ \E r \in kept : Charts!Newest(kept) = r.at
           /\ \E r \in kept : Charts!Oldest(kept) = r.at
           /\ \A r \in kept : Charts!Oldest(kept) <= r.at /\ r.at <= Charts!Newest(kept)
<1> DEFINE f == [r \in kept |-> r.at]
           g == [r \in kept |-> - r.at]
<1>1. \A r \in kept : f[r] \in Int /\ g[r] \in Int
    OBVIOUS
<1>2. PICK u \in kept : \A r \in kept : r.at <= u.at
    <2>1. \E u \in kept : \A r \in kept : f[r] <= f[u]
        <3> HIDE DEF f
        <3> QED
            BY <1>1, LargestNumber
    <2> QED
        BY <2>1
<1>3. PICK l \in kept : \A r \in kept : l.at <= r.at
    <2>1. \E l \in kept : \A r \in kept : g[r] <= g[l]
        <3> HIDE DEF g
        <3> QED
            BY <1>1, LargestNumber
    <2> QED
        BY <2>1
<1> DEFINE days == {r.at : r \in kept}
<1>4. u.at \in days /\ l.at \in days /\ \A d \in days : d \in Int /\ d <= u.at /\ l.at <= d
    BY <1>2, <1>3
<1>5. Charts!Newest(kept) = Charts!Max(days) /\ Charts!Oldest(kept) = Charts!Min(days)
    BY DEF Charts!Newest, Charts!Oldest
<1>6. \A r \in kept : r.at \in days
    OBVIOUS
<1> HIDE DEF days
<1>7. Charts!Max(days) = u.at
    BY <1>4 DEF Charts!Max
<1>8. Charts!Min(days) = l.at
    BY <1>4 DEF Charts!Min
<1> QED
    BY <1>4, <1>5, <1>6, <1>7, <1>8

LEMMA OneOfTwo ==
    ASSUME NEW a \in Int, NEW b \in Int
    PROVE  Charts!Max({a, b}) \in {a, b} /\ Charts!Min({a, b}) \in {a, b}
<1>1. \E x \in {a, b} : \A y \in {a, b} : x >= y
    <2>1. CASE a >= b
        BY <2>1
    <2>2. CASE b >= a
        BY <2>2
    <2> QED
        BY <2>1, <2>2
<1>2. \E x \in {a, b} : \A y \in {a, b} : x =< y
    <2>1. CASE a >= b
        BY <2>1
    <2>2. CASE b >= a
        BY <2>2
    <2> QED
        BY <2>1, <2>2
<1> QED
    BY <1>1, <1>2 DEF Charts!Max, Charts!Min

Tasks == [from : Int, to : Int, reason : {"missing", "stale", "production_stale", "shallow"}]

Plan(kept, at) == Charts!planHistoryBackfillTasks(kept, at)

LEMMA ChartConstants ==
    /\ Depth \in Nat \ {0} /\ First \in Nat \ {0} /\ Chunk \in Nat \ {0}
    /\ Slo \in Nat /\ ProductionSlo \in Nat /\ ProductionSlo <= Slo
    /\ Retention \in Nat \ {0} /\ ChartStart \in Nat
BY PlaneAssumption DEF Charts!HistoryAssumption

\* A plan has one task for the newest days at most, and one for older ones.
LEMMA PlanIs ==
    ASSUME NEW kept, IsFiniteSet(kept), \A r \in kept : r.at \in Int, NEW at \in Int
    PROVE  /\ \A t \in Plan(kept, at) : /\ t \in Tasks /\ t.from < t.to
                                        /\ kept # {} => \/ t.reason = "shallow" /\ t.to = Charts!Oldest(kept)
                                                        \/ t.from = Charts!Newest(kept) /\ t.from < at
           /\ \E s, t : Plan(kept, at) \in {{}, {s}, {t}, {s, t}} /\ (s = t \/ Charts!Rank(s) # Charts!Rank(t))
           /\ \A t \in Plan(kept, at) : Charts!Rank(t) \in Int
<1>1. CASE kept = {}
    <2> DEFINE m == Charts!Min({Depth, First})
               t == Charts!Task(at - m, at, "missing")
    <2>1. m \in Nat \ {0}
        <3>1. Depth \in Int /\ First \in Int
            BY ChartConstants
        <3>2. m \in {Depth, First}
            BY <3>1, OneOfTwo
        <3> QED
            BY <3>2, ChartConstants
    <2>2. Plan(kept, at) = {t}
        BY <1>1 DEF Plan, Charts!planHistoryBackfillTasks
    <2> HIDE DEF m
    <2>3. t \in Tasks /\ t.from < t.to /\ t.reason = "missing"
        BY <2>1 DEF Charts!Task, Tasks
    <2>4. Charts!Rank(t) \in Int
        BY <2>3 DEF Charts!Rank
    <2> QED
        BY <1>1, <2>2, <2>3, <2>4
<1>2. CASE kept # {}
    <2> DEFINE n == Charts!Newest(kept)
               o == Charts!Oldest(kept)
               late == IF at - n > Slo THEN "stale" ELSE "production_stale"
               fresh == Charts!Task(n, at, late)
               deep == Charts!Task(Charts!Max({at - Depth, o - Chunk}), o, "shallow")
    <2>1. n \in Int /\ o \in Int
        BY <1>2, NewestAndOldest
    <2>2. /\ Plan(kept, at) \in {{}, {fresh}, {deep}, {fresh, deep}}
          /\ fresh \in Plan(kept, at) => at - n > ProductionSlo \/ fresh = deep
          /\ deep \in Plan(kept, at) => o > at - Depth \/ fresh = deep
        <3> DEFINE A == IF at - n > Slo THEN {Charts!Task(n, at, "stale")}
                        ELSE IF at - n > ProductionSlo THEN {Charts!Task(n, at, "production_stale")} ELSE {}
                   B == IF o > at - Depth THEN {deep} ELSE {}
        <3>1. Plan(kept, at) = A \cup B
            BY <1>2 DEF Plan, Charts!planHistoryBackfillTasks
        <3>2. A = (IF at - n > ProductionSlo THEN {fresh} ELSE {})
            <4>1. CASE at - n > Slo
                BY <2>1, <4>1, ChartConstants
            <4>2. CASE ~(at - n > Slo)
                BY <4>2
            <4> QED
                BY <4>1, <4>2
        <3> HIDE DEF A, fresh, deep, n, o
        <3> QED
            BY <3>1, <3>2
    <2>3. fresh \in [from : {n}, to : {at}, reason : {"stale", "production_stale"}]
        BY DEF Charts!Task
    <2>4. /\ deep.to = o /\ deep.reason = "shallow"
          /\ deep \in [from : {at - Depth, o - Chunk}, to : {o}, reason : {"shallow"}]
        BY <2>1, ChartConstants, OneOfTwo DEF Charts!Task
    <2> HIDE DEF fresh, deep, n, o
    <2>5. fresh # deep
        BY <2>3, <2>4
    <2>6. Charts!Rank(fresh) \in {0, 1} /\ Charts!Rank(deep) = 3
        BY <2>3, <2>4 DEF Charts!Rank
    <2>7. fresh \in Plan(kept, at) => fresh \in Tasks /\ fresh.from < fresh.to /\ fresh.from = n /\ fresh.from < at
        BY <2>1, <2>2, <2>3, <2>5, ChartConstants DEF Tasks
    <2>8. deep \in Plan(kept, at) => deep \in Tasks /\ deep.from < deep.to
        BY <2>1, <2>2, <2>4, <2>5, ChartConstants DEF Tasks
    <2>9. \A t \in Plan(kept, at) : t \in {fresh, deep}
        BY <2>2
    <2> QED
        BY <1>2, <2>2, <2>4, <2>6, <2>7, <2>8, <2>9 DEF n, o
<1> QED
    BY <1>1, <1>2

LEMMA ListIsSeq ==
    ASSUME NEW S, NEW n \in Nat, NEW f \in [1..n -> S]
    PROVE  f \in Seq(S) /\ Len(f) = n
OBVIOUS

\* In order of their ranks, tasks are listed all.
TaskList(P) ==
    [i \in 1..Charts!Cardinality(P) |->
        CHOOSE t \in P : Charts!Cardinality({u \in P : Charts!Rank(u) < Charts!Rank(t)}) = i - 1]

LEMMA PlanIsListed ==
    ASSUME NEW P, IsFiniteSet(P), \A t \in P : Charts!Rank(t) \in Int,
           \A s, t \in P : Charts!Rank(s) = Charts!Rank(t) => s = t
    PROVE  TaskList(P) \in Seq(P) /\ \A t \in P : \E i \in 1..Len(TaskList(P)) : TaskList(P)[i] = t
<1> DEFINE list == TaskList(P)
           place == [t \in P |-> Charts!Rank(t)]
           before(t) == {u \in P : Charts!Rank(u) < Charts!Rank(t)}
           n == Cardinality(P)
<1>1. Placed(P, place)
    BY DEF Placed
<1>2. n \in Nat /\ Charts!Cardinality(P) = n
    BY ChartsCount, FS_CardinalityType
<1>3. \A t \in P : Ahead(P, place, t) = Charts!Cardinality(before(t))
    <2> SUFFICES ASSUME NEW t \in P PROVE Ahead(P, place, t) = Charts!Cardinality(before(t))
        OBVIOUS
    <2>1. {u \in P : place[u] < place[t]} = before(t)
        OBVIOUS
    <2> QED
        BY <2>1, ChartsCount DEF Ahead
<1> HIDE DEF place, n, before
<1>4. /\ \A t \in P : Charts!Cardinality(before(t)) \in 0..(n - 1)
      /\ \A s, t \in P : Charts!Cardinality(before(s)) = Charts!Cardinality(before(t)) => s = t
      /\ \A k \in 0..(n - 1) : \E t \in P : Charts!Cardinality(before(t)) = k
    BY <1>1, <1>3, AheadIsOnto DEF n
<1>5. /\ list = [i \in 1..n |-> CHOOSE t \in P : Charts!Cardinality(before(t)) = i - 1]
    BY <1>2 DEF before, TaskList
<1> HIDE DEF list
<1>6. \A i \in 1..n : list[i] \in P /\ Charts!Cardinality(before(list[i])) = i - 1
    <2> SUFFICES ASSUME NEW i \in 1..n PROVE list[i] \in P /\ Charts!Cardinality(before(list[i])) = i - 1
        OBVIOUS
    <2>1. i - 1 \in 0..(n - 1)
        BY <1>2
    <2>2. \E t \in P : Charts!Cardinality(before(t)) = i - 1
        BY <1>4, <2>1
    <2> QED
        BY <1>5, <2>2
<1>7. list \in Seq(P) /\ Len(list) = n
    <2>1. list \in [1..n -> P]
        BY <1>5, <1>6
    <2> QED
        BY <1>2, <2>1, ListIsSeq
<1>8. ASSUME NEW t \in P PROVE \E i \in 1..n : list[i] = t
    <2> DEFINE i == Charts!Cardinality(before(t)) + 1
    <2>1. i \in 1..n /\ i - 1 = Charts!Cardinality(before(t))
        BY <1>2, <1>4
    <2> HIDE DEF i
    <2>2. list[i] \in P /\ Charts!Cardinality(before(list[i])) = Charts!Cardinality(before(t))
        BY <1>6, <2>1
    <2>3. list[i] = t
        BY <1>4, <2>2
    <2> QED
        BY <2>1, <2>3
<1> QED
    BY <1>7, <1>8 DEF list

-----------------------------------------------------------------------------
(***************************************************************************)
(* Charts.  The inductive invariant: as long as a pass is whole and not    *)
(* older than rows are kept, every task of its plan either waits or has    *)
(* its days in live rows that are as young as the pass.                    *)
(***************************************************************************)

Passing == pass # Charts!NoPass

PassTyped ==
    /\ pass \in [at : Int, planned : SUBSET Tasks, tasks : Seq(Tasks), whole : BOOLEAN, written : Int]
    /\ Passing => pass.at \in Nat /\ pass.at <= day

PointsTyped == day \in Nat /\ points = [f \in Charts!Families |-> points[f]] /\ LiveTyped(points["chart"])

Waits(t) == \E i \in 1..Len(pass.tasks) : pass.tasks[i] = t

Covered(kept, at, t) == \A d \in (t.from)..(t.to) : \E r \in LiveOf(kept) : r.at = d /\ r.fetched >= at

PlanKept ==
    /\ \A t \in pass.planned : t.from < t.to
    /\ \A i \in 1..Len(pass.tasks) : pass.tasks[i] \in pass.planned
    /\ Passing /\ pass.whole /\ day < pass.at + Retention
       => \A t \in pass.planned : Waits(t) \/ Covered(points["chart"], pass.at, t)

ChartsInv == PassTyped /\ PointsTyped /\ PlanKept

LEMMA NoPassIs ==
    Charts!NoPass = [at |-> -1, planned |-> {}, tasks |-> <<>>, whole |-> TRUE, written |-> 0]
BY DEF Charts!NoPass, Charts!Nothing

LEMMA NothingPlanned ==
    ASSUME PointsTyped', pass' = Charts!NoPass
    PROVE  ChartsInv'
<1>1. pass' = [at |-> -1, planned |-> {}, tasks |-> <<>>, whole |-> TRUE, written |-> 0] /\ ~Passing'
    BY NoPassIs DEF Passing
<1>2. PassTyped'
    BY <1>1 DEF PassTyped
<1>3. PlanKept'
    BY <1>1 DEF PlanKept
<1> QED
    BY <1>2, <1>3 DEF ChartsInv

LEMMA ChartsBegin == Charts!Init => ChartsInv
<1> SUFFICES ASSUME Charts!Init PROVE ChartsInv
    OBVIOUS
<1>1. pass = [at |-> -1, planned |-> {}, tasks |-> <<>>, whole |-> TRUE, written |-> 0] /\ ~Passing
    BY NoPassIs DEF Charts!Init, Passing
<1>2. points["chart"] = {} /\ points = [f \in Charts!Families |-> points[f]]
    BY DEF Charts!Init, Charts!Families
<1>3. LiveTyped(points["chart"])
    BY <1>2, FS_EmptySet DEF LiveTyped, LiveOf
<1>4. PointsTyped
    BY <1>2, <1>3, ChartConstants DEF PointsTyped, Charts!Init
<1>5. PassTyped /\ PlanKept
    BY <1>1 DEF PassTyped, PlanKept
<1> QED
    BY <1>4, <1>5 DEF ChartsInv

LEMMA PassBeginsKeepsCharts == ChartsInv /\ Charts!PassBegins => ChartsInv'
<1> SUFFICES ASSUME ChartsInv, Charts!PassBegins PROVE ChartsInv'
    OBVIOUS
<1> DEFINE P == Plan(LiveOf(points["chart"]), day)
           list == TaskList(P)
<1>1. /\ pass' = [at |-> day, planned |-> P, tasks |-> list, whole |-> TRUE, written |-> 0]
      /\ UNCHANGED <<points, day>>
    BY DEF Charts!PassBegins, Charts!Observed, LiveOf, Plan, TaskList
<1>2. /\ IsFiniteSet(LiveOf(points["chart"])) /\ \A r \in LiveOf(points["chart"]) : r.at \in Int
      /\ day \in Nat
    BY DEF ChartsInv, PointsTyped, LiveTyped
<1>3. /\ \A t \in P : t \in Tasks /\ t.from < t.to /\ Charts!Rank(t) \in Int
      /\ \E s, t : P \in {{}, {s}, {t}, {s, t}} /\ (s = t \/ Charts!Rank(s) # Charts!Rank(t))
    BY <1>2, PlanIs
<1> HIDE DEF P
<1>4. IsFiniteSet(P) /\ \A s, t \in P : Charts!Rank(s) = Charts!Rank(t) => s = t
    <2>1. PICK s, t : P \in {{}, {s}, {t}, {s, t}} /\ (s = t \/ Charts!Rank(s) # Charts!Rank(t))
        BY <1>3
    <2>2. IsFiniteSet(P)
        <3>1. {s, t} = {s} \cup {t}
            OBVIOUS
        <3>2. IsFiniteSet({s}) /\ IsFiniteSet({t}) /\ IsFiniteSet({})
            BY FS_EmptySet, FS_Singleton
        <3>3. IsFiniteSet({s, t})
            BY <3>1, <3>2, FS_Union
        <3> QED
            BY <2>1, <3>2, <3>3
    <2>3. \A u, v \in P : Charts!Rank(u) = Charts!Rank(v) => u = v
        BY <2>1
    <2> QED
        BY <2>2, <2>3
<1>5. list \in Seq(P) /\ \A t \in P : \E i \in 1..Len(list) : list[i] = t
    BY <1>3, <1>4, PlanIsListed
<1> HIDE DEF list
<1>6. list \in Seq(Tasks) /\ \A i \in 1..Len(list) : list[i] \in P
    <2>1. P \subseteq Tasks
        BY <1>3
    <2> QED
        BY <1>5, <2>1
<1>7. PassTyped'
    BY <1>1, <1>2, <1>3, <1>6 DEF PassTyped
<1>8. PointsTyped'
    BY <1>1 DEF ChartsInv, PointsTyped
<1>9. PlanKept'
    BY <1>1, <1>3, <1>5, <1>6 DEF PlanKept, Waits
<1> QED
    BY <1>7, <1>8, <1>9 DEF ChartsInv

\* What others write keeps what a pass has covered.
LEMMA CoverIsKept ==
    ASSUME NEW kept, NEW new, NEW at \in Int, LiveTyped(kept), LiveTyped(new),
           \A r \in LiveOf(kept) : r.fetched >= at =>
               \E s \in LiveOf(new) : s.at = r.at /\ s.fetched >= at,
           NEW t, Covered(kept, at, t)
    PROVE  Covered(new, at, t)
BY DEF Covered

LEMMA TaskAnsweredKeepsCharts == ChartsInv /\ Charts!TaskAnswered => ChartsInv'
<1> SUFFICES ASSUME ChartsInv, Charts!TaskAnswered PROVE ChartsInv'
    OBVIOUS
<1> DEFINE task == Head(pass.tasks)
           kept == points["chart"]
           at == pass.at
<1>1. pass.tasks # <<>>
    BY DEF Charts!TaskAnswered
<1>2. PICK days \in {(task.from)..(task.to), {task.to}, {}} :
         /\ points' = [points EXCEPT !["chart"] = Charts!Upserted(@, Charts!LiveRows(days, at))]
         /\ pass' = [pass EXCEPT !.tasks = Tail(@), !.written = @ + Charts!Cardinality(days),
                                 !.whole = @ /\ days = (task.from)..(task.to)]
    BY DEF Charts!TaskAnswered
<1>3. day' = day
    BY DEF Charts!TaskAnswered
<1>4. Passing
    BY <1>1, NoPassIs DEF Passing
<1>5. /\ task \in Tasks /\ Tail(pass.tasks) \in Seq(Tasks)
      /\ at \in Nat /\ at <= day /\ pass.tasks \in Seq(Tasks)
    BY <1>1, <1>4, HeadAndTail DEF ChartsInv, PassTyped
<1>6. IsFiniteSet(days) /\ days \subseteq Int /\ Charts!Cardinality(days) \in Int
    <2>1. task.from \in Int /\ task.to \in Int
        BY <1>5 DEF Tasks
    <2>2. IsFiniteSet(days) /\ days \subseteq Int
        <3>1. CASE days = (task.from)..(task.to)
            BY <2>1, <3>1, FS_Interval
        <3>2. CASE days = {task.to}
            BY <2>1, <3>2, FS_Singleton
        <3>3. CASE days = {}
            BY <3>3, FS_EmptySet
        <3> QED
            BY <3>1, <3>2, <3>3
    <2> QED
        BY <2>2, FS_CardinalityType, ChartsCount
<1>7. /\ pass' = [at |-> at, planned |-> pass.planned, tasks |-> Tail(pass.tasks),
                  whole |-> pass.whole /\ days = (task.from)..(task.to),
                  written |-> pass.written + Charts!Cardinality(days)]
    BY <1>2 DEF ChartsInv, PassTyped
<1> DEFINE new == Charts!Upserted(kept, Charts!LiveRows(days, at))
<1>8. points' = [f \in Charts!Families |-> points'[f]] /\ points'["chart"] = new
    BY <1>2 DEF ChartsInv, PointsTyped, Charts!Families
<1>9. /\ LiveTyped(new)
      /\ \A d \in days : \E r \in LiveOf(new) : r.at = d /\ r.fetched = at
      /\ \A r \in LiveOf(kept) : \E s \in LiveOf(new) : s.at = r.at /\ s.fetched \in {r.fetched, at}
    <2>1. LiveTyped(kept) /\ at \in Int
        BY <1>5 DEF ChartsInv, PointsTyped
    <2> HIDE DEF kept, at
    <2> QED
        BY <1>6, <2>1, LiveRowsUpserted
<1> HIDE DEF new, task
<1>10. PointsTyped'
    BY <1>3, <1>8, <1>9 DEF ChartsInv, PointsTyped
<1>11. PassTyped'
    <2>1. pass.written + Charts!Cardinality(days) \in Int
        BY <1>6 DEF ChartsInv, PassTyped
    <2>2. pass.planned \in SUBSET Tasks /\ (pass.whole /\ days = (task.from)..(task.to)) \in BOOLEAN
        BY DEF ChartsInv, PassTyped
    <2> QED
        BY <1>3, <1>5, <1>7, <2>1, <2>2 DEF PassTyped
<1>12. /\ \A i \in 1..Len(Tail(pass.tasks)) : i + 1 \in 1..Len(pass.tasks) /\ Tail(pass.tasks)[i] = pass.tasks[i + 1]
       /\ \A i \in 2..Len(pass.tasks) :
             i - 1 \in 1..Len(Tail(pass.tasks)) /\ Tail(pass.tasks)[i - 1] = pass.tasks[i]
       /\ task = pass.tasks[1]
    <2> DEFINE q == pass.tasks
    <2>1. q \in Seq(Tasks) /\ q # <<>>
        BY <1>1, <1>5
    <2> HIDE DEF q
    <2>2. Len(q) \in Nat /\ Len(Tail(q)) = Len(q) - 1 /\ Head(q) = q[1]
          /\ \A i \in 1..(Len(q) - 1) : Tail(q)[i] = q[i + 1]
        BY <2>1
    <2>3. \A i \in 2..Len(q) : i - 1 \in 1..(Len(q) - 1) /\ (i - 1) + 1 = i
        BY <2>2
    <2> QED
        BY <2>2, <2>3 DEF q, task
<1>13. PlanKept'
    <2>1. /\ \A t \in pass'.planned : t.from < t.to
          /\ \A i \in 1..Len(pass'.tasks) : pass'.tasks[i] \in pass'.planned
        BY <1>7, <1>12 DEF ChartsInv, PlanKept
    <2>2. ASSUME pass'.whole, day < at + Retention, NEW t \in pass.planned
          PROVE  Waits(t)' \/ Covered(new, at, t)
        <3>1. pass.whole /\ days = (task.from)..(task.to)
            BY <1>7, <2>2
        <3>2. CASE Covered(kept, at, t)
            <4>1. \A r \in LiveOf(kept) : r.fetched >= at =>
                      \E s \in LiveOf(new) : s.at = r.at /\ s.fetched >= at
                BY <1>5, <1>9
            <4> QED
                BY <1>5, <1>9, <3>2, <4>1, CoverIsKept DEF ChartsInv, PointsTyped
        <3>3. CASE t = task
            <4>1. \A d \in (task.from)..(task.to) : \E r \in LiveOf(new) : r.at = d /\ r.fetched = at
                BY <1>9, <3>1
            <4> QED
                BY <1>5, <3>3, <4>1 DEF Covered
        <3>4. CASE Waits(t) /\ t # task
            <4>1. PICK i \in 1..Len(pass.tasks) : pass.tasks[i] = t
                BY <3>4 DEF Waits
            <4>2. i - 1 \in 1..Len(Tail(pass.tasks)) /\ Tail(pass.tasks)[i - 1] = t
                <5>1. i # 1
                    BY <1>12, <3>4, <4>1
                <5>2. i \in 2..Len(pass.tasks)
                    BY <1>5, <4>1, <5>1
                <5> QED
                    BY <1>12, <4>1, <5>2
            <4> QED
                BY <1>7, <4>2 DEF Waits
        <3> QED
            BY <1>4, <2>2, <3>1, <3>2, <3>3, <3>4 DEF ChartsInv, PlanKept
    <2> QED
        BY <1>3, <1>7, <1>8, <2>1, <2>2 DEF PlanKept
<1> QED
    BY <1>10, <1>11, <1>13 DEF ChartsInv

LEMMA PassEndsKeepsCharts == ChartsInv /\ Charts!PassEnds => ChartsInv'
<1> SUFFICES ASSUME ChartsInv, Charts!PassEnds PROVE ChartsInv'
    OBVIOUS
<1>1. /\ points' = IF pass.written = 0 THEN points ELSE [f \in Charts!Families |-> Charts!Kept(points[f], pass.at)]
      /\ pass' = Charts!NoPass /\ day' = day
    BY DEF Charts!PassEnds
<1>2. points' = [f \in Charts!Families |-> points'[f]]
      /\ points'["chart"] \in {points["chart"], Charts!Kept(points["chart"], pass.at)}
    BY <1>1 DEF ChartsInv, PointsTyped, Charts!Families
<1>3. LiveTyped(points'["chart"])
    BY <1>2, LiveRowsKept DEF ChartsInv, PointsTyped, PassTyped
<1> QED
    BY <1>1, <1>2, <1>3, NothingPlanned DEF ChartsInv, PointsTyped

LEMMA CrashKeepsCharts == ChartsInv /\ Charts!Crash => ChartsInv'
BY NothingPlanned DEF ChartsInv, PointsTyped, Charts!Crash

\* Steps of others.
LEMMA OthersKeepCharts ==
    ASSUME ChartsInv, UNCHANGED <<day, pass>>, PointsTyped',
           \A r \in LiveOf(points["chart"]) : r.fetched > day - Retention =>
               \E s \in LiveOf(points'["chart"]) : s.at = r.at /\ (s.fetched = r.fetched \/ s.fetched = day)
    PROVE  ChartsInv'
<1>1. PassTyped'
    BY DEF ChartsInv, PassTyped, Passing
<1>2. PlanKept'
    <2>1. /\ \A t \in pass'.planned : t.from < t.to
          /\ \A i \in 1..Len(pass'.tasks) : pass'.tasks[i] \in pass'.planned
        BY DEF ChartsInv, PlanKept
    <2>2. ASSUME Passing, pass.whole, day < pass.at + Retention, NEW t \in pass.planned,
                 Covered(points["chart"], pass.at, t)
          PROVE  Covered(points'["chart"], pass.at, t)
        <3>1. pass.at \in Nat /\ pass.at <= day /\ day \in Nat
            BY <2>2 DEF ChartsInv, PassTyped, PointsTyped
        <3>2. ASSUME NEW r \in LiveOf(points["chart"]), r.fetched >= pass.at
              PROVE  \E s \in LiveOf(points'["chart"]) : s.at = r.at /\ s.fetched >= pass.at
            <4>1. r.fetched \in Int
                BY DEF ChartsInv, PointsTyped, LiveTyped
            <4>2. r.fetched > day - Retention
                BY <2>2, <3>1, <3>2, <4>1, ChartConstants
            <4>3. PICK s \in LiveOf(points'["chart"]) : s.at = r.at /\ (s.fetched = r.fetched \/ s.fetched = day)
                BY <4>2
            <4>4. s.fetched >= pass.at
                BY <3>1, <3>2, <4>3
            <4> QED
                BY <4>3, <4>4
        <3> QED
            BY <2>2, <3>1, <3>2, CoverIsKept DEF ChartsInv, PointsTyped
    <2> QED
        BY <2>1, <2>2 DEF ChartsInv, PlanKept, Waits, Passing
<1> QED
    BY <1>1, <1>2 DEF ChartsInv

LEMMA ReplayedKeepsCharts == ChartsInv /\ Charts!Replayed => ChartsInv'
<1> SUFFICES ASSUME ChartsInv, Charts!Replayed PROVE ChartsInv'
    OBVIOUS
<1>1. PICK b \in ChartReplays :
          points' = [points EXCEPT ![b.family] = Charts!Upserted(@, Charts!ReplayRows(b))]
    BY DEF Charts!Replayed
<1>2. UNCHANGED <<day, pass>>
    BY DEF Charts!Replayed
<1>3. /\ points' = [f \in Charts!Families |-> points'[f]]
      /\ points'["chart"] \in {points["chart"], Charts!Upserted(points["chart"], Charts!ReplayRows(b))}
    BY <1>1 DEF ChartsInv, PointsTyped, Charts!Families
<1>4. LiveOf(points'["chart"]) = LiveOf(points["chart"])
    BY <1>3, ReplaysLeaveLive
<1>5. PointsTyped'
    BY <1>2, <1>3, <1>4 DEF ChartsInv, PointsTyped, LiveTyped
<1> QED
    BY <1>2, <1>4, <1>5, OthersKeepCharts

LEMMA TargetSyncedKeepsCharts == ChartsInv /\ Charts!TargetSynced => ChartsInv'
<1> SUFFICES ASSUME ChartsInv, Charts!TargetSynced PROVE ChartsInv'
    OBVIOUS
<1>1. PICK f \in Charts!Families, t \in {day - 1, day} :
         points' = [g \in Charts!Families |->
                      Charts!Kept(IF g = f THEN Charts!Upserted(points[f], Charts!LiveRows({t}, day)) ELSE points[g], day)]
    BY DEF Charts!TargetSynced
<1>2. UNCHANGED <<day, pass>>
    BY DEF Charts!TargetSynced
<1>3. day \in Nat /\ LiveTyped(points["chart"])
    BY DEF ChartsInv, PointsTyped
<1> DEFINE wrote == Charts!Upserted(points["chart"], Charts!LiveRows({t}, day))
           new == IF f = "chart" THEN wrote ELSE points["chart"]
<1>4. /\ LiveTyped(wrote)
      /\ \A r \in LiveOf(points["chart"]) : \E s \in LiveOf(wrote) : s.at = r.at /\ s.fetched \in {r.fetched, day}
    <2>1. t \in Int /\ day \in Int
        BY <1>3
    <2>2. IsFiniteSet({t}) /\ {t} \subseteq Int
        BY <2>1, FS_Singleton
    <2> QED
        BY <1>3, <2>1, <2>2, LiveRowsUpserted
<1>5. points' = [g \in Charts!Families |-> points'[g]] /\ points'["chart"] = Charts!Kept(new, day)
    BY <1>1 DEF Charts!Families
<1> HIDE DEF wrote
<1>6. /\ LiveTyped(new)
      /\ \A r \in LiveOf(points["chart"]) : \E s \in LiveOf(new) : s.at = r.at /\ s.fetched \in {r.fetched, day}
    BY <1>3, <1>4
<1> HIDE DEF new
<1>7. LiveTyped(points'["chart"])
    BY <1>3, <1>5, <1>6, LiveRowsKept
<1>8. ASSUME NEW r \in LiveOf(points["chart"]), r.fetched > day - Retention
      PROVE  \E s \in LiveOf(points'["chart"]) : s.at = r.at /\ (s.fetched = r.fetched \/ s.fetched = day)
    <2>1. PICK s \in LiveOf(new) : s.at = r.at /\ s.fetched \in {r.fetched, day}
        BY <1>6
    <2>2. s.fetched > day - Retention
        BY <1>3, <1>8, <2>1, ChartConstants
    <2>3. s \in LiveOf(points'["chart"])
        BY <1>3, <1>5, <1>6, <2>2, LiveRowsKept
    <2> QED
        BY <2>1, <2>3
<1>9. PointsTyped'
    BY <1>2, <1>5, <1>7 DEF ChartsInv, PointsTyped
<1> QED
    BY <1>2, <1>8, <1>9, OthersKeepCharts

LEMMA DayPassesKeepsCharts == ChartsInv /\ Charts!Tick => ChartsInv'
<1> SUFFICES ASSUME ChartsInv, Charts!Tick PROVE ChartsInv'
    OBVIOUS
<1>1. day' = day + 1 /\ UNCHANGED <<points, pass>>
    BY DEF Charts!Tick
<1>2. PointsTyped'
    BY <1>1 DEF ChartsInv, PointsTyped
<1>3. PassTyped'
    BY <1>1 DEF ChartsInv, PassTyped, PointsTyped, Passing
<1>4. Passing' /\ day' < pass'.at + Retention => Passing /\ day < pass.at + Retention
    BY <1>1, <1>3, ChartConstants DEF ChartsInv, PointsTyped, PassTyped, Passing
<1>5. PlanKept'
    BY <1>1, <1>4 DEF ChartsInv, PlanKept, Waits
<1> QED
    BY <1>2, <1>3, <1>5 DEF ChartsInv

LEMMA ChartsStep == ChartsInv /\ [Charts!Next]_chartVars => ChartsInv'
<1> SUFFICES ASSUME ChartsInv, [Charts!Next]_chartVars PROVE ChartsInv'
    OBVIOUS
<1>1. CASE UNCHANGED <<points, day, pass>>
    BY <1>1 DEF ChartsInv, PassTyped, PointsTyped, PlanKept, Waits, Passing
<1>2. CASE \/ Charts!PassBegins \/ Charts!TaskAnswered \/ Charts!PassEnds \/ Charts!Crash
           \/ Charts!Replayed \/ Charts!TargetSynced \/ Charts!Tick
    BY <1>2, PassBeginsKeepsCharts, TaskAnsweredKeepsCharts, PassEndsKeepsCharts, CrashKeepsCharts,
       ReplayedKeepsCharts, TargetSyncedKeepsCharts, DayPassesKeepsCharts
<1> QED
    BY <1>1, <1>2 DEF Charts!Next, Charts!CandleWritten, Charts!Asked, chartVars

\* What a pass leaves to do.
LEMMA WholePassConverges ==
    ASSUME ChartsInv, pass # Charts!NoPass, Charts!PassEnds, pass.whole, day < pass.at + Retention,
           NEW again \in Charts!planHistoryBackfillTasks(Charts!Observed, pass.at),
           NEW task \in pass.planned
    PROVE  /\ again.to <= task.from \/ again.from >= task.to
           /\ task.to = pass.at => again.reason = "shallow"
<1> DEFINE kept == LiveOf(points["chart"])
<1>1. /\ IsFiniteSet(kept) /\ \A r \in kept : r.at \in Int
      /\ pass.at \in Int /\ task \in Tasks /\ task.from < task.to
    BY DEF ChartsInv, PointsTyped, LiveTyped, PassTyped, PlanKept
<1>2. Covered(points["chart"], pass.at, task)
    <2>1. pass.tasks = <<>>
        BY DEF Charts!PassEnds
    <2> QED
        BY <2>1 DEF ChartsInv, PlanKept, Passing, Waits
<1>3. task.from \in Int /\ task.to \in Int
    BY <1>1 DEF Tasks
<1>4. (\E r \in kept : r.at = task.from) /\ (\E r \in kept : r.at = task.to)
    BY <1>1, <1>2, <1>3 DEF Covered
<1>5. again \in Plan(kept, pass.at)
    BY DEF Plan, LiveOf, Charts!Observed
<1> HIDE DEF kept
<1>6. /\ again \in Tasks
      /\ \/ again.reason = "shallow" /\ again.to = Charts!Oldest(kept)
         \/ again.from = Charts!Newest(kept) /\ again.from < pass.at
    BY <1>1, <1>4, <1>5, PlanIs
<1>7. Charts!Oldest(kept) <= task.from /\ task.to <= Charts!Newest(kept)
      /\ Charts!Oldest(kept) \in Int /\ Charts!Newest(kept) \in Int
    BY <1>1, <1>4, NewestAndOldest
<1> QED
    BY <1>1, <1>3, <1>6, <1>7

LEMMA PlaneTakesChartSteps == [PlaneNext]_planeVars => [Charts!Next]_chartVars
BY DEF PlaneNext, planeVars

\* A backfill that was answered need not be planned again, for any provider, depth and
\* chunk, whatever else is written meanwhile (services/history-backfill-planner.ts,
\* services/market-chart-sync.ts).
THEOREM BackfillsConverge == PlaneSpec => PlanConverges
<1>1. PlaneInit => ChartsInv
    BY ChartsBegin DEF PlaneInit
<1>2. ChartsInv /\ [PlaneNext]_planeVars => ChartsInv'
    BY PlaneTakesChartSteps, ChartsStep
<1>3. ChartsInv /\ [PlaneNext]_planeVars
      => [ /\ pass # Charts!NoPass /\ Charts!PassEnds /\ pass.whole /\ points' = points
           /\ day < pass.at + Retention
        => \A again \in Charts!planHistoryBackfillTasks(Charts!Observed, pass.at), task \in pass.planned :
             /\ again.to <= task.from \/ again.from >= task.to
             /\ task.to = pass.at => again.reason = "shallow" ]_chartVars
    BY WholePassConverges
<1> QED
    BY <1>1, <1>2, <1>3, PTL DEF PlaneSpec, PlanConverges, Charts!PlanConverges, Charts!vars, chartVars

-----------------------------------------------------------------------------
(***************************************************************************)
(* Volumes of exchanges.  The inductive invariant: nothing that is stored  *)
(* is of a day to come, or younger than the pass that may replace it.      *)
(***************************************************************************)

VolumesInv ==
    /\ volumeDay \in 0..MaxTime
    /\ IsFiniteSet(volumePoints)
    /\ \A p \in volumePoints : p.instant \in 0..volumeDay /\ p.fetched \in 0..volumeDay
    /\ \A c \in canonicalVolumes : c.instant \in 0..volumeDay
    /\ volumePass = [queue |-> volumePass.queue, at |-> volumePass.at, wrote |-> volumePass.wrote]
    /\ volumePass # Spots!Idle =>
           volumePass.at \in 0..volumeDay /\ \A p \in volumePoints : p.fetched <= volumePass.at

LEMMA VolumeConstants ==
    MaxTime \in Nat /\ Retention \in Nat \ {0} /\ Instants \subseteq Nat /\ VolumeWindows \subseteq Nat
BY PlaneAssumption DEF PlaneAssumption, Spots!ExchangesAssumption

\* Of each instant the chart shows a row no other one is younger than.
LEMMA YoungestShown ==
    ASSUME NEW P, IsFiniteSet(P), \A p \in P : p.fetched \in Int, NEW p \in P
    PROVE  \E q \in Spots!latestRowsByTimestamp(P) : q.instant = p.instant /\ q.fetched >= p.fetched
<1> DEFINE group == {q \in P : q.instant = p.instant}
           f == [q \in group |-> q.fetched]
<1>1. IsFiniteSet(group) /\ group # {} /\ \A q \in group : f[q] \in Int
    <2>1. group \subseteq P /\ p \in group
        OBVIOUS
    <2>2. \A q \in group : f[q] \in Int
        OBVIOUS
    <2> QED
        BY <2>1, <2>2, FS_Subset
<1>2. \E q \in group : \A r \in group : f[r] <= f[q]
    <2> HIDE DEF f, group
    <2> QED
        BY <1>1, LargestNumber
<1>3. PICK q \in group : \A r \in group : r.fetched <= q.fetched
    BY <1>2
<1>4. \A r \in P : r.instant = q.instant => q.fetched >= r.fetched
    BY <1>3
<1> QED
    BY <1>3, <1>4 DEF Spots!latestRowsByTimestamp

\* What is told replaces what was told before, and nothing else.
LEMMA VolumesStored ==
    ASSUME VolumesInv, volumePass # Spots!Idle, NEW told \in SUBSET {t \in Instants : t <= volumeDay}
    PROVE  LET new == Spots!Ingested(told) IN
           /\ IsFiniteSet(new)
           /\ \A p \in new : p.instant \in 0..volumeDay /\ p.fetched \in 0..volumePass.at
           /\ \A p \in volumePoints : \E q \in new :
                  q.exchange = p.exchange /\ q.instant = p.instant /\ q.fetched >= p.fetched
<1> DEFINE at == volumePass.at
           h == Head(volumePass.queue)
           row(t) == Spots!Point(h, t, at)
           batch == {row(t) : t \in told}
           new == Spots!Ingested(told)
           f == [t \in told |-> row(t)]
<1>1. \A t \in told : /\ row(t).exchange = h.exchange /\ row(t).provider = h.provider
                      /\ row(t).instant = t /\ row(t).fetched = at
    BY DEF Spots!Point
<1>2. new = batch \cup {p \in volumePoints : \A r \in batch : ~Spots!SamePoint(p, r)}
    BY DEF Spots!Ingested
<1>3. /\ at \in 0..volumeDay /\ volumeDay \in Nat /\ IsFiniteSet(volumePoints)
      /\ \A p \in volumePoints : p.instant \in 0..volumeDay /\ p.fetched \in 0..at
    BY VolumeConstants DEF VolumesInv
<1>4. told \subseteq 0..volumeDay
    BY <1>3, VolumeConstants
<1>5. IsFiniteSet(told)
    <2>1. IsFiniteSet(0..volumeDay)
        BY <1>3, FS_Interval
    <2> QED
        BY <1>4, <2>1, FS_Subset
<1>6. f \in Surjection(told, batch)
    <2>1. f \in [told -> batch] /\ \A r \in batch : \E t \in told : f[t] = r
        OBVIOUS
    <2> HIDE DEF f, batch
    <2> QED
        BY <2>1 DEF Surjection
<1>7. \A r \in batch : /\ r.exchange = h.exchange /\ r.provider = h.provider
                       /\ r.instant \in 0..volumeDay /\ r.fetched = at
    BY <1>1, <1>4
<1> HIDE DEF f, batch, new, row, at, h
<1>8. IsFiniteSet(batch)
    BY <1>5, <1>6, FS_Surjection
<1>9. IsFiniteSet(new)
    <2>1. new \subseteq batch \cup volumePoints
        BY <1>2
    <2> QED
        BY <1>3, <1>8, <2>1, FS_Union, FS_Subset
<1>10. \A p \in new : p.instant \in 0..volumeDay /\ p.fetched \in 0..at
    BY <1>2, <1>3, <1>7
<1>11. ASSUME NEW p \in volumePoints
       PROVE  \E q \in new : q.exchange = p.exchange /\ q.instant = p.instant /\ q.fetched >= p.fetched
    <2>1. CASE \A r \in batch : ~Spots!SamePoint(p, r)
        BY <1>2, <1>3, <2>1
    <2>2. CASE \E r \in batch : Spots!SamePoint(p, r)
        <3>1. PICK r \in batch : Spots!SamePoint(p, r)
            BY <2>2
        <3>2. r \in new /\ r.exchange = p.exchange /\ r.instant = p.instant /\ r.fetched = at
            BY <1>2, <1>7, <3>1 DEF Spots!SamePoint
        <3> QED
            BY <1>3, <3>2
    <2> QED
        BY <2>1, <2>2
<1> QED
    BY <1>9, <1>10, <1>11 DEF new, at

VolumesFollow(old, new) ==
    /\ IsFiniteSet(new)
    /\ \A p \in new : p.instant \in 0..volumeDay /\ p.fetched \in 0..volumeDay
    /\ \A p \in old : \/ \E q \in new : q.exchange = p.exchange /\ q.instant = p.instant
                                        /\ q.fetched >= p.fetched
                      \/ p.fetched <= volumeDay - Retention

\* What a step makes of the points, whatever step it is.
LEMMA VolumesFollowed ==
    ASSUME VolumesInv, [Spots!Next]_spotVars
    PROVE  VolumesFollow(volumePoints, volumePoints')
<1> USE DEF VolumesFollow
<1>0. volumeDay \in Nat
    BY VolumeConstants DEF VolumesInv
<1>1. CASE volumePoints' = volumePoints
    BY <1>0, <1>1 DEF VolumesInv
<1>2. CASE volumePass # Spots!Idle /\ \E told \in SUBSET {t \in Instants : t <= volumeDay} :
                volumePoints' = Spots!Ingested(told)
    <2>1. PICK told \in SUBSET {t \in Instants : t <= volumeDay} : volumePoints' = Spots!Ingested(told)
        BY <1>2
    <2>2. volumePass.at \in 0..volumeDay
        BY <1>2 DEF VolumesInv
    <2> QED
        BY <1>0, <1>2, <2>1, <2>2, VolumesStored
<1>3. CASE \E at \in 0..volumeDay : volumePoints' = Spots!Kept(at)
    <2>1. PICK at \in 0..volumeDay : volumePoints' = {p \in volumePoints : p.fetched > at - Retention}
        BY <1>3 DEF Spots!Kept
    <2>2. IsFiniteSet(volumePoints')
        <3>1. volumePoints' \subseteq volumePoints
            BY <2>1
        <3> QED
            BY <3>1, FS_Subset DEF VolumesInv
    <2> QED
        BY <1>0, <2>1, <2>2, VolumeConstants DEF VolumesInv
<1>4. CASE Spots!TargetAnswered
    <2>1. volumePass # Spots!Idle
        BY <1>4 DEF Spots!TargetAnswered, Spots!Idle
    <2> QED
        BY <1>2, <1>4, <2>1 DEF Spots!TargetAnswered
<1>5. CASE Spots!PassFails
    BY <1>1, <1>2, <1>5 DEF Spots!PassFails
<1>6. CASE Spots!PassEnds
    <2>1. volumePass.at \in 0..volumeDay
        BY <1>6 DEF VolumesInv, Spots!PassEnds
    <2> QED
        BY <1>1, <1>3, <1>6, <2>1 DEF Spots!PassEnds
<1>7. CASE Spots!OthersRetain
    BY <1>0, <1>3, <1>7 DEF Spots!OthersRetain
<1> QED
    BY <1>1, <1>4, <1>5, <1>6, <1>7
    DEF Spots!Next, Spots!PassBegins, Spots!ExchangeSynced, Spots!Refreshed, Spots!Tick, spotVars

LEMMA VolumesBegin == Spots!Init => VolumesInv
BY VolumeConstants, FS_EmptySet DEF VolumesInv, Spots!Init, Spots!Idle

LEMMA VolumesStep == VolumesInv /\ [Spots!Next]_spotVars => VolumesInv'
<1> SUFFICES ASSUME VolumesInv, [Spots!Next]_spotVars PROVE VolumesInv'
    OBVIOUS
<1>0. volumeDay \in Nat /\ MaxTime \in Nat
    BY VolumeConstants DEF VolumesInv
<1>1. VolumesFollow(volumePoints, volumePoints')
    BY VolumesFollowed
<1>2. IsFiniteSet(volumePoints')
      /\ \A p \in volumePoints' : p.instant \in 0..volumeDay /\ p.fetched \in 0..volumeDay
    BY <1>1 DEF VolumesFollow
<1>3. CASE Spots!PassBegins
    <2>1. volumePass' = [queue |-> Targets, at |-> volumeDay, wrote |-> FALSE]
        BY <1>3 DEF Spots!PassBegins, Spots!Idle
    <2>2. volumePass'.at \in 0..volumeDay /\ \A p \in volumePoints' : p.fetched <= volumePass'.at
        BY <1>0, <1>2, <2>1
    <2> QED
        BY <1>2, <1>3, <2>1, <2>2 DEF VolumesInv, Spots!PassBegins
<1>4. CASE Spots!TargetAnswered
    <2>1. volumePass # Spots!Idle
        BY <1>4 DEF Spots!TargetAnswered, Spots!Idle
    <2>2. volumePass.at \in 0..volumeDay
        BY <2>1 DEF VolumesInv
    <2>3. \A p \in volumePoints' : p.fetched \in 0..volumePass.at
        <3>1. PICK told \in SUBSET {t \in Instants : t <= volumeDay} : volumePoints' = Spots!Ingested(told)
            BY <1>4 DEF Spots!TargetAnswered
        <3> QED
            BY <2>1, <3>1, VolumesStored
    <2>4. \E wrote \in BOOLEAN : volumePass' = [volumePass EXCEPT !.queue = Tail(@), !.wrote = @ \/ wrote]
        BY <1>4 DEF Spots!TargetAnswered
    <2>5. volumePass' = [queue |-> volumePass'.queue, at |-> volumePass.at, wrote |-> volumePass'.wrote]
        BY <2>4 DEF VolumesInv
    <2>6. \A p \in volumePoints' : p.fetched <= volumePass'.at
        BY <1>0, <2>2, <2>3, <2>5
    <2> QED
        BY <1>2, <1>4, <2>2, <2>5, <2>6 DEF VolumesInv, Spots!TargetAnswered
<1>5. CASE Spots!PassFails \/ Spots!PassEnds
    <2>1. volumePass' = Spots!Idle /\ UNCHANGED <<canonicalVolumes, volumeDay>>
        BY <1>5 DEF Spots!PassFails, Spots!PassEnds
    <2> QED
        BY <1>2, <2>1 DEF VolumesInv, Spots!Idle
<1>6. CASE Spots!OthersRetain
    <2>1. volumePoints' \subseteq volumePoints
        BY <1>6 DEF Spots!OthersRetain, Spots!Kept
    <2> QED
        BY <1>2, <1>6, <2>1 DEF VolumesInv, Spots!OthersRetain
<1>7. CASE Spots!Refreshed
    <2>1. \A c \in canonicalVolumes' : c.instant \in 0..volumeDay
        <3>1. PICK told : canonicalVolumes' = canonicalVolumes \cup
                                {[exchange |-> t.exchange, instant |-> volumeDay] : t \in told}
            BY <1>7 DEF Spots!Refreshed
        <3> QED
            BY <1>0, <3>1 DEF VolumesInv
    <2> QED
        BY <1>7, <2>1 DEF VolumesInv, Spots!Refreshed
<1>8. CASE Spots!Tick
    <2>1. volumeDay' \in 0..MaxTime /\ volumeDay' = volumeDay + 1
        BY <1>0, <1>8 DEF Spots!Tick
    <2>2. \A k \in 0..volumeDay : k \in 0..volumeDay'
        BY <1>0, <2>1
    <2> QED
        BY <1>8, <2>1, <2>2 DEF VolumesInv, Spots!Tick
<1>9. CASE Spots!ExchangeSynced \/ UNCHANGED spotVars
    BY <1>9 DEF VolumesInv, Spots!ExchangeSynced, spotVars
<1> QED
    BY <1>3, <1>4, <1>5, <1>6, <1>7, <1>8, <1>9 DEF Spots!Next

\* What was shown, or has just been told, is shown, or something younger.
LEMMA ChartNotOlder ==
    ASSUME VolumesInv, [Spots!Next]_spotVars, NEW e,
           NEW p \in Spots!SourceChart(e, 0, MaxTime) \cup {q \in volumePoints' \ volumePoints : q.exchange = e}
    PROVE  \/ \E q \in Spots!SourceChart(e, 0, MaxTime)' : q.instant = p.instant /\ q.fetched >= p.fetched
           \/ p.fetched <= volumeDay - Retention
<1> DEFINE P == {q \in volumePoints' : q.exchange = e /\ q.instant \in 0..MaxTime}
<1>1. VolumesFollow(volumePoints, volumePoints') /\ volumeDay \in Nat /\ MaxTime \in Nat /\ volumeDay <= MaxTime
    BY VolumesFollowed, VolumeConstants DEF VolumesInv
<1>2. IsFiniteSet(P) /\ \A q \in P : q.fetched \in Int
    <2>1. P \subseteq volumePoints' /\ \A q \in P : q.fetched \in Int
        BY <1>1 DEF VolumesFollow
    <2> QED
        BY <1>1, <2>1, FS_Subset DEF VolumesFollow
<1>3. Spots!SourceChart(e, 0, MaxTime)' = Spots!latestRowsByTimestamp(P)
    BY DEF Spots!SourceChart, Spots!latestRowsByTimestamp
<1>4. ASSUME NEW r \in volumePoints', r.exchange = e, r.instant = p.instant, r.fetched >= p.fetched, p.fetched \in Int
      PROVE  \E q \in Spots!latestRowsByTimestamp(P) : q.instant = p.instant /\ q.fetched >= p.fetched
    <2>1. r \in P /\ r.fetched \in Int
        BY <1>1, <1>4 DEF VolumesFollow
    <2>2. PICK q \in Spots!latestRowsByTimestamp(P) : q.instant = r.instant /\ q.fetched >= r.fetched
        BY <1>2, <2>1, YoungestShown
    <2>3. q.fetched \in Int
        BY <1>2, <2>2 DEF Spots!latestRowsByTimestamp
    <2>4. q.instant = p.instant /\ q.fetched >= p.fetched
        BY <1>4, <2>1, <2>2, <2>3
    <2> QED
        BY <2>2, <2>4
<1>5. CASE p \in volumePoints' /\ p.exchange = e
    BY <1>1, <1>3, <1>4, <1>5 DEF VolumesFollow
<1>6. CASE p \in Spots!SourceChart(e, 0, MaxTime)
    <2>1. p \in volumePoints /\ p.exchange = e /\ p.fetched \in Int
        BY <1>6 DEF Spots!SourceChart, Spots!latestRowsByTimestamp, VolumesInv
    <2> QED
        BY <1>1, <1>3, <1>4, <2>1 DEF VolumesFollow
<1> QED
    BY <1>5, <1>6

\* No row is of a day to come, so that charts end where they are asked from.
LEMMA ChartIsOfRange ==
    ASSUME VolumesInv, NEW e, NEW from \in {Spots!Max({volumeDay - days, 0}) : days \in VolumeWindows}
    PROVE  Spots!volume_chart(e, from, MaxTime) = Spots!volume_chart(e, from, volumeDay)
<1>1. PICK days \in VolumeWindows : from = Spots!Max({volumeDay - days, 0})
    OBVIOUS
<1>2. volumeDay \in Nat /\ MaxTime \in Nat /\ volumeDay <= MaxTime /\ days \in Nat
    BY VolumeConstants DEF VolumesInv
<1>3. from \in Int
    <2> DEFINE S == {volumeDay - days, 0}
    <2>1. S \subseteq Int /\ \E x \in S : \A y \in S : x >= y
        BY <1>2
    <2>2. Spots!Max(S) \in S
        <3> HIDE DEF S
        <3> QED
            BY <2>1 DEF Spots!Max
    <2> QED
        BY <1>1, <2>1, <2>2
<1>4. {p \in volumePoints : p.exchange = e /\ p.instant \in from..MaxTime}
      = {p \in volumePoints : p.exchange = e /\ p.instant \in from..volumeDay}
    BY <1>2, <1>3 DEF VolumesInv
<1>5. {c \in canonicalVolumes : c.exchange = e /\ c.instant \in from..MaxTime}
      = {c \in canonicalVolumes : c.exchange = e /\ c.instant \in from..volumeDay}
    BY <1>2, <1>3 DEF VolumesInv
<1> QED
    BY <1>4, <1>5 DEF Spots!volume_chart, Spots!SourceChart, Spots!CanonicalChart

RangesKept ==
    \A e : \A from \in {Spots!Max({volumeDay - days, 0}) : days \in VolumeWindows} :
        Spots!volume_chart(e, from, MaxTime) = Spots!volume_chart(e, from, volumeDay)

LEMMA EveryChartIsOfRange == VolumesInv => RangesKept
BY ChartIsOfRange DEF RangesKept

LEMMA PlaneTakesSpotSteps == [PlaneNext]_planeVars => [Spots!Next]_spotVars
BY DEF PlaneNext, planeVars

\* Charts of volumes never go back, however the passes of providers, retention and the
\* refresh of markets follow each other, for any providers, instants and retention
\* (services/exchange-volume-ingestion.ts).
THEOREM ChartsAdvance == PlaneSpec => VolumesAdvance
<1> DEFINE Step ==
        volumePoints' # volumePoints =>
        \A e \in spot :
          LET shown == Spots!SourceChart(e, 0, MaxTime)' IN
          /\ \A p \in Spots!SourceChart(e, 0, MaxTime) \cup {q \in volumePoints' \ volumePoints : q.exchange = e} :
               \/ \E q \in shown : q.instant = p.instant /\ q.fetched >= p.fetched
               \/ p.fetched <= volumeDay - Retention
          /\ \A from \in {Spots!Max({volumeDay' - days, 0}) : days \in VolumeWindows} :
               Spots!volume_chart(e, from, MaxTime)' = Spots!volume_chart(e, from, volumeDay)'
<1>1. PlaneInit => VolumesInv
    BY VolumesBegin DEF PlaneInit
<1>2. VolumesInv /\ [PlaneNext]_planeVars => VolumesInv'
    BY PlaneTakesSpotSteps, VolumesStep
<1>3. VolumesInv /\ [PlaneNext]_planeVars => [Step]_spotVars
    <2> SUFFICES ASSUME VolumesInv, [PlaneNext]_planeVars, volumePoints' # volumePoints, NEW e \in spot
                 PROVE  /\ \A p \in Spots!SourceChart(e, 0, MaxTime)
                                    \cup {q \in volumePoints' \ volumePoints : q.exchange = e} :
                             \/ \E q \in Spots!SourceChart(e, 0, MaxTime)' :
                                    q.instant = p.instant /\ q.fetched >= p.fetched
                             \/ p.fetched <= volumeDay - Retention
                        /\ \A from \in {Spots!Max({volumeDay' - days, 0}) : days \in VolumeWindows} :
                             Spots!volume_chart(e, from, MaxTime)' = Spots!volume_chart(e, from, volumeDay)'
        OBVIOUS
    <2>1. [Spots!Next]_spotVars
        BY PlaneTakesSpotSteps
    <2>2. VolumesInv'
        BY <1>2
    <2>3. RangesKept'
        BY <2>2, EveryChartIsOfRange, PTL
    <2>4. \A from \in {Spots!Max({volumeDay' - days, 0}) : days \in VolumeWindows} :
              Spots!volume_chart(e, from, MaxTime)' = Spots!volume_chart(e, from, volumeDay)'
        BY <2>3 DEF RangesKept
    <2> QED
        BY <2>1, <2>4, ChartNotOlder
<1> QED
    BY <1>1, <1>2, <1>3, PTL DEF PlaneSpec, VolumesAdvance, Spots!VolumesAdvance, Spots!vars, spotVars

-----------------------------------------------------------------------------
(***************************************************************************)
(* Answers of markets and boots: what holds of them alone holds beside the *)
(* other topics.                                                           *)
(***************************************************************************)

\* Pages have each coin once and routes asked at once agree, for any coins, rows and
\* requests (modules/coins/market-data.ts, modules/simple.ts, modules/coins/detail.ts).
THEOREM RoutesStayInStep == PlaneSpec => []RoutesAgree
<1>1. PlaneInit => AnswersInv
    BY InitAnswers DEF PlaneInit
<1>2. AnswersInv /\ [PlaneNext]_planeVars => AnswersInv'
    <2>1. [PlaneNext]_planeVars => [AnswersNext]_answersVars
        BY DEF PlaneNext, planeVars
    <2> QED
        BY <2>1, NextAnswers
<1>3. AnswersInv => RoutesAgree
    BY RoutesFollow DEF RoutesAgree
<1> QED
    BY <1>1, <1>2, <1>3, PTL DEF PlaneSpec
================================================================================
