------------------------------ MODULE Bootstrap ------------------------------
(***************************************************************************)
(* How a process comes up without background jobs, and what it does on the *)
(* way to the two SQLite files of the data directory: the default database *)
(* of the main server and the validation fallback.  A boot looks at the    *)
(* files before it opens its own database, rebuilds the ones that do not   *)
(* hold a whole corpus from a fixture, and imports their snapshots instead *)
(* of fetching any.  Boots follow one another and may crash between any    *)
(* two statements; the main server, once up, writes beside them.           *)
(***************************************************************************)
EXTENDS Naturals, Sequences

CONSTANTS Default, Validation,  \* ./data/opengecko.db, ./data/opengecko-validation.db
          Memory,               \* the url :memory:
          Canonical, Other      \* bitcoin, ethereum, solana; any other coin

ASSUME BootstrapAssumption ==
    /\ Default # Validation /\ Memory \notin {Default, Validation}
    /\ "nowhere" \notin {Default, Validation}
    /\ Canonical # {} /\ Canonical \cap Other = {}

VARIABLES
    disk,    \* what each file holds
    boot,    \* the boot under way or finished, and the runtime state it left
    main     \* the main server: "down", "attached" to the file at its path, or
             \* "orphaned", working on a file that was removed under it

vars == <<disk, boot, main>>

File == {Default, Validation}
Coins == Canonical \cup Other
Nowhere == "nowhere"

\* A file: absent, not a database, without tables, or with them; the coins that
\* have a live usd snapshot, whether more than 100 of them have snapshots and
\* binance tickers, and the canonical coins that have usd chart points.
Content == [kind : {"absent", "corrupt", "blank", "tables"}, live : SUBSET Coins,
            rich : BOOLEAN, charts : SUBSET Canonical]
NoRows(k) == [kind |-> k, live |-> {}, rich |-> FALSE, charts |-> {}]
Absent == NoRows("absent")

\* createDatabase creates the file it does not find.
Opened(c) == IF c.kind = "absent" THEN NoRows("blank") ELSE c
\* migrateDatabase, and seedStaticReferenceData, which adds what is not there.
Migrated(c) == IF c.kind = "blank" THEN [c EXCEPT !.kind = "tables"] ELSE c
ReferenceSeeded(c) == [Migrated(c) EXCEPT !.charts = Canonical]

hasUsableLiveSnapshots(c) == c.live # {}
hasCanonicalPersistentSnapshotCorpus(c) == c.rich
Whole(c) == hasUsableLiveSnapshots(c) /\ hasCanonicalPersistentSnapshotCorpus(c)
\* Looking is not free of effects: it creates an absent file, removes a corrupt one.
Looked(c) == IF c.kind = "corrupt" THEN Absent ELSE Opened(c)

Idle == [stage |-> "down", todo |-> <<>>, step |-> "check", url |-> Memory,
         jobs |-> FALSE, gate |-> FALSE, rebuild |-> FALSE, validation |-> FALSE,
         access |-> "disabled", held |-> FALSE, from |-> Nowhere, rows |-> {},
         preserved |-> FALSE, completed |-> FALSE, zeroLive |-> FALSE, stale |-> FALSE,
         mode |-> "off"]

Boot == [stage : {"down", "access", "open", "resolve", "seed", "sync", "finish", "up"},
         todo : Seq(File), step : {"check", "build", "snapshots", "tickers"},
         url : File \cup {Memory}, jobs : BOOLEAN, gate : BOOLEAN, rebuild : BOOLEAN,
         validation : BOOLEAN, access : {"disabled", "seeded_bootstrap"}, held : BOOLEAN,
         from : File \cup {Nowhere}, rows : SUBSET Coins, preserved : BOOLEAN,
         completed : BOOLEAN, zeroLive : BOOLEAN, stale : BOOLEAN,
         mode : {"off", "stale_allowed", "seeded_bootstrap"}]

Init ==
    /\ disk \in [File -> {Absent, NoRows("corrupt"), NoRows("tables")}
                         \cup [kind : {"tables"}, live : {Coins, Other}, rich : BOOLEAN,
                               charts : {Canonical}]]
    /\ boot = Idle
    /\ main = "down"

-----------------------------------------------------------------------------
(* The fixture corpus: one file of boot.todo at a time. *)

\* The files a boot makes whole before it looks for snapshots to import.
CorporaOfBoth(url) == <<Validation, Default>>     \* mutant: whatever the url
Corpora(url) == IF url = Memory THEN <<Validation, Default>> ELSE <<Validation>>

Building(s) == boot.todo # <<>> /\ boot.step = s
Target == Head(boot.todo)
Orphans(f) == main' = IF f = Default /\ main = "attached" THEN "orphaned" ELSE main
Fails == boot' = [Idle EXCEPT !.url = boot.url, !.rebuild = boot.rebuild]

\* Mutant: any live snapshot counts as a corpus.
CheckCorpusUsableOnly ==
    /\ Building("check")
    /\ disk' = [disk EXCEPT ![Target] = Looked(@)]
    /\ boot' = IF hasUsableLiveSnapshots(disk[Target]) THEN [boot EXCEPT !.todo = Tail(@)]
               ELSE [boot EXCEPT !.step = "build"]
    /\ UNCHANGED main

\* ensureCanonicalPersistentSnapshotDatabase leaves a whole file alone.
CheckCorpus ==
    /\ Building("check")
    /\ disk' = [disk EXCEPT ![Target] = Looked(@)]
    /\ boot' = IF Whole(disk[Target]) THEN [boot EXCEPT !.todo = Tail(@)]
               ELSE [boot EXCEPT !.step = "build"]
    /\ UNCHANGED main

\* Any other it removes, with whatever it held, and makes anew.  Who has it open,
\* this boot included, goes on with a file that has no name.
BuildCorpus ==
    /\ Building("build")
    /\ disk' = [disk EXCEPT ![Target] = ReferenceSeeded(Opened(Absent))]
    /\ boot' = [boot EXCEPT !.step = "snapshots", !.held = @ /\ boot.url # Target]
    /\ Orphans(Target)

\* The removal is best effort: the fixture is then added to what is there.
BuildOverOld ==
    /\ Building("build")
    /\ disk' = [disk EXCEPT ![Target] = ReferenceSeeded(Opened(@))]
    /\ boot' = [boot EXCEPT !.step = "snapshots"]
    /\ UNCHANGED main

AddSnapshots ==
    /\ Building("snapshots")
    /\ disk' = [disk EXCEPT ![Target].live = Coins]
    /\ boot' = [boot EXCEPT !.step = "tickers"]
    /\ UNCHANGED main

AddTickers ==
    /\ Building("tickers")
    /\ disk' = [disk EXCEPT ![Target].rich = TRUE]
    /\ boot' = [boot EXCEPT !.todo = Tail(@), !.step = "check"]
    /\ UNCHANGED main

-----------------------------------------------------------------------------
(* The stages of a boot. *)

At(s) == boot.stage = s /\ boot.todo = <<>>

\* The gate: no background jobs, the validation address, or a local port.
Start ==
    /\ boot.stage = "down"
    /\ \E url \in File \cup {Memory}, jobs, local, rebuild, validation \in BOOLEAN :
         /\ jobs /\ url = Default => main = "down"
         /\ LET gate == ~jobs \/ validation \/ local IN
            boot' = [Idle EXCEPT !.stage = "access", !.url = url, !.jobs = jobs, !.gate = gate,
                                 !.rebuild = rebuild, !.validation = ~jobs /\ validation,
                                 !.todo = IF gate /\ url = Memory THEN Corpora(Memory) ELSE <<>>]
    /\ UNCHANGED <<disk, main>>

resolveBootstrapSnapshotAccessMode ==
    /\ At("access")
    /\ LET f == boot.url
           looks == boot.gate /\ f # Memory /\ disk[f].kind # "absent"
           seeded == \/ looks /\ hasUsableLiveSnapshots(disk[f])
                     \/ boot.gate /\ f = Memory /\ disk[Validation].kind # "absent" IN
       /\ disk' = IF looks THEN [disk EXCEPT ![f] = Looked(@)] ELSE disk
       /\ boot' = [boot EXCEPT !.stage = "open",
                               !.access = IF seeded THEN "seeded_bootstrap" ELSE "disabled"]
    /\ UNCHANGED main

\* buildApp opens and migrates its database; a corrupt file that nobody looked at
\* ends the boot.  With background jobs the market runtime takes over from here.
OpenDatabase ==
    /\ At("open")
    /\ LET f == boot.url
           found == IF f = Memory \/ boot.rebuild THEN Absent ELSE disk[f] IN
       /\ disk' = IF f = Memory \/ found.kind = "corrupt" THEN disk
                  ELSE [disk EXCEPT ![f] = Migrated(Opened(found))]
       /\ IF found.kind = "corrupt" THEN Fails /\ UNCHANGED main
          ELSE /\ boot' = [boot EXCEPT !.stage = IF boot.jobs THEN "up" ELSE "resolve",
                                       !.held = f # Memory,
                                       !.rows = IF f = Memory THEN {} ELSE found.live,
                                       !.todo = IF boot.jobs \/ boot.access = "disabled" THEN <<>>
                                                ELSE Corpora(f)]
               /\ IF boot.jobs /\ f = Default THEN main' = "attached"
                  ELSE IF boot.rebuild /\ f # Memory THEN Orphans(f) ELSE UNCHANGED main

\* The first of the candidates that exists and has live snapshots.
resolvePersistentSnapshotDatabaseUrl ==
    /\ At("resolve")
    /\ LET usable(f) == hasUsableLiveSnapshots(disk[f])
           first == IF boot.url = Memory THEN Validation ELSE boot.url
           second == IF boot.url = Memory THEN Default ELSE Validation
           from == IF boot.access = "disabled" THEN Nowhere
                   ELSE IF usable(first) THEN first ELSE IF usable(second) THEN second
                   ELSE Nowhere IN
       boot' = [boot EXCEPT !.from = from, !.stage = IF from = Nowhere THEN "sync" ELSE "seed"]
    /\ UNCHANGED <<disk, main>>

\* What a source gives: rows of canonical coins only where it has a live snapshot.
Importable(c) == {x \in Coins : x \notin Canonical \/ x \in c.live}

\* A runtime on another file than the source is replaced by a copy of it.
Restored == IF boot.url = boot.from THEN disk[boot.url] ELSE disk[boot.from]

\* The upserts of coins, snapshots and chart points into a database.
WithImport(c, source) ==
    [c EXCEPT !.live = @ \cup (source.live \cap Importable(source)),
              !.charts = @ \cup (source.charts \cap Importable(source))]

\* The reference data is seeded, the chart points of the canonical coins deleted, and
\* the rows of the source imported in one transaction.  The url of the open database
\* is absolute and that of the source relative, so a file is imported into itself,
\* by then without those chart points.
SeedRuntime ==
    /\ At("seed")
    /\ LET cleared == [Restored EXCEPT !.charts = {}]
           source == IF boot.held /\ boot.url = boot.from THEN cleared ELSE disk[boot.from] IN
       /\ disk' = IF boot.held THEN [disk EXCEPT ![boot.url] = WithImport(cleared, source)] ELSE disk
       /\ boot' = [boot EXCEPT !.stage = "finish", !.preserved = TRUE,
                               !.rows = @ \cup (source.live \cap Importable(source))]
       /\ IF boot.url \notin {Memory, boot.from} THEN Orphans(boot.url) ELSE UNCHANGED main

\* Without an import, the initial sync: it may find live snapshots or none.
RunInitialSync(found) ==
    /\ At("sync")
    /\ boot' = [boot EXCEPT !.stage = "finish", !.rows = @ \cup found, !.zeroLive = found = {}]
    /\ disk' = IF boot.held THEN [disk EXCEPT ![boot.url].live = @ \cup found] ELSE disk
    /\ UNCHANGED main

\* It may also take longer than the start-up timeout allows.
SyncTimesOut == At("sync") /\ Fails /\ UNCHANGED <<disk, main>>

\* updateValidationOverrideAfterBootstrapSync, finalizeBootstrapState, and the seed
\* of the reference data when nothing was imported.
Finish ==
    /\ At("finish")
    /\ boot' = [boot EXCEPT
          !.stage = "up",
          !.completed = ~boot.preserved \/ ~boot.validation,
          !.stale = IF boot.preserved THEN TRUE ELSE boot.validation /\ boot.zeroLive,
          !.mode = IF boot.preserved THEN (IF boot.validation THEN "seeded_bootstrap" ELSE "off")
                   ELSE IF boot.validation /\ boot.url # Memory /\ ~boot.zeroLive
                   THEN "stale_allowed" ELSE "off"]
    /\ disk' = IF ~boot.held \/ boot.from # Nowhere THEN disk
               ELSE [disk EXCEPT ![boot.url] = ReferenceSeeded(@)]
    /\ UNCHANGED main

-----------------------------------------------------------------------------
(* The world around a boot. *)

\* A process ends where it is: crash, signal, or a regular close once up.
Ends == boot.stage # "down" /\ Fails /\ UNCHANGED <<disk, main>>

MainPersists ==
    /\ main = "attached"
    /\ \E rich \in BOOLEAN :
         disk' = [disk EXCEPT ![Default].live = Coins, ![Default].rich = @ \/ rich]
    /\ UNCHANGED <<boot, main>>

MainStops == main # "down" /\ main' = "down" /\ UNCHANGED <<disk, boot>>

\* A machine that loses power may leave a file that is no database.
PowerLoss ==
    /\ \E f \in File : disk' = [disk EXCEPT ![f] = NoRows("corrupt")]
    /\ boot' = Idle /\ main' = "down"

Next ==
    \/ Start \/ CheckCorpus \/ BuildCorpus \/ BuildOverOld \/ AddSnapshots \/ AddTickers
    \/ resolveBootstrapSnapshotAccessMode \/ OpenDatabase
    \/ resolvePersistentSnapshotDatabaseUrl \/ SeedRuntime
    \/ (\E found \in {{}, Coins} : RunInitialSync(found)) \/ SyncTimesOut \/ Finish
    \/ Ends \/ MainPersists \/ MainStops \/ PowerLoss

Spec == Init /\ [][Next]_vars

-----------------------------------------------------------------------------
(* Properties. *)

TypeOK ==
    /\ disk \in [File -> Content]
    /\ boot \in Boot
    /\ main \in {"down", "attached", "orphaned"}

\* A boot that may import never gets as far as choosing its source while the
\* fallback is less than whole: a fixture that a crash left half written, or a
\* corrupt file, is found and rebuilt first (ensureCanonicalPersistentSnapshotDatabase
\* before resolvePersistentSnapshotDatabaseUrl).
FallbackIsWhole ==
    /\ boot.stage \in {"resolve", "seed", "finish"} /\ boot.todo = <<>>
    /\ boot.access = "seeded_bootstrap"
    => Whole(disk[Validation])

\* A process that runs on the default database never loses live rows of it by
\* starting up, unless it was told to rebuild the file: neither the corpus check,
\* nor the restore from the fallback, nor the import of a file into itself does.
OwnRowsSurviveBoot ==
    [][ boot.url = Default /\ ~boot.rebuild /\ boot' # Idle
        => disk[Default].live \subseteq disk'[Default].live ]_vars
=============================================================================
