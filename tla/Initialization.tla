--------------------------- MODULE Initialization ---------------------------
(***************************************************************************)
(* lithograph_init and the gates every other SQL function passes before it *)
(* touches the graph (extension lib.rs, scalar.rs, metadata_integrity.rs). *)
(*                                                                         *)
(* Several connections initialise or migrate one file.  An invocation runs *)
(* in a SAVEPOINT, inside a transaction of the host or as one of its own,  *)
(* and can fail at every step; the process can die.  SQLite gives each     *)
(* transaction the file as it was at its first read, one writer at a time, *)
(* and BUSY to a writer whose file has changed since.                      *)
(*                                                                         *)
(* A file:                                                                 *)
(*   meta     what is called _lithograph_meta: nothing, a table or other   *)
(*   marker   the row of that table: <<>> or <<[magic, id, format]>>       *)
(*   groups   which groups of reserved objects exist; "other" is one that  *)
(*            no storage format has                                        *)
(*   commits  the commits; main is among them or "none"                    *)
(*   sound    whether history, hashes and graphs pass integrity_check      *)
(***************************************************************************)
EXTENDS Integers, FiniteSets

CONSTANTS
    Connection,
    Id,             \* database ids; randomblob makes each a new one
    MaxCalls        \* bound on the invocations of one connection

Current == 3        \* STORAGE_FORMAT_CURRENT and STORAGE_FORMAT_MAX
Oldest == 1         \* STORAGE_FORMAT_MIN

VARIABLES
    file,           \* the committed file
    start,          \* the file at the beginning
    writer,         \* the connection with a write transaction, or "none"
    conn            \* conn[c]: the state of connection c

vars == <<file, start, writer, conn>>

-----------------------------------------------------------------------------
(* Reading a file.                                                         *)

(* expected_objects.                                                       *)
Expected(format) ==
    {"base"} \cup (IF format >= 2 THEN {"format2"} ELSE {})
             \cup (IF format >= 3 THEN {"format3"} ELSE {})

HasMarker(f) == f.meta = "table" /\ f.marker # <<>> /\ f.marker[1].magic
Format(f) == f.marker[1].format

(* read_metadata: none, an error or the marker.                            *)
Metadata(f) ==
    CASE f.meta = "nothing" -> "none"
      [] f.meta # "nothing" /\ ~ HasMarker(f) -> "error"
      [] HasMarker(f) -> "some"

(* has_any_internal_object.                                                *)
Evidence(f) == f.meta # "nothing" \/ f.groups # {}

Supported(f) == Format(f) \in Oldest..Current

(* check_base_metadata_integrity and structural_integrity_issues.          *)
BaseOk(f) == HasMarker(f) /\ Supported(f)
RuntimeOk(f) == BaseOk(f) /\ f.groups = Expected(Format(f))

(* current_metadata_integrity_errors: the whole integrity check, which     *)
(* asks for a main branch and exactly one root too.                        *)
FullyOk(f) == RuntimeOk(f) /\ f.sound /\ "root" \in f.commits /\ f.main \in f.commits

(* is_phase01_metadata_bootstrap.                                          *)
Bootstrap(f) == f.groups = {} /\ BaseOk(f)

-----------------------------------------------------------------------------
(* The gates.                                                              *)

(* require_initialized: every query, validation and tx_begin.              *)
QueryGate(f) ==
    CASE Metadata(f) = "none" -> "NOT_INITIALIZED"
      [] Metadata(f) = "error" -> "STORAGE_ERROR"
      [] Metadata(f) = "some" /\ Format(f) > Current -> "FORMAT_TOO_NEW"
      [] Metadata(f) = "some" /\ Format(f) <= Current ->
            IF RuntimeOk(f) THEN "ok" ELSE "STORAGE_ERROR"

(* require_current_storage_format on top of it: writes, and tx_begin.      *)
WriteGate(f) ==
    IF QueryGate(f) = "ok" /\ Format(f) # Current THEN "STORAGE_ERROR" ELSE QueryGate(f)

(* version_json.                                                           *)
VersionGate(f) ==
    CASE Metadata(f) = "none" -> IF Evidence(f) THEN "STORAGE_ERROR" ELSE "no database"
      [] Metadata(f) = "error" -> "STORAGE_ERROR"
      [] Metadata(f) = "some" -> IF Format(f) > Current \/ RuntimeOk(f) THEN "ok"
                                 ELSE "STORAGE_ERROR"

(* metadata_integrity_json.                                                *)
IntegrityGate(f) ==
    CASE f.meta = "nothing" -> IF Evidence(f) THEN "not ok" ELSE "NOT_INITIALIZED"
      [] f.meta = "other" -> "not ok"
      [] f.meta = "table" -> IF HasMarker(f) /\ Format(f) > Current THEN "FORMAT_TOO_NEW"
                             ELSE IF FullyOk(f) THEN "ok" ELSE "not ok"

-----------------------------------------------------------------------------
(* Transactions.                                                           *)

Idle == [pc |-> "idle", outer |-> FALSE, opened |-> FALSE, healthy |-> TRUE, calls |-> 0,
         told |-> <<>>]

(* base: the file at the first read; saved: at the SAVEPOINT; work: now.   *)
IsOpen(c) == conn[c].opened
View(c) == IF IsOpen(c) THEN conn[c].work ELSE file

CanWrite(c) == writer = c \/ (writer = "none" /\ file = conn[c].base)

EndTransaction(c, result) ==
    /\ conn' = [conn EXCEPT ![c] =
                   [pc |-> "idle", outer |-> FALSE, opened |-> FALSE, healthy |-> conn[c].healthy,
                    calls |-> conn[c].calls, told |-> result]]
    /\ writer' = IF writer = c THEN "none" ELSE writer

(* The host's own BEGIN around an invocation.                              *)
HostBegin(c) ==
    /\ conn[c].pc = "idle" /\ ~ conn[c].outer
    /\ conn' = [conn EXCEPT ![c].outer = TRUE]
    /\ UNCHANGED <<file, start, writer>>

HostCommit(c) ==
    /\ conn[c].pc = "idle" /\ conn[c].outer
    /\ file' = IF writer = c THEN conn[c].work ELSE file
    /\ EndTransaction(c, conn[c].told)
    /\ UNCHANGED start

HostRollback(c) ==
    /\ conn[c].pc = "idle" /\ conn[c].outer
    /\ EndTransaction(c, <<>>)
    /\ UNCHANGED <<file, start>>

-----------------------------------------------------------------------------
(* lithograph_init, step by step.                                          *)

(* with_savepoint: SAVEPOINT, then read_metadata.                          *)
Call(c) ==
    /\ conn[c].pc = "idle" /\ conn[c].healthy
    /\ conn[c].calls < MaxCalls
    /\ conn' = [conn EXCEPT ![c] =
                   [pc |-> "read", outer |-> conn[c].outer, opened |-> TRUE, healthy |-> TRUE,
                    calls |-> conn[c].calls + 1, told |-> <<>>,
                    base |-> IF IsOpen(c) THEN conn[c].base ELSE file,
                    saved |-> View(c), work |-> View(c)]]
    /\ UNCHANGED <<file, start, writer>>

(* The next step of an invocation: from pc to next, with the file f.       *)
Step(c, pc, next, f) ==
    /\ conn[c].pc = pc
    /\ f # conn[c].work => CanWrite(c)
    /\ writer' = IF f # conn[c].work THEN c ELSE writer
    /\ conn' = [conn EXCEPT ![c] = [@ EXCEPT !.pc = next, !.work = f]]
    /\ UNCHANGED <<file, start>>

Work(c) == conn[c].work

(* initialize, initialize_existing and migrate_storage_to_current choose.  *)
ReadMetadata(c) ==
    /\ conn[c].pc = "read"
    /\ \/ /\ Metadata(Work(c)) = "none" /\ ~ Evidence(Work(c))
          /\ Step(c, "read", "create meta", Work(c))
       \/ /\ Metadata(Work(c)) = "some" /\ Supported(Work(c))
          /\ Step(c, "read",
                  IF Format(Work(c)) = Current THEN "verify"
                  ELSE IF Bootstrap(Work(c)) THEN "bootstrap" ELSE "migrate", Work(c))

(* initialize_fresh: the table, the marker, the schema and the root.       *)
CreateMeta(c) == Step(c, "create meta", "mark", [Work(c) EXCEPT !.meta = "table"])

InsertMarker(c, id) ==
    /\ id \notin {conn[d].work.marker[1].id :
                     d \in {e \in Connection : IsOpen(e) /\ conn[e].work.marker # <<>>}}
    /\ file.marker # <<>> => id # file.marker[1].id
    /\ Step(c, "mark", "schema",
            [Work(c) EXCEPT !.marker = <<[magic |-> TRUE, id |-> id, format |-> Current]>>])

CreateSchema(c) == Step(c, "schema", "root", [Work(c) EXCEPT !.groups = @ \cup Expected(Current)])

(* initialize_root, which keeps the commits there are.                     *)
WithRoot(f) == IF f.commits # {} THEN f ELSE [f EXCEPT !.commits = {"root"}, !.main = "root"]

InitializeRoot(c) == Step(c, "root", "verify", WithRoot(Work(c)))

(* Mutant: the marker is written anew.                                     *)
AdvancedAnew(f, to) == [f EXCEPT !.marker[1] = [magic |-> TRUE, id |-> "i1", format |-> to]]

(* advance_storage_format: compare and swap of the marker's format.        *)
Advanced(f, to) == [f EXCEPT !.marker[1].format = to]

(* migrate_phase01_bootstrap.                                              *)
MigrateBootstrap(c) ==
    Step(c, "bootstrap", "bootstrap root", [Work(c) EXCEPT !.groups = @ \cup Expected(Current)])

MigrateBootstrapRoot(c) ==
    Step(c, "bootstrap root", "bootstrap check", Advanced(WithRoot(Work(c)), Current))

CheckBootstrap(c) ==
    /\ conn[c].pc = "bootstrap check"
    /\ FullyOk(Work(c))
    /\ Step(c, "bootstrap check", "verify", Work(c))

(* migrate_versioned_storage: 1 -> 2 -> 3, checked after each.  A table    *)
(* that exists already makes CREATE TABLE fail.                            *)
NextFormat(c) == Format(Work(c)) + 1
Added(format) == Expected(format) \ Expected(format - 1)

MigrateSchema(c) ==
    /\ conn[c].pc = "migrate"
    /\ Added(NextFormat(c)) \cap Work(c).groups = {}
    /\ Step(c, "migrate", "advance", [Work(c) EXCEPT !.groups = @ \cup Added(NextFormat(c))])

AdvanceFormat(c) ==
    /\ conn[c].pc = "advance"
    /\ Step(c, "advance", "migrated", Advanced(Work(c), NextFormat(c)))

CheckMigrated(c) ==
    /\ conn[c].pc = "migrated"
    /\ FullyOk(Work(c))
    /\ Step(c, "migrated", IF Format(Work(c)) = Current THEN "verify" ELSE "migrate", Work(c))

(* ensure_current_metadata_integrity, root_commit and branch_head.         *)
Verify(c) ==
    /\ conn[c].pc = "verify"
    /\ FullyOk(Work(c))
    /\ Step(c, "verify", "release", Work(c))

(* RELEASE: the commit of an invocation outside a host transaction.        *)
Result(c) == <<Work(c).marker[1].id>>

Release(c) ==
    /\ conn[c].pc = "release"
    /\ IF conn[c].outer
       THEN /\ conn' = [conn EXCEPT ![c] = [@ EXCEPT !.pc = "idle", !.told = Result(c)]]
            /\ UNCHANGED <<file, writer>>
       ELSE /\ file' = IF writer = c THEN Work(c) ELSE file
            /\ EndTransaction(c, Result(c))
    /\ UNCHANGED start

(* Mutant: RELEASE without ROLLBACK TO.                                    *)
FailReleasing(c) ==
    /\ conn[c].pc # "idle"
    /\ IF conn[c].outer
       THEN /\ conn' = [conn EXCEPT ![c].pc = "idle"]
            /\ UNCHANGED <<file, writer>>
       ELSE /\ file' = IF writer = c THEN Work(c) ELSE file
            /\ EndTransaction(c, <<>>)
    /\ UNCHANGED start

(* Any error or panic of a step, BUSY included: ROLLBACK TO and RELEASE.   *)
Fail(c) ==
    /\ conn[c].pc # "idle"
    /\ IF conn[c].outer
       THEN /\ conn' = [conn EXCEPT ![c] = [@ EXCEPT !.pc = "idle", !.work = conn[c].saved]]
            /\ UNCHANGED writer
       ELSE EndTransaction(c, <<>>)
    /\ UNCHANGED <<file, start>>

(* The ROLLBACK TO itself fails: the whole transaction is rolled back and  *)
(* the connection is quarantined.  A host interrupt ends the transaction   *)
(* too, without the quarantine.                                            *)
FailCleanup(c, quarantine) ==
    /\ conn[c].pc # "idle"
    /\ conn' = [conn EXCEPT ![c] = [Idle EXCEPT !.calls = conn[c].calls,
                                                !.healthy = ~ quarantine]]
    /\ writer' = IF writer = c THEN "none" ELSE writer
    /\ UNCHANGED <<file, start>>

(* The process dies, and another takes its place.                          *)
Crash(c) ==
    /\ IsOpen(c)
    /\ conn' = [conn EXCEPT ![c] = [Idle EXCEPT !.calls = conn[c].calls]]
    /\ writer' = IF writer = c THEN "none" ELSE writer
    /\ UNCHANGED <<file, start>>

-----------------------------------------------------------------------------

(* The files a host may hand to lithograph_init.                           *)
Marked(format) == <<[magic |-> TRUE, id |-> "found", format |-> format]>>

Pristine == [meta |-> "nothing", marker |-> <<>>, groups |-> {}, commits |-> {}, main |-> "none",
             sound |-> TRUE]
MetaOnly == [Pristine EXCEPT !.meta = "table", !.marker = Marked(1)]
Versioned(format) ==
    [meta |-> "table", marker |-> Marked(format), groups |-> Expected(format),
     commits |-> {"root", "old"}, main |-> "old", sound |-> TRUE]

Files ==
    {Pristine, MetaOnly, Versioned(1), Versioned(2), Versioned(3),
     Versioned(4), Versioned(0),
     [Pristine EXCEPT !.groups = {"other"}],
     [Versioned(3) EXCEPT !.meta = "nothing", !.marker = <<>>],
     [Pristine EXCEPT !.meta = "other"],
     [Versioned(3) EXCEPT !.marker = <<>>],
     [Versioned(3) EXCEPT !.marker[1].magic = FALSE],
     [Versioned(1) EXCEPT !.groups = {"base", "format2"}],
     [Versioned(2) EXCEPT !.groups = {"base", "format2", "other"}],
     [Versioned(1) EXCEPT !.sound = FALSE],
     [Versioned(3) EXCEPT !.main = "none"]}

Init ==
    /\ file \in Files
    /\ start = file
    /\ writer = "none"
    /\ conn = [c \in Connection |-> Idle]

Progress(c) ==
    \/ ReadMetadata(c)
    \/ CreateMeta(c)
    \/ \E id \in Id : InsertMarker(c, id)
    \/ CreateSchema(c)
    \/ InitializeRoot(c)
    \/ MigrateBootstrap(c)
    \/ MigrateBootstrapRoot(c)
    \/ CheckBootstrap(c)
    \/ MigrateSchema(c)
    \/ AdvanceFormat(c)
    \/ CheckMigrated(c)
    \/ Verify(c)
    \/ Release(c)
    \/ Fail(c)

Next ==
    \E c \in Connection :
        \/ Call(c)
        \/ Progress(c)
        \/ HostBegin(c)
        \/ HostCommit(c)
        \/ HostRollback(c)
        \/ \E quarantine \in BOOLEAN : FailCleanup(c, quarantine)
        \/ Crash(c)

(* A running invocation takes its next step.                               *)
Spec == Init /\ [][Next]_vars /\ \A c \in Connection : WF_vars(Progress(c))

-----------------------------------------------------------------------------
(* Properties                                                              *)

(* interfaces.md: lithograph_init creates or migrates the internal         *)
(* structures atomically.  Whatever step failed, was interrupted or        *)
(* crashed, in whichever of two racing connections, the committed file is  *)
(* the one found or one that the whole integrity check accepts in the      *)
(* current format.                                                         *)
AllOrNothing == file # start => FullyOk(file) /\ Format(file) = Current

(* A file that lithograph_init may not touch stays as it is: reserved      *)
(* objects without a marker, a newer or unknown format, a format without   *)
(* its tables or with others, a damaged history.                           *)
Refuses(f) ==
    \/ (f.meta # "nothing" \/ f.groups # {}) /\ (f.meta # "table" \/ f.marker = <<>>)
    \/ /\ f.meta = "table" /\ f.marker # <<>>
       /\ \/ ~ f.marker[1].magic \/ f.marker[1].format \notin 1..3 \/ ~ f.sound
          \/ f.groups \notin {{}, Expected(f.marker[1].format)}

RefusedUntouched == Refuses(start) => file = start

(* The database id and the commits survive every migration, and the format *)
(* never goes down.                                                        *)
KeepsIdentity ==
    HasMarker(file) =>
        /\ HasMarker(file') /\ file'.marker[1].id = file.marker[1].id
        /\ file.commits \subseteq file'.commits
        /\ Format(file) <= Format(file')
IdentityKept == [][KeepsIdentity]_file

(* An answer is lasting: once lithograph_init returned outside a host      *)
(* transaction, the file has the id it returned, and queries and writes    *)
(* pass their gates; two racing invocations that both return agree.        *)
AnswersLast ==
    \A c \in Connection :
        ~ IsOpen(c) /\ conn[c].told # <<>> =>
            /\ file.marker[1].id = conn[c].told[1]
            /\ QueryGate(file) = "ok" /\ WriteGate(file) = "ok"
            /\ VersionGate(file) = "ok" /\ IntegrityGate(file) = "ok"

(* Every invocation returns; none waits for another connection.            *)
Running(c) == conn[c].pc # "idle"
EveryCallReturns == \A c \in Connection : Running(c) ~> ~ Running(c)

-----------------------------------------------------------------------------
(* What the theorems of MCVersions rest on: the invariant Opened.          *)

(* The fields of a file.                                                   *)
IsFile(f) ==
    /\ {"meta", "marker", "groups", "commits", "main", "sound"} \subseteq DOMAIN f
    /\ f.marker # <<>> =>
           /\ 1 \in DOMAIN f.marker /\ {"magic", "id", "format"} \subseteq DOMAIN f.marker[1]
           /\ Format(f) \in Int

(* A file that an invocation leaves alone.                                 *)
Settled(f) == FullyOk(f) /\ Format(f) = Current

(* The file g has the id and the commits of f, and no lower format.        *)
Follows(f, g) ==
    HasMarker(f) =>
        /\ HasMarker(g) /\ g.marker[1].id = f.marker[1].id
        /\ f.commits \subseteq g.commits /\ Format(f) <= Format(g)

(* What a finished invocation makes of f.                                  *)
Good(f, g) == Settled(g) /\ Follows(f, g) /\ ~ Refuses(f)

Fresh(f) == f.meta = "nothing" /\ f.groups = {}

(* The groups added on the way from f to a format were not there.          *)
Migrating(f, g, format) ==
    LET added == Expected(format) \ Expected(Format(f))
    IN  /\ BaseOk(f) /\ HasMarker(g) /\ g.marker[1].id = f.marker[1].id
        /\ g.commits = f.commits /\ g.sound = f.sound /\ Format(f) <= Format(g)
        /\ f.groups \cap added = {} /\ g.groups = f.groups \cup added

(* What an invocation that is at pc has made of f.                         *)
Stage(f, pc, g) ==
    CASE pc = "read" -> g = f
      [] pc = "create meta" -> Fresh(f) /\ g = f
      [] pc = "mark" -> Fresh(f) /\ g.meta = "table"
      [] pc \in {"schema", "root"} -> Fresh(f) /\ HasMarker(g) /\ Format(g) = Current
      [] pc = "bootstrap" -> Bootstrap(f) /\ g = f
      [] pc = "bootstrap root" ->
            /\ Bootstrap(f) /\ g.meta = f.meta /\ g.marker = f.marker
            /\ g.commits = f.commits /\ g.sound = f.sound
      [] pc = "bootstrap check" ->
            Bootstrap(f) /\ Follows(f, g) /\ g.sound = f.sound /\ Format(g) = Current
      [] pc = "migrate" -> Migrating(f, g, Format(g)) /\ Format(g) < Current
      [] pc = "advance" -> Migrating(f, g, Format(g) + 1) /\ Format(g) < Current
      [] pc = "migrated" -> Migrating(f, g, Format(g)) /\ Format(g) <= Current
      [] pc = "verify" -> (g = f \/ (Follows(f, g) /\ ~ Refuses(f))) /\ Format(g) = Current
      [] pc = "release" -> Good(f, g)
      [] OTHER -> FALSE

(* A transaction of a settled file leaves it alone; of another, the file   *)
(* it would commit is the one it read or a good one, and between the two a *)
(* running invocation is at its stage.  Only the writer has changed its    *)
(* file, and nobody commits before it.                                     *)
Open(c) ==
    LET x == conn[c]
    IN  /\ {"pc", "outer", "opened", "told", "base", "saved", "work"} \subseteq DOMAIN x
        /\ IsFile(x.base) /\ IsFile(x.saved) /\ IsFile(x.work)
        /\ (x.base = start \/ Settled(x.base))
        /\ (Settled(x.base) => file = x.base /\ x.saved = x.base /\ x.work = x.base)
        /\ IF writer = c THEN file = x.base ELSE x.work = x.base
        /\ (x.saved = x.base \/ Good(x.base, x.saved))
        /\ IF x.pc = "idle" THEN x.work = x.base \/ Good(x.base, x.work)
           ELSE IF Settled(x.saved) THEN x.work = x.saved /\ x.pc \in {"read", "verify", "release"}
           ELSE Stage(x.saved, x.pc, x.work)
        /\ (x.told # <<>> => x.pc = "idle" /\ Settled(x.work) /\ x.told = <<x.work.marker[1].id>>)

(* What a closed one was told is in the file.                              *)
Closed(c) ==
    LET x == conn[c]
    IN  /\ {"pc", "outer", "opened", "told"} \subseteq DOMAIN x
        /\ x.pc = "idle" /\ writer # c
        /\ (x.told # <<>> => Settled(file) /\ x.told = <<file.marker[1].id>>)

Opened ==
    /\ IsFile(start) /\ IsFile(file)
    /\ file = start \/ Good(start, file)
    /\ writer \in Connection \cup {"none"}
    /\ conn = [c \in Connection |-> conn[c]]
    /\ \A c \in Connection : IF conn[c].opened THEN Open(c) ELSE Closed(c)

=============================================================================
