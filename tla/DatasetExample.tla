--------------------------- MODULE DatasetExample ---------------------------
(***************************************************************************)
(* The programs dataset_example and 03_arrow_dataset, run again and again  *)
(* over one directory: each run writes the files of a small table and      *)
(* reads the directory back.  Runs may overlap, and any of them may be     *)
(* killed between two calls of the file system.  Opening a file truncates  *)
(* it; its data are written next and its footer, without which no reader   *)
(* accepts it, last.  All runs write the same bytes to the same place of a *)
(* file.  One that is truncated while another run writes it may end up     *)
(* with a footer and a hole.  The repository has a file of its own in      *)
(* examples/parquet_dataset, with other columns: Iris.parquet.             *)
(***************************************************************************)
EXTENDS Integers, Sequences, FiniteSets

CONSTANTS
    Procs,      \* processes that run the programs, one after the other
    MaxRuns,    \* bound: how many runs are started in all
    TableRows,  \* rows of the table (10 in the code)
    Half,       \* rows of the first file (5 in the code)
    Bound       \* "filter" keeps the rows with b < Bound (4 in the code)

ASSUME DatasetAssumption ==
    /\ TableRows \in Nat /\ Half \in 1..TableRows - 1
    /\ Bound \in 1..TableRows - Half
    /\ MaxRuns \in Nat

VARIABLES
    files,      \* what there is of each file, and of its partition directory
    job,        \* the run of each process
    runs        \* how many runs were started

vars == <<files, job, runs>>

-----------------------------------------------------------------------------
(* The table and the paths.  A row is named by its value of column a.      *)

CreateTable == [a \in 0..TableRows - 1 |-> [b |-> TableRows - 1 - a, c |-> 1 + (a % 2)]]

\* A variant with a bug: the first row of the next file is taken too.
SliceInclusive(from, to) == {a \in DOMAIN CreateTable : from <= a /\ a <= to}

Slice(from, to) == {a \in DOMAIN CreateTable : from <= a /\ a < to}

\* In the order in which a dataset lists them.
Names == <<"Iris", "data1", "data2", "part=a", "part=b">>
Hive == {"part=a", "part=b"}

BasePath(format) == IF format = "feather" THEN "feather_dataset" ELSE "parquet_dataset"

Paths == ({"feather_dataset"} \X {"data1", "data2"})
           \cup ({"parquet_dataset"} \X {Names[i] : i \in 1..5})

Content(name) ==
    CASE name \in {"data1", "part=a"} -> Slice(0, Half)
      [] name \in {"data2", "part=b"} -> Slice(Half, TableRows)
      [] OTHER -> {}

In(dir) == {name \in {Names[i] : i \in 1..5} :
              <<dir, name>> \in Paths /\ files[<<dir, name>>] # {}}

-----------------------------------------------------------------------------
(* A run.  Its writes are lanes: sequences of calls of the file system     *)
(* that go on independently of each other.                                 *)

Op(call, path) == [call |-> call, path |-> path]
WriteFile(path) == <<Op("open", path), Op("body", path), Op("footer", path)>>

CreateExampleDataset(format) ==
    {WriteFile(<<BasePath(format), "data1">>) \o WriteFile(<<BasePath(format), "data2">>)}

CreateExampleParquetHivePartitionedDataset ==
    {<<Op("mkdir", <<"parquet_dataset", name>>)>> \o WriteFile(<<"parquet_dataset", name>>) :
       name \in Hive}

PlainModes == {"no_filter", "filter", "project", "select_project"}
Modes == PlainModes \cup {"partitioned", "filter_partitioned", "unknown"}
Plain == {"feather", "parquet"}

\* 03_arrow_dataset is the format "tutorial": it reads as "partitioned" does.
Formats == Plain \cup {"parquet_hive", "unknown", "tutorial"}

Idle == [at |-> "idle"]
Active(p) == job[p].at \notin {"idle", "done", "failed", "crashed"}
Alone(p) == \A q \in Procs \ {p} : ~Active(q)

Whole == {"file", "body", "footer"}

Init ==
    /\ files \in [Paths -> {{}, Whole}]
    /\ \A path \in Paths : path[2] # "Iris" => files[path] = {}
    /\ job = [p \in Procs |-> Idle]
    /\ runs = 0

\* "alone" and "stale" are history: no other run overlapped this one, and there was more
\* in parquet_dataset than hive data when this one started.  03_arrow_dataset writes
\* the parquet files too, after table.csv, which nobody reads.
Start(p) ==
    /\ ~Active(p) /\ runs < MaxRuns
    /\ runs' = runs + 1
    /\ \E format \in Formats :
         job' = [q \in Procs |->
           IF q # p THEN IF Active(q) THEN [job[q] EXCEPT !.alone = FALSE] ELSE job[q]
           ELSE [at |-> CASE format = "unknown" -> "failed"
                          [] format = "parquet_hive" -> "check"
                          [] OTHER -> "create",
                 format |-> format, mode |-> "unknown",
                 todo |-> IF format \in Plain \cup {"tutorial"} THEN CreateExampleDataset(format)
                          ELSE {},
                 left |-> {}, got |-> {},
                 alone |-> Alone(p), stale |-> ~(In("parquet_dataset") \subseteq Hive)]]
    /\ UNCHANGED files

\* FileSystemDataset::Write: existing_data_behavior is left at its default, kError. What
\* Arrow counts as existing data is its own affair: if there is anything it may refuse
\* to write, or write over it.
WriteHive(p) ==
    /\ job[p].at = "check"
    /\ \/ /\ In("parquet_dataset") # {}
          /\ job' = [job EXCEPT ![p].at = "failed"]
       \/ job' = [job EXCEPT ![p].at = "create",
                             ![p].todo = CreateExampleParquetHivePartitionedDataset]
    /\ UNCHANGED <<files, runs>>

Effect(call, old) ==
    CASE call = "mkdir" -> old \cup {"dir"}
      [] call = "open" -> (old \cap {"dir"}) \cup {"file"}
      [] OTHER -> old \cup {call}

Create(p) ==
    /\ job[p].at = "create"
    /\ \E lane \in job[p].todo :
         LET op == Head(lane)
             rest == (job[p].todo \ {lane}) \cup ({Tail(lane)} \ {<<>>})
         IN /\ files' = [files EXCEPT ![op.path] = Effect(op.call, files[op.path])]
            /\ job' = [job EXCEPT ![p] =
                 [job[p] EXCEPT !.todo = rest, !.at = IF rest = {} THEN "list" ELSE "create"]]
    /\ UNCHANGED runs

-----------------------------------------------------------------------------
(* Reading.  Only the two partitioned modes look into subdirectories.      *)

First(names) == Names[CHOOSE i \in 1..5 : /\ Names[i] \in names
                                          /\ \A k \in 1..i - 1 : Names[k] \notin names]

Found(format) ==
    {name \in In(BasePath(format)) : "file" \in files[<<BasePath(format), name>>]}

\* A variant with a bug: every mode looks into subdirectories.
SelectedRecursive(format, mode) == Found(format)

Selected(format, mode) == IF mode \in PlainModes THEN Found(format) \ Hive ELSE Found(format)

\* The mode of a run is not looked at before its files are written.  In every mode
\* but an unknown one, FileSystemDatasetFactory::Make lists the files.
List(p) ==
    /\ job[p].at = "list"
    /\ \E mode \in IF job[p].format = "tutorial" THEN {"partitioned"} ELSE Modes :
         job' = [job EXCEPT ![p] =
           IF mode = "unknown" THEN [job[p] EXCEPT !.at = "failed"]
           ELSE [job[p] EXCEPT !.at = "inspect", !.mode = mode,
                               !.left = Selected(job[p].format, mode)]]
    /\ UNCHANGED <<files, runs>>

\* The columns a scan refers to must be in the schema Finish() has found, which is that
\* of the first file, with the partitions there are directories of.
ColumnsKnown(j) ==
    CASE j.mode \in {"filter", "project", "select_project"} -> j.left # {} /\ "Iris" \notin j.left
      [] j.mode = "filter_partitioned" -> j.left \cap Hive # {}
      [] OTHER -> TRUE

FileOf(j, name) == files[<<BasePath(j.format), name>>]

\* factory->Finish() takes the schema from the first file; the filter on "part"
\* leaves out the files of the other partition.
Inspect(p) ==
    /\ job[p].at = "inspect"
    /\ LET j == job[p]
           ok == (j.left # {} => "footer" \in FileOf(j, First(j.left))) /\ ColumnsKnown(j)
       IN job' = [job EXCEPT ![p] =
            [j EXCEPT !.at = IF ok THEN "scan" ELSE "failed",
               !.left = IF j.mode = "filter_partitioned" THEN j.left \ {"part=a"} ELSE j.left]]
    /\ UNCHANGED <<files, runs>>

\* scanner->ToTable() reads the files in any order and needs every one.  A file with a
\* hole may be found out or read for something it is not.
ToTable(p) ==
    /\ job[p].at = "scan"
    /\ \E name \in job[p].left :
         LET f == FileOf(job[p], name)
         IN \/ /\ "footer" \in f
               /\ job' = [job EXCEPT ![p] =
                    [job[p] EXCEPT !.left = @ \ {name},
                       !.got = @ \cup {IF "body" \in f THEN name ELSE "garbage"}]]
            \/ /\ ~(Whole \subseteq f)
               /\ job' = [job EXCEPT ![p].at = "failed"]
    /\ UNCHANGED <<files, runs>>

EndScan(p) ==
    /\ job[p].at = "scan" /\ job[p].left = {}
    /\ job' = [job EXCEPT ![p].at = IF job[p].format = "tutorial" THEN "write" ELSE "done"]
    /\ UNCHANGED <<files, runs>>

\* 03_arrow_dataset writes the table it has read to write_dataset, which nobody reads.
WriteDataset(p) ==
    /\ job[p].at = "write"
    /\ job' = [job EXCEPT ![p].at = "done"]
    /\ UNCHANGED <<files, runs>>

\* The process is killed, or a call of the file system fails and ends main.
Crash(p) ==
    /\ Active(p)
    /\ job' = [job EXCEPT ![p] = [at |-> "crashed"]]
    /\ UNCHANGED <<files, runs>>

Step(p) ==
    \/ Start(p) \/ WriteHive(p) \/ Create(p) \/ List(p) \/ Inspect(p)
    \/ ToTable(p) \/ EndScan(p) \/ WriteDataset(p) \/ Crash(p)

Next == \E p \in Procs : Step(p)

Spec == Init /\ [][Next]_vars

-----------------------------------------------------------------------------
(* Properties.                                                             *)

\* The rows of the table a run has read, each with the file it is from.
Kept(j, name, a) ==
    CASE j.mode = "filter" -> CreateTable[a].b < Bound
      [] j.mode = "filter_partitioned" -> name = "part=b"
      [] OTHER -> TRUE

Rows(j) == {row \in j.got \X DOMAIN CreateTable :
              row[2] \in Content(row[1]) /\ Kept(j, row[1], row[2])}

Times(j, a) == Cardinality({row \in Rows(j) : row[2] = a})

Done(p, formats, modes) ==
    job[p].at = "done" /\ job[p].format \in formats /\ job[p].mode \in modes

\* dataset_example.cpp:104-333, 03_arrow_dataset.cpp:119-142: what a run reads that no
\* other overlaps, in a directory without the file of the repository, whatever the runs
\* before it have left there.  In a plain mode it reads every row it promises exactly
\* once; filtered on the partition no row twice and none of the other one, where no file
\* with a hole lay in the partition.  A hive run
\* reads back what it has written if it found no data but that of hive runs, be it torn or
\* holed.  03_arrow_dataset may read rows twice, but misses none.  Nothing is claimed of
\* a run that another one overlaps (07_tabular_dataset.md:237-239).
ReadsExactly ==
    \A p \in Procs : job[p].at = "done" /\ job[p].alone /\ "Iris" \notin job[p].got =>
      /\ Done(p, Plain, PlainModes) =>
           /\ "garbage" \notin job[p].got
           /\ \A a \in DOMAIN CreateTable : Times(job[p], a) =
                IF job[p].mode # "filter" \/ CreateTable[a].b < Bound THEN 1 ELSE 0
      /\ Done(p, Plain, {"filter_partitioned"}) /\ "garbage" \notin job[p].got =>
           \A a \in DOMAIN CreateTable : Times(job[p], a) \in
             IF a < Half THEN {0} ELSE {0, 1}
      /\ Done(p, {"parquet_hive"}, {"partitioned", "filter_partitioned"}) /\ ~job[p].stale =>
           /\ "garbage" \notin job[p].got
           /\ \A a \in DOMAIN CreateTable : Times(job[p], a) =
                IF job[p].mode = "partitioned" \/ a >= Half THEN 1 ELSE 0
      /\ Done(p, {"tutorial"}, Modes) => {"data1", "data2"} \subseteq job[p].got

\* dataset_example.cpp:50-101, 155-277: a plain run is not stopped by what a killed run
\* has left: it truncates and rewrites the files of the dataset it reads. Where no other
\* run overlaps it, it fails only over a file that is none of theirs and does not have the
\* columns it selects: Iris.parquet, where the usage of line 394 finds it.
PlainRunsRecover ==
    \A p \in Procs :
      job[p].at = "failed" /\ job[p].format \in Plain /\ job[p].mode \in PlainModes
        /\ job[p].alone
      => job[p].mode # "no_filter" /\ "Iris" \in Found(job[p].format)

TypeOK ==
    /\ files \in [Paths -> SUBSET {"dir", "file", "body", "footer"}]
    /\ runs \in 0..MaxRuns
    /\ \A p \in Procs : Active(p) => /\ job[p].left \subseteq {Names[i] : i \in 1..5}
                                     /\ \A lane \in job[p].todo : lane # <<>>
=============================================================================
