---------------------------- MODULE RecipeLedger ----------------------------
(***************************************************************************)
(* The cookbook's test program, run again and again in one directory.  A   *)
(* test is a script of recipes; StartRecipe and EndRecipe bracket each and *)
(* record its output in memory, DumpRecipeOutput merges what was recorded  *)
(* into a file.  A test may end early, leaving a recipe open; a dump may   *)
(* fail, and the process may be killed, between any two of its calls.  The *)
(* output of a recipe is the run it is from, and whether all of it was     *)
(* printed by the recipe itself.                                           *)
(***************************************************************************)
EXTENDS Integers

CONSTANTS
    DatasetRecipes, \* recipes of DatasetRead (3 in the code)
    FlightRecipes,  \* recipes of TestPutGetDelete (7 in the code)
    DoPut,          \* which of those looks for the test data (3 in the code)
    Depth,          \* depth of the working directory
    MaxRuns,        \* bound: how often the program is started
    MaxTests        \* bound: how many tests a run executes (--gtest_repeat)

ASSUME RecipeAssumption ==
    /\ DatasetRecipes \in Nat \ {0} /\ FlightRecipes \in Nat \ {0}
    /\ DoPut \in 1..FlightRecipes
    /\ Depth \in Nat /\ MaxRuns \in Nat /\ MaxTests \in Nat

Tests == {"DatasetRead", "PutGetDelete"}
\* DatasetRead and TestPutGetDelete are scripts of recipes, one after the other, of which
\* the model keeps how many there are.
Length == [t \in Tests |-> IF t = "DatasetRead" THEN DatasetRecipes ELSE FlightRecipes]
Recipes == {n \in Tests \X (1..DatasetRecipes + FlightRecipes) : n[2] <= Length[n[1]]}
None == <<"none", 0>>

Files == {"recipes_out.arrow", "TEST_DatasetRead.txt"}

VARIABLES
    recorded,       \* test_names_builder, test_output_builder: name -> output
    current_recipe,
    rout,           \* the recipes whose output is in the stream
    path_iter,      \* FindTestDataFile: how deep the directory looked at is
    testdata,       \* how deep the directory with testdata is, -1 for nowhere
    at,             \* where the program is
    test, step,     \* the test that runs and its recipe
    left,           \* tests this run may still execute
    failed,         \* RUN_ALL_TESTS will not return 0
    runs,           \* how often the program was started
    dump,           \* the dump in progress: its file, its table, whether it starts afresh
    disk,           \* the files: missing, torn or a table
    \* History: what was dumped to each file since a dump last started it afresh, whether
    \* one of these was cut short, the tests this run has executed, and the recipes of
    \* this run whose output was in a file that was started afresh.
    dumped, hurt, ran, lost

memory == <<recorded, current_recipe, rout>>
place == <<at, test, step, path_iter>>
control == <<left, failed, runs>>
history == <<dumped, hurt, ran, lost>>
vars == <<memory, place, control, dump, disk, history, testdata>>

-----------------------------------------------------------------------------
(* Tables and files.                                                       *)

MakeEmptyRecipesTable == [n \in {} |-> None]
Table(rows) == [kind |-> "table", rows |-> rows]
Missing == [kind |-> "missing"]
Torn == [kind |-> "torn"]

\* A variant with a bug: a file that cannot be read passes for an empty one.
AnyReadable(f) == TRUE

\* A stream that ends after the schema is read as a table without rows; one that
\* ends before it, or within the rows, is not read at all.
Readable(f) == disk[f].kind # "torn"

\* A variant with a bug: the old table is not read.
LoadNothing(f, opens) == MakeEmptyRecipesTable

\* A file that OpenInputFile cannot open, for whatever reason, passes for an empty one.
LoadExistingRecipeOutputTable(f, opens) ==
    IF opens /\ disk[f].kind = "table" THEN disk[f].rows ELSE MakeEmptyRecipesTable

\* A variant with a bug: the old output is kept.
MergeOldWins(old, new) ==
    [n \in DOMAIN old \cup DOMAIN new |-> IF n \in DOMAIN old THEN old[n] ELSE new[n]]

MergeRecipeTables(old, new) ==
    [n \in DOMAIN old \cup DOMAIN new |-> IF n \in DOMAIN new THEN new[n] ELSE old[n]]

HasRecipeOutput == DOMAIN recorded # {}
NoDump == [file |-> "none", rows |-> MakeEmptyRecipesTable, afresh |-> FALSE]

Init ==
    /\ recorded = MakeEmptyRecipesTable /\ current_recipe = None /\ rout = {}
    /\ path_iter = Depth /\ testdata \in -1..Depth
    /\ at = "off" /\ test = "none" /\ step = 0
    /\ left = 0 /\ failed = FALSE /\ runs = 0
    /\ dump = NoDump
    /\ disk = [f \in Files |-> Missing]
    /\ dumped = [f \in Files |-> MakeEmptyRecipesTable]
    /\ hurt = [f \in Files |-> FALSE] /\ ran = {} /\ lost = {}

-----------------------------------------------------------------------------
(* main() and the tests.                                                   *)

StartMain ==
    /\ at \in {"off", "exit"} /\ runs < MaxRuns
    /\ recorded' = MakeEmptyRecipesTable /\ current_recipe' = None /\ rout' = {}
    /\ at' = "tests" /\ test' = "none" /\ step' = 0 /\ path_iter' = Depth
    /\ left' = MaxTests /\ failed' = FALSE /\ runs' = runs + 1
    /\ ran' = {} /\ lost' = {}
    /\ UNCHANGED <<dump, disk, dumped, hurt, testdata>>

\* DatasetReadingTest::SetUp looks for the test data before the test begins.
RunTest(t) ==
    /\ at = "tests" /\ left > 0
    /\ left' = left - 1
    /\ test' = t /\ step' = 1 /\ path_iter' = Depth
    /\ at' = IF t = "DatasetRead" THEN "search" ELSE "start"
    /\ ran' = ran \cup {t}
    /\ UNCHANGED <<memory, failed, runs, dump, disk, dumped, hurt, lost, testdata>>

\* A failed ASSERT_OK ends the test.
FailTest ==
    /\ at' = "tests" /\ failed' = TRUE
    /\ UNCHANGED <<test, step, path_iter>>

\* A variant with a bug: the search does not go up.
ParentPathSame(depth) == depth

HasParentPath(depth) == TRUE    \* also of "/", whose parent is "/"
ParentPath(depth) == IF depth = 0 THEN 0 ELSE depth - 1

FindTestDataFile ==
    /\ at = "search"
    /\ IF path_iter = testdata THEN at' = "found" /\ UNCHANGED <<path_iter, failed>>
       ELSE IF HasParentPath(path_iter)
            THEN path_iter' = ParentPath(path_iter) /\ UNCHANGED <<at, failed>>
            ELSE at' = "tests" /\ failed' = TRUE /\ UNCHANGED path_iter
    /\ UNCHANGED <<memory, test, step, left, runs, dump, disk, history, testdata>>

\* The rest of SetUp reads the test data and writes the partitioned copy; the rest of
\* DoPut uploads them.
UseTestData(ok) ==
    /\ at = "found"
    /\ IF ~ok THEN FailTest
       ELSE /\ at' = IF test = "DatasetRead" THEN "start" ELSE "end"
            /\ UNCHANGED <<test, step, path_iter, failed>>
    /\ UNCHANGED <<memory, left, runs, dump, disk, history, testdata>>

Searches == test = "PutGetDelete" /\ step = DoPut

StartRecipe ==
    /\ at = "start"
    /\ IF current_recipe # None THEN failed' = TRUE /\ UNCHANGED <<current_recipe, rout>>
       ELSE current_recipe' = <<test, step>> /\ rout' = {} /\ UNCHANGED failed
    /\ at' = "body"
    /\ UNCHANGED <<recorded, test, step, path_iter, left, runs, dump, disk, history, testdata>>

\* The recipe itself prints; it may return an error, which leaves the recipe open.
Body(ok) ==
    /\ at = "body"
    /\ rout' = rout \cup {<<test, step>>}
    /\ IF ~ok THEN FailTest
       ELSE /\ at' = IF Searches THEN "search" ELSE "end"
            /\ path_iter' = Depth
            /\ UNCHANGED <<test, step, failed>>
    /\ UNCHANGED <<recorded, current_recipe, left, runs, dump, disk, history, testdata>>

\* After the last recipe DatasetRead dumps what was recorded so far, by any test.
EndRecipe ==
    /\ at = "end"
    /\ IF current_recipe # <<test, step>>
       THEN failed' = TRUE /\ UNCHANGED <<recorded, current_recipe>>
       ELSE /\ recorded' = MergeRecipeTables(recorded,
                 [n \in {<<test, step>>} |-> [run |-> runs, own |-> rout = {n}]])
            /\ current_recipe' = None
            /\ UNCHANGED failed
    /\ IF step < Length[test] THEN at' = "start" /\ step' = step + 1 /\ UNCHANGED dump
       ELSE IF test = "DatasetRead"
            THEN /\ at' = "load" /\ dump' = [NoDump EXCEPT !.file = "TEST_DatasetRead.txt"]
                 /\ UNCHANGED step
            ELSE at' = "tests" /\ UNCHANGED <<step, dump>>
    /\ UNCHANGED <<rout, test, path_iter, left, runs, disk, history, testdata>>

\* A variant with a bug: the recipes are dumped although a test has failed.
EndTestsAlways ==
    /\ at = "tests"
    /\ IF HasRecipeOutput
       THEN at' = "load" /\ dump' = [NoDump EXCEPT !.file = "recipes_out.arrow"]
       ELSE at' = "exit" /\ UNCHANGED dump
    /\ UNCHANGED <<memory, test, step, path_iter, control, disk, history, testdata>>

\* RUN_ALL_TESTS() returns.
EndTests ==
    /\ at = "tests"
    /\ IF ~failed /\ HasRecipeOutput
       THEN at' = "load" /\ dump' = [NoDump EXCEPT !.file = "recipes_out.arrow"]
       ELSE at' = "exit" /\ UNCHANGED dump
    /\ UNCHANGED <<memory, test, step, path_iter, control, disk, history, testdata>>

-----------------------------------------------------------------------------
(* DumpRecipeOutput(dump.file).                                            *)

\* An error is an ASSERT_OK that fails in the test, or an exit code of -1.
EndDump(ok) ==
    /\ at' = IF dump.file = "recipes_out.arrow" THEN "exit" ELSE "tests"
    /\ failed' = (failed \/ ~ok)
    /\ dump' = NoDump

\* CreateRecipeOutputTable empties the builders before the old file is read. A file
\* that is there may fail to open too: for want of a right, or of a file descriptor.
Load(opens) ==
    /\ at = "load"
    /\ opens => disk[dump.file].kind # "missing"
    /\ recorded' = MakeEmptyRecipesTable
    /\ IF opens /\ ~Readable(dump.file) THEN EndDump(FALSE)
       ELSE /\ dump' = [file |-> dump.file, afresh |-> ~opens,
                        rows |-> MergeRecipeTables(
                          LoadExistingRecipeOutputTable(dump.file, opens), recorded)]
            /\ at' = "open"
            /\ UNCHANGED failed
    /\ UNCHANGED <<current_recipe, rout, test, step, path_iter, left, runs, disk, history,
                   testdata>>

Writing == at \in {"schema", "rows", "rest", "close"}
BeingWritten(f) == Writing /\ dump.file = f

\* OpenOutputStream truncates the file; then come the schema, the rows in more than
\* one write, and the end of the stream, without which it can be read as well.
Put(from, to, content) ==
    /\ at = from /\ at' = to
    /\ disk' = [disk EXCEPT ![dump.file] = content]
    /\ UNCHANGED <<memory, test, step, path_iter, control, dump, ran, testdata>>

Rows(f) == IF disk[f].kind = "table" THEN disk[f].rows ELSE MakeEmptyRecipesTable
OfThisRun(rows) == {n \in DOMAIN rows : rows[n].run = runs}

OpenOutputStream ==
    /\ Put("open", "schema", Torn)
    /\ IF dump.afresh
       THEN /\ dumped' = [dumped EXCEPT ![dump.file] = MakeEmptyRecipesTable]
            /\ hurt' = [hurt EXCEPT ![dump.file] = FALSE]
            /\ lost' = lost \cup OfThisRun(Rows(dump.file))
       ELSE UNCHANGED <<dumped, hurt, lost>>

WriteSchema ==
    /\ Put("schema", IF DOMAIN dump.rows = {} THEN "close" ELSE "rows",
           Table(MakeEmptyRecipesTable))
    /\ UNCHANGED <<dumped, hurt, lost>>

WriteTable ==
    /\ Put("rows", "rest", Torn) \/ Put("rest", "close", Table(dump.rows))
    /\ UNCHANGED <<dumped, hurt, lost>>

Close ==
    /\ at = "close"
    /\ dumped' = [dumped EXCEPT ![dump.file] = MergeRecipeTables(@, dump.rows)]
    /\ lost' = lost \ OfThisRun(dump.rows)
    /\ EndDump(TRUE)
    /\ UNCHANGED <<memory, test, step, path_iter, left, runs, disk, hurt, ran, testdata>>

Damage == hurt' = [f \in Files |-> hurt[f] \/ BeingWritten(f)]

\* The file cannot be opened, or a write fails.
FailDump ==
    /\ at = "open" \/ Writing
    /\ EndDump(FALSE) /\ Damage
    /\ UNCHANGED <<memory, test, step, path_iter, left, runs, disk, dumped, ran, lost, testdata>>

Crash ==
    /\ at \notin {"off", "exit"}
    /\ at' = "off" /\ dump' = NoDump /\ Damage
    /\ UNCHANGED <<memory, test, step, path_iter, control, disk, dumped, ran, lost, testdata>>

Program ==
    \/ FindTestDataFile \/ StartRecipe \/ EndRecipe \/ EndTests
    \/ \E ok \in BOOLEAN : UseTestData(ok) \/ Body(ok) \/ Load(ok)
    \/ OpenOutputStream \/ WriteSchema \/ WriteTable \/ Close \/ FailDump

Next == StartMain \/ (\E t \in Tests : RunTest(t)) \/ Program \/ Crash

Spec == Init /\ [][Next]_vars

\* The program is a single thread, which is scheduled.
FairSpec == Spec /\ WF_vars(Program)

-----------------------------------------------------------------------------
(* Properties.                                                             *)

TypeOK ==
    /\ DOMAIN recorded \subseteq Recipes
    /\ current_recipe \in Recipes \cup {None} /\ rout \subseteq Recipes
    /\ path_iter \in 0..Depth /\ testdata \in -1..Depth
    /\ test \in Tests \cup {"none"} /\ step \in 0..DatasetRecipes + FlightRecipes
    /\ left \in 0..MaxTests /\ failed \in BOOLEAN /\ runs \in 0..MaxRuns
    /\ dump.file \in Files \cup {"none"}
    /\ \A f \in Files : disk[f].kind \in {"missing", "torn", "table"}

\* main.cc:11-26, datasets.cc:177: when the program exits with 0, every recipe of
\* every test it has run is in one of the files with the output of this run, however
\* the tests were ordered or repeated and whatever earlier runs have left. The one way
\* to lose a recipe on an exit code of 0 is common.cc:92-94: it was in a file that a later
\* dump of the same run could not open, took for empty and wrote over.
PassMeansRecorded ==
    at = "exit" /\ ~failed =>
      \A t \in ran : \A i \in 1..Length[t] :
        \/ <<t, i>> \in lost
        \/ \E f \in Files : <<t, i>> \in OfThisRun(Rows(f))

\* common.cc:33-57, main.cc:12: a recipe left open makes the next one fail to start, so
\* that outputs run together.  Such an output never gets into recipes_out.arrow.
OutputsAreOwn ==
    \A n \in DOMAIN Rows("recipes_out.arrow") : Rows("recipes_out.arrow")[n].own

\* common.cc:130-174: a file holds the newest output of every recipe dumped to it since a
\* dump last could not open it and started it afresh, unless one was cut short. Even
\* then nothing in it is older than what was dumped.
DumpsAreKept ==
    \A f \in Files :
      /\ ~hurt[f] /\ ~BeingWritten(f) => Rows(f) = dumped[f]
      /\ \A n \in DOMAIN Rows(f) \cap DOMAIN dumped[f] : Rows(f)[n].run >= dumped[f][n].run

\* common.cc:86-97, 161: what a dump that was cut short has left of a file is replaced only
\* by a dump that cannot open the file at all; one that opens it and cannot read it fails
\* before it truncates anything.
UnreadableStays ==
    [][\A f \in Files : disk[f] = Torn /\ ~BeingWritten(f) =>
         \/ disk'[f] = Torn /\ ~BeingWritten(f)'
         \/ dump.file = f /\ dump.afresh]_vars

\* common.cc:176-188, main.cc:9: where testdata can be found, every run ends.
RunEnds == testdata # -1 => []<>(at \in {"off", "exit"})
=============================================================================
