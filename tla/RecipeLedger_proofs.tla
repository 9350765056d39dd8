------------------------- MODULE RecipeLedger_proofs -------------------------
(***************************************************************************)
(* Theorems about the recipe ledger, for any number of recipes, tests and  *)
(* runs: no output of a recipe that was left open gets into                *)
(* recipes_out.arrow, only a dump that cannot open a file replaces one it  *)
(* cannot read, what was dumped since a file was started afresh is kept,   *)
(* and a run that passes has recorded every recipe it has not lost so.     *)
(***************************************************************************)
EXTENDS RecipeLedger, TLAPS

Out == "recipes_out.arrow"
Dumping == at = "open" \/ Writing
Fresh == at = "open" /\ dump.afresh
Own(rows) == \A n \in DOMAIN rows : rows[n].own

\* Where the program is, and the file a dump is about.
PlaceInv ==
    /\ at \in {"off", "exit", "tests", "search", "found", "start", "body", "end", "load",
               "open", "schema", "rows", "rest", "close"}
    /\ dump = [file |-> dump.file, rows |-> dump.rows, afresh |-> dump.afresh]
    /\ dump.afresh \in BOOLEAN
    /\ at = "load" \/ Dumping => dump.file \in Files

\* The disk has both files; the one about to be opened was just read, unless it is to be
\* started afresh.
DiskInv ==
    /\ disk = [f \in Files |-> disk[f]]
    /\ at = "open" /\ ~dump.afresh => disk[dump.file].kind # "torn"

\* As long as no test has failed the stream holds the output of the one recipe that runs.
StreamInv ==
    /\ failed \in BOOLEAN
    /\ ~failed =>
         /\ Own(recorded)
         /\ at = "body" => rout = {}
         /\ at \in {"search", "found"} /\ test # "DatasetRead" => rout = {<<test, step>>}
         /\ at = "end" => rout = {<<test, step>>}

\* recipes_out.arrow is dumped only when no test has failed.
OutInv ==
    /\ at = "load" /\ dump.file = Out => ~failed
    /\ Dumping /\ dump.file = Out => Own(dump.rows)
    /\ Own(Rows(Out))

\* Tables map recipes to outputs, none of which is from a run to come.
IsTable(rows) ==
    /\ rows = [n \in DOMAIN rows |-> rows[n]]
    /\ \A n \in DOMAIN rows : rows[n].run \in Nat /\ rows[n].run <= runs

RecordedInv == IsTable(recorded) /\ \A n \in DOMAIN recorded : recorded[n].run = runs

TableInv ==
    /\ runs \in Nat
    /\ RecordedInv
    /\ dumped = [f \in Files |-> dumped[f]] /\ hurt = [f \in Files |-> hurt[f]]
    /\ \A f \in Files : IsTable(Rows(f)) /\ IsTable(dumped[f])
    /\ Dumping => IsTable(dump.rows) /\ DOMAIN recorded = {}

\* A dump starts from all that the file holds unless it starts it afresh, and writes
\* nothing older.
NewerInv ==
    /\ DumpsAreKept
    /\ Dumping =>
         /\ ~hurt[dump.file] /\ ~Fresh => DOMAIN dumped[dump.file] \subseteq DOMAIN dump.rows
         /\ \A n \in DOMAIN dump.rows \cap DOMAIN dumped[dump.file] :
              dump.rows[n].run >= dumped[dump.file][n].run
    /\ at = "close" => Rows(dump.file) = dump.rows

\* Where the output of a recipe of this run is: in memory, in a file that no dump is
\* replacing, or in the table of the dump; or it is lost.
Saved(n) ==
    \/ n \in DOMAIN recorded \cup lost
    \/ \E f \in Files : /\ ~(Dumping /\ ~Fresh /\ dump.file = f)
                        /\ n \in DOMAIN Rows(f) /\ Rows(f)[n].run = runs
    \/ Dumping /\ n \in DOMAIN dump.rows /\ dump.rows[n].run = runs

InTest == at \in {"search", "found", "start", "body", "end"}

\* As long as no test has failed every recipe has been saved but those of the test that
\* runs which are still to come.
SavedInv ==
    /\ ran \subseteq Tests
    /\ InTest => test \in Tests /\ step \in 1..Length[test]
    /\ at = "exit" /\ ~failed => DOMAIN recorded = {}
    /\ ~failed /\ at # "off" =>
         \A t \in ran : \A i \in 1..Length[t] :
           Saved(<<t, i>>) \/ (InTest /\ t = test /\ i >= step)

IInv ==
    /\ PlaceInv /\ DiskInv /\ StreamInv /\ OutInv
    /\ TypeOK /\ TableInv /\ NewerInv /\ SavedInv

-----------------------------------------------------------------------------

\* A merge holds what one of the tables holds.
LEMMA MergeOwn ==
    ASSUME NEW old, NEW new, Own(old), Own(new)
    PROVE  Own(MergeRecipeTables(old, new))
BY DEF Own, MergeRecipeTables

\* So does the table without recipes.
LEMMA EmptyOwn == Own(MakeEmptyRecipesTable)
BY DEF Own, MakeEmptyRecipesTable

LEMMA EmptyTable ==
    /\ IsTable(MakeEmptyRecipesTable) /\ DOMAIN MakeEmptyRecipesTable = {}
BY DEF IsTable, MakeEmptyRecipesTable

\* Before the first run nothing is recorded and no file exists.
LEMMA InitIInv == Init => IInv
<1> SUFFICES ASSUME Init PROVE IInv OBVIOUS
<1>1. Out \in Files BY DEF Out, Files
<1>2. PlaceInv BY DEF Init, PlaceInv, Dumping, Writing, NoDump
<1>3. DiskInv BY DEF Init, DiskInv
<1>4. StreamInv BY EmptyOwn DEF Init, StreamInv
<1>5. OutInv
  <2>1. disk[Out].kind = "missing" BY <1>1 DEF Init, Missing
  <2> QED BY <2>1 DEF Init, OutInv, Dumping, Writing, Own, Rows, MakeEmptyRecipesTable
<1>6. TypeOK
  <2>1. /\ 0 \in 0..Depth /\ Depth \in 0..Depth /\ 0 \in 0..MaxTests /\ 0 \in 0..MaxRuns
        /\ 0 \in 0..DatasetRecipes + FlightRecipes
    BY RecipeAssumption
  <2>2. \A f \in Files : disk[f].kind = "missing" BY DEF Init, Missing
  <2> QED BY <2>1, <2>2, EmptyTable DEF Init, TypeOK, NoDump
<1>7. \A f \in Files : Rows(f) = MakeEmptyRecipesTable BY DEF Init, Rows, Missing
<1>8. TableInv
  BY <1>7, EmptyTable
     DEF Init, TableInv, RecordedInv, Dumping, Writing
<1>9. NewerInv
  BY <1>7 DEF Init, NewerInv, DumpsAreKept, Dumping, Writing, MakeEmptyRecipesTable
<1>10. SavedInv BY DEF Init, SavedInv, InTest
<1> QED BY <1>2, <1>3, <1>4, <1>5, <1>6, <1>8, <1>9, <1>10 DEF IInv

\* A dump that can read its file, or cannot open it, goes on.
LEMMA LoadCase ==
    ASSUME NEW opens \in BOOLEAN, Load(opens), ~(opens /\ ~Readable(dump.file))
    PROVE  /\ at = "load" /\ at' = "open" /\ failed' = failed /\ disk' = disk
           /\ dump' = [file |-> dump.file, afresh |-> ~opens, rows |-> dump'.rows]
           /\ dump'.file = dump.file /\ dump'.afresh = ~opens
           /\ dump'.rows = MergeRecipeTables(
                             LoadExistingRecipeOutputTable(dump.file, opens), recorded)
<1>1. /\ at = "load" /\ at' = "open" /\ failed' = failed /\ disk' = disk
      /\ dump' = [file |-> dump.file, afresh |-> ~opens,
                  rows |-> MergeRecipeTables(
                    LoadExistingRecipeOutputTable(dump.file, opens), recorded)]
  BY Zenon DEF Load
<1>2. PICK rows : rows = MergeRecipeTables(
                           LoadExistingRecipeOutputTable(dump.file, opens), recorded)
  OBVIOUS
<1>3. dump' = [file |-> dump.file, afresh |-> ~opens, rows |-> rows] BY <1>1, <1>2
<1> QED BY <1>1, <1>2, <1>3

\* Every step goes to one of the places, with a file where one is needed.
LEMMA PlaceStep == IInv /\ [Next]_vars => PlaceInv'
<1> SUFFICES ASSUME IInv, [Next]_vars PROVE PlaceInv' OBVIOUS
<1> USE DEF IInv, PlaceInv, Dumping, Writing, NoDump, Files
<1>1. CASE UNCHANGED vars BY <1>1 DEF vars, place
<1>2. CASE StartMain BY <1>2 DEF StartMain
<1>3. ASSUME NEW t \in Tests, RunTest(t) PROVE PlaceInv' BY <1>3 DEF RunTest
<1>4. CASE FindTestDataFile BY <1>4 DEF FindTestDataFile
<1>5. ASSUME NEW ok \in BOOLEAN, UseTestData(ok) PROVE PlaceInv'
  BY <1>5 DEF UseTestData, FailTest
<1>6. CASE StartRecipe BY <1>6 DEF StartRecipe
<1>7. ASSUME NEW ok \in BOOLEAN, Body(ok) PROVE PlaceInv' BY <1>7 DEF Body, FailTest
<1>8. CASE EndRecipe BY <1>8 DEF EndRecipe
<1>9. CASE EndTests BY <1>9 DEF EndTests
<1>10. ASSUME NEW opens \in BOOLEAN, Load(opens) PROVE PlaceInv'
  <2>1. CASE ~(opens /\ ~Readable(dump.file))
    <3>1. /\ at = "load" /\ at' = "open"
          /\ dump' = [file |-> dump.file, rows |-> dump'.rows, afresh |-> ~opens]
      BY <1>10, <2>1, LoadCase
    <3>2. PICK rows : rows = dump'.rows OBVIOUS
    <3>3. /\ dump' = [file |-> dump.file, rows |-> rows, afresh |-> ~opens]
          /\ (~opens) \in BOOLEAN /\ dump.file \in Files
      BY <3>1, <3>2
    <3>4. /\ dump'.file = dump.file /\ dump'.rows = rows /\ dump'.afresh = ~opens
          /\ dump' = [file |-> dump'.file, rows |-> dump'.rows, afresh |-> dump'.afresh]
      BY <3>3
    <3> QED BY <3>1, <3>3, <3>4
  <2>2. CASE opens /\ ~Readable(dump.file)
    <3>1. at' \in {"exit", "tests"} /\ dump' = NoDump
      BY <1>10, <2>2 DEF Load, EndDump
    <3> QED BY <3>1
  <2> QED BY <2>1, <2>2
<1>11. CASE OpenOutputStream BY <1>11 DEF OpenOutputStream, Put
<1>12. CASE WriteSchema BY <1>12 DEF WriteSchema, Put
<1>13. CASE WriteTable BY <1>13 DEF WriteTable, Put
<1>14. CASE Close BY <1>14 DEF Close, EndDump
<1>15. CASE FailDump BY <1>15 DEF FailDump, EndDump
<1>16. CASE Crash BY <1>16 DEF Crash
<1> QED BY <1>1, <1>2, <1>3, <1>4, <1>5, <1>6, <1>7, <1>8, <1>9, <1>10, <1>11, <1>12,
           <1>13, <1>14, <1>15, <1>16 DEF Next, Program

\* A file is opened only after it has been read, and nothing is written in between.
LEMMA DiskStep == IInv /\ [Next]_vars => DiskInv'
<1> SUFFICES ASSUME IInv, [Next]_vars PROVE DiskInv' OBVIOUS
<1> USE DEF IInv, PlaceInv, DiskInv, Dumping, Writing, NoDump
<1>1. CASE UNCHANGED vars BY <1>1 DEF vars, place
<1>2. CASE StartMain BY <1>2 DEF StartMain
<1>3. ASSUME NEW t \in Tests, RunTest(t) PROVE DiskInv' BY <1>3 DEF RunTest
<1>4. CASE FindTestDataFile BY <1>4 DEF FindTestDataFile
<1>5. ASSUME NEW ok \in BOOLEAN, UseTestData(ok) PROVE DiskInv'
  BY <1>5 DEF UseTestData, FailTest
<1>6. CASE StartRecipe BY <1>6 DEF StartRecipe
<1>7. ASSUME NEW ok \in BOOLEAN, Body(ok) PROVE DiskInv' BY <1>7 DEF Body, FailTest
<1>8. CASE EndRecipe BY <1>8 DEF EndRecipe
<1>9. CASE EndTests BY <1>9 DEF EndTests
<1>10. ASSUME NEW opens \in BOOLEAN, Load(opens) PROVE DiskInv'
  <2>1. at = "load" /\ disk' = disk BY <1>10 DEF Load
  <2>2. CASE ~(opens /\ ~Readable(dump.file))
    <3>1. dump'.file = dump.file /\ dump'.afresh = ~opens BY <1>10, <2>2, LoadCase
    <3>2. ~dump'.afresh => opens BY <3>1
    <3>3. opens => disk[dump.file].kind # "torn" BY <2>2 DEF Readable
    <3> QED BY <2>1, <3>1, <3>2, <3>3
  <2>3. CASE opens /\ ~Readable(dump.file)
    <3>1. at' # "open" BY <1>10, <2>3 DEF Load, EndDump
    <3> QED BY <2>1, <3>1
  <2> QED BY <2>2, <2>3
<1>11. CASE OpenOutputStream BY <1>11 DEF OpenOutputStream, Put
<1>12. CASE WriteSchema BY <1>12 DEF WriteSchema, Put
<1>13. CASE WriteTable BY <1>13 DEF WriteTable, Put
<1>14. CASE Close BY <1>14 DEF Close, EndDump
<1>15. CASE FailDump BY <1>15 DEF FailDump, EndDump
<1>16. CASE Crash BY <1>16 DEF Crash
<1> QED BY <1>1, <1>2, <1>3, <1>4, <1>5, <1>6, <1>7, <1>8, <1>9, <1>10, <1>11, <1>12,
           <1>13, <1>14, <1>15, <1>16 DEF Next, Program

\* A recipe that follows one left open fails to start, and the test with it.
LEMMA StreamStep == IInv /\ [Next]_vars => StreamInv'
<1> SUFFICES ASSUME IInv, [Next]_vars PROVE StreamInv' OBVIOUS
<1> USE DEF IInv, StreamInv, memory, place, control
<1>1. CASE UNCHANGED vars BY <1>1 DEF vars
<1>2. CASE StartMain BY <1>2, EmptyOwn DEF StartMain
<1>3. ASSUME NEW t \in Tests, RunTest(t) PROVE StreamInv' BY <1>3 DEF RunTest
<1>4. CASE FindTestDataFile BY <1>4 DEF FindTestDataFile
<1>5. ASSUME NEW ok \in BOOLEAN, UseTestData(ok) PROVE StreamInv'
  BY <1>5 DEF UseTestData, FailTest
<1>6. CASE StartRecipe BY <1>6 DEF StartRecipe
<1>7. ASSUME NEW ok \in BOOLEAN, Body(ok) PROVE StreamInv' BY <1>7 DEF Body, FailTest
<1>8. CASE EndRecipe
  <2> DEFINE name == <<test, step>>
             output == [n \in {name} |-> [run |-> runs, own |-> rout = {n}]]
  <2>1. at = "end" /\ at' \in {"start", "load", "tests"} BY <1>8 DEF EndRecipe
  <2>2. CASE current_recipe # name BY <1>8, <2>1, <2>2 DEF EndRecipe
  <2>3. CASE current_recipe = name
    <3>1. recorded' = MergeRecipeTables(recorded, output) /\ failed' = failed
      BY <1>8, <2>3 DEF EndRecipe
    <3>2. ~failed => Own(output) BY <2>1 DEF Own
    <3>3. ~failed => Own(recorded') BY <3>1, <3>2, MergeOwn
    <3> QED BY <2>1, <3>1, <3>3
  <2> QED BY <2>2, <2>3
<1>9. CASE EndTests BY <1>9 DEF EndTests
<1>10. ASSUME NEW opens \in BOOLEAN, Load(opens) PROVE StreamInv'
  BY <1>10, EmptyOwn DEF Load, EndDump
<1>11. CASE OpenOutputStream BY <1>11 DEF OpenOutputStream, Put
<1>12. CASE WriteSchema BY <1>12 DEF WriteSchema, Put
<1>13. CASE WriteTable BY <1>13 DEF WriteTable, Put
<1>14. CASE Close BY <1>14 DEF Close, EndDump
<1>15. CASE FailDump BY <1>15 DEF FailDump, EndDump
<1>16. CASE Crash BY <1>16 DEF Crash
<1> QED BY <1>1, <1>2, <1>3, <1>4, <1>5, <1>6, <1>7, <1>8, <1>9, <1>10, <1>11, <1>12,
           <1>13, <1>14, <1>15, <1>16 DEF Next, Program

\* What is written to recipes_out.arrow is what its dump holds.
LEMMA PutOwn ==
    ASSUME IInv, Dumping, NEW content,
           disk' = [disk EXCEPT ![dump.file] = content],
           dump.file = Out => content.kind # "table" \/ Own(content.rows)
    PROVE  Own(Rows(Out))'
<1>1. disk = [f \in Files |-> disk[f]] /\ Out \in Files BY DEF IInv, DiskInv, Out, Files
<1>2. CASE dump.file # Out
  <2>1. disk'[Out] = disk[Out] BY <1>1, <1>2
  <2>2. Own(Rows(Out)) BY DEF IInv, OutInv
  <2> QED BY <2>1, <2>2 DEF Rows
<1>3. CASE dump.file = Out
  <2>1. disk'[Out] = content BY <1>1, <1>3
  <2> QED BY <1>3, <2>1, EmptyOwn DEF Rows
<1> QED BY <1>2, <1>3

\* recipes_out.arrow is dumped by EndTests, which looks at the result of the tests.
LEMMA OutStep == IInv /\ [Next]_vars => OutInv'
<1> SUFFICES ASSUME IInv, [Next]_vars PROVE OutInv' OBVIOUS
<1> USE DEF IInv, OutInv, Dumping, Writing, Rows, Out
<1>1. CASE UNCHANGED vars BY <1>1 DEF vars, place, control
<1>2. CASE StartMain BY <1>2 DEF StartMain
<1>3. ASSUME NEW t \in Tests, RunTest(t) PROVE OutInv' BY <1>3 DEF RunTest
<1>4. CASE FindTestDataFile BY <1>4 DEF FindTestDataFile
<1>5. ASSUME NEW ok \in BOOLEAN, UseTestData(ok) PROVE OutInv'
  BY <1>5 DEF UseTestData, FailTest
<1>6. CASE StartRecipe BY <1>6 DEF StartRecipe
<1>7. ASSUME NEW ok \in BOOLEAN, Body(ok) PROVE OutInv' BY <1>7 DEF Body, FailTest
<1>8. CASE EndRecipe BY <1>8 DEF EndRecipe, NoDump
<1>9. CASE EndTests BY <1>9 DEF EndTests, control
<1>10. ASSUME NEW opens \in BOOLEAN, Load(opens) PROVE OutInv'
  <2>1. CASE ~(opens /\ ~Readable(dump.file))
    <3>1. at' = "open" /\ disk' = disk /\ dump'.file = dump.file
      BY <1>10, <2>1, LoadCase
    <3>2. dump'.rows
            = MergeRecipeTables(LoadExistingRecipeOutputTable(dump.file, opens), recorded)
      BY <1>10, <2>1, LoadCase
    <3>3. dump.file = Out => Own(recorded) BY <1>10 DEF Load, StreamInv
    <3>4. dump.file = Out => Own(LoadExistingRecipeOutputTable(dump.file, opens))
      BY EmptyOwn DEF LoadExistingRecipeOutputTable
    <3>5. dump'.file = Out => Own(dump'.rows) BY <3>1, <3>2, <3>3, <3>4, MergeOwn
    <3> QED BY <3>1, <3>5
  <2>2. CASE opens /\ ~Readable(dump.file) BY <1>10, <2>2 DEF Load, EndDump
  <2> QED BY <2>1, <2>2
<1>11. CASE OpenOutputStream
  <2>1. Own(Rows(Out))' BY <1>11, PutOwn DEF OpenOutputStream, Put, Torn
  <2> QED BY <1>11, <2>1 DEF OpenOutputStream, Put
<1>12. CASE WriteSchema
  <2>1. Own(Rows(Out))' BY <1>12, PutOwn, EmptyOwn DEF WriteSchema, Put, Table
  <2> QED BY <1>12, <2>1 DEF WriteSchema, Put
<1>13. CASE WriteTable
  <2>1. Own(Rows(Out))' BY <1>13, PutOwn DEF WriteTable, Put, Table, Torn
  <2> QED BY <1>13, <2>1 DEF WriteTable, Put
<1>14. CASE Close BY <1>14 DEF Close, EndDump
<1>15. CASE FailDump BY <1>15 DEF FailDump, EndDump
<1>16. CASE Crash BY <1>16 DEF Crash
<1> QED BY <1>1, <1>2, <1>3, <1>4, <1>5, <1>6, <1>7, <1>8, <1>9, <1>10, <1>11, <1>12,
           <1>13, <1>14, <1>15, <1>16 DEF Next, Program

-----------------------------------------------------------------------------
(* What is dumped is kept, and what ran is saved.                          *)

\* Merging keeps the newest outputs, and the recipes of both tables.
Merges(m, old, new) ==
    /\ m = [n \in DOMAIN m |-> m[n]]
    /\ DOMAIN m = DOMAIN old \cup DOMAIN new
    /\ \A n \in DOMAIN new : m[n] = new[n]
    /\ \A n \in DOMAIN old \ DOMAIN new : m[n] = old[n]

LEMMA MergeProps ==
    ASSUME NEW old, NEW new
    PROVE  Merges(MergeRecipeTables(old, new), old, new)
BY DEF Merges, MergeRecipeTables

LEMMA MergeTable ==
    ASSUME NEW old, NEW new, IsTable(old), IsTable(new)
    PROVE  IsTable(MergeRecipeTables(old, new))
<1>1. PICK m : m = MergeRecipeTables(old, new) OBVIOUS
<1>2. Merges(m, old, new) BY <1>1, MergeProps
<1>3. IsTable(m) BY <1>2 DEF IsTable, Merges
<1> QED BY <1>1, <1>3

\* Steps outside a dump that leave the files alone.
Quiet ==
    /\ UNCHANGED <<runs, disk, dumped, hurt, lost>>
    /\ ~Dumping /\ ~Dumping'

LEMMA QuietStep ==
    ASSUME TableInv, NewerInv, Quiet, RecordedInv'
    PROVE  TableInv' /\ NewerInv'
<1>1. \A f \in Files : Rows(f)' = Rows(f) BY DEF Quiet, Rows
<1>2. TableInv'
  <2>1. \A f \in Files : IsTable(Rows(f)') /\ IsTable(dumped'[f])
    BY <1>1 DEF TableInv, Quiet
  <2> QED BY <2>1 DEF TableInv, Quiet, IsTable
<1>3. NewerInv'
  <2>1. \A f \in Files : ~BeingWritten(f) /\ ~BeingWritten(f)'
    BY DEF Quiet, Dumping, BeingWritten
  <2>2. DumpsAreKept' BY <1>1, <2>1 DEF NewerInv, DumpsAreKept, Quiet
  <2>3. at' # "close" BY DEF Quiet, Dumping, Writing
  <2> QED BY <2>2, <2>3 DEF NewerInv, Quiet
<1> QED BY <1>2, <1>3

LEMMA QuietSaved ==
    ASSUME Quiet, DOMAIN recorded \subseteq DOMAIN recorded', NEW n, Saved(n)
    PROVE  Saved(n)'
<1>1. \A f \in Files : Rows(f)' = Rows(f) BY DEF Quiet, Rows
<1> QED BY <1>1 DEF Saved, Quiet

\* A write to the file that is dumped: a part of its table, or all of it.
Writes(content) ==
    /\ Dumping /\ ~Fresh /\ dump.file \in Files
    /\ disk' = [disk EXCEPT ![dump.file] = content]
    /\ at' \in {"schema", "rows", "rest", "close"}
    /\ UNCHANGED <<memory, failed, runs, dump, dumped, hurt, lost, ran>>
    /\ content.kind # "table" \/ content.rows \in {MakeEmptyRecipesTable, dump.rows}
    /\ at' = "close" => content.kind = "table" /\ content.rows = dump.rows

LEMMA WriteEffect ==
    ASSUME DiskInv, NEW content, Writes(content)
    PROVE  /\ \A f \in Files : f # dump.file => Rows(f)' = Rows(f)
           /\ Rows(dump.file)' \in {MakeEmptyRecipesTable, dump.rows}
           /\ at' = "close" => Rows(dump.file)' = dump.rows
           /\ dump' = dump /\ Dumping' /\ ~Fresh'
           /\ \A f \in Files : BeingWritten(f)' <=> f = dump.file
<1>1. /\ disk'[dump.file] = content
      /\ \A f \in Files : f # dump.file => disk'[f] = disk[f]
  BY DEF DiskInv, Writes
<1>2. dump' = dump /\ Dumping' /\ Writing' /\ ~Fresh' BY DEF Writes, Dumping, Writing, Fresh
<1>3. \A f \in Files : f # dump.file => Rows(f)' = Rows(f) BY <1>1 DEF Rows
<1>4. Rows(dump.file)' = IF content.kind = "table" THEN content.rows
                         ELSE MakeEmptyRecipesTable
  BY <1>1, <1>2 DEF Rows
<1> QED BY <1>2, <1>3, <1>4 DEF Writes, BeingWritten

LEMMA WriteStep ==
    ASSUME DiskInv, TableInv, NewerInv, NEW content, Writes(content)
    PROVE  TableInv' /\ NewerInv' /\ \A n : Saved(n) => Saved(n)'
<1>0. /\ UNCHANGED <<recorded, runs, dump, dumped, hurt, lost>>
      /\ Dumping /\ ~Fresh /\ dump.file \in Files
  BY DEF Writes, memory
<1>1. /\ \A f \in Files : f # dump.file => Rows(f)' = Rows(f)
      /\ Rows(dump.file)' \in {MakeEmptyRecipesTable, dump.rows}
      /\ at' = "close" => Rows(dump.file)' = dump.rows
      /\ dump' = dump /\ Dumping' /\ ~Fresh'
      /\ \A f \in Files : BeingWritten(f)' <=> f = dump.file
  BY WriteEffect
<1>2. PICK r : r = Rows(dump.file)' OBVIOUS
<1>3. TableInv'
  <2>1. IsTable(r) BY <1>0, <1>1, <1>2, EmptyTable DEF TableInv
  <2>2. \A f \in Files : IsTable(Rows(f)') BY <1>1, <1>2, <2>1 DEF TableInv
  <2> QED BY <1>0, <1>1, <2>2 DEF TableInv, RecordedInv, IsTable
<1>4. NewerInv'
  <2>1. ASSUME NEW f \in Files, ~hurt'[f], ~BeingWritten(f)' PROVE Rows(f)' = dumped'[f]
    <3>1. f # dump.file /\ ~BeingWritten(f) BY <1>1, <2>1 DEF BeingWritten
    <3> QED BY <1>0, <1>1, <2>1, <3>1 DEF NewerInv, DumpsAreKept
  <2>2. ASSUME NEW f \in Files, NEW n \in DOMAIN Rows(f)' \cap DOMAIN dumped'[f]
        PROVE  (Rows(f)')[n].run >= dumped'[f][n].run
    <3>1. CASE f # dump.file BY <1>0, <1>1, <2>2, <3>1 DEF NewerInv, DumpsAreKept
    <3>2. CASE f = dump.file
      <4>1. n \in DOMAIN dump.rows /\ Rows(f)' = dump.rows
        BY <1>1, <2>2, <3>2, EmptyTable
      <4> QED BY <1>0, <2>2, <3>2, <4>1 DEF NewerInv
    <3> QED BY <3>1, <3>2
  <2>3. DumpsAreKept' BY <2>1, <2>2 DEF DumpsAreKept
  <2> QED BY <1>0, <1>1, <2>3 DEF NewerInv
<1>5. ASSUME NEW n, Saved(n) PROVE Saved(n)'
  <2>1. CASE n \in DOMAIN recorded \cup lost BY <1>0, <2>1 DEF Saved
  <2>2. ASSUME NEW f \in Files, ~(Dumping /\ ~Fresh /\ dump.file = f),
               n \in DOMAIN Rows(f), Rows(f)[n].run = runs
        PROVE  Saved(n)'
    <3>1. f # dump.file BY <1>0, <2>2
    <3> QED BY <1>0, <1>1, <2>2, <3>1 DEF Saved
  <2>3. CASE n \in DOMAIN dump.rows /\ dump.rows[n].run = runs
    BY <1>0, <1>1, <2>3 DEF Saved
  <2> QED BY <1>5, <2>1, <2>2, <2>3 DEF Saved
<1> QED BY <1>3, <1>4, <1>5

\* What a step leaves recorded.
LEMMA RecordedStep ==
    ASSUME RecordedInv, runs \in Nat,
           \/ recorded' = recorded /\ runs' = runs
           \/ recorded' = MakeEmptyRecipesTable
    PROVE  RecordedInv'
BY EmptyTable DEF RecordedInv, IsTable

\* The table of a dump is what the file holds with what was recorded.
LEMMA LoadStep ==
    ASSUME IInv, NEW opens \in BOOLEAN, Load(opens)
    PROVE  /\ TableInv' /\ NewerInv' /\ DOMAIN recorded' = {}
           /\ ~failed' => failed' = failed /\ \A n : Saved(n) => Saved(n)'
<1> USE DEF IInv
<1>0. /\ at = "load" /\ ~Dumping /\ UNCHANGED <<runs, disk, dumped, hurt, lost>>
      /\ recorded' = MakeEmptyRecipesTable /\ (opens => disk[dump.file].kind # "missing")
  BY DEF Load, history, Dumping, Writing
<1>1. RecordedInv' BY <1>0, RecordedStep DEF TableInv
<1>2. dump.file \in Files BY <1>0 DEF PlaceInv
<1>3. \A f \in Files : Rows(f)' = Rows(f) BY <1>0 DEF Rows
<1>4. CASE opens /\ ~Readable(dump.file)
  <2>1. failed' = TRUE /\ at' \in {"exit", "tests"} BY <1>4 DEF Load, EndDump
  <2>2. Quiet BY <1>0, <2>1 DEF Quiet, Dumping, Writing
  <2> QED BY <1>0, <1>1, <2>1, <2>2, QuietStep, EmptyTable
<1>5. CASE ~(opens /\ ~Readable(dump.file))
  <2> DEFINE old == LoadExistingRecipeOutputTable(dump.file, opens)
  <2>1. /\ dump'.file = dump.file /\ dump'.rows = MergeRecipeTables(old, recorded)
        /\ dump'.afresh = ~opens /\ at' = "open" /\ failed' = failed
    BY <1>5, LoadCase
  <2>2. old = IF opens THEN Rows(dump.file) ELSE MakeEmptyRecipesTable
    BY DEF LoadExistingRecipeOutputTable, Rows
  <2>3. IsTable(old) /\ IsTable(recorded) BY <1>2, <2>2, EmptyTable DEF TableInv, RecordedInv
  <2>e. ~opens => DOMAIN old = {} BY <2>2, EmptyTable
  <2> HIDE DEF old
  <2>4. PICK m : m = dump'.rows OBVIOUS
  <2>r. Merges(m, old, recorded) BY <2>1, <2>4, MergeProps
  <2>5. /\ IsTable(m) /\ DOMAIN m = DOMAIN old \cup DOMAIN recorded
        /\ \A n \in DOMAIN recorded : m[n] = recorded[n]
        /\ \A n \in DOMAIN old \ DOMAIN recorded : m[n] = old[n]
    BY <2>1, <2>3, <2>4, <2>r, MergeTable DEF Merges
  <2>6. Dumping' /\ ~Writing' /\ at' # "close" /\ Fresh' = ~opens
    BY <2>1 DEF Dumping, Writing, Fresh
  <2>7. TableInv'
    <3>1. IsTable(m)' BY <1>0, <2>4, <2>5 DEF IsTable
    <3>2. \A f \in Files : IsTable(Rows(f)') /\ IsTable(dumped'[f])
      BY <1>0, <1>3 DEF TableInv
    <3>3. DOMAIN recorded' = {} BY <1>0, EmptyTable
    <3> QED BY <1>0, <1>1, <2>4, <3>1, <3>2, <3>3 DEF TableInv, IsTable
  <2>8. NewerInv'
    <3> PICK f : f = dump.file OBVIOUS
    <3>1. f \in Files /\ dump'.file = f BY <1>2, <2>1
    <3>2. DumpsAreKept'
      BY <1>0, <1>3, <2>6 DEF NewerInv, DumpsAreKept, BeingWritten, Dumping
    <3>3. ~hurt'[f] /\ opens => DOMAIN dumped'[f] \subseteq DOMAIN m
      <4>1. ~hurt[f] => Rows(f) = dumped[f]
        BY <1>0, <3>1 DEF NewerInv, DumpsAreKept, BeingWritten, Dumping
      <4> QED BY <1>0, <2>2, <2>5, <4>1
    <3>4. ASSUME NEW n \in DOMAIN m \cap DOMAIN dumped'[f]
          PROVE  m[n].run >= dumped'[f][n].run
      <4>1. CASE n \in DOMAIN recorded
        <5>1. m[n].run = runs BY <2>5, <4>1 DEF TableInv, RecordedInv
        <5>2. dumped[f][n].run \in Nat /\ dumped[f][n].run <= runs /\ runs \in Nat
          BY <1>0, <3>1, <3>4 DEF TableInv, IsTable
        <5> QED BY <1>0, <5>1, <5>2
      <4>2. CASE n \notin DOMAIN recorded
        <5>1. n \in DOMAIN Rows(f) /\ m[n] = Rows(f)[n] BY <2>2, <2>5, <2>e, <3>4, <4>2
        <5> QED BY <1>0, <3>1, <3>4, <5>1 DEF NewerInv, DumpsAreKept
      <4> QED BY <4>1, <4>2
    <3> QED BY <2>4, <2>6, <3>1, <3>2, <3>3, <3>4 DEF NewerInv
  <2>9. ASSUME NEW n, Saved(n) PROVE Saved(n)'
    <3>1. CASE n \in DOMAIN recorded
      <4>1. n \in DOMAIN m /\ m[n].run = runs
        BY <2>5, <3>1 DEF TableInv, RecordedInv
      <4> QED BY <1>0, <2>4, <2>6, <4>1 DEF Saved
    <3>2. ASSUME NEW f \in Files, n \in DOMAIN Rows(f), Rows(f)[n].run = runs,
                 n \notin DOMAIN recorded
          PROVE  Saved(n)'
      <4>1. CASE f = dump.file /\ opens
        <5>1. n \in DOMAIN m /\ m[n].run = runs BY <2>2, <2>5, <3>2, <4>1
        <5> QED BY <1>0, <2>4, <2>6, <5>1 DEF Saved
      <4>2. CASE f # dump.file \/ ~opens BY <1>0, <1>3, <2>1, <2>6, <3>2, <4>2 DEF Saved
      <4> QED BY <4>1, <4>2
    <3>3. CASE n \in lost BY <1>0, <3>3 DEF Saved
    <3> QED BY <1>0, <2>9, <3>1, <3>2, <3>3 DEF Saved
  <2> QED BY <1>0, <2>1, <2>7, <2>8, <2>9, EmptyTable
<1> QED BY <1>4, <1>5

\* The file that was dumped holds the newest of everything.
LEMMA CloseStep ==
    ASSUME IInv, Close
    PROVE  TableInv' /\ NewerInv' /\ \A n : Saved(n) => Saved(n)'
<1> USE DEF IInv
<1>0. /\ at = "close" /\ Dumping /\ Writing /\ ~Dumping' /\ at' # "close"
      /\ UNCHANGED <<recorded, runs, disk, hurt>> /\ lost' = lost \ OfThisRun(dump.rows)
      /\ ~Fresh
  BY DEF Close, EndDump, memory, Dumping, Writing, Fresh
<1>1. PICK f \in Files : f = dump.file BY <1>0 DEF PlaceInv
<1>2. \A g \in Files : Rows(g)' = Rows(g) BY <1>0 DEF Rows
<1>3. Rows(f) = dump.rows BY <1>0, <1>1 DEF NewerInv
<1>4. PICK m : m = MergeRecipeTables(dumped[f], dump.rows) OBVIOUS
<1>5. /\ dumped' = [g \in Files |-> dumped'[g]] /\ dumped'[f] = m
      /\ \A g \in Files : g # f => dumped'[g] = dumped[g]
  BY <1>1, <1>4 DEF Close, TableInv
<1>6. IsTable(dumped[f]) /\ IsTable(dump.rows) BY <1>0 DEF TableInv
<1>r. Merges(m, dumped[f], dump.rows) BY <1>4, MergeProps
<1>7. /\ IsTable(m) /\ m = [n \in DOMAIN m |-> m[n]]
      /\ DOMAIN m = DOMAIN dumped[f] \cup DOMAIN dump.rows
      /\ \A n \in DOMAIN dump.rows : m[n] = dump.rows[n]
  BY <1>4, <1>6, <1>r, MergeTable DEF Merges
<1>8. TableInv'
  <2>1. \A g \in Files : IsTable(dumped'[g]) /\ IsTable(Rows(g)')
    BY <1>2, <1>5, <1>7 DEF TableInv
  <2> QED BY <1>0, <1>5, <2>1 DEF TableInv, RecordedInv, IsTable
<1>9. NewerInv'
  <2>1. ASSUME NEW g \in Files, ~hurt'[g], ~BeingWritten(g)' PROVE Rows(g)' = dumped'[g]
    <3>1. CASE g = f
      <4>1. DOMAIN dumped[f] \subseteq DOMAIN dump.rows
        BY <1>0, <1>1, <2>1, <3>1 DEF NewerInv
      <4>2. dump.rows = [n \in DOMAIN dump.rows |-> dump.rows[n]] BY <1>6 DEF IsTable
      <4>3. m = dump.rows BY <1>7, <4>1, <4>2
      <4> QED BY <1>2, <1>3, <1>5, <3>1, <4>3
    <3>2. CASE g # f
      BY <1>0, <1>1, <1>2, <1>5, <2>1, <3>2 DEF NewerInv, DumpsAreKept, BeingWritten
    <3> QED BY <3>1, <3>2
  <2>2. ASSUME NEW g \in Files, NEW n \in DOMAIN Rows(g)' \cap DOMAIN dumped'[g]
        PROVE  (Rows(g)')[n].run >= dumped'[g][n].run
    <3>1. CASE g = f
      <4>1. n \in DOMAIN dump.rows /\ (Rows(g)')[n] = dump.rows[n] /\ dumped'[g][n] = dump.rows[n]
        BY <1>2, <1>3, <1>5, <1>7, <2>2, <3>1
      <4>2. dump.rows[n].run \in Nat BY <1>6, <4>1 DEF IsTable
      <4> QED BY <4>1, <4>2
    <3>2. CASE g # f BY <1>2, <1>5, <2>2, <3>2 DEF NewerInv, DumpsAreKept
    <3> QED BY <3>1, <3>2
  <2>3. DumpsAreKept' BY <2>1, <2>2 DEF DumpsAreKept
  <2> QED BY <1>0, <2>3 DEF NewerInv
<1>10. ASSUME NEW n, Saved(n) PROVE Saved(n)'
  <2>1. CASE n \in DOMAIN recorded \cup lost /\ n \notin OfThisRun(dump.rows)
    BY <1>0, <2>1 DEF Saved
  <2>2. CASE n \in DOMAIN dump.rows /\ dump.rows[n].run = runs
    BY <1>0, <1>1, <1>2, <1>3, <2>2 DEF Saved
  <2>3. ASSUME NEW g \in Files, n \in DOMAIN Rows(g), Rows(g)[n].run = runs
        PROVE  Saved(n)'
    BY <1>0, <1>2, <2>3 DEF Saved
  <2> QED BY <1>10, <2>1, <2>2, <2>3 DEF Saved, OfThisRun
<1> QED BY <1>8, <1>9, <1>10

\* A dump that is cut short hurts its file.
LEMMA DamageStep ==
    ASSUME IInv, Damage, ~Dumping', UNCHANGED <<recorded, runs, disk, dumped>>
    PROVE  TableInv' /\ NewerInv'
<1> USE DEF IInv
<1>0. \A f \in Files : Rows(f)' = Rows(f) BY DEF Rows
<1>1. TableInv'
  <2>1. hurt' = [f \in Files |-> hurt'[f]] BY DEF Damage
  <2>2. \A f \in Files : IsTable(dumped'[f]) /\ IsTable(Rows(f)')
    BY <1>0 DEF TableInv
  <2> QED BY <2>1, <2>2 DEF TableInv, RecordedInv, IsTable
<1>2. NewerInv'
  <2>1. \A f \in Files : ~hurt'[f] => ~hurt[f] /\ ~BeingWritten(f) BY DEF Damage
  <2>2. DumpsAreKept' BY <1>0, <2>1 DEF NewerInv, DumpsAreKept
  <2>3. at' # "close" BY DEF Dumping, Writing
  <2> QED BY <2>2, <2>3 DEF NewerInv
<1> QED BY <1>1, <1>2

\* A dump that could not open its file truncates it: what the file held of this run is
\* lost unless the dump holds it.
LEMMA AfreshStep ==
    ASSUME IInv, OpenOutputStream, dump.afresh
    PROVE  TableInv' /\ NewerInv' /\ \A n : Saved(n) => Saved(n)'
<1> USE DEF IInv
<1>0. /\ at = "open" /\ at' = "schema" /\ UNCHANGED <<recorded, runs, dump>>
      /\ disk' = [disk EXCEPT ![dump.file] = Torn]
      /\ dumped' = [dumped EXCEPT ![dump.file] = MakeEmptyRecipesTable]
      /\ hurt' = [hurt EXCEPT ![dump.file] = FALSE]
      /\ lost' = lost \cup OfThisRun(Rows(dump.file))
  BY DEF OpenOutputStream, Put, memory, control
<1>1. Dumping /\ Fresh /\ Dumping' /\ ~Fresh' /\ Writing' BY <1>0 DEF Dumping, Fresh, Writing
<1>2. PICK f \in Files : f = dump.file /\ f = dump'.file BY <1>0, <1>1 DEF PlaceInv
<1>3. /\ disk'[f] = Torn /\ dumped'[f] = MakeEmptyRecipesTable
      /\ \A g \in Files \ {f} : disk'[g] = disk[g] /\ dumped'[g] = dumped[g] /\ hurt'[g] = hurt[g]
      /\ dumped' = [g \in Files |-> dumped'[g]] /\ hurt' = [g \in Files |-> hurt'[g]]
  BY <1>0, <1>2 DEF DiskInv, TableInv
<1>4. /\ Rows(f)' = MakeEmptyRecipesTable
      /\ \A g \in Files \ {f} : Rows(g)' = Rows(g)
  BY <1>3 DEF Rows, Torn
<1>5. TableInv'
  <2>1. \A g \in Files : IsTable(Rows(g)') /\ IsTable(dumped'[g])
    BY <1>3, <1>4, EmptyTable DEF TableInv
  <2>2. IsTable(dump.rows)' /\ DOMAIN recorded' = {} BY <1>0, <1>1 DEF TableInv, IsTable
  <2>3. RecordedInv' /\ runs' \in Nat BY <1>0 DEF TableInv, RecordedInv, IsTable
  <2>4. \A g \in Files : IsTable(Rows(g))' /\ IsTable(dumped[g])'
    BY <1>0, <2>1 DEF IsTable
  <2> QED BY <1>3, <2>2, <2>3, <2>4 DEF TableInv
<1>6. NewerInv'
  <2>1. \A g \in Files \ {f} : ~BeingWritten(g) BY <1>2 DEF BeingWritten
  <2>2. DumpsAreKept'
    <3>1. ASSUME NEW g \in Files \ {f}, ~hurt'[g] PROVE Rows(g)' = dumped'[g]
      BY <1>3, <1>4, <2>1, <3>1 DEF NewerInv, DumpsAreKept
    <3>2. BeingWritten(f)' BY <1>1, <1>2 DEF BeingWritten
    <3>3. ASSUME NEW g \in Files, NEW n \in DOMAIN Rows(g)' \cap DOMAIN dumped'[g]
          PROVE  (Rows(g)')[n].run >= dumped'[g][n].run
      <4>1. g # f BY <1>4, <3>3, EmptyTable
      <4> QED BY <1>3, <1>4, <3>3, <4>1 DEF NewerInv, DumpsAreKept
    <3> QED BY <3>1, <3>2, <3>3 DEF DumpsAreKept
  <2>3. DOMAIN dumped'[f] = {} BY <1>3, EmptyTable
  <2> QED BY <1>0, <1>2, <2>2, <2>3 DEF NewerInv
<1>7. ASSUME NEW n, Saved(n) PROVE Saved(n)'
  <2>1. CASE n \in DOMAIN recorded \cup lost BY <1>0, <2>1 DEF Saved
  <2>2. CASE n \in OfThisRun(Rows(f)) BY <1>0, <1>2, <2>2 DEF Saved
  <2>3. ASSUME NEW g \in Files \ {f}, n \in DOMAIN Rows(g), Rows(g)[n].run = runs
        PROVE  Saved(n)'
    BY <1>0, <1>2, <1>4, <2>3 DEF Saved
  <2>4. CASE n \in DOMAIN dump.rows /\ dump.rows[n].run = runs
    BY <1>0, <1>1, <2>4 DEF Saved
  <2> QED BY <1>7, <2>1, <2>2, <2>3, <2>4 DEF Saved, OfThisRun
<1> QED BY <1>5, <1>6, <1>7

\* The other writes of DumpRecipeOutput.
LEMMA PutWrites ==
    ASSUME IInv, OpenOutputStream \/ WriteSchema \/ WriteTable,
           ~(OpenOutputStream /\ dump.afresh)
    PROVE  \E content : Writes(content)
<1> USE DEF IInv, memory, control, history
<1>0. Dumping /\ dump.file \in Files
  BY DEF OpenOutputStream, WriteSchema, WriteTable, Put, Dumping, Writing, PlaceInv
<1>1. CASE OpenOutputStream \/ (Put("rows", "rest", Torn) /\ UNCHANGED <<dumped, hurt, lost>>)
  BY <1>0, <1>1 DEF OpenOutputStream, Put, Torn, Writes, Fresh
<1>2. CASE WriteSchema
  <2>1. DOMAIN dump.rows = {} => dump.rows = MakeEmptyRecipesTable
    BY <1>0 DEF TableInv, IsTable, MakeEmptyRecipesTable
  <2>2. Writes(Table(MakeEmptyRecipesTable))
    BY <1>0, <1>2, <2>1 DEF WriteSchema, Put, Table, Writes, Fresh
  <2> QED BY <2>2
<1>3. CASE Put("rest", "close", Table(dump.rows)) /\ UNCHANGED <<dumped, hurt, lost>>
  <2>1. Writes(Table(dump.rows)) BY <1>0, <1>3 DEF Put, Table, Writes, Fresh
  <2> QED BY <2>1
<1> QED BY <1>1, <1>2, <1>3 DEF WriteTable

\* Only the end of a recipe adds to what is recorded.
LEMMA TableStep == IInv /\ [Next]_vars => TableInv' /\ NewerInv'
<1> SUFFICES ASSUME IInv, [Next]_vars PROVE TableInv' /\ NewerInv' OBVIOUS
<1> USE DEF IInv, memory, place, control, history
<1>q. Quiet /\ RecordedInv' => TableInv' /\ NewerInv' BY QuietStep
<1>k. RecordedInv /\ runs \in Nat BY DEF TableInv
<1>1. CASE UNCHANGED vars
  <2>1. \A f \in Files : Rows(f)' = Rows(f) BY <1>1 DEF vars, Rows
  <2>2. TableInv' BY <1>1, <2>1 DEF vars, TableInv, RecordedInv, IsTable, Dumping, Writing
  <2>3. DumpsAreKept'
    BY <1>1, <2>1 DEF vars, NewerInv, DumpsAreKept, BeingWritten, Writing
  <2>4. NewerInv' BY <1>1, <2>3 DEF vars, NewerInv, Dumping, Fresh, Writing, Rows
  <2> QED BY <2>2, <2>4
<1>2. CASE StartMain
  <2>1. \A f \in Files : Rows(f)' = Rows(f) BY <1>2 DEF StartMain, Rows
  <2>2. runs' = runs + 1 /\ ~Dumping /\ ~Dumping' /\ UNCHANGED <<dumped, hurt>>
    BY <1>2 DEF StartMain, Dumping, Writing
  <2>3. RecordedInv' BY <1>2, <1>k, RecordedStep DEF StartMain
  <2>4. \A f \in Files : IsTable(Rows(f))' /\ IsTable(dumped[f])'
    BY <1>k, <2>1, <2>2 DEF TableInv, IsTable
  <2>5. TableInv' BY <1>k, <2>2, <2>3, <2>4 DEF TableInv
  <2>6. DumpsAreKept'
    BY <2>1, <2>2 DEF NewerInv, DumpsAreKept, BeingWritten, Dumping
  <2>7. at' # "close" BY <2>2 DEF Dumping, Writing
  <2> QED BY <2>2, <2>5, <2>6, <2>7 DEF NewerInv
<1>3. ASSUME NEW t \in Tests, RunTest(t) PROVE TableInv' /\ NewerInv'
  <2>1. Quiet /\ RecordedInv'
    BY <1>3, <1>k, RecordedStep DEF RunTest, Quiet, Dumping, Writing
  <2> QED BY <2>1, <1>q
<1>4. CASE FindTestDataFile
  <2>1. Quiet /\ RecordedInv'
    BY <1>4, <1>k, RecordedStep DEF FindTestDataFile, Quiet, Dumping, Writing
  <2> QED BY <2>1, <1>q
<1>5. ASSUME NEW ok \in BOOLEAN, UseTestData(ok) PROVE TableInv' /\ NewerInv'
  <2>1. Quiet /\ RecordedInv'
    BY <1>5, <1>k, RecordedStep DEF UseTestData, FailTest, Quiet, Dumping, Writing
  <2> QED BY <2>1, <1>q
<1>6. CASE StartRecipe
  <2>1. Quiet /\ RecordedInv'
    BY <1>6, <1>k, RecordedStep DEF StartRecipe, Quiet, Dumping, Writing
  <2> QED BY <2>1, <1>q
<1>7. ASSUME NEW ok \in BOOLEAN, Body(ok) PROVE TableInv' /\ NewerInv'
  <2>1. Quiet /\ RecordedInv'
    BY <1>7, <1>k, RecordedStep DEF Body, FailTest, Quiet, Dumping, Writing
  <2> QED BY <2>1, <1>q
<1>8. CASE EndRecipe
  <2>1. Quiet BY <1>8 DEF EndRecipe, Quiet, Dumping, Writing
  <2>2. CASE recorded' = recorded
    BY <1>k, <1>q, <2>1, <2>2, RecordedStep DEF Quiet
  <2>3. CASE recorded' # recorded
    <3> DEFINE output == [n \in {<<test, step>>} |-> [run |-> runs, own |-> rout = {n}]]
    <3>1. recorded' = MergeRecipeTables(recorded, output) BY <1>8, <2>3 DEF EndRecipe
    <3>2. IsTable(output) /\ \A n \in DOMAIN output : output[n].run = runs
      BY <1>k DEF IsTable
    <3> HIDE DEF output
    <3>3. IsTable(recorded') BY <1>k, <3>1, <3>2, MergeTable DEF RecordedInv
    <3>r. Merges(recorded', recorded, output) BY <3>1, MergeProps
    <3>4. \A n \in DOMAIN recorded' : recorded'[n].run = runs
      BY <1>k, <3>2, <3>r DEF Merges, RecordedInv
    <3>5. RecordedInv' BY <2>1, <3>3, <3>4 DEF RecordedInv, IsTable, Quiet
    <3> QED BY <1>q, <2>1, <3>5
  <2> QED BY <2>2, <2>3
<1>9. CASE EndTests
  <2>1. Quiet /\ RecordedInv'
    BY <1>9, <1>k, RecordedStep DEF EndTests, Quiet, Dumping, Writing
  <2> QED BY <2>1, <1>q
<1>10. ASSUME NEW opens \in BOOLEAN, Load(opens) PROVE TableInv' /\ NewerInv'
  BY <1>10, LoadStep
<1>11. CASE OpenOutputStream \/ WriteSchema \/ WriteTable
  <2>1. CASE OpenOutputStream /\ dump.afresh BY <2>1, AfreshStep
  <2>2. CASE ~(OpenOutputStream /\ dump.afresh) BY <1>11, <2>2, PutWrites, WriteStep
  <2> QED BY <2>1, <2>2
<1>12. CASE Close BY <1>12, CloseStep
<1>13. CASE FailDump
  BY <1>13, DamageStep DEF FailDump, EndDump, Dumping, Writing
<1>14. CASE Crash BY <1>14, DamageStep DEF Crash, Dumping, Writing
<1> QED BY <1>1, <1>2, <1>3, <1>4, <1>5, <1>6, <1>7, <1>8, <1>9, <1>10, <1>11, <1>12,
           <1>13, <1>14 DEF Next, Program

\* What remains saved when nothing fails.
Remains ==
    /\ ran' = ran /\ (~failed' => ~failed)
    /\ \A n : Saved(n) => Saved(n)'

\* A step within a test, or outside one.
LEMMA StaySaved ==
    ASSUME SavedInv, ~failed' => Remains, ran' \subseteq Tests,
           InTest' => test' \in Tests /\ step' \in 1..Length[test'],
           at' = "exit" /\ ~failed' => DOMAIN recorded' = {},
           at' \notin {"off"} => at # "off",
           ~failed' => (InTest => InTest' /\ test' = test /\ step' = step)
    PROVE  SavedInv'
<1>1. ASSUME ~failed', at' # "off", NEW t \in ran', NEW i \in 1..Length[t]
      PROVE  Saved(<<t, i>>)' \/ (InTest' /\ t = test' /\ i >= step')
  <2>1. ~failed /\ at # "off" /\ t \in ran BY <1>1 DEF Remains
  <2>2. Saved(<<t, i>>) \/ (InTest /\ t = test /\ i >= step) BY <2>1, <1>1 DEF SavedInv
  <2> QED BY <1>1, <2>2 DEF Remains
<1> QED BY <1>1 DEF SavedInv

\* A test that passes has recorded each of its recipes, and a dump that succeeds has all
\* that was recorded.
LEMMA SavedStep == IInv /\ [Next]_vars => SavedInv'
<1> SUFFICES ASSUME IInv, [Next]_vars PROVE SavedInv' OBVIOUS
<1> USE DEF IInv, memory, place, control, history
<1>q. ASSUME Quiet, recorded' = recorded PROVE \A n : Saved(n) => Saved(n)'
  BY <1>q, QuietSaved
<1>1. CASE UNCHANGED vars
  <2>1. \A n : Saved(n) => Saved(n)' BY <1>1 DEF vars, Saved, Rows, Dumping, Fresh, Writing
  <2> QED BY <1>1, <2>1, StaySaved DEF vars, Remains, InTest, SavedInv
<1>2. CASE StartMain BY <1>2 DEF StartMain, SavedInv, InTest
<1>3. ASSUME NEW t \in Tests, RunTest(t) PROVE SavedInv'
  <2>1. Quiet /\ recorded' = recorded /\ ~InTest /\ InTest' /\ failed' = failed
        /\ at = "tests" /\ ran' = ran \cup {t} /\ test' = t /\ step' = 1
    BY <1>3 DEF RunTest, Quiet, Dumping, Writing, InTest
  <2>2. Length[t] \in Nat \ {0} BY RecipeAssumption DEF Length, Tests
  <2>3. ASSUME ~failed', NEW u \in ran', NEW i \in 1..Length[u]
        PROVE  Saved(<<u, i>>)' \/ (u = test' /\ i >= step')
    <3>1. CASE u = t BY <2>1, <3>1
    <3>2. CASE u # t BY <1>q, <2>1, <2>3, <3>2 DEF SavedInv
    <3> QED BY <3>1, <3>2
  <2> QED BY <2>1, <2>2, <2>3, <1>3 DEF SavedInv, InTest, RunTest
<1>4. CASE FindTestDataFile
  <2>1. Quiet /\ recorded' = recorded
    BY <1>4 DEF FindTestDataFile, Quiet, Dumping, Writing
  <2>2. /\ at = "search" /\ at' \in {"search", "found", "tests"} /\ UNCHANGED <<test, step, ran>>
        /\ ~failed' => ~failed /\ at' \in {"search", "found"}
    BY <1>4 DEF FindTestDataFile, StreamInv
  <2> QED BY <1>q, <2>1, <2>2, StaySaved DEF Remains, InTest, SavedInv
<1>5. ASSUME NEW ok \in BOOLEAN, UseTestData(ok) PROVE SavedInv'
  <2>1. Quiet /\ recorded' = recorded
    BY <1>5 DEF UseTestData, FailTest, Quiet, Dumping, Writing
  <2>2. /\ at = "found" /\ at' \in {"start", "end", "tests"} /\ UNCHANGED <<test, step, ran>>
        /\ ~failed' => ~failed /\ at' \in {"start", "end"}
    BY <1>5 DEF UseTestData, FailTest, StreamInv
  <2> QED BY <1>q, <2>1, <2>2, StaySaved DEF Remains, InTest, SavedInv
<1>6. CASE StartRecipe
  <2>1. Quiet /\ recorded' = recorded
    BY <1>6 DEF StartRecipe, Quiet, Dumping, Writing
  <2>2. /\ at = "start" /\ at' = "body" /\ UNCHANGED <<test, step, ran>>
        /\ ~failed' => ~failed
    BY <1>6 DEF StartRecipe, StreamInv
  <2> QED BY <1>q, <2>1, <2>2, StaySaved DEF Remains, InTest, SavedInv
<1>7. ASSUME NEW ok \in BOOLEAN, Body(ok) PROVE SavedInv'
  <2>1. Quiet /\ recorded' = recorded
    BY <1>7 DEF Body, FailTest, Quiet, Dumping, Writing
  <2>2. /\ at = "body" /\ at' \in {"search", "end", "tests"} /\ UNCHANGED <<test, step, ran>>
        /\ ~failed' => ~failed /\ at' \in {"search", "end"}
    BY <1>7 DEF Body, FailTest, StreamInv
  <2> QED BY <1>q, <2>1, <2>2, StaySaved DEF Remains, InTest, SavedInv
<1>8. CASE EndRecipe
  <2>1. /\ at = "end" /\ Quiet /\ InTest /\ UNCHANGED <<test, ran>>
        /\ test \in Tests /\ step \in 1..Length[test] /\ Length[test] \in Nat
    BY <1>8, RecipeAssumption
       DEF EndRecipe, Quiet, Dumping, Writing, InTest, SavedInv, Length, Tests
  <2>2. \/ /\ step < Length[test] /\ at' = "start" /\ step' = step + 1 /\ InTest'
        \/ /\ step = Length[test] /\ at' \in {"load", "tests"} /\ ~InTest'
    BY <1>8, <2>1 DEF EndRecipe, InTest
  <2>3. /\ DOMAIN recorded \subseteq DOMAIN recorded'
        /\ ~failed' => ~failed /\ <<test, step>> \in DOMAIN recorded'
    <3>1. CASE current_recipe # <<test, step>> BY <1>8, <3>1 DEF EndRecipe
    <3>2. CASE current_recipe = <<test, step>>
      <4> DEFINE output == [n \in {<<test, step>>} |-> [run |-> runs, own |-> rout = {n}]]
      <4>1. recorded' = MergeRecipeTables(recorded, output) /\ failed' = failed
        BY <1>8, <3>2 DEF EndRecipe
      <4>2. DOMAIN output = {<<test, step>>} OBVIOUS
      <4> HIDE DEF output
      <4>3. DOMAIN recorded' = DOMAIN recorded \cup {<<test, step>>}
        <5>1. Merges(recorded', recorded, output) BY <4>1, MergeProps
        <5> QED BY <4>2, <5>1 DEF Merges
      <4> QED BY <4>1, <4>3
    <3> QED BY <3>1, <3>2
  <2>4. ASSUME ~failed', NEW t \in ran', NEW i \in 1..Length[t]
        PROVE  Saved(<<t, i>>)' \/ (InTest' /\ t = test' /\ i >= step')
    <3>1. Saved(<<t, i>>) \/ (t = test /\ i >= step)
      BY <2>1, <2>3, <2>4 DEF SavedInv
    <3>2. CASE Saved(<<t, i>>) BY <2>1, <2>3, <3>2, QuietSaved
    <3>3. CASE t = test /\ i = step BY <2>3, <2>4, <3>3 DEF Saved
    <3>4. CASE t = test /\ i > step BY <2>1, <2>2, <2>4, <3>4
    <3> QED BY <2>1, <2>4, <3>1, <3>2, <3>3, <3>4
  <2> QED BY <2>1, <2>2, <2>4 DEF SavedInv
<1>9. CASE EndTests
  <2>1. Quiet /\ recorded' = recorded /\ ~InTest /\ ~InTest' /\ at # "off"
        /\ failed' = failed /\ ran' = ran
    BY <1>9 DEF EndTests, Quiet, Dumping, Writing, InTest
  <2>2. at' = "exit" /\ ~failed' => DOMAIN recorded' = {}
    BY <1>9, <2>1 DEF EndTests, HasRecipeOutput
  <2> QED BY <1>q, <2>1, <2>2, StaySaved DEF Remains, SavedInv
<1>10. ASSUME NEW opens \in BOOLEAN, Load(opens) PROVE SavedInv'
  <2>1. /\ at = "load" /\ at' \in {"open", "exit", "tests"} /\ ran' = ran
        /\ ~InTest /\ ~InTest'
    BY <1>10 DEF Load, EndDump, InTest
  <2>2. DOMAIN recorded' = {} /\ (~failed' => ~failed /\ \A n : Saved(n) => Saved(n)')
    BY <1>10, LoadStep DEF StreamInv
  <2> QED BY <2>1, <2>2, StaySaved DEF Remains, SavedInv
<1>11. CASE OpenOutputStream \/ WriteSchema \/ WriteTable
  <2>1. \A n : Saved(n) => Saved(n)'
    <3>1. CASE OpenOutputStream /\ dump.afresh BY <3>1, AfreshStep
    <3>2. CASE ~(OpenOutputStream /\ dump.afresh) BY <1>11, <3>2, PutWrites, WriteStep
    <3> QED BY <3>1, <3>2
  <2>2. /\ at \in {"open", "schema", "rows", "rest"} /\ at' \in {"schema", "rows", "rest", "close"}
        /\ UNCHANGED <<failed, ran>>
    BY <1>11 DEF OpenOutputStream, WriteSchema, WriteTable, Put
  <2> QED BY <2>1, <2>2, StaySaved DEF Remains, InTest, SavedInv
<1>12. CASE Close
  <2>1. \A n : Saved(n) => Saved(n)' BY <1>12, CloseStep
  <2>2. /\ at = "close" /\ at' \in {"exit", "tests"} /\ ran' = ran /\ failed' = failed
        /\ recorded' = recorded
    BY <1>12 DEF Close, EndDump, StreamInv
  <2>3. DOMAIN recorded = {} BY <2>2 DEF TableInv, Dumping, Writing
  <2> QED BY <2>1, <2>2, <2>3, StaySaved DEF Remains, InTest, SavedInv
<1>13. CASE FailDump BY <1>13 DEF FailDump, EndDump, InTest, SavedInv
<1>14. CASE Crash BY <1>14 DEF Crash, InTest, SavedInv
<1> QED BY <1>1, <1>2, <1>3, <1>4, <1>5, <1>6, <1>7, <1>8, <1>9, <1>10, <1>11, <1>12,
           <1>13, <1>14 DEF Next, Program

\* A recipe of a test is among the recipes.
LEMMA RecipeType ==
    ASSUME NEW t \in Tests, NEW i \in 1..Length[t]
    PROVE  <<t, i>> \in Recipes /\ i \in 1..DatasetRecipes + FlightRecipes
BY RecipeAssumption DEF Recipes, Length, Tests

\* Every variable keeps its type.
LEMMA TypeStep == IInv /\ [Next]_vars => TypeOK'
<1> SUFFICES ASSUME IInv, [Next]_vars PROVE TypeOK' OBVIOUS
<1> USE DEF IInv, memory, place, control, history
<1>k. DOMAIN MakeEmptyRecipesTable = {} BY EmptyTable
<1>f. \A f \in Files : disk[f].kind \in {"missing", "torn", "table"} BY DEF TypeOK
<1>r. /\ 0 \in 0..Depth /\ Depth \in 0..Depth /\ MaxTests \in 0..MaxTests
      /\ 0 \in 0..DatasetRecipes + FlightRecipes /\ 1 \in 0..DatasetRecipes + FlightRecipes
  BY RecipeAssumption
<1>1. CASE UNCHANGED vars BY <1>1 DEF vars, TypeOK
<1>2. CASE StartMain
  <2>1. runs' \in 0..MaxRuns
    <3>1. runs \in 0..MaxRuns /\ MaxRuns \in Nat BY RecipeAssumption DEF TypeOK
    <3>2. runs < MaxRuns /\ runs' = runs + 1 BY <1>2 DEF StartMain
    <3> QED BY <3>1, <3>2
  <2> QED BY <1>2, <1>k, <1>r, <2>1 DEF StartMain, TypeOK
<1>3. ASSUME NEW t \in Tests, RunTest(t) PROVE TypeOK'
  <2>1. left' \in 0..MaxTests
    <3>1. left \in 0..MaxTests /\ MaxTests \in Nat BY RecipeAssumption DEF TypeOK
    <3>2. left > 0 /\ left' = left - 1 BY <1>3 DEF RunTest
    <3> QED BY <3>1, <3>2
  <2> QED BY <1>3, <1>r, <2>1 DEF RunTest, TypeOK
<1>4. CASE FindTestDataFile
  <2>1. path_iter' \in 0..Depth
    <3>1. path_iter \in 0..Depth /\ Depth \in Nat BY RecipeAssumption DEF TypeOK
    <3>2. path_iter' \in {path_iter, ParentPath(path_iter)} BY <1>4 DEF FindTestDataFile
    <3> QED BY <3>1, <3>2 DEF ParentPath
  <2>2. failed' \in BOOLEAN BY <1>4 DEF FindTestDataFile, TypeOK
  <2> QED BY <1>4, <2>1, <2>2 DEF FindTestDataFile, TypeOK
<1>5. ASSUME NEW ok \in BOOLEAN, UseTestData(ok) PROVE TypeOK'
  BY <1>5 DEF UseTestData, FailTest, TypeOK
<1>6. CASE StartRecipe
  <2>1. <<test, step>> \in Recipes BY <1>6, RecipeType DEF StartRecipe, SavedInv, InTest
  <2> QED BY <1>6, <2>1 DEF StartRecipe, TypeOK
<1>7. ASSUME NEW ok \in BOOLEAN, Body(ok) PROVE TypeOK'
  <2>1. <<test, step>> \in Recipes BY <1>7, RecipeType DEF Body, SavedInv, InTest
  <2>2. path_iter' \in 0..Depth /\ failed' \in BOOLEAN
    BY <1>7, <1>r DEF Body, FailTest, TypeOK
  <2> QED BY <1>7, <2>1, <2>2 DEF Body, FailTest, TypeOK
<1>8. CASE EndRecipe
  <2>1. at = "end" /\ test \in Tests /\ step \in 1..Length[test]
    BY <1>8 DEF EndRecipe, SavedInv, InTest
  <2>2. <<test, step>> \in Recipes /\ Length[test] \in Nat
    BY <2>1, RecipeType, RecipeAssumption DEF Length, Tests
  <2>3. DOMAIN recorded' \subseteq Recipes
    <3>1. CASE recorded' = recorded BY <3>1 DEF TypeOK
    <3>2. CASE recorded' # recorded
      <4> DEFINE output == [n \in {<<test, step>>} |-> [run |-> runs, own |-> rout = {n}]]
      <4>1. recorded' = MergeRecipeTables(recorded, output) BY <1>8, <3>2 DEF EndRecipe
      <4>2. DOMAIN output = {<<test, step>>} OBVIOUS
      <4> HIDE DEF output
      <4>3. Merges(recorded', recorded, output) BY <4>1, MergeProps
      <4> QED BY <2>2, <4>2, <4>3 DEF Merges, TypeOK
    <3> QED BY <3>1, <3>2
  <2>4. step' \in 0..DatasetRecipes + FlightRecipes
    <3>1. CASE step < Length[test]
      <4>1. step + 1 \in 1..Length[test] BY <2>1, <2>2, <3>1
      <4>2. step + 1 \in 1..DatasetRecipes + FlightRecipes BY <2>1, <4>1, RecipeType
      <4>3. step' = step + 1 BY <1>8, <3>1 DEF EndRecipe
      <4> QED BY <4>2, <4>3, RecipeAssumption
    <3>2. CASE ~(step < Length[test])
      BY <1>8, <3>2 DEF EndRecipe, TypeOK
    <3> QED BY <3>1, <3>2
  <2>5. dump'.file \in Files \cup {"none"} BY <1>8 DEF EndRecipe, NoDump, Files, TypeOK
  <2>6. current_recipe' \in Recipes \cup {None} /\ failed' \in BOOLEAN
    BY <1>8 DEF EndRecipe, TypeOK
  <2>7. UNCHANGED <<rout, test, path_iter, left, runs, disk, testdata>>
    BY <1>8 DEF EndRecipe
  <2> QED BY <2>3, <2>4, <2>5, <2>6, <2>7 DEF TypeOK
<1>9. CASE EndTests
  <2>1. dump'.file \in Files \cup {"none"} BY <1>9 DEF EndTests, NoDump, Files, TypeOK
  <2> QED BY <1>9, <2>1 DEF EndTests, TypeOK
<1>10. ASSUME NEW opens \in BOOLEAN, Load(opens) PROVE TypeOK'
  <2>1. dump'.file \in Files \cup {"none"} /\ failed' \in BOOLEAN
    <3>1. CASE ~(opens /\ ~Readable(dump.file))
      <4>1. dump'.file = dump.file /\ failed' = failed BY <1>10, <3>1, LoadCase
      <4> QED BY <4>1 DEF TypeOK
    <3>2. CASE opens /\ ~Readable(dump.file)
      <4>1. failed' = TRUE /\ dump' = NoDump BY <1>10, <3>2 DEF Load, EndDump
      <4> QED BY <4>1 DEF NoDump
    <3> QED BY <3>1, <3>2
  <2> QED BY <1>10, <1>k, <2>1 DEF Load, TypeOK
<1>11. CASE OpenOutputStream \/ WriteSchema \/ WriteTable
  <2>1. UNCHANGED <<memory, test, step, path_iter, control, dump, testdata>>
    BY <1>11 DEF OpenOutputStream, WriteSchema, WriteTable, Put
  <2>2. \E content \in {Torn, Table(MakeEmptyRecipesTable), Table(dump.rows)} :
          disk' = [disk EXCEPT ![dump.file] = content]
    BY <1>11 DEF OpenOutputStream, WriteSchema, WriteTable, Put
  <2>3. \A f \in Files : disk'[f].kind \in {"missing", "torn", "table"}
    BY <1>f, <2>2 DEF Torn, Table, DiskInv
  <2> QED BY <2>1, <2>3 DEF TypeOK
<1>12. CASE Close BY <1>12 DEF Close, EndDump, NoDump, TypeOK
<1>13. CASE FailDump BY <1>13 DEF FailDump, EndDump, NoDump, TypeOK
<1>14. CASE Crash BY <1>14 DEF Crash, NoDump, TypeOK
<1> QED BY <1>1, <1>2, <1>3, <1>4, <1>5, <1>6, <1>7, <1>8, <1>9, <1>10, <1>11, <1>12,
           <1>13, <1>14 DEF Next, Program

-----------------------------------------------------------------------------

\* The invariant holds in every reachable state.
LEMMA IInvHolds == Spec => []IInv
<1>1. IInv /\ [Next]_vars => IInv'
  BY PlaceStep, DiskStep, StreamStep, OutStep, TypeStep, TableStep, SavedStep DEF IInv
<1> QED BY InitIInv, <1>1, PTL DEF Spec

\* common.cc:33-57, main.cc:12: whatever recipes are left open, however often the tests
\* are repeated, every output in recipes_out.arrow is of its recipe alone.
THEOREM OutputsAreOwnCorrect == Spec => []OutputsAreOwn
<1>1. IInv => OutputsAreOwn BY DEF IInv, OutInv, OutputsAreOwn, Own, Out
<1> QED BY <1>1, IInvHolds, PTL

\* common.cc:86-97, 158-168: DumpRecipeOutput truncates no file that it has opened and could
\* not read, so that only a dump that cannot open it replaces the remains of one that was
\* cut short.
THEOREM UnreadableStaysCorrect == Spec => UnreadableStays
<1> DEFINE Kept(f) == disk[f] = Torn /\ ~BeingWritten(f)
           Replaced(f) == dump.file = f /\ dump.afresh
<1>1. ASSUME IInv, [Next]_vars, NEW f \in Files, Kept(f) PROVE Kept(f)' \/ Replaced(f)
  <2> USE <1>1 DEF BeingWritten, Writing
  <2>1. CASE UNCHANGED vars BY <2>1 DEF vars, place
  <2>2. CASE StartMain BY <2>2 DEF StartMain
  <2>3. ASSUME NEW t \in Tests, RunTest(t) PROVE Kept(f)' BY <2>3 DEF RunTest
  <2>4. CASE FindTestDataFile BY <2>4 DEF FindTestDataFile
  <2>5. ASSUME NEW ok \in BOOLEAN, UseTestData(ok) PROVE Kept(f)'
    BY <2>5 DEF UseTestData, FailTest
  <2>6. CASE StartRecipe BY <2>6 DEF StartRecipe
  <2>7. ASSUME NEW ok \in BOOLEAN, Body(ok) PROVE Kept(f)' BY <2>7 DEF Body, FailTest
  <2>8. CASE EndRecipe BY <2>8 DEF EndRecipe
  <2>9. CASE EndTests BY <2>9 DEF EndTests
  <2>10. ASSUME NEW opens \in BOOLEAN, Load(opens) PROVE Kept(f)' BY <2>10 DEF Load, EndDump
  <2>11. CASE OpenOutputStream
    <3>1. disk[dump.file].kind # "torn" \/ dump.afresh
      BY <2>11 DEF OpenOutputStream, Put, IInv, DiskInv
    <3>2. f # dump.file \/ Replaced(f) BY <3>1 DEF Torn
    <3> QED BY <2>11, <3>2 DEF OpenOutputStream, Put, IInv, DiskInv
  <2>12. CASE WriteSchema BY <2>12 DEF WriteSchema, Put, IInv, DiskInv
  <2>13. CASE WriteTable BY <2>13 DEF WriteTable, Put, IInv, DiskInv
  <2>14. CASE Close BY <2>14 DEF Close, EndDump
  <2>15. CASE FailDump BY <2>15 DEF FailDump, EndDump
  <2>16. CASE Crash BY <2>16 DEF Crash
  <2> QED BY <2>1, <2>2, <2>3, <2>4, <2>5, <2>6, <2>7, <2>8, <2>9, <2>10, <2>11, <2>12,
             <2>13, <2>14, <2>15, <2>16 DEF Next, Program
<1>2. IInv /\ [Next]_vars => \A f \in Files : Kept(f) => Kept(f)' \/ Replaced(f) BY <1>1
<1>3. IInv /\ [Next]_vars
        => [\A f \in Files : disk[f] = Torn /\ ~BeingWritten(f) =>
              \/ disk'[f] = Torn /\ ~BeingWritten(f)'
              \/ dump.file = f /\ dump.afresh]_vars
  BY <1>2
<1> QED BY <1>3, IInvHolds, PTL DEF Spec, UnreadableStays

\* common.cc:33-188, main.cc:9-26: types, which recipes can be recorded included.
THEOREM TypeCorrect == Spec => []TypeOK
BY IInvHolds, PTL DEF IInv

\* common.cc:130-174: whatever is dumped, by how many runs and however often one is cut
\* short, a file that was not hurt since it was last started afresh holds the newest output
\* of every recipe dumped to it since, and no file holds an older one.
THEOREM DumpsAreKeptCorrect == Spec => []DumpsAreKept
<1>1. IInv => DumpsAreKept BY DEF IInv, NewerInv
<1> QED BY <1>1, IInvHolds, PTL

\* main.cc:11-26, datasets.cc:177: an exit code of 0 means that each recipe of each test
\* that ran is in a file, with its output of this run, or was in one that a later dump of
\* the run could not open and wrote over (common.cc:92-94).
THEOREM PassMeansRecordedCorrect == Spec => []PassMeansRecorded
<1>1. IInv => PassMeansRecorded
  <2> SUFFICES ASSUME IInv, at = "exit", ~failed, NEW t \in ran, NEW i \in 1..Length[t]
               PROVE  \/ <<t, i>> \in lost
                      \/ \E f \in Files : <<t, i>> \in OfThisRun(Rows(f))
    BY Zenon DEF PassMeansRecorded
  <2>1. DOMAIN recorded = {} /\ ~InTest /\ ~Dumping
    BY DEF IInv, SavedInv, InTest, Dumping, Writing
  <2>2. Saved(<<t, i>>) BY <2>1 DEF IInv, SavedInv
  <2> QED BY <2>1, <2>2 DEF Saved, OfThisRun
<1> QED BY <1>1, IInvHolds, PTL
=============================================================================
