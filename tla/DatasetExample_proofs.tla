------------------------ MODULE DatasetExample_proofs ------------------------
(***************************************************************************)
(* Theorems about the dataset programs, for tables of any size and any     *)
(* number of runs that overlap and are killed anywhere: which rows a run   *)
(* that is alone reads, and that a plain run recovers from what killed     *)
(* runs have left.                                                         *)
(***************************************************************************)
EXTENDS DatasetExample, FiniteSetTheorems, SequenceTheorems, TLAPS

Data == {"data1", "data2"}
Shipped == <<"parquet_dataset", "Iris">>
Own == Paths \ {Shipped}
Parts == {"body", "footer"}
Ops == [call : {"mkdir", "open"} \cup Parts, path : Own]
FileNames == {"Iris"} \cup Data \cup Hive

RunStates ==
    [at : {"check", "create", "list", "inspect", "scan", "write", "done", "failed"},
     format : Formats, mode : Modes, todo : SUBSET (Seq(Ops) \ {<<>>}),
     left : SUBSET FileNames, got : SUBSET (FileNames \cup {"garbage"}),
     alone : BOOLEAN, stale : BOOLEAN]

\* The files a run writes into the dataset it reads back.
Targets(format) ==
    IF format = "parquet_hive" THEN {"parquet_dataset"} \X Hive
    ELSE IF format = "unknown" THEN {} ELSE {BasePath(format)} \X Data

\* A call is still to come in one of the lanes.
ToCome(todo, call, path) ==
    \E lane \in todo : \E i \in 1..Len(lane) : lane[i] = Op(call, path)

\* A file that is opened is written to its end later in the lane.
OpensFill(lane) ==
    \A i \in 1..Len(lane), part \in Parts : lane[i].call = "open" =>
      \E k \in 1..Len(lane) : k > i /\ lane[k] = Op(part, lane[i].path)

Existing(path) == "file" \in files[path]

-----------------------------------------------------------------------------
(* The inductive invariant, for a run j.                                   *)

LaneInv(j) ==
    /\ j.at = "check" => j.format = "parquet_hive"
    /\ j.at # "create" => j.todo = {}
    /\ \A lane \in j.todo : OpensFill(lane)
    /\ j.format = "parquet_hive" =>
         \A lane \in j.todo : \A i \in 1..Len(lane) : lane[i].path \in Targets(j.format)

\* What a run has written is there when it lists the directory; it is whole as long as
\* nobody else runs. A hive run that is alone finds what it found at first, and what it
\* has written.
FileInv(j) ==
    /\ j.at \in {"create", "list", "inspect", "scan"} => \A path \in Targets(j.format) :
         /\ Existing(path) \/ ToCome(j.todo, "open", path)
         /\ j.alone => \A part \in Parts : part \in files[path] \/ ToCome(j.todo, part, path)
    /\ j.at \in {"check", "create", "list"} /\ j.format = "parquet_hive" /\ j.alone /\ ~j.stale =>
         \A name \in Data \cup {"Iris"} : files[<<"parquet_dataset", name>>] = {}
    /\ "Iris" \in j.left => j.format # "feather" /\ Existing(Shipped)

\* The files a run is going to read and those it has read.
ScanInv(j) ==
    /\ j.at \in {"check", "create", "list"} => j.mode = "unknown"
    /\ j.at \in {"check", "create", "list", "inspect"} => j.got = {}
    /\ j.at \in {"write", "done"} => j.left = {}
    /\ j.at \in {"inspect", "scan", "write", "done"} /\ j.alone =>
         /\ j.format \in Plain /\ j.mode \in PlainModes => (j.left \cup j.got) \ {"Iris"} = Data
         /\ j.format = "tutorial" => Data \subseteq j.left \cup j.got
         /\ j.format = "parquet_hive" /\ ~j.stale /\ j.mode = "partitioned" =>
              j.left \cup j.got = Hive
         /\ j.format = "parquet_hive" /\ ~j.stale /\ j.mode = "filter_partitioned" =>
              j.left \cup j.got = IF j.at = "inspect" THEN Hive ELSE {"part=b"}

\* Why a plain run that is alone fails.
FailInv(j) ==
    j.at = "failed" /\ j.format \in Plain /\ j.mode \in PlainModes /\ j.alone =>
      j.mode # "no_filter" /\ j.format # "feather" /\ Existing(Shipped)

RunInv(j) ==
    j.at \notin {"idle", "crashed"} =>
      /\ j \in RunStates
      /\ j.at # "failed" => LaneInv(j) /\ FileInv(j) /\ ScanInv(j)
      /\ FailInv(j)

DirInv ==
    /\ files \in [Paths -> SUBSET {"dir", "file", "body", "footer"}]
    /\ files[Shipped] \in {{}, Whole}
    /\ runs \in 0..MaxRuns

AloneInv == \A p \in Procs : Active(p) /\ job[p].alone => Alone(p)

IInv ==
    /\ DirInv
    /\ job = [p \in Procs |-> job[p]]
    /\ \A p \in Procs : RunInv(job[p])
    /\ AloneInv

-----------------------------------------------------------------------------
(* Names, paths and lanes.                                                 *)

LEMMA AllNames == {Names[i] : i \in 1..5} = FileNames
BY DEF Names, Data, Hive, FileNames

LEMMA AllPaths ==
    /\ \A name \in FileNames : <<"parquet_dataset", name>> \in Paths
    /\ \A name \in Data : <<"feather_dataset", name>> \in Paths
    /\ \A name \in Hive \cup {"Iris"} : <<"feather_dataset", name>> \notin Paths
    /\ \A name \in Data \cup Hive : <<"parquet_dataset", name>> # Shipped
    /\ Shipped \in Paths
    /\ \A format \in Formats : Targets(format) \subseteq Own
<1>1. Paths = ({"feather_dataset"} \X Data) \cup ({"parquet_dataset"} \X FileNames)
  BY AllNames DEF Paths, Data
<1>2. \A name \in Hive \cup {"Iris"} : <<"feather_dataset", name>> \notin Paths
  BY <1>1 DEF Data, Hive
<1>3. \A format \in Formats : BasePath(format) \in {"feather_dataset", "parquet_dataset"}
  BY DEF BasePath
<1>4. \A name \in Data \cup Hive : name # "Iris" BY DEF Data, Hive
<1>5. \A name \in Data \cup Hive : <<"parquet_dataset", name>> # Shipped
                                  /\ <<"feather_dataset", name>> # Shipped
  BY <1>4 DEF Shipped
<1>6. Data \subseteq FileNames /\ Hive \subseteq FileNames /\ "Iris" \in FileNames
  BY DEF FileNames
<1>7. \A format \in Formats : Targets(format) \subseteq Own
  BY <1>1, <1>3, <1>5, <1>6 DEF Targets, Own
<1> QED BY <1>1, <1>2, <1>5, <1>6, <1>7 DEF Shipped

\* What is in a directory, and the files there.
LEMMA Listed ==
    /\ In("parquet_dataset") = {name \in FileNames : files[<<"parquet_dataset", name>>] # {}}
    /\ In("feather_dataset") = {name \in Data : files[<<"feather_dataset", name>>] # {}}
BY AllNames, AllPaths DEF In, FileNames

LEMMA FilesFound ==
    ASSUME NEW format \in Formats
    PROVE  /\ Found(format) \subseteq FileNames
           /\ \A name \in Data : name \in Found(format) <=> Existing(<<BasePath(format), name>>)
           /\ "Iris" \in Found(format) <=> format # "feather" /\ Existing(Shipped)
           /\ format # "feather" =>
                \A name \in FileNames :
                  name \in Found(format) <=> Existing(<<"parquet_dataset", name>>)
<1>1. Data \subseteq FileNames /\ "Iris" \in FileNames /\ "Iris" \notin Data
  BY DEF FileNames, Data
<1>2. CASE format = "feather"
  <2>1. BasePath(format) = "feather_dataset" BY <1>2 DEF BasePath
  <2>2. Found(format) = {name \in Data : Existing(<<"feather_dataset", name>>)}
    BY <2>1, Listed DEF Found, Existing
  <2> QED BY <1>1, <1>2, <2>1, <2>2
<1>3. CASE format # "feather"
  <2>1. BasePath(format) = "parquet_dataset" BY <1>3 DEF BasePath
  <2>2. Found(format) = {name \in FileNames : Existing(<<"parquet_dataset", name>>)}
    BY <2>1, Listed DEF Found, Existing
  <2> QED BY <1>1, <1>3, <2>1, <2>2 DEF Shipped
<1> QED BY <1>2, <1>3

LEMMA LaneTail ==
    ASSUME NEW lane \in Seq(Ops), lane # <<>>
    PROVE  /\ Len(lane) \in Nat \ {0}
           /\ Head(lane) = lane[1] /\ lane[1] \in Ops
           /\ Tail(lane) \in Seq(Ops)
           /\ Len(Tail(lane)) = Len(lane) - 1
           /\ \A i \in 1..Len(Tail(lane)) : Tail(lane)[i] = lane[i + 1]
           /\ OpensFill(lane) => OpensFill(Tail(lane))
<1>1. Len(lane) \in Nat \ {0} BY EmptySeq
<1>2. Head(lane) = lane[1] /\ Head(lane) \in Ops BY HeadTailProperties
<1>3. /\ Tail(lane) \in Seq(Ops) /\ Len(Tail(lane)) = Len(lane) - 1
      /\ \A i \in 1..Len(Tail(lane)) : Tail(lane)[i] = lane[i + 1]
  BY HeadTailProperties
<1>4. ASSUME OpensFill(lane) PROVE OpensFill(Tail(lane))
  <2> SUFFICES ASSUME NEW i \in 1..Len(Tail(lane)), NEW part \in Parts,
                      Tail(lane)[i].call = "open"
               PROVE  \E k \in 1..Len(Tail(lane)) :
                        k > i /\ Tail(lane)[k] = Op(part, Tail(lane)[i].path)
    BY DEF OpensFill
  <2>1. i + 1 \in 1..Len(lane) /\ Tail(lane)[i] = lane[i + 1] BY <1>1, <1>3
  <2>2. PICK k \in 1..Len(lane) : k > i + 1 /\ lane[k] = Op(part, lane[i + 1].path)
    BY <1>4, <2>1 DEF OpensFill
  <2>3. k - 1 \in 1..Len(Tail(lane)) /\ k - 1 > i /\ (k - 1) + 1 = k BY <1>1, <1>3, <2>2
  <2>4. Tail(lane)[k - 1] = lane[k] BY <1>3, <2>3
  <2> QED BY <2>1, <2>2, <2>3, <2>4
<1> QED BY <1>1, <1>2, <1>3, <1>4

\* The calls of two lanes, one after the other.
LEMMA LaneConcat ==
    ASSUME NEW l \in Seq(Ops), NEW m \in Seq(Ops), OpensFill(l), OpensFill(m), m # <<>>
    PROVE  /\ l \o m \in Seq(Ops) \ {<<>>} /\ OpensFill(l \o m)
           /\ \A call, path : ToCome({l}, call, path) \/ ToCome({m}, call, path) =>
                                ToCome({l \o m}, call, path)
           /\ \A P : (\A i \in 1..Len(l) : l[i].path \in P)
                       /\ (\A i \in 1..Len(m) : m[i].path \in P)
                       => \A i \in 1..Len(l \o m) : (l \o m)[i].path \in P
<1>1. /\ l \o m \in Seq(Ops) /\ Len(l \o m) = Len(l) + Len(m)
      /\ \A i \in 1..Len(l) + Len(m) : (l \o m)[i] = IF i <= Len(l) THEN l[i]
                                                       ELSE m[i - Len(l)]
  BY ConcatProperties
<1>2. Len(l) \in Nat /\ Len(m) \in Nat \ {0} BY LenProperties, EmptySeq
<1>3. l \o m # <<>> BY <1>1, <1>2, EmptySeq
<1>5. ASSUME NEW i \in 1..Len(l) PROVE i \in 1..Len(l \o m) /\ (l \o m)[i] = l[i]
  BY <1>1, <1>2
<1>6. ASSUME NEW i \in 1..Len(m)
      PROVE  i + Len(l) \in 1..Len(l \o m) /\ (l \o m)[i + Len(l)] = m[i]
  <2>1. i + Len(l) \in 1..Len(l) + Len(m) /\ ~(i + Len(l) <= Len(l)) /\ (i + Len(l)) - Len(l) = i
    BY <1>2
  <2> QED BY <1>1, <2>1
<1>4. OpensFill(l \o m)
  <2> SUFFICES ASSUME NEW i \in 1..Len(l \o m), NEW part \in Parts,
                      (l \o m)[i].call = "open"
               PROVE  \E k \in 1..Len(l \o m) :
                        k > i /\ (l \o m)[k] = Op(part, (l \o m)[i].path)
    BY DEF OpensFill
  <2>1. CASE i <= Len(l)
    <3>1. (l \o m)[i] = l[i] /\ i \in 1..Len(l) BY <1>1, <1>2, <2>1
    <3>2. PICK k \in 1..Len(l) : k > i /\ l[k] = Op(part, l[i].path)
      BY <3>1 DEF OpensFill
    <3> QED BY <1>5, <3>1, <3>2
  <2>2. CASE i > Len(l)
    <3>1. PICK n : n = i - Len(l) OBVIOUS
    <3>2. (l \o m)[i] = m[n] /\ n \in 1..Len(m) BY <1>1, <1>2, <2>2, <3>1
    <3>3. PICK k \in 1..Len(m) : k > n /\ m[k] = Op(part, m[n].path)
      BY <3>2 DEF OpensFill
    <3>4. k + Len(l) > i BY <1>1, <1>2, <3>1, <3>3
    <3> QED BY <1>6, <3>2, <3>3, <3>4
  <2> QED BY <1>1, <1>2, <2>1, <2>2
<1>7. ASSUME NEW call, NEW path, ToCome({l}, call, path) \/ ToCome({m}, call, path)
      PROVE  ToCome({l \o m}, call, path)
  BY <1>5, <1>6, <1>7 DEF ToCome
<1>8. ASSUME NEW P, \A i \in 1..Len(l) : l[i].path \in P, \A i \in 1..Len(m) : m[i].path \in P,
             NEW i \in 1..Len(l \o m)
      PROVE  (l \o m)[i].path \in P
  <2>1. CASE i <= Len(l)
    <3>1. i \in 1..Len(l) /\ (l \o m)[i] = l[i] BY <1>1, <1>2, <2>1
    <3> QED BY <1>8, <3>1
  <2>2. CASE i > Len(l)
    <3>1. i - Len(l) \in 1..Len(m) /\ (l \o m)[i] = m[i - Len(l)] BY <1>1, <1>2, <2>2
    <3> QED BY <1>8, <3>1
  <2> QED BY <1>1, <1>2, <2>1, <2>2
<1> QED BY <1>1, <1>3, <1>4, <1>7, <1>8

LEMMA WriteFileLane ==
    ASSUME NEW path \in Own
    PROVE  LET w == WriteFile(path)
           IN /\ w \in Seq(Ops) \ {<<>>} /\ OpensFill(w)
              /\ \A call \in {"open"} \cup Parts : ToCome({w}, call, path)
              /\ \A i \in 1..Len(w) : w[i].path = path
<1> DEFINE w == WriteFile(path)
<1>1. \A call \in {"open", "body", "footer"} : Op(call, path) \in Ops BY DEF Op, Ops, Parts
<1>2. /\ w \in Seq(Ops) /\ Len(w) = 3 /\ w[1] = Op("open", path)
      /\ w[2] = Op("body", path) /\ w[3] = Op("footer", path)
  BY <1>1 DEF WriteFile
<1>3. w # <<>> /\ 1 \in 1..Len(w) /\ 2 \in 1..Len(w) /\ 3 \in 1..Len(w)
  <2>1. Len(<<>>) = 0 OBVIOUS
  <2> QED BY <1>2, <2>1
<1> HIDE DEF w
<1>4. \A i \in 1..Len(w) : i = 1 \/ i = 2 \/ i = 3 BY <1>2
<1>5. \A i \in 1..Len(w) : w[i].path = path /\ (w[i].call = "open" => i = 1)
  BY <1>2, <1>4 DEF Op
<1>6. OpensFill(w)
  <2> SUFFICES ASSUME NEW i \in 1..Len(w), NEW part \in Parts, w[i].call = "open"
               PROVE  \E k \in 1..Len(w) : k > i /\ w[k] = Op(part, w[i].path)
    BY DEF OpensFill
  <2>1. i = 1 /\ w[i].path = path BY <1>5
  <2> QED BY <1>2, <1>3, <2>1 DEF Parts
<1>7. \A call \in {"open"} \cup Parts : ToCome({w}, call, path)
  BY <1>2, <1>3, Zenon DEF ToCome, Parts
<1> QED BY <1>2, <1>3, <1>5, <1>6, <1>7 DEF w

\* The lanes a run starts with write all its targets.
Lanes(todo, format) ==
    /\ todo \subseteq Seq(Ops) \ {<<>>}
    /\ \A lane \in todo : OpensFill(lane)
    /\ \A path \in Targets(format), call \in {"open"} \cup Parts : ToCome(todo, call, path)

LEMMA PlainLanes ==
    ASSUME NEW format \in Plain \cup {"tutorial"}
    PROVE  Lanes(CreateExampleDataset(format), format)
<1> DEFINE x == <<BasePath(format), "data1">>
           y == <<BasePath(format), "data2">>
           l == WriteFile(x)
           m == WriteFile(y)
<1>1. Targets(format) = {x, y} BY DEF Targets, Plain, Data
<1>2. format \in Formats BY DEF Formats
<1>3. x \in Own /\ y \in Own BY <1>1, <1>2, AllPaths
<1>4. /\ l \in Seq(Ops) \ {<<>>} /\ OpensFill(l)
      /\ \A call \in {"open"} \cup Parts : ToCome({l}, call, x)
  BY <1>3, WriteFileLane
<1>5. /\ m \in Seq(Ops) \ {<<>>} /\ OpensFill(m)
      /\ \A call \in {"open"} \cup Parts : ToCome({m}, call, y)
  BY <1>3, WriteFileLane
<1>6. CreateExampleDataset(format) = {l \o m} BY DEF CreateExampleDataset
<1> HIDE DEF l, m, x, y
<1>7. /\ l \o m \in Seq(Ops) \ {<<>>} /\ OpensFill(l \o m)
      /\ \A call \in {"open"} \cup Parts :
           ToCome({l \o m}, call, x) /\ ToCome({l \o m}, call, y)
  BY <1>4, <1>5, LaneConcat
<1> QED BY <1>1, <1>6, <1>7 DEF Lanes

LEMMA HiveLanes ==
    /\ Lanes(CreateExampleParquetHivePartitionedDataset, "parquet_hive")
    /\ \A lane \in CreateExampleParquetHivePartitionedDataset :
         \A i \in 1..Len(lane) : lane[i].path \in Targets("parquet_hive")
<1> DEFINE T == CreateExampleParquetHivePartitionedDataset
           P(name) == <<"parquet_dataset", name>>
           L(name) == <<Op("mkdir", P(name))>> \o WriteFile(P(name))
<1>1. T = {L(name) : name \in Hive} BY DEF CreateExampleParquetHivePartitionedDataset
<1>2. Targets("parquet_hive") = {P(name) : name \in Hive} BY DEF Targets
<1>3. ASSUME NEW name \in Hive
      PROVE  /\ L(name) \in Seq(Ops) \ {<<>>} /\ OpensFill(L(name))
             /\ \A call \in {"open"} \cup Parts : ToCome({L(name)}, call, P(name))
             /\ \A i \in 1..Len(L(name)) : L(name)[i].path \in Targets("parquet_hive")
  <2> DEFINE l == <<Op("mkdir", P(name))>>
             m == WriteFile(P(name))
  <2>0. "parquet_hive" \in Formats BY DEF Formats
  <2>1. P(name) \in Own BY <1>2, <2>0, AllPaths
  <2>2. Op("mkdir", P(name)) \in Ops BY <2>1 DEF Op, Ops
  <2>3. l \in Seq(Ops) /\ Len(l) = 1 /\ l[1] = Op("mkdir", P(name)) BY <2>2
  <2>4. /\ m \in Seq(Ops) \ {<<>>} /\ OpensFill(m)
        /\ \A call \in {"open"} \cup Parts : ToCome({m}, call, P(name))
        /\ \A i \in 1..Len(m) : m[i].path \in Targets("parquet_hive")
    BY <1>2, <2>1, WriteFileLane
  <2> HIDE DEF l, m, P
  <2>5. OpensFill(l) /\ \A i \in 1..Len(l) : l[i].path \in Targets("parquet_hive")
    BY <1>2, <2>3 DEF OpensFill, Op
  <2>6. /\ l \o m \in Seq(Ops) \ {<<>>} /\ OpensFill(l \o m)
        /\ \A call \in {"open"} \cup Parts : ToCome({l \o m}, call, P(name))
        /\ \A i \in 1..Len(l \o m) : (l \o m)[i].path \in Targets("parquet_hive")
    BY <2>3, <2>4, <2>5, LaneConcat
  <2> QED BY <2>6 DEF l, m
<1> HIDE DEF L, P
<1>4. \A name \in Hive, call \in {"open"} \cup Parts : ToCome(T, call, P(name))
  BY <1>1, <1>3 DEF ToCome
<1> QED BY <1>1, <1>2, <1>3, <1>4 DEF Lanes

-----------------------------------------------------------------------------
(* The steps of one run that leave the files alone.                        *)

LEMMA InitIInv == Init => IInv
<1> SUFFICES ASSUME Init PROVE IInv OBVIOUS
<1>1. files \in [Paths -> {{}, Whole}] BY DEF Init
<1>2. files \in [Paths -> SUBSET {"dir", "file", "body", "footer"}] BY <1>1 DEF Whole
<1>3. files[Shipped] \in {{}, Whole} BY <1>1, AllPaths
<1>4. DirInv BY <1>2, <1>3, DatasetAssumption DEF Init, DirInv
<1> QED BY <1>4 DEF Init, IInv, RunInv, AloneInv, Active, Idle

LEMMA RunFacts ==
    ASSUME IInv, NEW p \in Procs, Active(p)
    PROVE  /\ job[p] \in RunStates
           /\ LaneInv(job[p]) /\ FileInv(job[p]) /\ ScanInv(job[p])
BY DEF IInv, RunInv, Active

LEMMA Fields ==
    ASSUME NEW j \in RunStates
    PROVE  /\ j = [at |-> j.at, format |-> j.format, mode |-> j.mode, todo |-> j.todo,
                   left |-> j.left, got |-> j.got, alone |-> j.alone, stale |-> j.stale]
           /\ j.format \in Formats /\ j.mode \in Modes /\ j.todo \subseteq Seq(Ops) \ {<<>>}
           /\ j.left \subseteq FileNames /\ j.got \subseteq FileNames \cup {"garbage"}
           /\ j.alone \in BOOLEAN /\ j.stale \in BOOLEAN
BY DEF RunStates

LEMMA QuietStep ==
    ASSUME IInv, NEW p \in Procs, NEW j, Active(p), job' = [job EXCEPT ![p] = j],
           RunInv(j), j.at = "crashed" \/ j.alone = job[p].alone,
           UNCHANGED <<files, runs>>
    PROVE  IInv'
<1>1. /\ job' = [q \in Procs |-> job'[q]] /\ job'[p] = j
      /\ \A q \in Procs \ {p} : job'[q] = job[q]
  BY DEF IInv
<1>2. DirInv' BY DEF IInv, DirInv
<1>3. ASSUME NEW q \in Procs PROVE RunInv(job[q])'
  <2>1. RunInv(job'[q]) BY <1>1 DEF IInv
  <2> QED BY <2>1 DEF RunInv, LaneInv, FileInv, ScanInv, FailInv, Existing
<1>4. \A q \in Procs : Active(q)' => Active(q) BY <1>1 DEF Active
<1>5. \A q \in Procs : Active(q)' /\ job'[q].alone => job[q].alone BY <1>1 DEF Active
<1>6. AloneInv' BY <1>4, <1>5 DEF IInv, AloneInv, Alone
<1> QED BY <1>1, <1>2, <1>3, <1>6 DEF IInv

\* The write is refused, or there will be lanes to write both partitions.
LEMMA WriteHiveStep ==
    ASSUME IInv, NEW p \in Procs, WriteHive(p)
    PROVE  IInv'
<1> DEFINE j == job[p]
           T == CreateExampleParquetHivePartitionedDataset
<1>1. j.at = "check" /\ Active(p) /\ UNCHANGED <<files, runs>>
  BY DEF WriteHive, Active
<1>2. j \in RunStates /\ LaneInv(j) /\ FileInv(j) /\ ScanInv(j) BY <1>1, RunFacts
<1>3. j.format = "parquet_hive" /\ j.got = {} /\ j.mode = "unknown"
  BY <1>1, <1>2 DEF LaneInv, ScanInv
<1>4. CASE job' = [job EXCEPT ![p].at = "failed"]
  <2> DEFINE k == [j EXCEPT !.at = "failed"]
  <2>1. job' = [job EXCEPT ![p] = k] BY <1>4 DEF IInv
  <2>2. k \in RunStates /\ k.at = "failed" /\ k.alone = j.alone /\ k.format = j.format
    BY <1>2 DEF RunStates
  <2>3. RunInv(k) BY <1>3, <2>2 DEF RunInv, FailInv, Plain
  <2> QED BY <1>1, <2>1, <2>2, <2>3, QuietStep
<1>5. CASE job' = [job EXCEPT ![p].at = "create", ![p].todo = T]
  <2>1. T \subseteq Seq(Ops) \ {<<>>} BY HiveLanes DEF Lanes
  <2>2. PICK k : k = [j EXCEPT !.at = "create", !.todo = T] OBVIOUS
  <2>3. job' = [job EXCEPT ![p] = k] BY <1>5, <2>2 DEF IInv
  <2> HIDE DEF T
  <2>4. /\ k \in RunStates /\ k.at = "create" /\ k.todo = T /\ k.mode = j.mode
        /\ k.format = j.format /\ k.got = j.got /\ k.left = j.left
        /\ k.alone = j.alone /\ k.stale = j.stale
    BY <1>2, <2>1, <2>2 DEF RunStates
  <2>5. LaneInv(k) BY <1>3, <2>4, HiveLanes DEF LaneInv, Lanes, T
  <2>6. ScanInv(k) BY <1>3, <2>4 DEF ScanInv
  <2>7. \A path \in Targets("parquet_hive"), call \in {"open"} \cup Parts : ToCome(T, call, path)
    BY HiveLanes DEF Lanes, T
  <2>8. FileInv(k) BY <1>1, <1>2, <1>3, <2>4, <2>7 DEF FileInv
  <2>9. RunInv(k) BY <2>4, <2>5, <2>6, <2>8 DEF RunInv, FailInv
  <2> QED BY <1>1, <2>3, <2>4, <2>9, QuietStep
<1> QED BY <1>4, <1>5 DEF WriteHive

\* What a run selects: all it has written, and nothing it did not look for.
LEMMA SelectedProps ==
    ASSUME NEW j \in RunStates, j.at = "list", LaneInv(j), FileInv(j), NEW mode \in Modes
    PROVE  /\ Selected(j.format, mode) \subseteq FileNames
           /\ "Iris" \in Selected(j.format, mode) => j.format # "feather" /\ Existing(Shipped)
           /\ j.format \in Plain /\ mode \in PlainModes =>
                Selected(j.format, mode) \ {"Iris"} = Data
           /\ j.format = "tutorial" /\ mode = "partitioned" =>
                Data \subseteq Selected(j.format, mode)
           /\ j.format = "parquet_hive" /\ j.alone /\ ~j.stale
                /\ mode \in {"partitioned", "filter_partitioned"} =>
                Selected(j.format, mode) = Hive
<1>1. PICK found : found = Found(j.format) OBVIOUS
<1>2. PICK selected : selected = Selected(j.format, mode) OBVIOUS
<1>3. selected = IF mode \in PlainModes THEN found \ Hive ELSE found
  BY <1>1, <1>2 DEF Selected
<1>4. j.format \in Formats BY Fields
<1>5. \A path \in Targets(j.format) : Existing(path) BY DEF FileInv, LaneInv, ToCome
<1>6. /\ found \subseteq FileNames
      /\ "Iris" \in found => j.format # "feather" /\ Existing(Shipped)
  BY <1>1, <1>4, FilesFound
<1>7. ASSUME j.format \in Plain \/ j.format = "tutorial" PROVE Data \subseteq found
  <2>1. Targets(j.format) = {BasePath(j.format)} \X Data BY <1>7 DEF Targets, Plain
  <2>2. \A name \in Data : Existing(<<BasePath(j.format), name>>) BY <1>5, <2>1
  <2> QED BY <1>1, <1>4, <2>2, FilesFound
<1>8. ASSUME j.format = "parquet_hive", j.alone, ~j.stale PROVE found = Hive
  <2>1. Targets(j.format) = {"parquet_dataset"} \X Hive BY <1>8 DEF Targets
  <2>2. \A name \in Hive : Existing(<<"parquet_dataset", name>>) BY <1>5, <2>1
  <2>3. \A name \in Data \cup {"Iris"} : ~Existing(<<"parquet_dataset", name>>)
    BY <1>8 DEF FileInv, Existing
  <2>4. \A name \in FileNames : name \in found <=> Existing(<<"parquet_dataset", name>>)
    <3>1. j.format # "feather" BY <1>8
    <3> QED BY <1>1, <1>4, <3>1, FilesFound, Zenon
  <2> QED BY <1>6, <2>2, <2>3, <2>4 DEF FileNames
<1>9. Data \cap Hive = {} /\ "Iris" \notin Data \cup Hive BY DEF Data, Hive
<1>10. PlainModes \cap {"partitioned", "filter_partitioned"} = {} BY DEF PlainModes
<1>11. FileNames \ Hive \subseteq {"Iris"} \cup Data BY DEF FileNames
<1>12. j.format \in Plain /\ mode \in PlainModes => selected \ {"Iris"} = Data
  BY <1>3, <1>6, <1>7, <1>9, <1>11
<1>13. j.format = "tutorial" /\ mode = "partitioned" => Data \subseteq selected
  BY <1>3, <1>7, <1>10
<1>14. j.format = "parquet_hive" /\ j.alone /\ ~j.stale
         /\ mode \in {"partitioned", "filter_partitioned"} => selected = Hive
  BY <1>3, <1>8, <1>10
<1> QED BY <1>2, <1>3, <1>6, <1>12, <1>13, <1>14

LEMMA ListStep ==
    ASSUME IInv, NEW p \in Procs, List(p)
    PROVE  IInv'
<1> DEFINE j == job[p]
<1>1. /\ j.at = "list" /\ Active(p) /\ UNCHANGED <<files, runs>>
  BY DEF List, Active
<1>2. j \in RunStates /\ LaneInv(j) /\ FileInv(j) /\ ScanInv(j) BY <1>1, RunFacts
<1>3. PICK mode \in IF j.format = "tutorial" THEN {"partitioned"} ELSE Modes :
        job' = [job EXCEPT ![p] =
          IF mode = "unknown" THEN [j EXCEPT !.at = "failed"]
          ELSE [j EXCEPT !.at = "inspect", !.mode = mode,
                         !.left = Selected(j.format, mode)]]
  BY Zenon DEF List
<1>4. mode \in Modes BY DEF Modes
<1>5. CASE mode = "unknown"
  <2> DEFINE k == [j EXCEPT !.at = "failed"]
  <2>1. /\ k \in RunStates /\ k.at = "failed" /\ k.alone = j.alone /\ k.mode = j.mode
    BY <1>2 DEF RunStates
  <2>2. j.mode = "unknown" BY <1>1, <1>2 DEF ScanInv
  <2>3. RunInv(k) BY <2>1, <2>2 DEF RunInv, FailInv, PlainModes
  <2> QED BY <1>1, <1>3, <1>5, <2>1, <2>3, QuietStep
<1>6. CASE mode # "unknown"
  <2> DEFINE left == Selected(j.format, mode)
             k == [j EXCEPT !.at = "inspect", !.mode = mode, !.left = left]
  <2>1. /\ left \subseteq FileNames
        /\ "Iris" \in left => j.format # "feather" /\ Existing(Shipped)
        /\ j.format \in Plain /\ mode \in PlainModes => left \ {"Iris"} = Data
        /\ j.format = "tutorial" => Data \subseteq left
        /\ j.format = "parquet_hive" /\ j.alone /\ ~j.stale
             /\ mode \in {"partitioned", "filter_partitioned"} => left = Hive
    BY <1>1, <1>2, <1>3, <1>4, SelectedProps
  <2>2. job' = [job EXCEPT ![p] = k] BY <1>3, <1>6
  <2> HIDE DEF left
  <2>3. /\ k \in RunStates /\ k.at = "inspect" /\ k.mode = mode /\ k.left = left
        /\ k.format = j.format /\ k.todo = j.todo /\ k.got = j.got
        /\ k.alone = j.alone /\ k.stale = j.stale
    BY <1>2, <1>4, <2>1 DEF RunStates
  <2> HIDE DEF k
  <2>4. LaneInv(k) BY <1>1, <1>2, <2>3 DEF LaneInv
  <2>5. FileInv(k) BY <1>1, <1>2, <2>1, <2>3 DEF FileInv
  <2>6. ScanInv(k) BY <1>1, <1>2, <2>1, <2>3 DEF ScanInv
  <2>7. RunInv(k) BY <2>3, <2>4, <2>5, <2>6 DEF RunInv, FailInv
  <2> QED BY <1>1, <2>2, <2>3, <2>7, QuietStep
<1> QED BY <1>5, <1>6

\* The schema of a dataset is that of one of its files.
LEMMA FirstIsOne ==
    ASSUME NEW left \in SUBSET FileNames, left # {}
    PROVE  First(left) \in left
<1> DEFINE P(i) == Names[i] \in left /\ \A k \in 1..i - 1 : Names[k] \notin left
<1>1. \E i \in 1..5 : Names[i] \in left BY AllNames
<1>2. \E i \in 1..5 : P(i)
  <2>1. CASE Names[1] \in left BY <2>1
  <2>2. CASE Names[1] \notin left /\ Names[2] \in left BY <2>2
  <2>3. CASE Names[1] \notin left /\ Names[2] \notin left /\ Names[3] \in left BY <2>3
  <2>4. CASE /\ Names[1] \notin left /\ Names[2] \notin left /\ Names[3] \notin left
             /\ Names[4] \in left
    BY <2>4
  <2>5. CASE /\ Names[1] \notin left /\ Names[2] \notin left /\ Names[3] \notin left
             /\ Names[4] \notin left
    BY <1>1, <2>5
  <2> QED BY <2>1, <2>2, <2>3, <2>4, <2>5
<1>3. PICK i \in 1..5 : i = (CHOOSE n \in 1..5 : P(n)) /\ P(i) BY <1>2
<1> QED BY <1>3 DEF First

\* A run that is alone finds the files it has written whole.
LEMMA AloneReads ==
    ASSUME DirInv, NEW j \in RunStates, LaneInv(j), FileInv(j), ScanInv(j),
           j.at \in {"inspect", "scan"}, j.alone
    PROVE  /\ j.format \in Plain /\ j.mode \in PlainModes =>
                /\ \A name \in j.left : Whole \subseteq FileOf(j, name)
                /\ j.at = "inspect" => Data \subseteq j.left
           /\ j.format = "parquet_hive" =>
                \A name \in Hive : Whole \subseteq FileOf(j, name)
           /\ j.format = "tutorial" =>
                \A name \in Data : Whole \subseteq FileOf(j, name)
<1>1. \A path \in Targets(j.format) : Whole \subseteq files[path]
  BY DEF LaneInv, FileInv, ToCome, Existing, Whole, Parts
<1>2. ASSUME j.format \in Plain \cup {"tutorial"}
      PROVE  \A name \in Data : Whole \subseteq FileOf(j, name)
  <2>1. Targets(j.format) = {BasePath(j.format)} \X Data BY <1>2 DEF Targets, Plain
  <2> QED BY <1>1, <2>1 DEF FileOf
<1>3. ASSUME j.format = "parquet_hive"
      PROVE  \A name \in Hive : Whole \subseteq FileOf(j, name)
  <2>1. Targets(j.format) = {BasePath(j.format)} \X Hive BY <1>3 DEF Targets, BasePath
  <2> QED BY <1>1, <2>1 DEF FileOf
<1>4. ASSUME "Iris" \in j.left PROVE Whole \subseteq FileOf(j, "Iris")
  <2>1. j.format # "feather" /\ Existing(Shipped) BY <1>4 DEF FileInv
  <2>2. FileOf(j, "Iris") = files[Shipped] BY <2>1 DEF FileOf, BasePath, Shipped
  <2> QED BY <2>1, <2>2 DEF DirInv, Existing
<1>5. ASSUME j.format \in Plain, j.mode \in PlainModes
      PROVE  (j.left \cup j.got) \ {"Iris"} = Data /\ (j.at = "inspect" => j.got = {})
  BY <1>5 DEF ScanInv
<1>6. j.format \in Plain /\ j.mode \in PlainModes /\ j.at = "inspect" => Data \subseteq j.left
  BY <1>5
<1> QED BY <1>2, <1>3, <1>4, <1>5, <1>6

LEMMA InspectStep ==
    ASSUME IInv, NEW p \in Procs, Inspect(p)
    PROVE  IInv'
<1>0. PICK j : j = job[p] OBVIOUS
<1> DEFINE first == FileOf(j, First(j.left))
           ok == (j.left # {} => "footer" \in first) /\ ColumnsKnown(j)
<1>at. PICK at : at = IF ok THEN "scan" ELSE "failed" OBVIOUS
<1>left. PICK left : left = IF j.mode = "filter_partitioned" THEN j.left \ {"part=a"} ELSE j.left
  OBVIOUS
<1>k. PICK k : k = [j EXCEPT !.at = at, !.left = left] OBVIOUS
<1>1. /\ j.at = "inspect" /\ Active(p) /\ UNCHANGED <<files, runs>>
  BY <1>0 DEF Inspect, Active
<1>2. j \in RunStates /\ LaneInv(j) /\ FileInv(j) /\ ScanInv(j) /\ DirInv
  BY <1>0, <1>1, RunFacts DEF IInv
<1>3. job' = [job EXCEPT ![p] = k] BY <1>0, <1>at, <1>left, <1>k, Zenon DEF Inspect
<1>4. left \subseteq j.left /\ left \subseteq FileNames BY <1>2, <1>left, Fields
<1>5. ASSUME j.format \in Plain, j.mode \in PlainModes, j.alone, at # "scan"
      PROVE  j.mode # "no_filter" /\ j.format # "feather" /\ Existing(Shipped)
  <2>1. Data \subseteq j.left /\ \A name \in j.left : Whole \subseteq FileOf(j, name)
    BY <1>1, <1>2, <1>5, AloneReads
  <2>2. j.left # {} BY <2>1 DEF Data
  <2>3. First(j.left) \in j.left BY <1>2, <2>2, FirstIsOne, Fields
  <2>4. "footer" \in first BY <2>1, <2>3 DEF Whole
  <2>5. ~ColumnsKnown(j) BY <1>5, <1>at, <2>4
  <2>6. j.mode # "no_filter" /\ "Iris" \in j.left
    BY <1>5, <2>2, <2>5 DEF ColumnsKnown, PlainModes
  <2> QED BY <1>2, <2>6 DEF FileInv
<1>6. at \in {"scan", "failed"} BY <1>at
<1> HIDE DEF ok, first
<1>8. /\ k \in RunStates /\ k.at = at /\ k.left = left /\ k.mode = j.mode
      /\ k.format = j.format /\ k.todo = j.todo /\ k.got = j.got
      /\ k.alone = j.alone /\ k.stale = j.stale
  BY <1>2, <1>4, <1>6, <1>k DEF RunStates
<1>9. LaneInv(k) BY <1>1, <1>2, <1>6, <1>8 DEF LaneInv
<1>10. FileInv(k) BY <1>1, <1>2, <1>4, <1>6, <1>8 DEF FileInv
<1>11. ScanInv(k)
  <2>1. j.got = {} BY <1>1, <1>2 DEF ScanInv
  <2>2. j.alone /\ j.format \in Plain /\ j.mode \in PlainModes => left \ {"Iris"} = Data
    <3>1. j.mode \in PlainModes => left = j.left BY <1>left DEF PlainModes
    <3> QED BY <1>1, <1>2, <2>1, <3>1 DEF ScanInv
  <2>3. j.alone /\ j.format = "tutorial" => Data \subseteq left
    BY <1>1, <1>2, <1>left, <2>1 DEF ScanInv, Data
  <2>4. j.format = "parquet_hive" /\ j.alone /\ ~j.stale /\ j.mode = "partitioned" => left = Hive
    BY <1>1, <1>2, <1>left, <2>1 DEF ScanInv
  <2>5. j.format = "parquet_hive" /\ j.alone /\ ~j.stale /\ j.mode = "filter_partitioned" =>
          left = {"part=b"}
    BY <1>1, <1>2, <1>left, <2>1 DEF ScanInv, Hive
  <2> QED BY <1>6, <1>8, <2>1, <2>2, <2>3, <2>4, <2>5 DEF ScanInv
<1>12. FailInv(k) BY <1>5, <1>6, <1>8 DEF FailInv
<1>13. RunInv(k) BY <1>6, <1>8, <1>9, <1>10, <1>11, <1>12 DEF RunInv
<1> QED BY <1>0, <1>1, <1>3, <1>8, <1>13, QuietStep

LEMMA ToTableStep ==
    ASSUME IInv, NEW p \in Procs, ToTable(p)
    PROVE  IInv'
<1>0. PICK j : j = job[p] OBVIOUS
<1>1. j.at = "scan" /\ Active(p) /\ UNCHANGED <<files, runs>>
  BY <1>0 DEF ToTable, Active
<1>2. j \in RunStates /\ LaneInv(j) /\ FileInv(j) /\ ScanInv(j) /\ DirInv
  BY <1>0, <1>1, RunFacts DEF IInv
<1>3. PICK name \in j.left :
        \/ job' = [job EXCEPT ![p] =
             [j EXCEPT !.left = j.left \ {name},
                !.got = j.got \cup {IF "body" \in FileOf(j, name) THEN name ELSE "garbage"}]]
        \/ /\ ~(Whole \subseteq FileOf(j, name))
           /\ job' = [job EXCEPT ![p].at = "failed"]
  BY <1>0, Zenon DEF ToTable
<1>a. /\ j.alone /\ j.format \in Plain /\ j.mode \in PlainModes => Whole \subseteq FileOf(j, name)
      /\ j.alone /\ j.format = "parquet_hive" /\ name \in Hive => Whole \subseteq FileOf(j, name)
      /\ j.alone /\ j.format = "tutorial" /\ name \in Data => Whole \subseteq FileOf(j, name)
  BY <1>1, <1>2, AloneReads
<1>4. CASE ~(Whole \subseteq FileOf(j, name)) /\ job' = [job EXCEPT ![p].at = "failed"]
  <2> DEFINE k == [j EXCEPT !.at = "failed"]
  <2>1. /\ k \in RunStates /\ k.at = "failed" /\ k.alone = j.alone /\ k.mode = j.mode
        /\ k.format = j.format
    BY <1>2 DEF RunStates
  <2>2. ~(j.format \in Plain /\ j.mode \in PlainModes /\ j.alone) BY <1>4, <1>a
  <2>3. RunInv(k) BY <2>1, <2>2 DEF RunInv, FailInv
  <2>4. job' = [job EXCEPT ![p] = k] BY <1>0, <1>4 DEF IInv
  <2> QED BY <1>0, <1>1, <2>1, <2>3, <2>4, QuietStep
<1>5. ASSUME job' = [job EXCEPT ![p] =
               [j EXCEPT !.left = j.left \ {name},
                  !.got = j.got \cup {IF "body" \in FileOf(j, name) THEN name ELSE "garbage"}]]
      PROVE  IInv'
  <2>n. PICK new : new = IF "body" \in FileOf(j, name) THEN name ELSE "garbage" OBVIOUS
  <2>k. PICK k : k = [j EXCEPT !.left = j.left \ {name}, !.got = j.got \cup {new}] OBVIOUS
  <2>0. name \in FileNames /\ new \in {name, "garbage"} BY <1>2, <2>n, Fields
  <2>1. /\ k \in RunStates /\ k.at = "scan" /\ k.mode = j.mode
        /\ k.left = j.left \ {name} /\ k.got = j.got \cup {new}
        /\ k.format = j.format /\ k.todo = j.todo /\ k.alone = j.alone /\ k.stale = j.stale
    BY <1>1, <1>2, <2>0, <2>k DEF RunStates
  <2>2. job' = [job EXCEPT ![p] = k] BY <1>5, <2>n, <2>k, Zenon
  <2>3. new = name => k.left \cup k.got = j.left \cup j.got BY <2>1
  <2>4. LaneInv(k) BY <1>1, <1>2, <2>1 DEF LaneInv
  <2>5. FileInv(k) BY <1>1, <1>2, <2>1 DEF FileInv
  <2>6. Whole \subseteq FileOf(j, name) => new = name BY <2>n DEF Whole
  <2>7. ScanInv(k)
    <3>1. j.format \in Plain /\ j.mode \in PlainModes /\ j.alone =>
            (k.left \cup k.got) \ {"Iris"} = Data
      BY <1>1, <1>2, <1>a, <2>3, <2>6 DEF ScanInv
    <3>2. j.format = "tutorial" /\ j.alone => Data \subseteq k.left \cup k.got
      <4>1. CASE name \in Data BY <1>1, <1>2, <1>a, <2>3, <2>6, <4>1 DEF ScanInv
      <4>2. CASE name \notin Data BY <1>1, <1>2, <2>1, <4>2 DEF ScanInv
      <4> QED BY <4>1, <4>2
    <3>3. ASSUME j.format = "parquet_hive", j.alone, ~j.stale,
                 j.mode \in {"partitioned", "filter_partitioned"}
          PROVE  k.left \cup k.got = j.left \cup j.got
      <4>1. j.left \subseteq Hive BY <1>1, <1>2, <3>3 DEF ScanInv, Hive
      <4> QED BY <1>a, <2>3, <2>6, <3>3, <4>1
    <3> QED BY <1>1, <1>2, <2>1, <3>1, <3>2, <3>3 DEF ScanInv
  <2>8. RunInv(k) BY <2>1, <2>4, <2>5, <2>7 DEF RunInv, FailInv
  <2> QED BY <1>0, <1>1, <2>1, <2>2, <2>8, QuietStep
<1> QED BY <1>3, <1>4, <1>5

\* The scan is over, or the table that was read is written.
LEMMA FinishStep ==
    ASSUME IInv, NEW p \in Procs, EndScan(p) \/ WriteDataset(p)
    PROVE  IInv'
<1> DEFINE j == job[p]
<1>1. PICK at \in {"write", "done"} : job' = [job EXCEPT ![p].at = at]
  BY DEF EndScan, WriteDataset, IInv
<1>2. /\ j.at \in {"scan", "write"} /\ Active(p) /\ UNCHANGED <<files, runs>>
      /\ j.at = "scan" => j.left = {}
  BY DEF EndScan, WriteDataset, Active
<1>3. j \in RunStates /\ LaneInv(j) /\ FileInv(j) /\ ScanInv(j) BY <1>2, RunFacts
<1> DEFINE k == [j EXCEPT !.at = at]
<1>4. job' = [job EXCEPT ![p] = k] BY <1>1 DEF IInv
<1>5. /\ k \in RunStates /\ k.at = at /\ k.mode = j.mode /\ k.left = j.left /\ k.got = j.got
      /\ k.format = j.format /\ k.todo = j.todo /\ k.alone = j.alone /\ k.stale = j.stale
  BY <1>3 DEF RunStates
<1> HIDE DEF k
<1>6. LaneInv(k) BY <1>2, <1>3, <1>5 DEF LaneInv
<1>7. FileInv(k) BY <1>2, <1>3, <1>5 DEF FileInv
<1>8. ScanInv(k) BY <1>2, <1>3, <1>5 DEF ScanInv
<1>9. RunInv(k) BY <1>5, <1>6, <1>7, <1>8 DEF RunInv, FailInv
<1> QED BY <1>2, <1>4, <1>5, <1>9, QuietStep

LEMMA CrashStep ==
    ASSUME IInv, NEW p \in Procs, Crash(p)
    PROVE  IInv'
<1>1. RunInv([at |-> "crashed"]) BY DEF RunInv
<1> QED BY <1>1, QuietStep DEF Crash, IInv, DirInv

-----------------------------------------------------------------------------
(* A call of the file system.                                              *)

\* The lanes after a call: what was to come still is, or was this call.
Rest(todo, lane, rest) ==
    /\ Head(lane) \in Ops
    /\ rest \subseteq Seq(Ops) \ {<<>>} /\ \A l \in rest : OpensFill(l)
    /\ \A call, path : ToCome(todo, call, path) =>
         ToCome(rest, call, path) \/ Head(lane) = Op(call, path)
    /\ Head(lane).call = "open" =>
         \A part \in Parts : ToCome(rest, part, Head(lane).path)
    /\ \A P : (\A l \in todo : \A i \in 1..Len(l) : l[i].path \in P) =>
         /\ Head(lane).path \in P
         /\ \A l \in rest : \A i \in 1..Len(l) : l[i].path \in P

LEMMA RestProps ==
    ASSUME NEW todo \in SUBSET (Seq(Ops) \ {<<>>}), NEW lane \in todo,
           \A l \in todo : OpensFill(l),
           NEW rest, rest = (todo \ {lane}) \cup ({Tail(lane)} \ {<<>>})
    PROVE  Rest(todo, lane, rest)
<1> DEFINE tail == Tail(lane)
<1>1. /\ Len(lane) \in Nat \ {0} /\ Head(lane) = lane[1] /\ lane[1] \in Ops
      /\ tail \in Seq(Ops) /\ Len(tail) = Len(lane) - 1
      /\ \A i \in 1..Len(tail) : tail[i] = lane[i + 1]
      /\ OpensFill(tail)
  BY LaneTail
<1> HIDE DEF tail
<1>2. \A l \in rest : l = tail \/ l \in todo BY DEF tail
<1>3. rest \subseteq Seq(Ops) \ {<<>>} /\ \A l \in rest : OpensFill(l)
  BY <1>1, Zenon DEF tail
<1>4. ASSUME NEW i \in 1..Len(tail) PROVE tail \in rest
  <2>1. tail # <<>> BY <1>1, EmptySeq
  <2> QED BY <2>1 DEF tail
<1>5. ASSUME NEW i \in 1..Len(lane), i # 1
      PROVE  tail \in rest /\ i - 1 \in 1..Len(tail) /\ lane[i] = tail[i - 1]
  <2>1. i - 1 \in 1..Len(tail) /\ (i - 1) + 1 = i BY <1>1, <1>5
  <2> QED BY <1>1, <1>4, <2>1
<1>6. ASSUME NEW call, NEW path, ToCome(todo, call, path), Head(lane) # Op(call, path)
      PROVE  ToCome(rest, call, path)
  <2>1. PICK l \in todo : \E i \in 1..Len(l) : l[i] = Op(call, path) BY <1>6 DEF ToCome
  <2>2. PICK i \in 1..Len(l) : l[i] = Op(call, path) BY <2>1
  <2>3. CASE l # lane BY <2>2, <2>3 DEF ToCome
  <2>4. CASE l = lane
    <3>1. i # 1 BY <1>1, <1>6, <2>2, <2>4
    <3>2. tail \in rest /\ i - 1 \in 1..Len(tail) /\ tail[i - 1] = Op(call, path)
      BY <1>5, <2>2, <2>4, <3>1
    <3> QED BY <3>2 DEF ToCome
  <2> QED BY <2>3, <2>4
<1>7. ASSUME Head(lane).call = "open", NEW part \in Parts
      PROVE  ToCome(rest, part, Head(lane).path)
  <2>1. 1 \in 1..Len(lane) /\ OpensFill(lane) BY <1>1
  <2>2. PICK k \in 1..Len(lane) : k > 1 /\ lane[k] = Op(part, lane[1].path)
    BY <1>1, <1>7, <2>1 DEF OpensFill
  <2>3. k # 1 BY <2>2
  <2>4. tail \in rest /\ k - 1 \in 1..Len(tail) /\ lane[k] = tail[k - 1] BY <1>5, <2>3
  <2> QED BY <1>1, <2>2, <2>4 DEF ToCome
<1>8. ASSUME NEW P, \A l \in todo : \A i \in 1..Len(l) : l[i].path \in P
      PROVE  /\ Head(lane).path \in P
             /\ \A l \in rest : \A i \in 1..Len(l) : l[i].path \in P
  <2>1. 1 \in 1..Len(lane) BY <1>1
  <2>2. ASSUME NEW i \in 1..Len(tail) PROVE tail[i].path \in P
    <3>1. i + 1 \in 1..Len(lane) BY <1>1
    <3> QED BY <1>1, <1>8, <3>1
  <2> QED BY <1>1, <1>2, <1>8, <2>1, <2>2
<1> QED BY <1>1, <1>3, <1>6, <1>7, <1>8 DEF Rest

\* What a call does to the files: none disappears, it writes what it is meant to, and only
\* opening a file takes anything away.
LEMMA CallProps ==
    ASSUME DirInv, NEW op \in Ops,
           files' = [files EXCEPT ![op.path] = Effect(op.call, files[op.path])]
    PROVE  /\ files' \in [Paths -> SUBSET {"dir", "file", "body", "footer"}]
           /\ op.path # Shipped
           /\ \A path \in Paths \ {op.path} : files'[path] = files[path]
           /\ \A path \in Paths : Existing(path) => Existing(path)'
           /\ op.call = "open" => Existing(op.path)'
           /\ op.call \in Parts => op.call \in files'[op.path]
           /\ \A path \in Paths : \A part \in Parts : part \in files[path] =>
                part \in files'[path] \/ op = Op("open", path)
<1>1. /\ op.call \in {"mkdir", "open", "body", "footer"} /\ op.path \in Paths
      /\ op = Op(op.call, op.path) /\ op.path # Shipped
  BY DEF Ops, Op, Parts, Own
<1>2. files \in [Paths -> SUBSET {"dir", "file", "body", "footer"}] BY DEF DirInv
<1>old. PICK old : old = files[op.path] OBVIOUS
<1>new. PICK new : new = Effect(op.call, old) OBVIOUS
<1>3. old \subseteq {"dir", "file", "body", "footer"} BY <1>1, <1>2, <1>old
<1>4. /\ op.call = "mkdir" => new = old \cup {"dir"}
      /\ op.call = "open" => new = (old \cap {"dir"}) \cup {"file"}
      /\ op.call \in {"body", "footer"} => new = old \cup {op.call}
  BY <1>new DEF Effect
<1>5. /\ new \subseteq {"dir", "file", "body", "footer"}
      /\ "file" \in old \/ op.call = "open" => "file" \in new
      /\ op.call \in Parts => op.call \in new
      /\ op.call # "open" => old \subseteq new
  BY <1>1, <1>3, <1>4 DEF Parts
<1>6. files' = [files EXCEPT ![op.path] = new] BY <1>old, <1>new
<1>7. /\ files' \in [Paths -> SUBSET {"dir", "file", "body", "footer"}]
      /\ files'[op.path] = new
      /\ \A path \in Paths \ {op.path} : files'[path] = files[path]
  BY <1>1, <1>2, <1>5, <1>6
<1>8. \A path \in Paths : Existing(path) => Existing(path)'
  BY <1>5, <1>7, <1>old DEF Existing
<1>9. op.call = "open" => Existing(op.path)' BY <1>5, <1>7 DEF Existing
<1>10. \A path \in Paths : \A part \in Parts : part \in files[path] =>
         part \in files'[path] \/ op = Op("open", path)
  BY <1>1, <1>5, <1>7, <1>old
<1> QED BY <1>1, <1>5, <1>7, <1>8, <1>9, <1>10

LEMMA CreateStep ==
    ASSUME IInv, NEW p \in Procs, Create(p)
    PROVE  IInv'
<1>0. PICK j : j = job[p] OBVIOUS
<1>1. /\ j.at = "create" /\ Active(p) /\ UNCHANGED runs
  BY <1>0 DEF Create, Active
<1>2. j \in RunStates /\ LaneInv(j) /\ FileInv(j) /\ ScanInv(j) BY <1>0, <1>1, RunFacts
<1>3. \E lane \in j.todo :
        LET rest == (j.todo \ {lane}) \cup ({Tail(lane)} \ {<<>>})
        IN /\ files' = [files EXCEPT ![Head(lane).path] =
                          Effect(Head(lane).call, files[Head(lane).path])]
           /\ job' = [job EXCEPT ![p] =
                [j EXCEPT !.todo = rest, !.at = IF rest = {} THEN "list" ELSE "create"]]
  BY <1>0, Zenon DEF Create
<1>4. PICK lane \in j.todo :
        LET rest == (j.todo \ {lane}) \cup ({Tail(lane)} \ {<<>>})
        IN /\ files' = [files EXCEPT ![Head(lane).path] =
                          Effect(Head(lane).call, files[Head(lane).path])]
           /\ job' = [job EXCEPT ![p] =
                [j EXCEPT !.todo = rest, !.at = IF rest = {} THEN "list" ELSE "create"]]
  BY <1>3, Zenon
<1>op. PICK op : op = Head(lane) OBVIOUS
<1>rest. PICK rest : rest = (j.todo \ {lane}) \cup ({Tail(lane)} \ {<<>>}) OBVIOUS
<1>at. PICK at : at = IF rest = {} THEN "list" ELSE "create" OBVIOUS
<1>k. PICK k : k = [j EXCEPT !.todo = rest, !.at = at] OBVIOUS
<1>5. j.todo \in SUBSET (Seq(Ops) \ {<<>>}) /\ \A l \in j.todo : OpensFill(l)
  BY <1>2, Fields DEF LaneInv
<1>6. /\ files' = [files EXCEPT ![op.path] = Effect(op.call, files[op.path])]
      /\ job' = [job EXCEPT ![p] = k]
  BY <1>4, <1>op, <1>rest, <1>at, <1>k, Zenon
<1>7. at \in {"list", "create"} /\ (at = "list" => rest = {}) BY <1>at
<1>8. /\ op \in Ops
      /\ rest \subseteq Seq(Ops) \ {<<>>} /\ \A l \in rest : OpensFill(l)
      /\ \A call, path : ToCome(j.todo, call, path) =>
           ToCome(rest, call, path) \/ op = Op(call, path)
      /\ op.call = "open" => \A part \in Parts : ToCome(rest, part, op.path)
      /\ \A P : (\A l \in j.todo : \A i \in 1..Len(l) : l[i].path \in P) =>
           /\ op.path \in P
           /\ \A l \in rest : \A i \in 1..Len(l) : l[i].path \in P
  <2>1. Rest(j.todo, lane, rest) BY <1>5, <1>rest, RestProps
  <2> QED BY <2>1, <1>op, Zenon DEF Rest
<1>9. DirInv BY DEF IInv
<1>10. /\ files' \in [Paths -> SUBSET {"dir", "file", "body", "footer"}]
       /\ op.path # Shipped
       /\ \A path \in Paths \ {op.path} : files'[path] = files[path]
       /\ \A path \in Paths : Existing(path) => Existing(path)'
       /\ op.call = "open" => Existing(op.path)'
       /\ op.call \in Parts => op.call \in files'[op.path]
       /\ \A path \in Paths : \A part \in Parts : part \in files[path] =>
            part \in files'[path] \/ op = Op("open", path)
  BY <1>6, <1>8, <1>9, CallProps
<1>11. /\ k \in RunStates /\ k.at = at /\ k.todo = rest /\ k.mode = j.mode /\ k.left = j.left
       /\ k.format = j.format /\ k.got = j.got /\ k.alone = j.alone /\ k.stale = j.stale
  BY <1>2, <1>k, <1>7, <1>8 DEF RunStates
<1>12. Targets(j.format) \subseteq Paths /\ Shipped \in Paths BY <1>2, Fields, AllPaths DEF Own
<1>13. LaneInv(k)
  <2>1. j.format = "parquet_hive" =>
          \A l \in rest : \A i \in 1..Len(l) : l[i].path \in Targets(j.format)
    BY <1>2, <1>8 DEF LaneInv
  <2> QED BY <1>7, <1>8, <1>11, <2>1 DEF LaneInv
<1>14. FileInv(k)'
  <2>1. ASSUME NEW path \in Targets(j.format)
        PROVE  Existing(path)' \/ ToCome(rest, "open", path)
    <3>1. Existing(path) \/ ToCome(j.todo, "open", path) BY <1>1, <1>2 DEF FileInv
    <3>2. CASE Existing(path) BY <1>10, <1>12, <3>2
    <3>3. CASE ToCome(j.todo, "open", path) /\ ~ToCome(rest, "open", path)
      <4>1. op = Op("open", path) BY <1>8, <3>3
      <4>2. op.call = "open" /\ op.path = path BY <4>1 DEF Op
      <4> QED BY <1>10, <4>2
    <3> QED BY <3>1, <3>2, <3>3
  <2>2. ASSUME j.alone, NEW path \in Targets(j.format), NEW part \in Parts
        PROVE  part \in files'[path] \/ ToCome(rest, part, path)
    <3>1. part \in files[path] \/ ToCome(j.todo, part, path)
      BY <1>1, <1>2, <2>2 DEF FileInv
    <3>2. CASE part \in files[path]
      <4>1. part \in files'[path] \/ op = Op("open", path) BY <1>10, <1>12, <3>2
      <4>2. op = Op("open", path) => op.call = "open" /\ op.path = path BY DEF Op
      <4> QED BY <1>8, <4>1, <4>2
    <3>3. CASE ToCome(j.todo, part, path) /\ ~ToCome(rest, part, path)
      <4>1. op = Op(part, path) BY <1>8, <3>3
      <4>2. op.call = part /\ op.path = path BY <4>1 DEF Op
      <4> QED BY <1>10, <4>2
    <3> QED BY <3>1, <3>2, <3>3
  <2>3. ASSUME j.format = "parquet_hive", j.alone, ~j.stale, NEW name \in Data \cup {"Iris"}
        PROVE  files'[<<"parquet_dataset", name>>] = {}
    <3>1. op.path \in Targets(j.format) BY <1>2, <1>8, <2>3 DEF LaneInv
    <3>2. Targets(j.format) = {"parquet_dataset"} \X Hive BY <2>3 DEF Targets
    <3>3. <<"parquet_dataset", name>> # op.path BY <3>1, <3>2 DEF Data, Hive
    <3>4. <<"parquet_dataset", name>> \in Paths BY AllPaths DEF FileNames
    <3>5. files[<<"parquet_dataset", name>>] = {} BY <1>1, <1>2, <2>3 DEF FileInv
    <3> QED BY <1>10, <3>3, <3>4, <3>5
  <2>4. "Iris" \in j.left => j.format # "feather" /\ Existing(Shipped)'
    BY <1>2, <1>10, <1>12 DEF FileInv
  <2> QED BY <1>7, <1>11, <2>1, <2>2, <2>3, <2>4 DEF FileInv
<1>15. ScanInv(k) BY <1>1, <1>2, <1>7, <1>11 DEF ScanInv
<1>16. /\ job' = [q \in Procs |-> job'[q]] /\ job'[p] = k
       /\ \A q \in Procs \ {p} : job'[q] = job[q]
  BY <1>6 DEF IInv
<1>17. ASSUME NEW q \in Procs PROVE RunInv(job[q])'
  <2>1. CASE q = p
    <3>1. RunInv(k)' BY <1>7, <1>11, <1>13, <1>14, <1>15 DEF RunInv, LaneInv, ScanInv, FailInv
    <3> QED BY <1>16, <2>1, <3>1 DEF RunInv
  <2>2. CASE q # p
    <3>0. PICK i : i = job[q] OBVIOUS
    <3>1. job'[q] = i /\ RunInv(i) BY <1>16, <2>2, <3>0 DEF IInv
    <3>2. i.at \notin {"idle", "done", "failed", "crashed"} => ~i.alone
      BY <1>1, <2>2, <3>0 DEF IInv, AloneInv, Alone, Active
    <3>3. ASSUME i.at \notin {"idle", "crashed", "failed"}
          PROVE  LaneInv(i) /\ FileInv(i)' /\ ScanInv(i)
      <4>1. LaneInv(i) /\ FileInv(i) /\ ScanInv(i) /\ i \in RunStates
        BY <3>1, <3>3 DEF RunInv
      <4>2. Targets(i.format) \subseteq Paths /\ Shipped \in Paths
        BY <4>1, Fields, AllPaths DEF Own
      <4>3. FileInv(i)' BY <1>10, <3>2, <4>1, <4>2 DEF FileInv
      <4> QED BY <4>1, <4>3
    <3>f. FailInv(i)' \/ i.at \in {"idle", "crashed"}
      BY <1>10, <1>12, <3>1 DEF FailInv, RunInv
    <3>4. RunInv(i)' BY <3>1, <3>3, <3>f DEF RunInv, LaneInv, ScanInv
    <3> QED BY <3>1, <3>4 DEF RunInv
  <2> QED BY <2>1, <2>2
<1>18. AloneInv'
  <2>1. \A q \in Procs : (Active(q)' => Active(q)) /\ job'[q].alone = job[q].alone
    BY <1>0, <1>1, <1>11, <1>16 DEF Active
  <2> QED BY <2>1 DEF IInv, AloneInv, Alone
<1>19. DirInv' BY <1>1, <1>9, <1>10, <1>12 DEF DirInv
<1> QED BY <1>16, <1>17, <1>18, <1>19 DEF IInv

\* A run starts: from now on the others are not alone.
LEMMA StartStep ==
    ASSUME IInv, NEW p \in Procs, Start(p)
    PROVE  IInv'
<1>1. /\ ~Active(p) /\ runs < MaxRuns /\ runs' = runs + 1 /\ UNCHANGED files
  BY DEF Start
<1>2. PICK format \in Formats :
        job' = [q \in Procs |->
          IF q # p THEN IF Active(q) THEN [job[q] EXCEPT !.alone = FALSE] ELSE job[q]
          ELSE [at |-> CASE format = "unknown" -> "failed"
                         [] format = "parquet_hive" -> "check"
                         [] OTHER -> "create",
                format |-> format, mode |-> "unknown",
                todo |-> IF format \in Plain \cup {"tutorial"} THEN CreateExampleDataset(format)
                         ELSE {},
                left |-> {}, got |-> {},
                alone |-> Alone(p), stale |-> ~(In("parquet_dataset") \subseteq Hive)]]
  BY Zenon DEF Start
<1>at. PICK at : at = CASE format = "unknown" -> "failed"
                        [] format = "parquet_hive" -> "check"
                        [] OTHER -> "create"
  OBVIOUS
<1>todo. PICK todo : todo = IF format \in Plain \cup {"tutorial"}
                            THEN CreateExampleDataset(format) ELSE {}
  OBVIOUS
<1>stale. PICK stale \in BOOLEAN : stale = ~(In("parquet_dataset") \subseteq Hive) OBVIOUS
<1>k. PICK k : k = [at |-> at, format |-> format, mode |-> "unknown", todo |-> todo,
                    left |-> {}, got |-> {}, alone |-> Alone(p),
                    stale |-> stale]
  OBVIOUS
<1>3. job' = [q \in Procs |->
        IF q # p THEN IF Active(q) THEN [job[q] EXCEPT !.alone = FALSE] ELSE job[q] ELSE k]
  BY <1>2, <1>at, <1>todo, <1>stale, <1>k, Zenon
<1>4. /\ job' = [q \in Procs |-> job'[q]] /\ job'[p] = k
      /\ \A q \in Procs \ {p} :
           job'[q] = IF Active(q) THEN [job[q] EXCEPT !.alone = FALSE] ELSE job[q]
  BY <1>3
<1>5. /\ at \in {"failed", "check", "create"}
      /\ at = "failed" => format = "unknown"
      /\ at = "check" => format = "parquet_hive"
      /\ at = "create" => format \in Plain \/ format = "tutorial"
      /\ at # "create" => todo = {}
  BY <1>at, <1>todo DEF Formats, Plain
<1>6. at = "create" => Lanes(todo, format)
  BY <1>5, <1>todo, PlainLanes
<1>7. todo \subseteq Seq(Ops) \ {<<>>} BY <1>5, <1>6 DEF Lanes
<1>8. /\ k \in RunStates /\ k.at = at /\ k.format = format /\ k.mode = "unknown"
      /\ k.todo = todo /\ k.left = {} /\ k.got = {} /\ k.alone = Alone(p)
      /\ k.stale = stale
  <2>1. Alone(p) \in BOOLEAN BY DEF Alone
  <2>3. /\ k.at = at /\ k.format = format /\ k.mode = "unknown"
        /\ k.todo = todo /\ k.left = {} /\ k.got = {} /\ k.alone = Alone(p)
        /\ k.stale = stale
    BY <1>k
  <2>4. "unknown" \in Modes BY DEF Modes
  <2> QED BY <1>5, <1>7, <1>k, <2>1, <2>3, <2>4 DEF RunStates
<1>9. RunInv(k)
  <2>1. LaneInv(k)
    <3>1. \A lane \in todo : OpensFill(lane) BY <1>5, <1>6 DEF Lanes
    <3>2. format = "parquet_hive" => todo = {} BY <1>5 DEF Plain
    <3> QED BY <1>5, <1>8, <3>1, <3>2 DEF LaneInv
  <2>2. ASSUME at = "create"
        PROVE  \A path \in Targets(format), call \in {"open"} \cup Parts :
                 ToCome(todo, call, path)
    BY <1>6, <2>2 DEF Lanes
  <2>3. at = "create" => format # "parquet_hive" BY <1>5 DEF Plain
  <2>4. format = "parquet_hive" => at = "check" BY <1>5 DEF Plain
  <2>5. ASSUME format = "parquet_hive", ~stale, NEW name \in Data \cup {"Iris"}
        PROVE  files[<<"parquet_dataset", name>>] = {}
    <3>1. name \notin Hive /\ name \in FileNames BY DEF Data, Hive, FileNames
    <3>2. name \notin In("parquet_dataset") BY <1>stale, <2>5, <3>1
    <3> QED BY <3>1, <3>2, Listed
  <2>8. FileInv(k) BY <1>5, <1>8, <2>2, <2>3, <2>4, <2>5 DEF FileInv
  <2>6. ScanInv(k) BY <1>5, <1>8 DEF ScanInv
  <2>7. ~(at = "failed" /\ format \in Plain) BY <1>5 DEF Plain
  <2> QED BY <1>8, <2>1, <2>6, <2>7, <2>8 DEF RunInv, FailInv
<1>10. ASSUME NEW q \in Procs PROVE RunInv(job[q])'
  <2>1. RunInv(job'[q])
    <3>1. CASE q = p BY <1>4, <1>9, <3>1
    <3>2. CASE q # p /\ ~Active(q) BY <1>4, <3>2 DEF IInv
    <3>3. CASE q # p /\ Active(q)
      <4>0. PICK i : i = job[q] OBVIOUS
      <4>1. /\ i \in RunStates /\ LaneInv(i) /\ FileInv(i) /\ ScanInv(i)
            /\ i.at \notin {"idle", "done", "failed", "crashed"}
        BY <3>3, <4>0, RunFacts DEF Active
      <4>l. PICK l : l = [i EXCEPT !.alone = FALSE] OBVIOUS
      <4>2. /\ l \in RunStates /\ l.at = i.at /\ l.format = i.format /\ l.mode = i.mode
            /\ l.todo = i.todo /\ l.left = i.left /\ l.got = i.got /\ l.stale = i.stale
            /\ l.alone = FALSE
        BY <4>1, <4>l DEF RunStates
      <4>3. LaneInv(l) BY <4>1, <4>2 DEF LaneInv
      <4>4. FileInv(l) BY <4>1, <4>2 DEF FileInv
      <4>5. ScanInv(l) BY <4>1, <4>2 DEF ScanInv
      <4>6. RunInv(l) BY <4>1, <4>2, <4>3, <4>4, <4>5 DEF RunInv, FailInv
      <4> QED BY <1>4, <3>3, <4>0, <4>6, <4>l, Zenon
    <3> QED BY <3>1, <3>2, <3>3
  <2> QED BY <1>1, <2>1 DEF RunInv, LaneInv, FileInv, ScanInv, FailInv, Existing
<1>11. AloneInv'
  <2>1. ASSUME NEW q \in Procs \ {p}, Active(q)' PROVE Active(q) /\ ~job'[q].alone
    <3>1. Active(q)
      <4> SUFFICES ASSUME ~Active(q) PROVE FALSE OBVIOUS
      <4>1. job'[q] = job[q] BY <1>4
      <4> QED BY <2>1, <4>1 DEF Active
    <3>2. job[q] \in RunStates BY <3>1, RunFacts
    <3>3. job'[q] = [job[q] EXCEPT !.alone = FALSE] BY <1>4, <3>1
    <3> QED BY <3>1, <3>2, <3>3 DEF RunStates
  <2>2. job'[p].alone => \A q \in Procs \ {p} : ~Active(q)' BY <1>4, <1>8, <2>1 DEF Alone
  <2> QED BY <2>1, <2>2 DEF AloneInv, Alone
<1>12. DirInv' BY <1>1, DatasetAssumption DEF IInv, DirInv
<1> QED BY <1>4, <1>10, <1>11, <1>12 DEF IInv

-----------------------------------------------------------------------------
(* The theorems.                                                           *)

LEMMA NextIInv == IInv /\ [Next]_vars => IInv'
<1> SUFFICES ASSUME IInv, [Next]_vars PROVE IInv'
  OBVIOUS
<1>1. CASE Next
  <2>1. PICK p \in Procs : Step(p) BY <1>1 DEF Next
  <2>2. CASE Start(p) BY <2>2, StartStep
  <2>3. CASE WriteHive(p) BY <2>3, WriteHiveStep
  <2>4. CASE Create(p) BY <2>4, CreateStep
  <2>5. CASE List(p) BY <2>5, ListStep
  <2>6. CASE Inspect(p) BY <2>6, InspectStep
  <2>7. CASE ToTable(p) BY <2>7, ToTableStep
  <2>8. CASE EndScan(p) \/ WriteDataset(p) BY <2>8, FinishStep
  <2>9. CASE Crash(p) BY <2>9, CrashStep
  <2> QED BY <2>1, <2>2, <2>3, <2>4, <2>5, <2>6, <2>7, <2>8, <2>9 DEF Step
<1>2. CASE UNCHANGED vars
  <2>1. UNCHANGED <<files, job, runs>> BY <1>2 DEF vars
  <2>2. ASSUME NEW p \in Procs PROVE RunInv(job[p])'
    <3>1. RunInv(job'[p]) BY <2>1 DEF IInv
    <3> QED BY <2>1, <3>1 DEF RunInv, LaneInv, FileInv, ScanInv, FailInv, Existing
  <2>3. DirInv' /\ AloneInv' BY <2>1 DEF IInv, DirInv, AloneInv, Alone, Active
  <2>4. (job = [p \in Procs |-> job[p]])' BY <2>1 DEF IInv
  <2> QED BY <2>2, <2>3, <2>4 DEF IInv
<1> QED BY <1>1, <1>2

\* The inductive invariant: what each run still has to write, what it has written is
\* there, and what it reads is what it has written.
THEOREM Inductive == Spec => []IInv
<1>1. Init => IInv BY InitIInv
<1>2. IInv /\ [Next]_vars => IInv' BY NextIInv
<1> QED BY <1>1, <1>2, PTL DEF Spec

\* Paths stay in the states a file can be in, and lanes are never empty.
THEOREM TypeCorrect == Spec => []TypeOK
<1>1. IInv => TypeOK
  <2> SUFFICES ASSUME IInv PROVE TypeOK OBVIOUS
  <2>1. ASSUME NEW p \in Procs, Active(p)
        PROVE  /\ job[p].left \subseteq FileNames
               /\ \A lane \in job[p].todo : lane # <<>>
    BY <2>1, RunFacts, Fields
  <2> QED BY <2>1, AllNames DEF IInv, DirInv, TypeOK
<1> QED BY <1>1, Inductive, PTL

\* dataset_example.cpp:50-101, 155-277: a killed run leaves nothing behind that stops a
\* plain run. One that is alone fails only over the file of the repository, which does
\* not have the columns it selects.
THEOREM PlainRunsRecoverCorrect == Spec => []PlainRunsRecover
<1>1. IInv => PlainRunsRecover
  <2> SUFFICES ASSUME IInv, NEW p \in Procs, job[p].at = "failed", job[p].format \in Plain,
                      job[p].mode \in PlainModes, job[p].alone
               PROVE  job[p].mode # "no_filter" /\ "Iris" \in Found(job[p].format)
    BY DEF PlainRunsRecover
  <2>1. FailInv(job[p]) /\ job[p].format \in Formats BY Fields DEF IInv, RunInv
  <2> QED BY <2>1, FilesFound DEF FailInv
<1> QED BY <1>1, Inductive, PTL

-----------------------------------------------------------------------------
(* The rows a run reads.                                                   *)

\* The files read that hold a row the run keeps.
From(j, a) == {name \in j.got : a \in Content(name) /\ Kept(j, name, a)}

LEMMA ContentOf ==
    ASSUME NEW a \in DOMAIN CreateTable, NEW name
    PROVE  /\ a \in Nat
           /\ name \in Data \cup Hive =>
                (a \in Content(name) <=> (name \in {"data1", "part=a"} <=> a < Half))
<1>1. a \in 0..TableRows - 1 /\ Half \in Nat /\ TableRows \in Nat
  BY DatasetAssumption DEF CreateTable
<1>2. a \in Slice(0, Half) <=> a < Half BY <1>1 DEF Slice
<1>3. a \in Slice(Half, TableRows) <=> ~(a < Half) BY <1>1 DEF Slice
<1> QED BY <1>1, <1>2, <1>3 DEF Content, Data, Hive

\* A row is read as many times as there are files it is read from.
LEMMA TimesOf ==
    ASSUME NEW j, NEW a \in DOMAIN CreateTable
    PROVE  /\ From(j, a) = {} => Times(j, a) = 0
           /\ \A name : From(j, a) = {name} => Times(j, a) = 1
<1> DEFINE read == {row \in Rows(j) : row[2] = a}
<1>1. read = {<<name, a>> : name \in From(j, a)} BY DEF Rows, From
<1>2. Times(j, a) = Cardinality(read) BY DEF Times
<1> HIDE DEF read
<1>3. ASSUME From(j, a) = {} PROVE Times(j, a) = 0
  <2>1. read = {} BY <1>1, <1>3
  <2> QED BY <1>2, <2>1, FS_EmptySet
<1>4. ASSUME NEW name, From(j, a) = {name} PROVE Times(j, a) = 1
  <2>1. read = {<<name, a>>} BY <1>1, <1>4
  <2> QED BY <1>2, <2>1, FS_Singleton
<1> QED BY <1>3, <1>4

\* dataset_example.cpp:104-333, 03_arrow_dataset.cpp:119-142: a plain run that is alone
\* reads every row it promises exactly once, whatever was left in the directory; a hive run
\* that found no data but that of hive runs reads back what it has written, a run filtered
\* on the partition reads none of the other, and 03_arrow_dataset misses none.
THEOREM ReadsExactlyCorrect == Spec => []ReadsExactly
<1>1. ASSUME IInv, NEW p \in Procs, job[p].at = "done"
      PROVE  job[p] \in RunStates /\ ScanInv(job[p])
  BY <1>1 DEF IInv, RunInv
<1>d. "garbage" \notin Data \cup Hive /\ "Iris" \notin Data \cup Hive BY DEF Data, Hive
<1>g. ASSUME IInv, NEW p \in Procs, Done(p, Plain, PlainModes), job[p].alone,
             "Iris" \notin job[p].got
      PROVE  job[p].got = Data
  BY <1>1, <1>d, <1>g DEF Done, ScanInv
<1>2. ASSUME IInv, NEW p \in Procs, Done(p, Plain, PlainModes), job[p].alone,
             "Iris" \notin job[p].got, NEW a \in DOMAIN CreateTable
      PROVE  Times(job[p], a) =
               IF job[p].mode # "filter" \/ CreateTable[a].b < Bound THEN 1 ELSE 0
  <2> DEFINE j == job[p]
             kept == j.mode # "filter" \/ CreateTable[a].b < Bound
  <2>1. j \in RunStates /\ j.got = Data /\ j.mode \in PlainModes
    BY <1>1, <1>2, <1>g DEF Done
  <2>2. ASSUME NEW name PROVE Kept(j, name, a) <=> kept
    BY <2>1 DEF Kept, PlainModes
  <2> HIDE DEF j, kept
  <2>3. CASE ~kept
    <3>1. From(j, a) = {} BY <2>2, <2>3 DEF From
    <3> QED BY <2>3, <3>1, TimesOf DEF j, kept
  <2>4. CASE kept
    <3>1. From(j, a) = {IF a < Half THEN "data1" ELSE "data2"}
      BY <2>1, <2>2, <2>4, ContentOf DEF From, Data
    <3> QED BY <2>4, <3>1, TimesOf DEF j, kept
  <2> QED BY <2>3, <2>4
<1>3. ASSUME IInv, NEW p \in Procs, Done(p, Plain, {"filter_partitioned"}),
             NEW a \in DOMAIN CreateTable
      PROVE  Times(job[p], a) \in IF a < Half THEN {0} ELSE {0, 1}
  <2> DEFINE j == job[p]
  <2>1. \A name : Kept(j, name, a) <=> name = "part=b" BY <1>3 DEF Kept, Done
  <2>2. From(j, a) = {} \/ (From(j, a) = {"part=b"} /\ ~(a < Half))
    <3>1. "part=b" \in Data \cup Hive BY DEF Hive
    <3>2. "part=b" \in From(j, a) => ~(a < Half) BY <3>1, ContentOf DEF From
    <3>3. From(j, a) \subseteq {"part=b"} BY <2>1 DEF From
    <3> QED BY <3>2, <3>3
  <2> QED BY <2>2, TimesOf
<1>4. ASSUME IInv, NEW p \in Procs,
             Done(p, {"parquet_hive"}, {"partitioned", "filter_partitioned"}), job[p].alone,
             ~job[p].stale, NEW a \in DOMAIN CreateTable
      PROVE  Times(job[p], a) = IF job[p].mode = "partitioned" \/ a >= Half THEN 1 ELSE 0
  <2> DEFINE j == job[p]
  <2>1. j.got = IF j.mode = "partitioned" THEN Hive ELSE {"part=b"}
    <3>1. j.left = {} /\ j.at = "done" BY <1>1, <1>4 DEF Done, ScanInv
    <3>2. j.mode = "partitioned" => j.left \cup j.got = Hive
      BY <1>1, <1>4, <3>1 DEF Done, ScanInv
    <3>3. j.mode = "filter_partitioned" => j.left \cup j.got = {"part=b"}
      BY <1>1, <1>4, <3>1 DEF Done, ScanInv
    <3> QED BY <1>4, <3>1, <3>2, <3>3 DEF Done
  <2>2. j.mode = "partitioned" \/ j.mode = "filter_partitioned" BY <1>4 DEF Done
  <2>3. a >= Half <=> ~(a < Half) BY ContentOf, DatasetAssumption
  <2>4. CASE j.mode = "partitioned"
    <3>1. \A name : Kept(j, name, a) BY <2>4 DEF Kept
    <3>2. From(j, a) = {IF a < Half THEN "part=a" ELSE "part=b"}
      BY <2>1, <2>4, <3>1, ContentOf DEF From, Hive
    <3> QED BY <2>4, <3>2, TimesOf
  <2>5. CASE j.mode = "filter_partitioned"
    <3>1. \A name : Kept(j, name, a) <=> name = "part=b" BY <2>5 DEF Kept
    <3>2. From(j, a) = IF a < Half THEN {} ELSE {"part=b"}
      <4>1. "part=b" \in Data \cup Hive /\ j.got = {"part=b"} BY <2>1, <2>5 DEF Hive
      <4>2. "part=b" \in From(j, a) <=> ~(a < Half) BY <3>1, <4>1, ContentOf DEF From
      <4>3. From(j, a) \subseteq {"part=b"} BY <4>1 DEF From
      <4> QED BY <4>2, <4>3
    <3> QED BY <2>3, <2>5, <3>2, TimesOf
  <2> QED BY <2>2, <2>4, <2>5
<1>5. ASSUME IInv, NEW p \in Procs, Done(p, {"tutorial"}, Modes), job[p].alone
      PROVE  {"data1", "data2"} \subseteq job[p].got
  BY <1>1, <1>5 DEF Done, ScanInv, Data
<1>h. ASSUME IInv, NEW p \in Procs, job[p].alone, ~job[p].stale,
             Done(p, {"parquet_hive"}, {"partitioned", "filter_partitioned"})
      PROVE  "garbage" \notin job[p].got
  <2>1. job[p].got \subseteq Hive BY <1>1, <1>h DEF Done, ScanInv, Hive
  <2> QED BY <1>d, <2>1
<1>6. ASSUME IInv, NEW p \in Procs, job[p].at = "done", job[p].alone, "Iris" \notin job[p].got
      PROVE  /\ Done(p, Plain, PlainModes) =>
                  /\ "garbage" \notin job[p].got
                  /\ \A a \in DOMAIN CreateTable : Times(job[p], a) =
                       IF job[p].mode # "filter" \/ CreateTable[a].b < Bound THEN 1 ELSE 0
             /\ Done(p, Plain, {"filter_partitioned"}) /\ "garbage" \notin job[p].got =>
                  \A a \in DOMAIN CreateTable : Times(job[p], a) \in
                    IF a < Half THEN {0} ELSE {0, 1}
             /\ Done(p, {"parquet_hive"}, {"partitioned", "filter_partitioned"})
                  /\ ~job[p].stale =>
                  /\ "garbage" \notin job[p].got
                  /\ \A a \in DOMAIN CreateTable : Times(job[p], a) =
                       IF job[p].mode = "partitioned" \/ a >= Half THEN 1 ELSE 0
             /\ Done(p, {"tutorial"}, Modes) => {"data1", "data2"} \subseteq job[p].got
  <2>1. Done(p, Plain, PlainModes) => "garbage" \notin job[p].got BY <1>6, <1>d, <1>g
  <2> QED BY <1>6, <1>2, <1>3, <1>4, <1>5, <1>h, <2>1
<1>7. IInv => ReadsExactly BY <1>6, Zenon DEF ReadsExactly
<1> QED BY <1>7, Inductive, PTL
=============================================================================
