------------------------- MODULE FlightStorage_proofs -------------------------
(***************************************************************************)
(* Theorems about the parquet storage service, for any number of datasets, *)
(* tables and concurrent calls: an acknowledged upload is stored whole, a  *)
(* download that meets no upload of its file is never mixed up, and for    *)
(* clients that keep out of each other's way it is a DatasetStore.         *)
(***************************************************************************)
EXTENDS FlightStorage, FiniteSetTheorems, FunctionTheorems, TLAPS

Answers ==
  Tables \union {Ok, Error, Garbage, None} \union SUBSET (Names \X Tables)

Places ==
  {"idle", "stat", "select", "open", "receive", "body", "footer", "unlink", "done"}

CallStates ==
  [pc : Places,
   op : Ops \union {None}, name : Names \union {None}, table : Tables \union {None},
   file : Files \union {None}, seen : Tables \union {None}, todo : SUBSET Names,
   infos : SUBSET (Names \X Tables), answer : Answers]

TypeInv ==
  /\ exclusive \in BOOLEAN
  /\ dir \in [Names -> Files \union {None}]
  /\ file \in [Files -> [body : SUBSET Tables, footer : Tables \union {None}]]
  /\ call \in [Calls -> CallStates]
  /\ torn \in SUBSET Files
  /\ mixed \in SUBSET Calls
  /\ settled \in [Names -> Tables \union {None}]

\* What a call of each kind has at each of its places.
HasItsData(c) ==
  /\ call[c].answer # None <=> call[c].pc = "done"
  /\ call[c].op = None <=> call[c].pc = "idle"
  /\ call[c].pc = "idle" => call[c].file = None
  /\ call[c].op = "put" =>
       /\ call[c].name \in Names /\ call[c].table \in Tables
       /\ call[c].pc \in {"open", "receive", "body", "footer", "done"}
       /\ call[c].pc = "open" => call[c].file = None
       /\ call[c].pc \in {"receive", "body", "footer"} => call[c].file \in Files
  /\ call[c].op = "get" => call[c].pc \in {"open", "footer", "body", "done"}
  /\ call[c].op \in {"get", "info", "drop"} => call[c].name \in Names
  /\ call[c].op \in {"get", "info", "list"} =>
       /\ call[c].pc = "footer" => call[c].file \in Files /\ call[c].name \in Names
       /\ call[c].pc = "body" => call[c].file \in Files /\ call[c].seen \in Tables

CallInv == \A c \in Calls : HasItsData(c)

Puts == {c \in Calls : call[c].op = "put"}
PutFiles == {call[d].file : d \in Puts} \ {None}

\* Uploads create the files in turn, and a file is of one dataset for ever.
FileInv ==
  /\ PutFiles = 1 .. Cardinality(PutFiles)
  /\ \A n \in Names : dir[n] # None => dir[n] \in PutFiles
  /\ \A n, m \in Names : dir[n] = dir[m] /\ dir[n] # None => n = m
  /\ \A c \in Puts, n \in Names :
       call[c].file = dir[n] /\ dir[n] # None => call[c].name = n
  /\ \A c, d \in Puts :
       call[c].file = call[d].file /\ call[c].file # None => call[c].name = call[d].name

Consistent(f) == file[f].footer # None => file[f].body = {file[f].footer}

\* A file that is not torn has at most one writer, and its contents are what that
\* writer has written so far, or what an earlier one has left.
WriterInv ==
  \A f \in Files \ torn :
    /\ Consistent(f)
    /\ \A c, d \in Calls : Writes(c, f) /\ Writes(d, f) => c = d
    /\ \A c \in Calls : Writes(c, f) =>
         /\ call[c].pc \in {"receive", "body"} => file[f] = Empty
         /\ call[c].pc = "footer" => file[f] = [body |-> {call[c].table}, footer |-> None]

\* Nobody writes to the file of a dataset that is settled.
SettledInv ==
  \A n \in Names : settled[n] # None =>
    /\ dir[n] # None
    /\ file[dir[n]] = [body |-> {settled[n]}, footer |-> settled[n]]
    /\ \A c \in Calls : ~Writes(c, dir[n])

\* What a download has read of its file belongs to what it is going to read.
ReadsWell(c) ==
  /\ call[c].answer # Garbage
  /\ call[c].op = "get" /\ call[c].pc = "footer" => Consistent(call[c].file)
  /\ call[c].op = "get" /\ call[c].pc = "body" =>
       file[call[c].file].body = {call[c].seen}

ReaderInv == \A c \in Calls \ mixed : ReadsWell(c)

IInv == TypeInv /\ CallInv /\ FileInv /\ WriterInv /\ SettledInv /\ ReaderInv

-----------------------------------------------------------------------------
(* The ways a step changes a call.                                         *)

Others(c) == \A d \in Calls \ {c} : call'[d] = call[d]

\* The call c keeps what its client asked for, and its file.
Keeps(c) ==
  /\ call' \in [Calls -> CallStates] /\ Others(c)
  /\ call'[c].op = call[c].op /\ call'[c].table = call[c].table
  /\ call'[c].name = call[c].name /\ call'[c].file = call[c].file

Opens(c) ==
  /\ call' \in [Calls -> CallStates] /\ Others(c)
  /\ call'[c].op = call[c].op /\ call'[c].table = call[c].table
  /\ call'[c].answer = call[c].answer

\* Going on.
LEMMA GotoFields ==
  ASSUME call \in [Calls -> CallStates], NEW c \in Calls, NEW p \in Places, Goto(c, p)
  PROVE  /\ Keeps(c)
         /\ call'[c].pc = p /\ call'[c].answer = call[c].answer
         /\ call'[c].seen = call[c].seen
<1>1. call' = [call EXCEPT ![c].pc = p] BY DEF Goto
<1>2. call' \in [Calls -> CallStates] BY <1>1 DEF CallStates
<1>3. Others(c) BY <1>1 DEF Others
<1>4. call'[c] = [call[c] EXCEPT !.pc = p] BY <1>1
<1> QED BY <1>2, <1>3, <1>4 DEF Keeps, CallStates

LEMMA AnswerFields ==
  ASSUME call \in [Calls -> CallStates], NEW c \in Calls, NEW a \in Answers,
         Answer(c, a)
  PROVE  Keeps(c) /\ call'[c].pc = "done" /\ call'[c].answer = a
<1>1. call' = [call EXCEPT ![c].pc = "done", ![c].answer = a] BY DEF Answer
<1>2. "done" \in Places BY DEF Places
<1>4. Others(c) BY <1>1 DEF Others
<1>5. call'[c] = [call[c] EXCEPT !.pc = "done", !.answer = a] BY <1>1
<1>6. call'[c] \in CallStates BY <1>2, <1>5 DEF CallStates
<1>7. call' = [d \in Calls |-> call'[d]] BY <1>1
<1>3. call' \in [Calls -> CallStates] BY <1>4, <1>6, <1>7 DEF Others
<1> QED BY <1>3, <1>4, <1>5 DEF Keeps, CallStates

\* Opening a file, to write or to read it.
LEMMA OpenFields ==
  ASSUME call \in [Calls -> CallStates], NEW c \in Calls, NEW p \in Places,
         NEW f \in Files, call' = [call EXCEPT ![c].pc = p, ![c].file = f]
  PROVE  /\ Opens(c)
         /\ call'[c].pc = p /\ call'[c].file = f /\ call'[c].name = call[c].name
<1>2. Others(c) BY DEF Others
<1>3. call'[c] = [call[c] EXCEPT !.pc = p, !.file = f] OBVIOUS
<1>4. call'[c] \in CallStates BY <1>3 DEF CallStates
<1>5. call' = [d \in Calls |-> call'[d]] OBVIOUS
<1>1. call' \in [Calls -> CallStates] BY <1>2, <1>4, <1>5 DEF Others
<1> QED BY <1>1, <1>2, <1>3 DEF Opens, CallStates

LEMMA OpenInputType ==
  ASSUME NEW r \in CallStates, NEW p \in Places, NEW f \in Files, NEW n \in Names
  PROVE  [r EXCEPT !.pc = p, !.name = n, !.file = f] \in CallStates
BY DEF CallStates

LEMMA OpenInputFields ==
  ASSUME call \in [Calls -> CallStates], NEW c \in Calls, NEW p \in Places,
         NEW f \in Files, NEW n \in Names,
         call' = [call EXCEPT ![c].pc = p, ![c].name = n, ![c].file = f]
  PROVE  Opens(c) /\ call'[c].pc = p /\ call'[c].file = f /\ call'[c].name = n
<1>2. Others(c) BY DEF Others
<1>3. call'[c] = [call[c] EXCEPT !.pc = p, !.name = n, !.file = f] OBVIOUS
<1>4. call'[c] \in CallStates BY <1>3, OpenInputType
<1>5. call' = [d \in Calls |-> call'[d]] OBVIOUS
<1>1. call' \in [Calls -> CallStates] BY <1>2, <1>4, <1>5 DEF Others
<1> QED BY <1>1, <1>2, <1>3 DEF Opens, CallStates

LEMMA OpenInputKeeps ==
  ASSUME call \in [Calls -> CallStates], NEW c \in Calls, NEW p, NEW f, NEW n,
         call' = [call EXCEPT ![c].pc = p, ![c].name = n, ![c].file = f]
  PROVE  call'[c].todo = call[c].todo /\ call'[c].infos = call[c].infos
<1>1. call'[c] = [call[c] EXCEPT !.pc = p, !.name = n, !.file = f] OBVIOUS
<1> QED BY <1>1 DEF CallStates

\* A listing goes on to a file, and a download to the columns.
LEMMA SelectFields ==
  ASSUME call \in [Calls -> CallStates], NEW c \in Calls, NEW x \in SUBSET Names,
         call' = [call EXCEPT ![c].pc = "open", ![c].todo = x]
  PROVE  /\ Keeps(c) /\ call'[c].pc = "open" /\ call'[c].answer = call[c].answer
         /\ call'[c].todo = x /\ call'[c].infos = call[c].infos
<1>0. "open" \in Places BY DEF Places
<1>2. Others(c) BY DEF Others
<1>3. call'[c] = [call[c] EXCEPT !.pc = "open", !.todo = x] OBVIOUS
<1>4. call'[c] \in CallStates BY <1>3, <1>0 DEF CallStates
<1>5. call' = [d \in Calls |-> call'[d]] OBVIOUS
<1>1. call' \in [Calls -> CallStates] BY <1>2, <1>4, <1>5 DEF Others
<1> QED BY <1>1, <1>2, <1>3 DEF Keeps, CallStates

LEMMA NextFileType ==
  ASSUME NEW r \in CallStates, NEW p \in Places, NEW x \in SUBSET Names,
         NEW y \in SUBSET (Names \X Tables)
  PROVE  [r EXCEPT !.pc = p, !.todo = x, !.infos = y] \in CallStates
BY DEF CallStates

LEMMA NextFileFields ==
  ASSUME call \in [Calls -> CallStates], NEW c \in Calls, NEW p \in Places,
         NEW x \in SUBSET Names, NEW y \in SUBSET (Names \X Tables),
         call' = [call EXCEPT ![c].pc = p, ![c].todo = x, ![c].infos = y]
  PROVE  /\ Keeps(c) /\ call'[c].pc = p /\ call'[c].answer = call[c].answer
         /\ call'[c].todo = x /\ call'[c].infos = y
<1>2. Others(c) BY DEF Others
<1>3. call'[c] = [call[c] EXCEPT !.pc = p, !.todo = x, !.infos = y] OBVIOUS
<1>4. call'[c] \in CallStates BY <1>3, NextFileType
<1>5. call' = [d \in Calls |-> call'[d]] OBVIOUS
<1>1. call' \in [Calls -> CallStates] BY <1>2, <1>4, <1>5 DEF Others
<1> QED BY <1>1, <1>2, <1>3 DEF Keeps, CallStates

LEMMA SeenFields ==
  ASSUME call \in [Calls -> CallStates], NEW c \in Calls, NEW t \in Tables,
         call' = [call EXCEPT ![c].pc = "body", ![c].seen = t]
  PROVE  /\ Keeps(c)
         /\ call'[c].pc = "body" /\ call'[c].seen = t
         /\ call'[c].answer = call[c].answer
<1>0. "body" \in Places BY DEF Places
<1>2. Others(c) BY DEF Others
<1>3. call'[c] = [call[c] EXCEPT !.pc = "body", !.seen = t] OBVIOUS
<1>4. call'[c] \in CallStates BY <1>3, <1>0 DEF CallStates
<1>5. call' = [d \in Calls |-> call'[d]] OBVIOUS
<1>1. call' \in [Calls -> CallStates] BY <1>2, <1>4, <1>5 DEF Others
<1> QED BY <1>1, <1>2, <1>3 DEF Keeps, CallStates

\* A client asks.
LEMMA CallFields ==
  ASSUME call \in [Calls -> CallStates], NEW c \in Calls, NEW op \in Ops, NEW n \in Names,
         NEW t \in Tables, Call(c, op, n, t)
  PROVE  /\ call' \in [Calls -> CallStates] /\ Others(c)
         /\ call'[c].pc = First[op] /\ call'[c].op = op
         /\ call'[c].name = IF op = "list" THEN None ELSE n
         /\ call'[c].table = IF op = "put" THEN t ELSE None
         /\ call'[c].file = call[c].file /\ call'[c].answer = call[c].answer
         /\ call'[c].infos = call[c].infos
<1> DEFINE p == First[op]
           name == IF op = "list" THEN None ELSE n
           table == IF op = "put" THEN t ELSE None
<1>1. p \in Places /\ name \in Names \union {None} /\ table \in Tables \union {None}
  BY DEF First, Places, Ops
<1>2. call' = [call EXCEPT ![c].pc = p, ![c].op = op, ![c].name = name, ![c].table = table]
  BY DEF Call
<1> HIDE DEF p, name, table
<1>4. Others(c) BY <1>2 DEF Others
<1>5. call'[c] = [call[c] EXCEPT !.pc = p, !.op = op, !.name = name, !.table = table]
  BY <1>2
<1>7. call'[c] \in CallStates BY <1>1, <1>5 DEF CallStates
<1>8. call' = [d \in Calls |-> call'[d]] BY <1>2
<1>3. call' \in [Calls -> CallStates] BY <1>4, <1>7, <1>8 DEF Others
<1>6. /\ call'[c].pc = p /\ call'[c].op = op /\ call'[c].name = name
      /\ call'[c].table = table /\ call'[c].file = call[c].file
      /\ call'[c].answer = call[c].answer /\ call'[c].infos = call[c].infos
  BY <1>5 DEF CallStates
<1> QED BY <1>3, <1>4, <1>6 DEF p, name, table

-----------------------------------------------------------------------------
(* What a step that changes one call leaves as it is.                      *)

LEMMA CallsKept ==
  ASSUME CallInv, NEW c \in Calls, Others(c), HasItsData(c)'
  PROVE  CallInv'
<1>1. ASSUME NEW d \in Calls \ {c} PROVE HasItsData(d)'
  BY <1>1 DEF Others, CallInv, HasItsData
<1> QED BY <1>1 DEF CallInv

LEMMA ReadersKept ==
  ASSUME ReaderInv, NEW c \in Calls, Others(c), mixed \subseteq mixed', UNCHANGED file,
         c \in mixed' \/ ReadsWell(c)'
  PROVE  ReaderInv'
<1>1. ASSUME NEW d \in Calls \ mixed', d # c PROVE ReadsWell(d)'
  BY <1>1 DEF Others, ReaderInv, ReadsWell, Consistent
<1> QED BY <1>1 DEF ReaderInv

\* Whoever reads a file that is written is mixed from then on.
LEMMA ReadersDisturbed ==
  ASSUME TypeInv, CallInv, ReaderInv, NEW c \in Calls, Others(c), NEW f \in Files, NEW v,
         Overwrite(f, v), call'[c].op = "put", call'[c].answer # Garbage
  PROVE  ReaderInv'
<1>1. ReadsWell(c)' BY DEF ReadsWell
<1>2. ASSUME NEW d \in Calls \ mixed', d # c PROVE ReadsWell(d)'
  <2>1. ReadsWell(d) /\ ~Reads(d, f) BY <1>2 DEF Overwrite, ReaderInv
  <2>2. call'[d] = call[d] BY <1>2 DEF Others
  <2>3. call[d].op = "get" /\ call[d].pc \in {"footer", "body"}
          => call[d].file \in Files \ {f}
    BY <2>1, <1>2 DEF Reads, Active, CallInv, HasItsData
  <2>4. \A g \in Files \ {f} : file'[g] = file[g] BY DEF Overwrite, TypeInv
  <2> QED BY <2>1, <2>2, <2>3, <2>4 DEF ReadsWell, Consistent
<1> QED BY <1>1, <1>2 DEF ReaderInv

\* A call that is no upload disturbs no upload.
LEMMA WritersKept ==
  ASSUME FileInv, WriterInv, SettledInv, NEW c \in Calls, Others(c),
         c \notin Puts, call'[c].op # "put", UNCHANGED <<dir, file, torn, settled>>
  PROVE  FileInv' /\ WriterInv' /\ SettledInv'
<1>1. Puts' = Puts BY DEF Puts, Others
<1>2. \A d \in Puts : call'[d] = call[d] BY DEF Others, Puts
<1>3. PutFiles' = PutFiles BY <1>1, <1>2 DEF PutFiles
<1>4. FileInv' BY <1>1, <1>2, <1>3 DEF FileInv
<1>5. \A f : \A d \in Calls : Writes(d, f)' <=> Writes(d, f)
  BY <1>1, <1>2 DEF Writes, Active, Puts
<1>6. \A f : \A d \in Calls : Writes(d, f) => call'[d] = call[d] BY <1>2 DEF Writes, Puts
<1>7. WriterInv' BY <1>5, <1>6 DEF WriterInv, Consistent
<1>8. SettledInv' BY <1>5 DEF SettledInv
<1> QED BY <1>4, <1>7, <1>8

\* An upload that goes on or ends keeps its file, and nobody else starts to write.
LEMMA FilesKept ==
  ASSUME FileInv, NEW c \in Puts, Keeps(c), Active(c), UNCHANGED dir
  PROVE  /\ FileInv' /\ Puts' = Puts
         /\ \A f : \A d \in Calls : Writes(d, f)' => Writes(d, f)
<1>1. Puts' = Puts BY DEF Puts, Others, Keeps
<1>2. \A d \in Calls : /\ call'[d].file = call[d].file /\ call'[d].name = call[d].name
                       /\ call'[d].table = call[d].table /\ call'[d].op = call[d].op
  BY DEF Keeps, Others
<1>3. PutFiles' = PutFiles BY <1>1, <1>2 DEF PutFiles, Puts
<1>4. FileInv' BY <1>1, <1>2, <1>3 DEF FileInv, Puts
<1>5. \A f : \A d \in Calls : Writes(d, f)' => Writes(d, f)
  BY <1>2 DEF Writes, Active, Keeps, Others
<1> QED BY <1>1, <1>4, <1>5

\* An upload that does not touch its file goes on or ends.
LEMMA PutGoesOn ==
  ASSUME FileInv, WriterInv, SettledInv, NEW c \in Puts, Keeps(c), Active(c),
         call'[c].pc = "done" \/ (call[c].pc = "receive" /\ call'[c].pc = "body"),
         UNCHANGED <<dir, file, torn, settled>>
  PROVE  FileInv' /\ WriterInv' /\ SettledInv'
<1>4. FileInv' BY FilesKept
<1>5. \A f : \A d \in Calls : Writes(d, f)' => Writes(d, f) BY FilesKept
<1>6. WriterInv'
  <2> SUFFICES ASSUME NEW f \in Files \ torn
               PROVE  /\ Consistent(f)'
                      /\ \A d, e \in Calls : Writes(d, f)' /\ Writes(e, f)' => d = e
                      /\ \A d \in Calls : Writes(d, f)' =>
                           /\ call'[d].pc \in {"receive", "body"} => file[f] = Empty
                           /\ call'[d].pc = "footer"
                                => file[f] = [body |-> {call'[d].table}, footer |-> None]
    BY DEF WriterInv
  <2>1. Consistent(f)' BY DEF WriterInv, Consistent
  <2>2. \A d, e \in Calls : Writes(d, f)' /\ Writes(e, f)' => d = e
    BY <1>5 DEF WriterInv
  <2>3. ASSUME NEW d \in Calls, Writes(d, f)'
        PROVE  /\ call'[d].pc \in {"receive", "body"} => file[f] = Empty
               /\ call'[d].pc = "footer"
                    => file[f] = [body |-> {call'[d].table}, footer |-> None]
    <3>1. Writes(d, f) BY <1>5, <2>3
    <3>2. CASE d = c
      <4>1. call[d].pc = "receive" /\ call'[d].pc = "body"
        BY <2>3, <3>2 DEF Writes, Active
      <4> QED BY <3>1, <4>1 DEF WriterInv
    <3>3. CASE d # c
      <4>1. call'[d] = call[d] BY <3>3 DEF Keeps, Others
      <4> QED BY <3>1, <4>1 DEF WriterInv
    <3> QED BY <3>2, <3>3
  <2> QED BY <2>1, <2>2, <2>3
<1>7. SettledInv' BY <1>5 DEF SettledInv
<1> QED BY <1>4, <1>6, <1>7

-----------------------------------------------------------------------------
(* The steps.                                                              *)

\* Nothing is stored, and nobody has called.
LEMMA InitIInv == Init => IInv
<1> SUFFICES ASSUME Init PROVE IInv OBVIOUS
<1> DEFINE idle == [pc |-> "idle", op |-> None, name |-> None, table |-> None,
                    file |-> None, seen |-> None, todo |-> {}, infos |-> {},
                    answer |-> None]
<1>1. call = [c \in Calls |-> idle] BY DEF Init
<1>2. idle \in CallStates BY DEF CallStates, Places, Answers
<1>3. Empty \in [body : SUBSET Tables, footer : Tables \union {None}] BY DEF Empty
<1>4. TypeInv BY <1>1, <1>2, <1>3 DEF Init, TypeInv
<1>5. \A c \in Calls : /\ call[c].pc = "idle" /\ call[c].op = None
                       /\ call[c].file = None /\ call[c].answer = None
  BY <1>1
<1>6. Puts = {} BY <1>5, StorageAssumption DEF Puts, Ops
<1>7. CallInv BY <1>5, StorageAssumption DEF CallInv, HasItsData, Ops
<1>8. FileInv
  <2>1. PutFiles = {} BY <1>6 DEF PutFiles
  <2>2. Cardinality({}) = 0 BY FS_EmptySet
  <2>3. PutFiles = 1 .. Cardinality(PutFiles) BY <2>1, <2>2
  <2> QED BY <1>6, <2>3 DEF Init, FileInv
<1>9. WriterInv BY <1>5 DEF Init, WriterInv, Writes, Active, Consistent, Empty
<1>10. SettledInv BY DEF Init, SettledInv
<1>11. ReaderInv BY <1>5, StorageAssumption DEF ReaderInv, ReadsWell, Ops
<1> QED BY <1>4, <1>7, <1>8, <1>9, <1>10, <1>11 DEF IInv

\* A client calls: an upload has no file yet.
LEMMA CallStep ==
  ASSUME IInv, NEW c \in Calls, NEW op \in Ops, NEW n \in Names, NEW t \in Tables,
         Call(c, op, n, t), UNCHANGED exclusive
  PROVE  IInv'
<1> USE DEF IInv
<1>1. /\ call[c].pc = "idle" /\ HasItsData(c)
      /\ UNCHANGED <<dir, file, torn, mixed, settled>>
  BY DEF Call, CallInv
<1>2. /\ call' \in [Calls -> CallStates] /\ Others(c)
      /\ call'[c].pc = First[op] /\ call'[c].op = op
      /\ call'[c].name = IF op = "list" THEN None ELSE n
      /\ call'[c].table = IF op = "put" THEN t ELSE None
      /\ call'[c].file = None /\ call'[c].answer = None
  BY <1>1, CallFields DEF TypeInv, HasItsData
<1>3. /\ First[op] \in {"open", "stat", "select", "unlink"}
      /\ op \in {"put", "get"} => First[op] = "open"
  BY DEF First, Ops
<1>4. TypeInv' BY <1>1, <1>2 DEF TypeInv
<1>5. CallInv'
  <2>1. HasItsData(c)' BY <1>2, <1>3, StorageAssumption DEF HasItsData, Ops
  <2> QED BY <1>2, <2>1, CallsKept
<1>6. ReaderInv'
  <2>1. ReadsWell(c)' BY <1>2, <1>3, StorageAssumption DEF ReadsWell
  <2> QED BY <1>1, <1>2, <2>1, ReadersKept
<1>7. c \notin Puts BY <1>1, StorageAssumption DEF Puts, HasItsData, Ops
<1>8. CASE op # "put" BY <1>1, <1>2, <1>4, <1>5, <1>6, <1>7, <1>8, WritersKept
<1>9. CASE op = "put"
  <2>1. Puts' = Puts \union {c} BY <1>2, <1>9 DEF Puts, Others
  <2>2. \A d \in Puts : call'[d] = call[d] BY <1>2, <1>7 DEF Others, Puts
  <2>3. PutFiles' = PutFiles BY <1>2, <2>1, <2>2 DEF PutFiles
  <2>4. FileInv' BY <1>1, <1>2, <2>1, <2>2, <2>3 DEF FileInv
  <2>5. \A d \in Calls, f \in Files : Writes(d, f)' => d # c /\ Writes(d, f)
    BY <1>2, StorageAssumption DEF Writes, Active, Others, Files
  <2>6. \A d \in Calls : d # c => call'[d] = call[d] BY <1>2 DEF Others
  <2>7. WriterInv' BY <1>1, <2>5, <2>6 DEF WriterInv, Consistent
  <2>8. SettledInv' BY <1>1, <2>5 DEF SettledInv, TypeInv
  <2> QED BY <1>4, <1>5, <1>6, <2>4, <2>7, <2>8
<1> QED BY <1>8, <1>9

\* An upload goes on to its columns, or fails.
LEMMA PutStep ==
  ASSUME IInv, NEW c \in Calls, ToTable(c) \/ PutFails(c), UNCHANGED exclusive
  PROVE  IInv'
<1> USE DEF IInv
<1>1. UNCHANGED <<dir, file, torn, mixed, settled>> BY DEF ToTable, PutFails
<1>2. c \in Puts /\ Active(c) BY DEF ToTable, PutFails, At, Puts, Active
<1>3. HasItsData(c) BY DEF CallInv
<1>4. /\ Keeps(c)
      /\ \/ /\ call[c].pc = "receive" /\ call'[c].pc = "body"
            /\ call'[c].answer = call[c].answer
         \/ call'[c].pc = "done" /\ call'[c].answer = Error
  <2>1. CASE ToTable(c)
    BY <2>1, GotoFields DEF TypeInv, ToTable, At, Places
  <2>2. CASE PutFails(c)
    BY <2>2, AnswerFields DEF TypeInv, PutFails, Answers
  <2> QED BY <2>1, <2>2
<1>5. TypeInv' BY <1>1, <1>4 DEF TypeInv, Keeps
<1>6. HasItsData(c)' BY <1>2, <1>3, <1>4, StorageAssumption DEF HasItsData, Keeps, Puts, Ops
<1>7. CallInv' BY <1>4, <1>6, CallsKept DEF Keeps
<1>8. ReadsWell(c)'
  BY <1>2, <1>3, <1>4, StorageAssumption DEF ReadsWell, HasItsData, Keeps, Puts
<1>9. ReaderInv' BY <1>1, <1>4, <1>8, ReadersKept DEF Keeps
<1> QED BY <1>1, <1>2, <1>4, <1>5, <1>7, <1>9, PutGoesOn

\* The next file to be created is none that an upload ever had.
LEMMA FreshFile ==
  ASSUME CallInv, FileInv, NEW c \in Puts, call[c].pc = "open"
  PROVE  /\ IsFiniteSet(PutFiles) /\ Cardinality(PutFiles) \in Nat
         /\ Fresh = Cardinality(PutFiles) + 1
         /\ Fresh \in Files \ PutFiles
<1> DEFINE others == {d \in Puts : call[d].file # None}
           g == [d \in others |-> call[d].file]
<1>1. others \subseteq Calls \ {c} BY DEF Puts, CallInv, HasItsData
<1>2. IsFiniteSet(Calls) /\ Cardinality(Calls) = MaxCalls
  BY StorageAssumption, FS_Interval DEF Calls
<1>3. /\ IsFiniteSet(Calls \ {c}) /\ Cardinality(Calls \ {c}) = MaxCalls - 1
      /\ Cardinality(Calls \ {c}) \in Nat
  BY <1>2, FS_RemoveElement, FS_CardinalityType DEF Puts
<1>4. IsFiniteSet(others) /\ Cardinality(others) <= MaxCalls - 1
  BY <1>1, <1>3, FS_Subset
<1>5. g \in Surjection(others, PutFiles) BY DEF Surjection, PutFiles, Puts
<1>6. IsFiniteSet(PutFiles) /\ Cardinality(PutFiles) <= Cardinality(others)
  BY <1>4, <1>5, FS_Surjection
<1>7. Cardinality(PutFiles) \in Nat /\ Cardinality(others) \in Nat
  BY <1>4, <1>6, FS_CardinalityType
<1>8. Fresh = Cardinality(PutFiles) + 1 BY DEF Fresh, PutFiles, Puts
<1>9. PutFiles = 1 .. Cardinality(PutFiles) BY DEF FileInv
<1> HIDE DEF others, g
<1>10. Fresh \in 1 .. MaxCalls BY <1>4, <1>6, <1>7, <1>8, StorageAssumption
<1>11. Fresh \notin PutFiles BY <1>7, <1>8, <1>9
<1> QED BY <1>6, <1>7, <1>8, <1>10, <1>11 DEF Files

\* The file of an upload becomes empty, and torn if another upload writes to it.
LEMMA OpenOutputStep ==
  ASSUME IInv, NEW c \in Calls, OpenOutput(c), UNCHANGED exclusive
  PROVE  IInv'
<1> USE DEF IInv
<1>1. c \in Puts /\ call[c].pc = "open" /\ HasItsData(c)
  BY DEF OpenOutput, At, Puts, CallInv
<1>2. PICK n \in Names : n = call[c].name /\ call[c].file = None
  BY <1>1 DEF HasItsData, Puts
<1>3. PICK f \in Files :
        /\ f = IF dir[n] # None THEN dir[n] ELSE Fresh
        /\ dir[n] = f \/ (dir[n] = None /\ f = Fresh /\ f \notin PutFiles)
  BY <1>1, <1>2, FreshFile DEF TypeInv
<1>4. /\ dir' = [dir EXCEPT ![n] = f]
      /\ Overwrite(f, Empty)
      /\ torn' = IF \E d \in Calls : Writes(d, f) THEN torn \union {f} ELSE torn \ {f}
      /\ call' = [call EXCEPT ![c].pc = "receive", ![c].file = f]
      /\ settled' = [settled EXCEPT ![n] = None]
  BY <1>2, <1>3 DEF OpenOutput
<1>5. /\ Opens(c)
      /\ call'[c].pc = "receive" /\ call'[c].file = f /\ call'[c].name = n
  BY <1>2, <1>4, OpenFields DEF TypeInv, Places
<1>6. Empty \in [body : SUBSET Tables, footer : Tables \union {None}] BY DEF Empty
<1>7. TypeInv' BY <1>2, <1>3, <1>4, <1>5, <1>6 DEF TypeInv, Opens, Overwrite
<1>8. HasItsData(c)'
  BY <1>1, <1>2, <1>3, <1>5, StorageAssumption DEF HasItsData, Opens, Puts, Ops
<1>9. CallInv' BY <1>5, <1>8, CallsKept DEF Opens
<1>10. call'[c].op = "put" /\ call'[c].answer # Garbage
  BY <1>1, <1>5, StorageAssumption DEF Opens, Puts, HasItsData
<1>11. ReaderInv' BY <1>3, <1>4, <1>5, <1>10, ReadersDisturbed DEF Opens
<1>12. Puts' = Puts BY <1>5 DEF Puts, Opens, Others
<1>13. \A d \in Calls : d # c => call'[d] = call[d] BY <1>5 DEF Opens, Others
<1>14. \A d \in Calls : /\ call'[d].name = call[d].name
                        /\ call'[d].op = call[d].op /\ call'[d].table = call[d].table
  BY <1>2, <1>5, <1>13 DEF Opens
<1>15. PutFiles' = PutFiles \union {f}
  <2>1. None \notin Files BY StorageAssumption DEF Files
  <2>2. PutFiles' = {call'[d].file : d \in Puts} \ {None} BY <1>12 DEF PutFiles
  <2>3. \A d \in Puts : d # c => call'[d].file = call[d].file BY <1>13 DEF Puts
  <2> QED BY <1>1, <1>2, <1>3, <1>5, <2>1, <2>2, <2>3 DEF PutFiles
<1>16. FileInv'
  <2>1. PutFiles' = 1 .. Cardinality(PutFiles')
    <3>1. CASE dir[n] = f
      <4>1. dir[n] # None BY <3>1, StorageAssumption DEF Files
      <4>2. f \in PutFiles BY <3>1, <4>1 DEF FileInv
      <4>3. PutFiles' = PutFiles BY <1>15, <4>2
      <4> QED BY <4>3 DEF FileInv
    <3>2. CASE f = Fresh /\ f \notin PutFiles
      <4>1. /\ IsFiniteSet(PutFiles) /\ Cardinality(PutFiles) \in Nat
            /\ f = Cardinality(PutFiles) + 1
        BY <1>1, <3>2, FreshFile
      <4>2. Cardinality(PutFiles') = Cardinality(PutFiles) + 1
        BY <1>15, <3>2, <4>1, FS_AddElement
      <4>3. PutFiles = 1 .. Cardinality(PutFiles) BY DEF FileInv
      <4> QED BY <1>15, <4>1, <4>2, <4>3
    <3> QED BY <1>3, <3>1, <3>2
  <2>2. \A m \in Names : m # n => dir'[m] = dir[m] BY <1>4 DEF TypeInv
  <2>3. dir'[n] = f BY <1>2, <1>4 DEF TypeInv
  <2>4. \A m \in Names : dir[m] # None => dir[m] \in PutFiles BY DEF FileInv
  <2>5. \A m \in Names : m # n => dir[m] # f
    BY <1>2, <1>3, <2>4, StorageAssumption DEF FileInv, Files
  <2>6. \A m \in Names : dir'[m] # None => dir'[m] \in PutFiles'
    BY <1>15, <2>2, <2>3, <2>4
  <2>7. \A m, k \in Names : dir'[m] = dir'[k] /\ dir'[m] # None => m = k
    BY <1>2, <2>2, <2>3, <2>5 DEF FileInv
  <2>8. \A d \in Puts : d # c /\ call[d].file = f => call[d].name = n
    <3> SUFFICES ASSUME NEW d \in Puts, d # c, call[d].file = f PROVE call[d].name = n
      OBVIOUS
    <3>1. f # None BY <1>3, StorageAssumption DEF Files
    <3>2. f \in PutFiles BY <3>1 DEF PutFiles
    <3>3. dir[n] = f BY <1>3, <3>2
    <3> QED BY <1>2, <3>1, <3>3 DEF FileInv
  <2>9. \A d \in Puts, m \in Names :
          call'[d].file = dir'[m] /\ dir'[m] # None => call'[d].name = m
    <3> SUFFICES ASSUME NEW d \in Puts, NEW m \in Names,
                        call'[d].file = dir'[m], dir'[m] # None
                 PROVE  call[d].name = m
      BY <1>14 DEF Puts
    <3>1. CASE d = c BY <1>2, <1>5, <2>2, <2>5, <3>1
    <3>2. CASE d # c /\ m = n BY <1>13, <2>3, <2>8, <3>2 DEF Puts
    <3>3. CASE d # c /\ m # n BY <1>13, <2>2, <3>3 DEF Puts, FileInv
    <3> QED BY <3>1, <3>2, <3>3
  <2>10. \A d, e \in Puts : call'[d].file = call'[e].file /\ call'[d].file # None
                              => call'[d].name = call'[e].name
    <3> SUFFICES ASSUME NEW d \in Puts, NEW e \in Puts,
                        call'[d].file = call'[e].file, call'[d].file # None
                 PROVE  call[d].name = call[e].name
      BY <1>14 DEF Puts
    <3>1. CASE d = c /\ e = c BY <3>1
    <3>2. CASE d = c /\ e # c BY <1>2, <1>5, <1>13, <2>8, <3>2 DEF Puts
    <3>3. CASE d # c /\ e = c BY <1>2, <1>5, <1>13, <2>8, <3>3 DEF Puts
    <3>4. CASE d # c /\ e # c BY <1>13, <3>4 DEF Puts, FileInv
    <3> QED BY <3>1, <3>2, <3>3, <3>4
  <2> QED BY <1>12, <2>1, <2>6, <2>7, <2>9, <2>10 DEF FileInv
<1>17. file'[f] = Empty /\ \A g \in Files \ {f} : file'[g] = file[g]
  BY <1>3, <1>4 DEF Overwrite, TypeInv
<1>18. ~\E g : Writes(c, g) /\ g \in Files
  BY <1>2, StorageAssumption DEF Writes, Files
<1>19. \A d \in Calls, g \in Files : Writes(d, g)' => Writes(d, g) \/ (d = c /\ g = f)
  BY <1>5, <1>13 DEF Writes, Active
<1>20. WriterInv'
  <2> SUFFICES ASSUME NEW g \in Files \ torn'
               PROVE  /\ Consistent(g)'
                      /\ \A d, e \in Calls : Writes(d, g)' /\ Writes(e, g)' => d = e
                      /\ \A d \in Calls : Writes(d, g)' =>
                           /\ call'[d].pc \in {"receive", "body"} => file'[g] = Empty
                           /\ call'[d].pc = "footer"
                                => file'[g] = [body |-> {call'[d].table}, footer |-> None]
    BY DEF WriterInv
  <2>1. CASE g = f
    <3>1. ~\E d \in Calls : Writes(d, f) BY <1>4, <2>1
    <3>2. \A d \in Calls : Writes(d, f)' => d = c BY <1>3, <1>19, <3>1
    <3>3. Consistent(f)' BY <1>17 DEF Consistent, Empty
    <3> QED BY <1>5, <1>17, <2>1, <3>2, <3>3
  <2>2. CASE g # f
    <3>1. g \in Files \ torn /\ file'[g] = file[g] BY <1>4, <1>17, <2>2
    <3>2. \A d \in Calls : Writes(d, g)' => Writes(d, g) /\ d # c
      BY <1>18, <1>19, <2>2
    <3>3. Consistent(g)' BY <3>1 DEF WriterInv, Consistent
    <3> QED BY <1>13, <3>1, <3>2, <3>3 DEF WriterInv
  <2> QED BY <2>1, <2>2
<1>21. SettledInv'
  <2> SUFFICES ASSUME NEW m \in Names, settled'[m] # None
               PROVE  /\ dir'[m] # None
                      /\ file'[dir'[m]] = [body |-> {settled'[m]}, footer |-> settled'[m]]
                      /\ \A d \in Calls : ~Writes(d, dir[m])'
    BY DEF SettledInv
  <2>1. m # n BY <1>2, <1>4 DEF TypeInv
  <2>2. settled'[m] = settled[m] /\ dir'[m] = dir[m] BY <1>4, <2>1 DEF TypeInv
  <2>3. dir[m] # None /\ \A d \in Calls : ~Writes(d, dir[m]) BY <2>2 DEF SettledInv
  <2>4. PICK g \in Files \ {f} : g = dir[m]
    BY <1>2, <1>3, <2>1, <2>3, StorageAssumption DEF TypeInv, FileInv, Files
  <2>5. file'[g] = file[g] BY <1>17
  <2>6. \A d \in Calls : ~Writes(d, g)' BY <1>19, <2>3, <2>4
  <2>7. \A d \in Calls : ~Writes(d, dir[m])' BY <2>2, <2>4, <2>6 DEF Writes
  <2> QED BY <2>2, <2>3, <2>4, <2>5, <2>7 DEF SettledInv
<1> QED BY <1>7, <1>9, <1>11, <1>16, <1>20, <1>21

\* The columns of an upload: they are what is in the file, unless it is torn.
LEMMA WriteBodyStep ==
  ASSUME IInv, NEW c \in Calls, WriteBody(c), UNCHANGED exclusive
  PROVE  IInv'
<1> USE DEF IInv
<1>1. /\ c \in Puts /\ call[c].pc = "body" /\ HasItsData(c) /\ Active(c)
      /\ Goto(c, "footer") /\ UNCHANGED <<dir, torn, settled>>
  BY DEF WriteBody, At, Puts, CallInv, Active
<1>2. PICK f \in Files, t \in Tables : f = call[c].file /\ t = call[c].table
  BY <1>1 DEF HasItsData, Puts
<1>3. PICK body \in {{t}, file[f].body \union {t}} :
        Overwrite(f, [file[f] EXCEPT !.body = body])
  BY <1>2 DEF WriteBody
<1>4. PICK v : v = [file[f] EXCEPT !.body = body] OBVIOUS
<1>5. Overwrite(f, v) BY <1>3, <1>4
<1>6. file[f] \in [body : SUBSET Tables, footer : Tables \union {None}] BY DEF TypeInv
<1>7. v \in [body : SUBSET Tables, footer : Tables \union {None}] BY <1>4, <1>6
<1>8. /\ Keeps(c) /\ call'[c].pc = "footer" /\ call'[c].answer = call[c].answer
  BY <1>1, GotoFields DEF TypeInv, Places
<1>9. TypeInv' BY <1>1, <1>5, <1>7, <1>8 DEF TypeInv, Keeps, Overwrite
<1>10. HasItsData(c)' BY <1>1, <1>2, <1>8, StorageAssumption DEF HasItsData, Keeps, Puts, Ops
<1>11. CallInv' BY <1>8, <1>10, CallsKept DEF Keeps
<1>12. call'[c].op = "put" /\ call'[c].answer # Garbage
  BY <1>1, <1>8, StorageAssumption DEF Keeps, Puts, HasItsData
<1>13. ReaderInv' BY <1>5, <1>8, <1>12, ReadersDisturbed DEF Keeps
<1>14. FileInv' /\ \A g : \A d \in Calls : Writes(d, g)' => Writes(d, g)
  BY <1>1, <1>8, FilesKept
<1>15. file'[f] = v /\ \A g \in Files \ {f} : file'[g] = file[g]
  BY <1>5 DEF Overwrite, TypeInv
<1>16. Writes(c, f) BY <1>1, <1>2 DEF Writes, Puts
<1>17. \A d \in Calls : d # c => call'[d] = call[d] BY <1>8 DEF Keeps, Others
<1>18. ASSUME NEW g \in Files \ torn, g = f
       PROVE  v = [body |-> {t}, footer |-> None] /\ \A d \in Calls : Writes(d, g) => d = c
  <2>1. file[f] = Empty BY <1>1, <1>16, <1>18 DEF WriterInv
  <2>2. body = {t} BY <1>3, <2>1 DEF Empty
  <2> QED BY <1>4, <1>16, <1>18, <2>1, <2>2 DEF WriterInv, Empty
<1>19. WriterInv'
  <2> SUFFICES ASSUME NEW g \in Files \ torn
               PROVE  /\ Consistent(g)'
                      /\ \A d, e \in Calls : Writes(d, g)' /\ Writes(e, g)' => d = e
                      /\ \A d \in Calls : Writes(d, g)' =>
                           /\ call'[d].pc \in {"receive", "body"} => file'[g] = Empty
                           /\ call'[d].pc = "footer"
                                => file'[g] = [body |-> {call'[d].table}, footer |-> None]
    BY <1>1 DEF WriterInv
  <2>1. CASE g = f
    <3>1. file'[g] = [body |-> {t}, footer |-> None] BY <1>15, <1>18, <2>1
    <3>2. \A d \in Calls : Writes(d, g)' => d = c BY <1>14, <1>18, <2>1
    <3>3. Consistent(g)' BY <3>1 DEF Consistent
    <3>4. call'[c].table = t BY <1>2, <1>8 DEF Keeps
    <3> QED BY <1>8, <3>1, <3>2, <3>3, <3>4
  <2>2. CASE g # f
    <3>1. file'[g] = file[g] BY <1>15, <2>2
    <3>2. \A d \in Calls : Writes(d, g)' => Writes(d, g) /\ d # c
      BY <1>2, <1>14, <2>2 DEF Writes
    <3>3. Consistent(g)' BY <3>1 DEF WriterInv, Consistent
    <3> QED BY <1>17, <3>1, <3>2, <3>3 DEF WriterInv
  <2> QED BY <2>1, <2>2
<1>20. SettledInv'
  <2> SUFFICES ASSUME NEW m \in Names, settled[m] # None
               PROVE  /\ dir[m] # None
                      /\ file'[dir[m]] = [body |-> {settled[m]}, footer |-> settled[m]]
                      /\ \A d \in Calls : ~Writes(d, dir[m])'
    BY <1>1 DEF SettledInv
  <2>1. PICK g \in Files : g = dir[m] BY DEF SettledInv, TypeInv
  <2>2. g # f BY <1>16, <2>1 DEF SettledInv
  <2>3. \A d \in Calls : ~Writes(d, g)' BY <1>14, <2>1 DEF SettledInv
  <2>4. \A d \in Calls : ~Writes(d, dir[m])' BY <1>1, <2>1, <2>3 DEF Writes
  <2> QED BY <1>15, <2>1, <2>2, <2>4 DEF SettledInv
<1> QED BY <1>9, <1>11, <1>13, <1>14, <1>19, <1>20

\* The footer of an upload: from now on its file is whole, unless it is torn.
LEMMA WriteFooterStep ==
  ASSUME IInv, NEW c \in Calls, WriteFooter(c), UNCHANGED exclusive
  PROVE  IInv'
<1> USE DEF IInv
<1>1. /\ c \in Puts /\ call[c].pc = "footer" /\ HasItsData(c) /\ Active(c)
      /\ Answer(c, Ok) /\ UNCHANGED <<dir, torn>>
  BY DEF WriteFooter, At, Puts, CallInv, Active
<1>2. PICK f \in Files, t \in Tables, n \in Names :
        f = call[c].file /\ t = call[c].table /\ n = call[c].name
  BY <1>1 DEF HasItsData, Puts
<1>3. /\ \E footer \in {t, file[f].footer} \ {None} :
           Overwrite(f, [file[f] EXCEPT !.footer = footer])
      /\ settled' = IF dir[n] = f /\ f \notin torn THEN [settled EXCEPT ![n] = t]
                    ELSE settled
  BY <1>2 DEF WriteFooter
<1>4. PICK footer \in {t, file[f].footer} \ {None} :
        Overwrite(f, [file[f] EXCEPT !.footer = footer])
  BY <1>3
<1>5. PICK v : v = [file[f] EXCEPT !.footer = footer] OBVIOUS
<1>6. Overwrite(f, v) BY <1>4, <1>5
<1>7. file[f] \in [body : SUBSET Tables, footer : Tables \union {None}] BY DEF TypeInv
<1>8. v \in [body : SUBSET Tables, footer : Tables \union {None}] BY <1>5, <1>7
<1>9. /\ Keeps(c) /\ call'[c].pc = "done" /\ call'[c].answer = Ok
  BY <1>1, AnswerFields DEF TypeInv, Answers
<1>10. settled' \in [Names -> Tables \union {None}] BY <1>3 DEF TypeInv
<1>11. TypeInv' BY <1>1, <1>6, <1>8, <1>9, <1>10 DEF TypeInv, Keeps, Overwrite
<1>12. HasItsData(c)' BY <1>1, <1>2, <1>9, StorageAssumption DEF HasItsData, Keeps, Puts, Ops
<1>13. CallInv' BY <1>9, <1>12, CallsKept DEF Keeps
<1>14. call'[c].op = "put" /\ call'[c].answer # Garbage
  BY <1>1, <1>9, StorageAssumption DEF Keeps, Puts
<1>15. ReaderInv' BY <1>6, <1>9, <1>14, ReadersDisturbed DEF Keeps
<1>16. FileInv' /\ \A g : \A d \in Calls : Writes(d, g)' => Writes(d, g)
  BY <1>1, <1>9, FilesKept
<1>17. file'[f] = v /\ \A g \in Files \ {f} : file'[g] = file[g]
  BY <1>6 DEF Overwrite, TypeInv
<1>18. Writes(c, f) /\ \A g : ~Writes(c, g)'
  BY <1>1, <1>2, <1>9 DEF Writes, Active, Puts
<1>19. \A d \in Calls : d # c => call'[d] = call[d] BY <1>9 DEF Keeps, Others
<1>20. ASSUME f \notin torn
       PROVE  v = [body |-> {t}, footer |-> t] /\ \A d \in Calls : ~Writes(d, f)'
  <2>1. file[f] = [body |-> {t}, footer |-> None] BY <1>1, <1>2, <1>18, <1>20 DEF WriterInv
  <2>2. footer = t BY <1>4, <2>1
  <2>3. \A d \in Calls : Writes(d, f) => d = c BY <1>18, <1>20 DEF WriterInv
  <2> QED BY <1>5, <1>16, <1>18, <2>1, <2>2, <2>3
<1>21. WriterInv'
  <2> SUFFICES ASSUME NEW g \in Files \ torn
               PROVE  /\ Consistent(g)'
                      /\ \A d, e \in Calls : Writes(d, g)' /\ Writes(e, g)' => d = e
                      /\ \A d \in Calls : Writes(d, g)' =>
                           /\ call'[d].pc \in {"receive", "body"} => file'[g] = Empty
                           /\ call'[d].pc = "footer"
                                => file'[g] = [body |-> {call'[d].table}, footer |-> None]
    BY <1>1 DEF WriterInv
  <2>1. CASE g = f
    <3>1. Consistent(g)' BY <1>17, <1>20, <2>1 DEF Consistent
    <3> QED BY <1>20, <2>1, <3>1
  <2>2. CASE g # f
    <3>1. file'[g] = file[g] BY <1>17, <2>2
    <3>2. \A d \in Calls : Writes(d, g)' => Writes(d, g) /\ d # c BY <1>16, <1>18
    <3>3. Consistent(g)' BY <3>1 DEF WriterInv, Consistent
    <3> QED BY <1>19, <3>1, <3>2, <3>3 DEF WriterInv
  <2> QED BY <2>1, <2>2
<1>22. SettledInv'
  <2> SUFFICES ASSUME NEW m \in Names, settled'[m] # None
               PROVE  /\ dir[m] # None
                      /\ file'[dir[m]] = [body |-> {settled'[m]}, footer |-> settled'[m]]
                      /\ \A d \in Calls : ~Writes(d, dir[m])'
    BY <1>1 DEF SettledInv
  <2>1. CASE m = n /\ dir[n] = f /\ f \notin torn
    <3>1. settled'[m] = t BY <1>3, <2>1 DEF TypeInv
    <3>2. \A d \in Calls : ~Writes(d, dir[m])' BY <1>1, <1>20, <2>1 DEF Writes
    <3>3. f # None BY StorageAssumption DEF Files
    <3> QED BY <1>17, <1>20, <2>1, <3>1, <3>2, <3>3
  <2>2. CASE ~(m = n /\ dir[n] = f /\ f \notin torn)
    <3>1. settled'[m] = settled[m] BY <1>3, <2>2 DEF TypeInv
    <3>2. PICK g \in Files : g = dir[m] BY <3>1 DEF SettledInv, TypeInv
    <3>3. g # f BY <1>18, <3>1, <3>2 DEF SettledInv
    <3>4. \A d \in Calls : ~Writes(d, g)' BY <1>16, <3>1, <3>2 DEF SettledInv
    <3>5. \A d \in Calls : ~Writes(d, dir[m])' BY <1>1, <3>2, <3>4 DEF Writes
    <3> QED BY <1>17, <3>1, <3>2, <3>3, <3>5 DEF SettledInv
  <2> QED BY <2>1, <2>2
<1> QED BY <1>11, <1>13, <1>15, <1>16, <1>21, <1>22

\* A dropped dataset is not settled, and its file stays for those who have it open.
LEMMA UnlinkStep ==
  ASSUME IInv, NEW c \in Calls, Unlink(c), UNCHANGED exclusive
  PROVE  IInv'
<1> USE DEF IInv
<1>1. /\ call[c].op = "drop" /\ call[c].pc = "unlink" /\ HasItsData(c)
      /\ UNCHANGED <<file, torn, mixed>>
  BY DEF Unlink, At, CallInv
<1>2. PICK n \in Names : n = call[c].name BY <1>1 DEF HasItsData
<1>3. PICK a \in {Ok, Error} : Answer(c, a) BY DEF Unlink
<1>4. /\ Keeps(c) /\ call'[c].pc = "done" /\ call'[c].answer = a
  BY <1>3, AnswerFields DEF TypeInv, Answers
<1>5. \/ UNCHANGED <<dir, settled>>
      \/ dir' = [dir EXCEPT ![n] = None] /\ settled' = [settled EXCEPT ![n] = None]
  BY <1>2 DEF Unlink
<1>6. TypeInv' BY <1>1, <1>4, <1>5 DEF TypeInv, Keeps
<1>7. HasItsData(c)' BY <1>1, <1>4, StorageAssumption DEF HasItsData, Keeps, Ops
<1>8. CallInv' BY <1>4, <1>7, CallsKept DEF Keeps
<1>9. ReadsWell(c)' BY <1>4, StorageAssumption DEF ReadsWell
<1>10. ReaderInv' BY <1>1, <1>4, <1>9, ReadersKept DEF Keeps
<1>11. c \notin Puts /\ call'[c].op # "put" BY <1>1, <1>4 DEF Puts, Keeps
<1>12. CASE UNCHANGED <<dir, settled>>
  <2>1. FileInv' /\ WriterInv' /\ SettledInv'
    BY <1>1, <1>4, <1>11, <1>12, WritersKept DEF Keeps
  <2> QED BY <1>6, <1>8, <1>10, <2>1
<1>13. CASE /\ dir' = [dir EXCEPT ![n] = None]
            /\ settled' = [settled EXCEPT ![n] = None]
  <2>1. Puts' = Puts BY <1>4 DEF Puts, Keeps, Others
  <2>2. \A d \in Puts : call'[d] = call[d] BY <1>4, <1>11 DEF Others, Puts, Keeps
  <2>3. PutFiles' = PutFiles BY <2>1, <2>2 DEF PutFiles
  <2>4. \A m \in Names : dir'[m] # None => dir'[m] = dir[m] /\ m # n
    BY <1>13 DEF TypeInv
  <2>5. FileInv' BY <2>1, <2>2, <2>3, <2>4 DEF FileInv
  <2>6. \A g : \A d \in Calls : Writes(d, g)' <=> Writes(d, g)
    BY <2>1, <2>2 DEF Writes, Active, Puts
  <2>7. \A g : \A d \in Calls : Writes(d, g) => call'[d] = call[d] BY <2>2 DEF Writes, Puts
  <2>8. WriterInv' BY <1>1, <2>6, <2>7 DEF WriterInv, Consistent
  <2>9. SettledInv'
    <3> SUFFICES ASSUME NEW m \in Names, settled'[m] # None
                 PROVE  /\ dir'[m] # None
                        /\ file[dir'[m]] = [body |-> {settled'[m]}, footer |-> settled'[m]]
                        /\ \A d \in Calls : ~Writes(d, dir[m])'
      BY <1>1 DEF SettledInv
    <3>1. settled'[m] = settled[m] /\ dir'[m] = dir[m] /\ m # n BY <1>13 DEF TypeInv
    <3>2. PICK g \in Files : g = dir[m] BY <3>1 DEF SettledInv, TypeInv
    <3>3. \A d \in Calls : ~Writes(d, g)' BY <2>6, <3>1, <3>2 DEF SettledInv
    <3>4. \A d \in Calls : ~Writes(d, dir[m])' BY <3>1, <3>2, <3>3 DEF Writes
    <3> QED BY <3>1, <3>4 DEF SettledInv
  <2> QED BY <1>6, <1>8, <1>10, <2>5, <2>8, <2>9
<1> QED BY <1>5, <1>12, <1>13

\* A step of a call that only reads.
LEMMA OnlyReads ==
  ASSUME IInv, NEW c \in Calls \ Puts, call' \in [Calls -> CallStates], Others(c),
         call'[c].op = call[c].op, mixed \subseteq mixed', mixed' \subseteq Calls,
         UNCHANGED <<exclusive, dir, file, torn, settled>>,
         HasItsData(c)', c \in mixed' \/ ReadsWell(c)'
  PROVE  IInv'
<1> USE DEF IInv
<1>1. TypeInv' BY DEF TypeInv
<1>2. CallInv' BY CallsKept
<1>3. ReaderInv' BY ReadersKept
<1>4. call'[c].op # "put" BY DEF Puts
<1>5. FileInv' /\ WriterInv' /\ SettledInv' BY <1>4, WritersKept
<1> QED BY <1>1, <1>2, <1>3, <1>5

LEMMA StatStep ==
  ASSUME IInv, NEW c \in Calls, Stat(c), UNCHANGED exclusive
  PROVE  IInv'
<1>1. /\ call[c].op = "info" /\ HasItsData(c)
      /\ call[c].pc = "stat" /\ UNCHANGED <<dir, file, torn, mixed, settled>>
  BY DEF Stat, At, IInv, CallInv
<1>2. Answer(c, Error) \/ Goto(c, "open") BY DEF Stat
<1>3. Keeps(c) /\ \/ call'[c].pc = "done" /\ call'[c].answer = Error
                  \/ call'[c].pc = "open" /\ call'[c].answer = call[c].answer
  <2>1. CASE Answer(c, Error) BY <2>1, AnswerFields DEF IInv, TypeInv, Answers
  <2>2. CASE Goto(c, "open") BY <2>2, GotoFields DEF IInv, TypeInv, Places
  <2> QED BY <1>2, <2>1, <2>2
<1>4. HasItsData(c)' BY <1>1, <1>3, StorageAssumption DEF HasItsData, Keeps, Ops
<1>5. ReadsWell(c)' BY <1>1, <1>3, StorageAssumption DEF HasItsData, ReadsWell
<1>6. c \in Calls \ Puts BY <1>1 DEF Puts
<1> QED BY <1>1, <1>3, <1>4, <1>5, <1>6, OnlyReads DEF Keeps, IInv, TypeInv

LEMMA SelectStep ==
  ASSUME IInv, NEW c \in Calls, Select(c), UNCHANGED exclusive
  PROVE  IInv'
<1>1. /\ call[c].op = "list" /\ HasItsData(c)
      /\ call[c].pc = "select" /\ UNCHANGED <<dir, file, torn, mixed, settled>>
  BY DEF Select, At, IInv, CallInv
<1>2. PICK there \in SUBSET Names :
        \/ Answer(c, {})
        \/ call' = [call EXCEPT ![c].pc = "open", ![c].todo = there]
  BY DEF Select
<1>3. {} \in Answers \ {None, Garbage}
  BY StorageAssumption DEF Answers
<1>4. Keeps(c) /\ \/ call'[c].pc = "done" /\ call'[c].answer = {}
                  \/ call'[c].pc = "open" /\ call'[c].answer = call[c].answer
  <2>1. CASE Answer(c, {}) BY <1>3, <2>1, AnswerFields DEF IInv, TypeInv
  <2>2. CASE call' = [call EXCEPT ![c].pc = "open", ![c].todo = there]
    BY <2>2, SelectFields DEF IInv, TypeInv
  <2> QED BY <1>2, <2>1, <2>2
<1>5. HasItsData(c)' BY <1>1, <1>3, <1>4, StorageAssumption DEF HasItsData, Keeps, Ops
<1>6. ReadsWell(c)' BY <1>1, <1>3, <1>4, StorageAssumption DEF HasItsData, ReadsWell
<1>7. c \in Calls \ Puts BY <1>1 DEF Puts
<1> QED BY <1>1, <1>4, <1>5, <1>6, <1>7, OnlyReads DEF Keeps, IInv, TypeInv

\* A download that opens a torn file is mixed from the start.
LEMMA OpenInputStep ==
  ASSUME IInv, NEW c \in Calls, OpenInput(c), UNCHANGED exclusive
  PROVE  IInv'
<1>1. /\ call[c].op \in {"get", "info", "list"} /\ HasItsData(c)
      /\ call[c].pc = "open" /\ UNCHANGED <<dir, file, torn, settled>>
  BY DEF OpenInput, At, IInv, CallInv
<1>2. PICK n \in IF call[c].op = "list" THEN call[c].todo ELSE {call[c].name} :
        IF dir[n] = None
        THEN Answer(c, Error) /\ UNCHANGED mixed
        ELSE /\ call' = [call EXCEPT ![c].pc = "footer", ![c].name = n,
                                     ![c].file = dir[n]]
             /\ mixed' = IF dir[n] \in torn THEN mixed \union {c} ELSE mixed
  BY DEF OpenInput
<1>3. call[c].todo \subseteq Names BY DEF IInv, TypeInv, CallStates
<1>4. n \in Names BY <1>1, <1>2, <1>3 DEF HasItsData
<1>5. c \in Calls \ Puts BY <1>1 DEF Puts
<1>6. mixed \subseteq mixed' /\ mixed' \subseteq Calls BY <1>2 DEF IInv, TypeInv
<1>7. CASE dir[n] = None
  <2>1. Keeps(c) /\ call'[c].pc = "done" /\ call'[c].answer = Error
    BY <1>2, <1>7, AnswerFields DEF IInv, TypeInv, Answers
  <2>2. HasItsData(c)' BY <1>1, <2>1, StorageAssumption DEF HasItsData, Keeps, Ops
  <2>3. ReadsWell(c)' BY <1>1, <2>1, StorageAssumption DEF ReadsWell
  <2> QED BY <1>1, <1>5, <1>6, <2>1, <2>2, <2>3, OnlyReads DEF Keeps
<1>8. CASE dir[n] # None
  <2>1. PICK f \in Files : f = dir[n] BY <1>4, <1>8 DEF IInv, TypeInv
  <2>2. /\ Opens(c) /\ call'[c].pc = "footer"
        /\ call'[c].file = f /\ call'[c].name = n
    <3>1. call' = [call EXCEPT ![c].pc = "footer", ![c].name = n, ![c].file = f]
      BY <1>2, <1>8, <2>1
    <3>2. call \in [Calls -> CallStates] /\ "footer" \in Places
      BY DEF IInv, TypeInv, Places
    <3> QED BY <1>4, <3>1, <3>2, OpenInputFields
  <2>3. HasItsData(c)'
    BY <1>1, <1>4, <2>2, StorageAssumption DEF HasItsData, Opens, Ops
  <2>4. c \in mixed' \/ f \notin torn BY <1>2, <1>8, <2>1
  <2>5. ASSUME f \notin torn PROVE ReadsWell(c)'
    <3>1. Consistent(f) BY <2>5 DEF IInv, WriterInv
    <3>2. call'[c].answer # Garbage
      BY <1>1, <2>2, StorageAssumption DEF HasItsData, Opens
    <3> QED BY <1>1, <2>2, <3>1, <3>2 DEF ReadsWell, Consistent
  <2> QED BY <1>1, <1>5, <1>6, <2>2, <2>3, <2>4, <2>5, OnlyReads DEF Opens
<1> QED BY <1>7, <1>8

\* The footer tells a download what the columns are, if nobody writes meanwhile.
LEMMA ReadFooterStep ==
  ASSUME IInv, NEW c \in Calls, ReadFooter(c), UNCHANGED exclusive
  PROVE  IInv'
<1>1. /\ call[c].op \in {"get", "info", "list"} /\ HasItsData(c)
      /\ call[c].pc = "footer" /\ UNCHANGED <<dir, file, torn, mixed, settled>>
  BY DEF ReadFooter, At, IInv, CallInv
<1>2. PICK f \in Files, n \in Names : f = call[c].file /\ n = call[c].name
  BY <1>1 DEF HasItsData
<1>3. PICK footer \in Tables \union {None} : footer = file[f].footer
  BY DEF IInv, TypeInv
<1>4. PICK left \in SUBSET Names : left = call[c].todo \ {n}
  BY DEF IInv, TypeInv, CallStates
<1>5. PICK infos : infos = call[c].infos \union {<<n, footer>>} OBVIOUS
<1>6. call[c].infos \in SUBSET (Names \X Tables) BY DEF IInv, TypeInv, CallStates
<1>7. footer # None => infos \in SUBSET (Names \X Tables) BY <1>3, <1>5, <1>6
<1>8. \/ footer = None /\ Answer(c, Error)
      \/ footer # None /\ call[c].op = "info" /\ Answer(c, footer)
      \/ /\ footer # None /\ call[c].op = "get"
         /\ call' = [call EXCEPT ![c].pc = "body", ![c].seen = footer]
      \/ /\ footer # None /\ call[c].op = "list"
         /\ \/ Answer(c, infos)
            \/ call' = [call EXCEPT ![c].pc = "open", ![c].todo = left, ![c].infos = infos]
  BY <1>1, <1>2, <1>3, <1>4, <1>5 DEF ReadFooter
<1>9. c \in Calls \ Puts /\ mixed \subseteq Calls BY <1>1 DEF Puts, IInv, TypeInv
<1>10. ASSUME NEW a \in Answers \ {None, Garbage}, Answer(c, a) PROVE IInv'
  <2>1. Keeps(c) /\ call'[c].pc = "done" /\ call'[c].answer = a
    BY <1>10, AnswerFields DEF IInv, TypeInv
  <2>2. HasItsData(c)' BY <1>1, <1>10, <2>1, StorageAssumption DEF HasItsData, Keeps, Ops
  <2>3. ReadsWell(c)' BY <1>1, <1>10, <2>1, StorageAssumption DEF ReadsWell
  <2> QED BY <1>1, <1>9, <2>1, <2>2, <2>3, OnlyReads DEF Keeps
<1>11. CASE footer = None /\ Answer(c, Error)
  BY <1>10, <1>11, StorageAssumption DEF Answers
<1>12. CASE footer # None /\ call[c].op = "info" /\ Answer(c, footer)
  BY <1>10, <1>12, StorageAssumption DEF Answers
<1>13. CASE /\ footer # None /\ call[c].op = "get"
            /\ call' = [call EXCEPT ![c].pc = "body", ![c].seen = footer]
  <2>1. footer \in Tables BY <1>13
  <2>2. /\ Keeps(c) /\ call'[c].pc = "body" /\ call'[c].seen = footer
        /\ call'[c].answer = call[c].answer
    BY <1>13, <2>1, SeenFields DEF IInv, TypeInv
  <2>3. HasItsData(c)'
    BY <1>1, <1>2, <1>13, <2>1, <2>2, StorageAssumption DEF HasItsData, Keeps, Ops
  <2>4. ASSUME c \notin mixed PROVE ReadsWell(c)'
    <3>1. file[f].body = {footer}
      BY <1>1, <1>2, <1>3, <1>13, <2>4 DEF IInv, ReaderInv, ReadsWell, Consistent
    <3>2. call'[c].answer # Garbage BY <1>1, <2>2, StorageAssumption DEF HasItsData
    <3> QED BY <1>1, <1>2, <2>2, <3>1, <3>2 DEF ReadsWell, Keeps
  <2> QED BY <1>1, <1>9, <2>2, <2>3, <2>4, OnlyReads DEF Keeps
<1>14. CASE footer # None /\ call[c].op = "list" /\ Answer(c, infos)
  <2>1. infos \in Answers \ {None, Garbage} BY <1>7, <1>14, StorageAssumption DEF Answers
  <2> QED BY <1>10, <1>14, <2>1
<1>15. CASE /\ footer # None /\ call[c].op = "list"
            /\ call' = [call EXCEPT ![c].pc = "open", ![c].todo = left, ![c].infos = infos]
  <2>1. Keeps(c) /\ call'[c].pc = "open" /\ call'[c].answer = call[c].answer
    BY <1>7, <1>15, NextFileFields DEF IInv, TypeInv, Places
  <2>2. HasItsData(c)' BY <1>1, <2>1, <1>15, StorageAssumption DEF HasItsData, Keeps, Ops
  <2>3. ReadsWell(c)' BY <1>1, <2>1, StorageAssumption DEF HasItsData, ReadsWell
  <2> QED BY <1>1, <1>9, <2>1, <2>2, <2>3, OnlyReads DEF Keeps
<1> QED BY <1>8, <1>11, <1>12, <1>13, <1>14, <1>15

\* The columns are those of the footer, so the table is whole.
LEMMA ReadBodyStep ==
  ASSUME IInv, NEW c \in Calls, ReadBody(c), UNCHANGED exclusive
  PROVE  IInv'
<1>1. /\ call[c].op = "get" /\ HasItsData(c)
      /\ call[c].pc = "body" /\ UNCHANGED <<dir, file, torn, mixed, settled>>
  BY DEF ReadBody, At, IInv, CallInv
<1>2. PICK f \in Files, t \in Tables : f = call[c].file /\ t = call[c].seen
  BY <1>1 DEF HasItsData
<1>3. PICK a \in CASE file[f].body = {t} -> {t}
                   [] file[f].body = {} -> {Error}
                   [] OTHER -> {Error, Garbage} : Answer(c, a)
  BY <1>2 DEF ReadBody
<1>4. a \in {t, Error, Garbage} /\ (file[f].body = {t} => a = t)
  <2>1. CASE file[f].body = {t}
    <3>1. {t} # {} OBVIOUS
    <3> QED BY <1>3, <2>1, <3>1
  <2>2. CASE file[f].body = {} BY <1>3, <2>2
  <2>3. CASE file[f].body # {t} /\ file[f].body # {} BY <1>3, <2>3
  <2> QED BY <2>1, <2>2, <2>3
<1>5. a \in Answers \ {None} BY <1>4, StorageAssumption DEF Answers
<1>6. Keeps(c) /\ call'[c].pc = "done" /\ call'[c].answer = a
  BY <1>3, <1>5, AnswerFields DEF IInv, TypeInv
<1>7. HasItsData(c)' BY <1>1, <1>5, <1>6, StorageAssumption DEF HasItsData, Keeps, Ops
<1>8. ASSUME c \notin mixed PROVE ReadsWell(c)'
  <2>1. file[f].body = {t} BY <1>1, <1>2, <1>8 DEF IInv, ReaderInv, ReadsWell
  <2> QED BY <1>4, <1>6, <2>1, StorageAssumption DEF ReadsWell
<1>9. c \in Calls \ Puts /\ mixed \subseteq Calls BY <1>1 DEF Puts, IInv, TypeInv
<1> QED BY <1>1, <1>6, <1>7, <1>8, <1>9, OnlyReads DEF Keeps

LEMMA IInvStep == IInv /\ [Next]_vars => IInv'
<1> SUFFICES ASSUME IInv, [Next]_vars PROVE IInv' OBVIOUS
<1>1. CASE UNCHANGED vars
  <2>1. UNCHANGED <<exclusive, dir, file, call, torn, mixed, settled>>
    BY <1>1 DEF vars, serviceVars
  <2>2. TypeInv' BY <2>1 DEF IInv, TypeInv
  <2>3. CallInv' BY <2>1 DEF IInv, CallInv, HasItsData
  <2>4. PutFiles' = PutFiles BY <2>1 DEF PutFiles, Puts
  <2>5. FileInv' BY <2>1, <2>4 DEF IInv, FileInv, Puts
  <2>6. \A f : \A c \in Calls : Writes(c, f)' <=> Writes(c, f) BY <2>1 DEF Writes, Active
  <2>7. WriterInv' BY <2>1, <2>6 DEF IInv, WriterInv, Consistent
  <2>8. SettledInv' BY <2>1, <2>6 DEF IInv, SettledInv
  <2>9. ReaderInv' BY <2>1 DEF IInv, ReaderInv, ReadsWell, Consistent
  <2> QED BY <2>2, <2>3, <2>5, <2>7, <2>8, <2>9 DEF IInv
<1>2. CASE Next
  <2>1. UNCHANGED exclusive BY <1>2 DEF Next
  <2>2. PICK c \in Calls :
          Step(c) \/ \E op \in Ops, n \in Names, t \in Tables : Call(c, op, n, t)
    BY <1>2 DEF Next
  <2>3. CASE \E op \in Ops, n \in Names, t \in Tables : Call(c, op, n, t)
    BY <2>1, <2>3, CallStep
  <2>4. CASE OpenOutput(c) BY <2>1, <2>4, OpenOutputStep
  <2>5. CASE ToTable(c) \/ PutFails(c) BY <2>1, <2>5, PutStep
  <2>6. CASE WriteBody(c) BY <2>1, <2>6, WriteBodyStep
  <2>7. CASE WriteFooter(c) BY <2>1, <2>7, WriteFooterStep
  <2>8. CASE Stat(c) BY <2>1, <2>8, StatStep
  <2>9. CASE Select(c) BY <2>1, <2>9, SelectStep
  <2>10. CASE OpenInput(c) BY <2>1, <2>10, OpenInputStep
  <2>11. CASE ReadFooter(c) BY <2>1, <2>11, ReadFooterStep
  <2>12. CASE ReadBody(c) BY <2>1, <2>12, ReadBodyStep
  <2>13. CASE Unlink(c) BY <2>1, <2>13, UnlinkStep
  <2> QED
    BY <2>2, <2>3, <2>4, <2>5, <2>6, <2>7, <2>8, <2>9, <2>10, <2>11, <2>12, <2>13 DEF Step
<1> QED BY <1>1, <1>2

\* The invariant behind the theorems: see its parts above.
THEOREM IInvHolds == Spec => []IInv
BY InitIInv, IInvStep, PTL DEF Spec

-----------------------------------------------------------------------------
\* The service's variables keep their types.
THEOREM TypeCorrect == Spec => []TypeOK
<1>1. IInv => TypeOK
  <2> SUFFICES ASSUME IInv PROVE TypeOK OBVIOUS
  <2>1. ASSUME NEW c \in Calls
        PROVE  /\ call[c] \in CallStates
               /\ call[c].answer # None <=> call[c].pc = "done"
    BY DEF IInv, TypeInv, CallInv, HasItsData
  <2>2. \A c \in Calls : /\ call[c].pc \in Places
                         /\ call[c].op \in Ops \union {None}
                         /\ call[c].name \in Names \union {None}
                         /\ {call[c].table, call[c].seen} \subseteq Tables \union {None}
                         /\ call[c].file \in Files \union {None}
                         /\ call[c].todo \subseteq Names
                         /\ call[c].infos \subseteq Names \X Tables
    BY <2>1 DEF CallStates
  <2> QED BY <2>1, <2>2 DEF TypeOK, IInv, TypeInv, Places
<1> QED BY <1>1, IInvHolds, PTL

\* A download (DoGet) answers with a mixture of tables only if an upload wrote the file
\* while it was read, or two uploads wrote it at the same time.
THEOREM WholeUnlessMixedCorrect == Spec => []WholeUnlessMixed
<1>1. IInv => WholeUnlessMixed BY DEF IInv, ReaderInv, ReadsWell, WholeUnlessMixed
<1> QED BY <1>1, IInvHolds, PTL

\* What DoPut has acknowledged is in the file of the dataset, columns and footer, until the
\* next upload or drop of it, however calls interleave, if no other upload overlapped.
THEOREM AcknowledgedIsStoredCorrect == Spec => []AcknowledgedIsStored
<1>1. IInv => AcknowledgedIsStored BY DEF IInv, SettledInv, AcknowledgedIsStored
<1> QED BY <1>1, IInvHolds, PTL

-----------------------------------------------------------------------------
(* Clients that keep out of each other's way find a store whose calls are  *)
(* atomic: the service implements DatasetStore.                            *)

There == {n \in Names : dir[n] # None}

\* What dataset n is to its clients.
Seen(n) == IF dir[n] = None THEN None
           ELSE IF file[dir[n]].footer = None THEN Garbage ELSE file[dir[n]].footer

\* An upload or a drop is alone with its dataset, and there is no listing meanwhile.
Apart ==
  \A c, d \in Calls :
    c # d /\ Active(c) /\ Active(d) /\ call[c].op \in {"put", "drop"} =>
      call[d].op # "list" /\ call[d].name # call[c].name

\* A listing has read what it is done with as it still is.
Lists(c) ==
  /\ call[c].todo \subseteq There
  /\ call[c].infos = {<<n, Seen(n)>> : n \in There \ call[c].todo}
  /\ \A n \in There \ call[c].todo : Seen(n) \in Tables

\* The file a call has open is that of its dataset, and what it read of it is still true.
IsCurrent(c) ==
  /\ call[c].op = "put" /\ call[c].pc \in {"receive", "body", "footer"} =>
       dir[call[c].name] = call[c].file
  /\ call[c].op \in {"get", "info", "list"} /\ call[c].pc = "footer" =>
       dir[call[c].name] = call[c].file
  /\ call[c].op = "get" /\ call[c].pc = "body" =>
       dir[call[c].name] = call[c].file /\ file[call[c].file].footer = call[c].seen
  /\ call[c].op = "list" /\ call[c].pc \in {"open", "footer"} => Lists(c)
  /\ call[c].pc \in {"idle", "select"} => call[c].infos = {}

Undisturbed == torn = {} /\ Apart /\ \A c \in Calls : IsCurrent(c)

StoreInv == IInv /\ (exclusive => Undisturbed)

\* The refinement mapping of Store, by name.
St == [n \in Names |-> IF ~exclusive \/ dir[n] = None THEN None
                       ELSE IF file[dir[n]].footer = None THEN Garbage
                       ELSE file[dir[n]].footer]
Rq == [c \in Calls |-> IF ~exclusive \/ call[c].pc = "idle" THEN None
                       ELSE [op |-> call[c].op,
                             name |-> IF call[c].op = "list" THEN None ELSE call[c].name,
                             table |-> call[c].table]]
An == [c \in Calls |-> IF exclusive THEN call[c].answer ELSE None]

Open(c, op) == Rq[c] # None /\ An[c] = None /\ Rq[c].op = op
Give(c, a) == An' = [An EXCEPT ![c] = a] /\ UNCHANGED Rq

LEMMA StoreSteps ==
  /\ UNCHANGED Store!vars <=> UNCHANGED <<St, Rq, An>>
  /\ \A c \in Calls :
       /\ Store!Ask(c) <=> /\ Rq[c] = None
                           /\ \E r \in Store!Requests : Rq' = [Rq EXCEPT ![c] = r]
                           /\ UNCHANGED <<St, An>>
       /\ Store!StartPut(c) <=> /\ Open(c, "put")
                                /\ St' = [St EXCEPT ![Rq[c].name] = Garbage]
                                /\ UNCHANGED <<Rq, An>>
       /\ Store!FinishPut(c) <=> /\ Open(c, "put")
                                 /\ St[Rq[c].name] = Garbage
                                 /\ St' = [St EXCEPT ![Rq[c].name] = Rq[c].table]
                                 /\ Give(c, Ok)
       /\ Store!FailPut(c) <=> /\ Open(c, "put")
                               /\ Give(c, Error)
                               /\ UNCHANGED St
       /\ \A op : Store!Get(c, op) <=>
            /\ Open(c, op)
            /\ Give(c, IF St[Rq[c].name] \in Tables THEN St[Rq[c].name] ELSE Error)
            /\ UNCHANGED St
       /\ Store!List(c) <=>
            /\ Open(c, "list")
            /\ Give(c, IF \A n \in {m \in Names : St[m] # None} : St[n] # Garbage
                       THEN {<<n, St[n]>> : n \in {m \in Names : St[m] # None}}
                       ELSE Error)
            /\ UNCHANGED St
       /\ Store!Drop(c) <=>
            /\ Open(c, "drop")
            /\ IF St[Rq[c].name] = None
               THEN Give(c, Error) /\ UNCHANGED St
               ELSE Give(c, Ok) /\ St' = [St EXCEPT ![Rq[c].name] = None]
BY Zenon DEF St, Rq, An, Open, Give, Store!vars, Store!Ask, Store!StartPut,
             Store!FinishPut, Store!FailPut, Store!Get, Store!List, Store!Drop,
             Store!Open, Store!Give, Store!Set

\* A step of the store.
Serves == UNCHANGED <<St, Rq, An>> \/ Store!Next

LEMMA IsStep ==
  ASSUME NEW c \in Calls,
         \/ Store!Ask(c) \/ Store!StartPut(c) \/ Store!FinishPut(c) \/ Store!FailPut(c)
         \/ Store!Get(c, "get") \/ Store!Get(c, "info") \/ Store!List(c) \/ Store!Drop(c)
  PROVE  Serves
BY DEF Serves, Store!Next

\* A call under way goes on, as the call its client made.
GoesOn(c) ==
  /\ exclusive /\ UNCHANGED exclusive
  /\ Active(c) /\ call' \in [Calls -> CallStates] /\ Others(c)
  /\ call'[c].pc # "idle"
  /\ call'[c].op = call[c].op /\ call'[c].table = call[c].table
  /\ call[c].op = "list" \/ call'[c].name = call[c].name

\* To the clients it is still that call; they see an answer when there is one.
LEMMA Asked ==
  ASSUME IInv, NEW c \in Calls, GoesOn(c)
  PROVE  /\ Open(c, call[c].op) /\ UNCHANGED Rq
         /\ call[c].op # "list" => Rq[c].name = call[c].name
         /\ Rq[c].table = call[c].table
         /\ call'[c].answer = call[c].answer => UNCHANGED An
         /\ \A a : call'[c].answer = a => Give(c, a)
<1>1. /\ exclusive /\ exclusive' /\ call[c].pc # "idle" /\ call[c].pc # "done"
      /\ call[c] \in CallStates /\ HasItsData(c)
  BY DEF GoesOn, Active, IInv, TypeInv, CallInv
<1>2. Rq[c] = [op |-> call[c].op,
               name |-> IF call[c].op = "list" THEN None ELSE call[c].name,
               table |-> call[c].table]
  BY <1>1 DEF Rq
<1>3. call[c].op \in Ops BY <1>1 DEF HasItsData, CallStates
<1>4. Rq[c] \in [op : Ops, name : Names \union {None}, table : Tables \union {None}]
  BY <1>1, <1>2, <1>3 DEF CallStates
<1>5. Rq[c] # None BY <1>4, StorageAssumption
<1>6. An[c] = None BY <1>1 DEF An, HasItsData
<1>7. Open(c, call[c].op) BY <1>2, <1>5, <1>6 DEF Open
<1>8. UNCHANGED Rq
  <2>1. \A d \in Calls : Rq'[d] = Rq[d]
    <3> TAKE d \in Calls
    <3>1. CASE d = c BY <1>1, <3>1 DEF Rq, GoesOn
    <3>2. CASE d # c BY <1>1, <3>2 DEF Rq, GoesOn, Others
    <3> QED BY <3>1, <3>2
  <2>2. Rq = [d \in Calls |-> Rq[d]] /\ Rq' = [d \in Calls |-> Rq'[d]] BY DEF Rq
  <2> QED BY <2>1, <2>2
<1>9. ASSUME NEW a, call'[c].answer = a PROVE An' = [An EXCEPT ![c] = a]
  <2>1. \A d \in Calls : An'[d] = IF d = c THEN a ELSE An[d]
    BY <1>1, <1>9 DEF An, GoesOn, Others
  <2>2. An = [d \in Calls |-> An[d]] /\ An' = [d \in Calls |-> An'[d]] BY DEF An
  <2> QED BY <2>1, <2>2
<1>10. ASSUME call'[c].answer = call[c].answer PROVE UNCHANGED An
  <2>1. \A d \in Calls : An'[d] = An[d] BY <1>1, <1>10 DEF An, GoesOn, Others
  <2>2. An = [d \in Calls |-> An[d]] /\ An' = [d \in Calls |-> An'[d]] BY DEF An
  <2> QED BY <2>1, <2>2
<1> QED BY <1>2, <1>7, <1>8, <1>9, <1>10 DEF Give

\* What clients see of the datasets.
LEMMA StoreSeen ==
  ASSUME exclusive
  PROVE  \A n \in Names : St[n] = Seen(n)
BY DEF St, Seen

LEMMA StoreSame ==
  ASSUME exclusive, UNCHANGED exclusive, \A n \in Names : Seen(n)' = Seen(n)
  PROVE  UNCHANGED St
<1>1. \A n \in Names : St'[n] = St[n] BY DEF St, Seen
<1>2. St = [n \in Names |-> St[n]] /\ St' = [n \in Names |-> St'[n]] BY DEF St
<1> QED BY <1>1, <1>2

LEMMA StoreSet ==
  ASSUME exclusive, UNCHANGED exclusive, NEW n \in Names, NEW v, Seen(n)' = v,
         \A m \in Names : m # n => Seen(m)' = Seen(m)
  PROVE  St' = [St EXCEPT ![n] = v]
<1>1. \A m \in Names : St'[m] = IF m = n THEN v ELSE St[m] BY DEF St, Seen
<1>2. St = [m \in Names |-> St[m]] /\ St' = [m \in Names |-> St'[m]] BY DEF St
<1> QED BY <1>1, <1>2

\* No call becomes active, or another.
LEMMA ApartKept ==
  ASSUME Apart, NEW c \in Calls, GoesOn(c)
  PROVE  Apart'
<1> SUFFICES ASSUME NEW b \in Calls, NEW d \in Calls, b # d, Active(b)', Active(d)',
                    call'[b].op \in {"put", "drop"}
             PROVE  call'[d].op # "list" /\ call'[d].name # call'[b].name
  BY DEF Apart
<1>1. \A e \in {b, d} : /\ Active(e) /\ call'[e].op = call[e].op
                        /\ call[e].op = "list" \/ call'[e].name = call[e].name
  BY DEF GoesOn, Others, Active
<1>2. call[d].op # "list" /\ call[d].name # call[b].name BY <1>1 DEF Apart
<1> QED BY <1>1, <1>2

\* As long as no dataset changes, what the other calls know stays true.
LEMMA OthersCurrent ==
  ASSUME Undisturbed, NEW c \in Calls, Others(c), UNCHANGED <<dir, file>>
  PROVE  \A d \in Calls : d # c => IsCurrent(d)'
<1> SUFFICES ASSUME NEW d \in Calls, d # c PROVE IsCurrent(d)' OBVIOUS
<1>1. IsCurrent(d) /\ call'[d] = call[d] BY DEF Undisturbed, Others
<1>2. There' = There /\ \A n \in There : Seen(n)' = Seen(n) BY DEF There, Seen
<1>3. Lists(d) => Lists(d)' BY <1>1, <1>2 DEF Lists
<1> QED BY <1>1, <1>3 DEF IsCurrent

\* A step that reads.
LEMMA ReadsOn ==
  ASSUME Undisturbed, NEW c \in Calls, GoesOn(c), UNCHANGED <<dir, file, torn>>,
         IsCurrent(c)'
  PROVE  Undisturbed' /\ UNCHANGED St
<1>1. Apart' BY ApartKept DEF Undisturbed
<1>2. \A d \in Calls : d # c => IsCurrent(d)' BY OthersCurrent DEF GoesOn
<1>3. \A n \in Names : Seen(n)' = Seen(n) BY DEF Seen
<1>4. UNCHANGED St BY <1>3, StoreSame DEF GoesOn
<1> QED BY <1>1, <1>2, <1>4 DEF Undisturbed

\* A step that writes to dataset n only.
Spares(n) ==
  \A m \in Names : m # n => /\ dir'[m] = dir[m]
                            /\ dir[m] # None => file'[dir[m]] = file[dir[m]]

LEMMA WritesOn ==
  ASSUME IInv, Undisturbed, NEW c \in Calls, GoesOn(c), call[c].op \in {"put", "drop"},
         Spares(call[c].name), torn' = {}, IsCurrent(c)'
  PROVE  /\ Undisturbed'
         /\ \A m \in Names : m # call[c].name => Seen(m)' = Seen(m)
<1>1. Apart' BY ApartKept DEF Undisturbed
<1>2. \A m \in Names : m # call[c].name => Seen(m)' = Seen(m) BY DEF Spares, Seen
<1>3. ASSUME NEW d \in Calls, d # c PROVE IsCurrent(d)'
  <2>1. IsCurrent(d) /\ call'[d] = call[d] BY <1>3 DEF Undisturbed, GoesOn, Others
  <2>2. CASE Active(d)
    <3>1. call[d].op # "list" /\ call[d].name # call[c].name
      BY <1>3, <2>2 DEF Undisturbed, Apart, GoesOn
    <3>2. HasItsData(d) BY DEF IInv, CallInv
    <3>3. call[d].op \in {"put", "get", "info"} => call[d].name \in Names
      BY <3>2 DEF HasItsData
    <3>4. call[d].op \in {"put", "get", "info"} =>
            /\ dir'[call[d].name] = dir[call[d].name]
            /\ dir[call[d].name] # None =>
                 file'[dir[call[d].name]] = file[dir[call[d].name]]
      BY <3>1, <3>3 DEF Spares
    <3>5. call[d].op = "get" /\ call[d].pc = "body" => call[d].file # None
      BY <3>2, StorageAssumption DEF HasItsData, Files
    <3>6. call[d].op = "get" /\ call[d].pc = "body" =>
            dir'[call[d].name] = call[d].file /\ file'[call[d].file].footer = call[d].seen
      BY <2>1, <3>4, <3>5 DEF IsCurrent
    <3>7. /\ call[d].op = "put" /\ call[d].pc \in {"receive", "body", "footer"} =>
               dir'[call[d].name] = call[d].file
          /\ call[d].op \in {"get", "info"} /\ call[d].pc = "footer" =>
               dir'[call[d].name] = call[d].file
      BY <2>1, <3>4 DEF IsCurrent
    <3>8. call[d].pc \in {"idle", "select"} => call[d].infos = {} BY <2>1 DEF IsCurrent
    <3> QED BY <2>1, <3>1, <3>6, <3>7, <3>8 DEF IsCurrent
  <2>3. CASE ~Active(d) BY <2>1, <2>3 DEF IsCurrent, Active
  <2> QED BY <2>2, <2>3
<1> QED BY <1>1, <1>2, <1>3 DEF Undisturbed

LEMMA KeepsGoesOn ==
  ASSUME NEW c \in Calls, exclusive, UNCHANGED exclusive, Active(c), Keeps(c),
         call'[c].pc # "idle"
  PROVE  GoesOn(c)
BY DEF GoesOn, Keeps

\* The client's request.
LEMMA CallServes ==
  ASSUME IInv, Undisturbed, exclusive, UNCHANGED exclusive, NEW c \in Calls,
         NEW op \in Ops, NEW n \in Names, NEW t \in Tables, Call(c, op, n, t)
  PROVE  Undisturbed' /\ Serves
<1>1. /\ call[c].pc = "idle" /\ UNCHANGED <<dir, file, torn>>
      /\ \A d \in Calls : ~Conflict(op, n, d)
  BY DEF Call
<1>2. /\ Others(c) /\ call'[c].pc = First[op] /\ call'[c].op = op
      /\ call'[c].name = IF op = "list" THEN None ELSE n
      /\ call'[c].table = IF op = "put" THEN t ELSE None
      /\ call'[c].answer = call[c].answer /\ call'[c].infos = call[c].infos
  BY CallFields DEF IInv, TypeInv
<1>3. /\ First[op] \in {"open", "stat", "select", "unlink"}
      /\ op = "list" => First[op] = "select"
  BY DEF First, Ops
<1>4. IsCurrent(c)' BY <1>1, <1>2, <1>3 DEF IsCurrent, Undisturbed
<1>5. \A d \in Calls : d # c => IsCurrent(d)' BY <1>1, <1>2, OthersCurrent
<1>6. Apart'
  <2> SUFFICES ASSUME NEW b \in Calls, NEW d \in Calls, b # d, Active(b)', Active(d)',
                      call'[b].op \in {"put", "drop"}
               PROVE  call'[d].op # "list" /\ call'[d].name # call'[b].name
    BY DEF Apart
  <2>1. \A e \in Calls : e # c => call'[e] = call[e] BY <1>2 DEF Others
  <2>2. CASE b = c
    <3>1. Active(d) /\ call'[d] = call[d] BY <2>1, <2>2 DEF Active
    <3>2. ~Conflict(op, n, d) BY <1>1
    <3> QED BY <1>2, <2>2, <3>1, <3>2 DEF Conflict
  <2>3. CASE d = c
    <3>1. Active(b) /\ call'[b] = call[b] BY <2>1, <2>3 DEF Active
    <3>2. ~Conflict(op, n, b) BY <1>1
    <3> QED BY <1>2, <2>3, <3>1, <3>2 DEF Conflict
  <2>4. CASE b # c /\ d # c BY <2>1, <2>4 DEF Undisturbed, Apart, Active
  <2> QED BY <2>2, <2>3, <2>4
<1>7. Undisturbed' BY <1>1, <1>4, <1>5, <1>6 DEF Undisturbed
<1>8. UNCHANGED St
  <2>1. \A m \in Names : Seen(m)' = Seen(m) BY <1>1 DEF Seen
  <2> QED BY <2>1, StoreSame
<1>9. UNCHANGED An
  <2>1. \A d \in Calls : An'[d] = An[d] BY <1>2 DEF An, Others
  <2>2. An = [d \in Calls |-> An[d]] /\ An' = [d \in Calls |-> An'[d]] BY DEF An
  <2> QED BY <2>1, <2>2
<1>10. PICK r : r = [op |-> op, name |-> IF op = "list" THEN None ELSE n,
                     table |-> IF op = "put" THEN t ELSE None]
  OBVIOUS
<1>11. r \in Store!Requests BY <1>10 DEF Store!Requests, Ops
<1>12. Rq' = [Rq EXCEPT ![c] = r]
  <2>1. Rq'[c] = r BY <1>2, <1>3, <1>10 DEF Rq
  <2>2. \A d \in Calls : d # c => Rq'[d] = Rq[d] BY <1>2 DEF Rq, Others
  <2>3. Rq = [d \in Calls |-> Rq[d]] /\ Rq' = [d \in Calls |-> Rq'[d]] BY DEF Rq
  <2> QED BY <2>1, <2>2, <2>3
<1>13. Rq[c] = None BY <1>1 DEF Rq
<1>14. Store!Ask(c) BY <1>8, <1>9, <1>11, <1>12, <1>13, StoreSteps
<1> QED BY <1>7, <1>14, IsStep

\* From the moment it opens the file an upload has broken the dataset.
LEMMA OpenOutputServes ==
  ASSUME IInv, Undisturbed, exclusive, UNCHANGED exclusive, NEW c \in Calls, OpenOutput(c)
  PROVE  Undisturbed' /\ Serves
<1>1. c \in Puts /\ call[c].op = "put" /\ call[c].pc = "open" /\ HasItsData(c) /\ Active(c)
  BY DEF OpenOutput, At, Puts, IInv, CallInv, Active
<1>2. PICK n \in Names : n = call[c].name /\ call[c].file = None
  BY <1>1 DEF HasItsData
<1>3. PICK f \in Files :
        /\ f = IF dir[n] # None THEN dir[n] ELSE Fresh
        /\ dir[n] = f \/ (dir[n] = None /\ f \notin PutFiles)
  BY <1>1, <1>2, FreshFile DEF IInv, TypeInv
<1>4. /\ dir' = [dir EXCEPT ![n] = f]
      /\ file' = [file EXCEPT ![f] = Empty]
      /\ torn' = IF \E d \in Calls : Writes(d, f) THEN torn \union {f} ELSE torn \ {f}
      /\ call' = [call EXCEPT ![c].pc = "receive", ![c].file = f]
  BY <1>2, <1>3 DEF OpenOutput, Overwrite
<1>5. /\ Opens(c)
      /\ call'[c].pc = "receive" /\ call'[c].file = f /\ call'[c].name = n
  BY <1>2, <1>4, OpenFields DEF IInv, TypeInv, Places
<1>6. GoesOn(c) BY <1>1, <1>2, <1>5 DEF GoesOn, Opens
<1>7. f # None BY StorageAssumption DEF Files
<1>8. \A d \in Calls : ~Writes(d, f)
  <2> SUFFICES ASSUME NEW d \in Calls, Writes(d, f) PROVE FALSE OBVIOUS
  <2>1. /\ d \in Puts /\ call[d].op = "put" /\ call[d].file = f /\ Active(d) /\ d # c
    BY <1>2, <1>7 DEF Writes, Puts
  <2>2. f \in PutFiles BY <1>7, <2>1 DEF PutFiles
  <2>3. dir[n] = f BY <1>3, <2>2
  <2>4. call[d].name = n BY <1>7, <2>1, <2>3 DEF IInv, FileInv
  <2> QED BY <1>1, <1>2, <2>1, <2>4 DEF Undisturbed, Apart
<1>9. torn' = {} BY <1>4, <1>8 DEF Undisturbed
<1>10. dir'[n] = f /\ file'[f] = Empty BY <1>4 DEF IInv, TypeInv
<1>11. IsCurrent(c)' BY <1>1, <1>5, <1>6, <1>10 DEF IsCurrent, GoesOn
<1>12. Spares(n)
  <2> SUFFICES ASSUME NEW m \in Names, m # n
               PROVE  dir'[m] = dir[m] /\ (dir[m] # None => file'[dir[m]] = file[dir[m]])
    BY DEF Spares
  <2>1. dir'[m] = dir[m] BY <1>4 DEF IInv, TypeInv
  <2>2. dir[m] # None => dir[m] # f BY <1>3, <1>7 DEF IInv, FileInv
  <2>3. dir[m] # None => dir[m] \in Files BY DEF IInv, TypeInv
  <2> QED BY <1>4, <2>1, <2>2, <2>3 DEF IInv, TypeInv
<1>13. Undisturbed' /\ \A m \in Names : m # n => Seen(m)' = Seen(m)
  BY <1>1, <1>2, <1>6, <1>9, <1>11, <1>12, WritesOn
<1>14. Seen(n)' = Garbage BY <1>7, <1>10 DEF Seen, Empty
<1>15. St' = [St EXCEPT ![n] = Garbage] BY <1>13, <1>14, StoreSet
<1>16. Open(c, "put") /\ UNCHANGED <<Rq, An>> /\ Rq[c].name = n
  BY <1>1, <1>2, <1>5, <1>6, Asked DEF Opens
<1>17. Store!StartPut(c) BY <1>15, <1>16, StoreSteps
<1> QED BY <1>13, <1>17, IsStep

\* What an upload under way has written is all that is in its file.
LEMMA PutOwnsFile ==
  ASSUME IInv, Undisturbed, NEW c \in Calls, call[c].op = "put",
         call[c].pc \in {"receive", "body", "footer"}
  PROVE  /\ call[c].file \in Files /\ call[c].name \in Names /\ call[c].table \in Tables
         /\ dir[call[c].name] = call[c].file
         /\ call[c].pc \in {"receive", "body"} => file[call[c].file] = Empty
         /\ call[c].pc = "footer" =>
              file[call[c].file] = [body |-> {call[c].table}, footer |-> None]
<1>1. call[c].file \in Files /\ call[c].name \in Names /\ call[c].table \in Tables
  BY DEF IInv, CallInv, HasItsData
<1>2. dir[call[c].name] = call[c].file BY DEF Undisturbed, IsCurrent
<1>3. Writes(c, call[c].file) BY DEF Writes, Active
<1> QED BY <1>1, <1>2, <1>3 DEF IInv, WriterInv, Undisturbed

\* Writing to the file of a dataset does not touch the others.
LEMMA FileSpares ==
  ASSUME IInv, NEW n \in Names, NEW f \in Files, dir[n] = f, dir' = dir, NEW v,
         file' = [file EXCEPT ![f] = v]
  PROVE  Spares(n) /\ file'[f] = v
<1>1. f # None BY StorageAssumption DEF Files
<1>2. \A m \in Names : m # n => dir[m] # f BY <1>1 DEF IInv, FileInv
<1>3. \A m \in Names : dir[m] # None => dir[m] \in Files BY DEF IInv, TypeInv
<1> QED BY <1>2, <1>3 DEF Spares, IInv, TypeInv

LEMMA ToTableServes ==
  ASSUME IInv, Undisturbed, exclusive, UNCHANGED exclusive, NEW c \in Calls, ToTable(c)
  PROVE  Undisturbed' /\ Serves
<1>1. /\ call[c].op = "put" /\ call[c].pc = "receive" /\ Active(c) /\ Goto(c, "body")
      /\ UNCHANGED <<dir, file, torn>>
  BY DEF ToTable, At, Active
<1>2. Keeps(c) /\ call'[c].pc = "body" /\ call'[c].answer = call[c].answer
  BY <1>1, GotoFields DEF IInv, TypeInv, Places
<1>3. GoesOn(c) BY <1>1, <1>2, KeepsGoesOn
<1>4. IsCurrent(c)' BY <1>1, <1>2 DEF IsCurrent, Undisturbed, Keeps
<1>5. Undisturbed' /\ UNCHANGED St BY <1>1, <1>3, <1>4, ReadsOn
<1>6. UNCHANGED <<Rq, An>> BY <1>2, <1>3, Asked
<1> QED BY <1>5, <1>6 DEF Serves

LEMMA PutFailsServes ==
  ASSUME IInv, Undisturbed, exclusive, UNCHANGED exclusive, NEW c \in Calls, PutFails(c)
  PROVE  Undisturbed' /\ Serves
<1>1. /\ call[c].op = "put" /\ Active(c) /\ Answer(c, Error)
      /\ UNCHANGED <<dir, file, torn>>
  BY DEF PutFails, Active
<1>2. Keeps(c) /\ call'[c].pc = "done" /\ call'[c].answer = Error
  BY <1>1, AnswerFields DEF IInv, TypeInv, Answers
<1>3. GoesOn(c) BY <1>1, <1>2, KeepsGoesOn
<1>4. IsCurrent(c)' BY <1>2 DEF IsCurrent
<1>5. Undisturbed' /\ UNCHANGED St BY <1>1, <1>3, <1>4, ReadsOn
<1>6. Open(c, "put") /\ Give(c, Error) BY <1>1, <1>2, <1>3, Asked
<1>7. Store!FailPut(c) BY <1>5, <1>6, StoreSteps
<1> QED BY <1>5, <1>7, IsStep

\* The columns alone are not seen.
LEMMA WriteBodyServes ==
  ASSUME IInv, Undisturbed, exclusive, UNCHANGED exclusive, NEW c \in Calls, WriteBody(c)
  PROVE  Undisturbed' /\ Serves
<1>1. /\ call[c].op = "put" /\ call[c].pc = "body" /\ Active(c) /\ Goto(c, "footer")
      /\ UNCHANGED <<dir, torn>>
  BY DEF WriteBody, At, Active
<1>2. PICK f \in Files, n \in Names : /\ f = call[c].file /\ n = call[c].name
                                      /\ dir[n] = f /\ file[f] = Empty
  BY <1>1, PutOwnsFile
<1>3. PICK body : file' = [file EXCEPT ![f] = [file[f] EXCEPT !.body = body]]
  BY <1>2 DEF WriteBody, Overwrite
<1>4. PICK v : v = [file[f] EXCEPT !.body = body] OBVIOUS
<1>5. v.footer = None BY <1>2, <1>4 DEF Empty
<1>6. Keeps(c) /\ call'[c].pc = "footer" /\ call'[c].answer = call[c].answer
  BY <1>1, GotoFields DEF IInv, TypeInv, Places
<1>7. GoesOn(c) BY <1>1, <1>6, KeepsGoesOn
<1>8. Spares(n) /\ file'[f] = v
  <2>1. file' = [file EXCEPT ![f] = v] BY <1>3, <1>4
  <2> QED BY <1>1, <1>2, <2>1, FileSpares
<1>9. IsCurrent(c)' BY <1>1, <1>2, <1>6 DEF IsCurrent, Keeps
<1>10. Undisturbed' /\ \A m \in Names : m # n => Seen(m)' = Seen(m)
  BY <1>1, <1>2, <1>7, <1>8, <1>9, WritesOn DEF Undisturbed
<1>11. Seen(n)' = Seen(n) BY <1>1, <1>2, <1>5, <1>8 DEF Seen, Empty
<1>12. UNCHANGED St BY <1>10, <1>11, StoreSame
<1>13. UNCHANGED <<Rq, An>> BY <1>6, <1>7, Asked
<1> QED BY <1>10, <1>12, <1>13 DEF Serves

\* With its footer an upload becomes the dataset.
LEMMA WriteFooterServes ==
  ASSUME IInv, Undisturbed, exclusive, UNCHANGED exclusive, NEW c \in Calls, WriteFooter(c)
  PROVE  Undisturbed' /\ Serves
<1>1. /\ call[c].op = "put" /\ call[c].pc = "footer" /\ Active(c) /\ Answer(c, Ok)
      /\ UNCHANGED <<dir, torn>>
  BY DEF WriteFooter, At, Active
<1>2. PICK f \in Files, n \in Names, t \in Tables :
        /\ f = call[c].file /\ n = call[c].name /\ t = call[c].table
        /\ dir[n] = f /\ file[f] = [body |-> {t}, footer |-> None]
  BY <1>1, PutOwnsFile
<1>3. PICK footer \in {t, file[f].footer} \ {None} :
        file' = [file EXCEPT ![f] = [file[f] EXCEPT !.footer = footer]]
  BY <1>2 DEF WriteFooter, Overwrite
<1>4. footer = t BY <1>2, <1>3
<1>5. PICK v : v = [file[f] EXCEPT !.footer = footer] OBVIOUS
<1>6. v.footer = t BY <1>2, <1>4, <1>5
<1>7. Keeps(c) /\ call'[c].pc = "done" /\ call'[c].answer = Ok
  BY <1>1, AnswerFields DEF IInv, TypeInv, Answers
<1>8. GoesOn(c) BY <1>1, <1>7, KeepsGoesOn
<1>9. Spares(n) /\ file'[f] = v
  <2>1. file' = [file EXCEPT ![f] = v] BY <1>3, <1>5
  <2> QED BY <1>1, <1>2, <2>1, FileSpares
<1>10. IsCurrent(c)' BY <1>7 DEF IsCurrent
<1>11. Undisturbed' /\ \A m \in Names : m # n => Seen(m)' = Seen(m)
  BY <1>1, <1>2, <1>8, <1>9, <1>10, WritesOn DEF Undisturbed
<1>12. f # None /\ t # None BY StorageAssumption DEF Files
<1>13. Seen(n) = Garbage /\ Seen(n)' = t BY <1>1, <1>2, <1>6, <1>9, <1>12 DEF Seen
<1>14. St' = [St EXCEPT ![n] = t] BY <1>11, <1>13, StoreSet
<1>15. St[n] = Garbage BY <1>13, StoreSeen
<1>16. Open(c, "put") /\ Give(c, Ok) /\ Rq[c].name = n /\ Rq[c].table = t
  BY <1>1, <1>2, <1>7, <1>8, Asked
<1>17. Store!FinishPut(c) BY <1>14, <1>15, <1>16, StoreSteps
<1> QED BY <1>11, <1>17, IsStep

LEMMA UnlinkServes ==
  ASSUME IInv, Undisturbed, exclusive, UNCHANGED exclusive, NEW c \in Calls, Unlink(c)
  PROVE  Undisturbed' /\ Serves
<1>1. /\ call[c].op = "drop" /\ call[c].pc = "unlink" /\ Active(c) /\ HasItsData(c)
      /\ UNCHANGED <<file, torn>>
  BY DEF Unlink, At, Active, IInv, CallInv
<1>2. PICK n \in Names : n = call[c].name BY <1>1 DEF HasItsData
<1>3. \A a \in {Ok, Error} : Answer(c, a) =>
        GoesOn(c) /\ IsCurrent(c)' /\ call'[c].answer = a
  <2> SUFFICES ASSUME NEW a \in {Ok, Error}, Answer(c, a)
               PROVE  GoesOn(c) /\ IsCurrent(c)' /\ call'[c].answer = a
    OBVIOUS
  <2>1. Keeps(c) /\ call'[c].pc = "done" /\ call'[c].answer = a
    BY AnswerFields DEF IInv, TypeInv, Answers
  <2>2. GoesOn(c) BY <1>1, <2>1, KeepsGoesOn
  <2> QED BY <2>1, <2>2 DEF IsCurrent
<1>4. Seen(n) = None <=> dir[n] = None
  <2>1. dir[n] # None => file[dir[n]].footer \in Tables \union {None}
    BY DEF IInv, TypeInv
  <2> QED BY <2>1, StorageAssumption DEF Seen
<1>5. St[n] = Seen(n) BY StoreSeen
<1>6. CASE dir[n] = None
  <2>1. Answer(c, Error) /\ dir' = dir BY <1>2, <1>6 DEF Unlink
  <2>2. GoesOn(c) /\ IsCurrent(c)' /\ call'[c].answer = Error BY <1>3, <2>1
  <2>3. Undisturbed' /\ UNCHANGED St BY <1>1, <2>1, <2>2, ReadsOn
  <2>4. Open(c, "drop") /\ Give(c, Error) /\ Rq[c].name = n BY <1>1, <1>2, <2>2, Asked
  <2>5. Store!Drop(c) BY <1>4, <1>5, <1>6, <2>3, <2>4, StoreSteps
  <2> QED BY <2>3, <2>5, IsStep
<1>7. CASE dir[n] # None
  <2>1. Answer(c, Ok) /\ dir' = [dir EXCEPT ![n] = None] BY <1>2, <1>7 DEF Unlink
  <2>2. GoesOn(c) /\ IsCurrent(c)' /\ call'[c].answer = Ok BY <1>3, <2>1
  <2>3. Spares(n) /\ dir'[n] = None BY <1>1, <2>1 DEF Spares, IInv, TypeInv
  <2>4. Undisturbed' /\ \A m \in Names : m # n => Seen(m)' = Seen(m)
    BY <1>1, <1>2, <2>2, <2>3, WritesOn DEF Undisturbed
  <2>5. Seen(n)' = None BY <2>3 DEF Seen
  <2>6. St' = [St EXCEPT ![n] = None] BY <2>4, <2>5, StoreSet
  <2>7. Open(c, "drop") /\ Give(c, Ok) /\ Rq[c].name = n BY <1>1, <1>2, <2>2, Asked
  <2>8. Store!Drop(c) BY <1>4, <1>5, <1>7, <2>6, <2>7, StoreSteps
  <2> QED BY <2>4, <2>8, IsStep
<1> QED BY <1>6, <1>7

\* The end of a call that only reads.
LEMMA ReaderAnswers ==
  ASSUME IInv, Undisturbed, exclusive, UNCHANGED exclusive, NEW c \in Calls, Active(c),
         NEW a \in Answers, Answer(c, a), UNCHANGED <<dir, file, torn>>
  PROVE  /\ Undisturbed' /\ UNCHANGED St
         /\ Open(c, call[c].op) /\ Give(c, a)
         /\ call[c].op # "list" => Rq[c].name = call[c].name
<1>1. Keeps(c) /\ call'[c].pc = "done" /\ call'[c].answer = a
  BY AnswerFields DEF IInv, TypeInv
<1>2. GoesOn(c) BY <1>1, KeepsGoesOn
<1>3. IsCurrent(c)' BY <1>1 DEF IsCurrent
<1> QED BY <1>1, <1>2, <1>3, ReadsOn, Asked

\* A call that only reads goes on unseen.
LEMMA ReaderGoesOn ==
  ASSUME IInv, Undisturbed, NEW c \in Calls, GoesOn(c), call'[c].answer = call[c].answer,
         IsCurrent(c)', UNCHANGED <<dir, file, torn>>
  PROVE  Undisturbed' /\ Serves
<1>1. Undisturbed' /\ UNCHANGED St BY ReadsOn
<1>2. UNCHANGED <<Rq, An>> BY Asked
<1> QED BY <1>1, <1>2 DEF Serves

\* Of a dataset that is not there, or broken, a client gets an error.
LEMMA GetServes ==
  ASSUME IInv, Undisturbed, exclusive, UNCHANGED exclusive, NEW c \in Calls, Active(c),
         NEW op \in {"get", "info"}, call[c].op = op, NEW n \in Names, call[c].name = n,
         NEW a \in Answers, a = IF Seen(n) \in Tables THEN Seen(n) ELSE Error,
         Answer(c, a), UNCHANGED <<dir, file, torn>>
  PROVE  Undisturbed' /\ Serves
<1>1. /\ Undisturbed' /\ UNCHANGED St
      /\ Open(c, op) /\ Give(c, a) /\ Rq[c].name = n
  BY ReaderAnswers
<1>2. St[n] = Seen(n) BY StoreSeen
<1>3. Give(c, IF St[Rq[c].name] \in Tables THEN St[Rq[c].name] ELSE Error)
  BY <1>1, <1>2
<1>4. Store!Get(c, op) BY <1>1, <1>3, StoreSteps
<1> QED BY <1>1, <1>4, IsStep

\* A listing is what there is, or an error if any of it is broken.
LEMMA ListServes ==
  ASSUME IInv, Undisturbed, exclusive, UNCHANGED exclusive, NEW c \in Calls, Active(c),
         call[c].op = "list", NEW a \in Answers,
         a = IF \A n \in There : Seen(n) # Garbage
             THEN {<<n, Seen(n)>> : n \in There} ELSE Error,
         Answer(c, a), UNCHANGED <<dir, file, torn>>
  PROVE  Undisturbed' /\ Serves
<1>1. Undisturbed' /\ UNCHANGED St /\ Open(c, "list") /\ Give(c, a) BY ReaderAnswers
<1>2. \A n \in Names : St[n] = Seen(n) BY StoreSeen
<1>3. \A n \in Names : Seen(n) # None <=> dir[n] # None
  <2>1. \A n \in Names : dir[n] # None => file[dir[n]].footer \in Tables \union {None}
    BY DEF IInv, TypeInv
  <2> QED BY <2>1, StorageAssumption DEF Seen
<1>4. {m \in Names : St[m] # None} = There BY <1>2, <1>3 DEF There
<1>5. (\A n \in There : St[n] # Garbage) <=> (\A n \in There : Seen(n) # Garbage)
  BY <1>2 DEF There
<1>6. {<<n, St[n]>> : n \in There} = {<<n, Seen(n)>> : n \in There} BY <1>2 DEF There
<1>7. a = IF \A n \in {m \in Names : St[m] # None} : St[n] # Garbage
          THEN {<<n, St[n]>> : n \in {m \in Names : St[m] # None}} ELSE Error
  BY <1>4, <1>5, <1>6
<1>8. Store!List(c)
  <2>1. Give(c, IF \A n \in {m \in Names : St[m] # None} : St[n] # Garbage
                THEN {<<n, St[n]>> : n \in {m \in Names : St[m] # None}} ELSE Error)
    BY <1>1, <1>7
  <2> QED BY <1>1, <2>1, StoreSteps, Zenon
<1> QED BY <1>1, <1>8, IsStep

LEMMA StatServes ==
  ASSUME IInv, Undisturbed, exclusive, UNCHANGED exclusive, NEW c \in Calls, Stat(c)
  PROVE  Undisturbed' /\ Serves
<1>1. /\ call[c].op = "info" /\ call[c].pc = "stat" /\ Active(c) /\ HasItsData(c)
      /\ UNCHANGED <<dir, file, torn>>
  BY DEF Stat, At, Active, IInv, CallInv
<1>2. PICK n \in Names : n = call[c].name BY <1>1 DEF HasItsData
<1>3. CASE dir[n] = None
  <2>1. Answer(c, Error) /\ Error \in Answers BY <1>2, <1>3 DEF Stat, Answers
  <2>2. Seen(n) \notin Tables BY <1>3, StorageAssumption DEF Seen
  <2> QED BY <1>1, <1>2, <2>1, <2>2, GetServes
<1>4. CASE dir[n] # None
  <2>1. Goto(c, "open") BY <1>2, <1>4 DEF Stat
  <2>2. Keeps(c) /\ call'[c].pc = "open" /\ call'[c].answer = call[c].answer
    BY <2>1, GotoFields DEF IInv, TypeInv, Places
  <2>3. GoesOn(c) BY <1>1, <2>2, KeepsGoesOn
  <2>4. IsCurrent(c)' BY <1>1, <2>2 DEF IsCurrent, Keeps
  <2> QED BY <1>1, <2>2, <2>3, <2>4, ReaderGoesOn
<1> QED BY <1>3, <1>4

LEMMA SelectServes ==
  ASSUME IInv, Undisturbed, exclusive, UNCHANGED exclusive, NEW c \in Calls, Select(c)
  PROVE  Undisturbed' /\ Serves
<1>1. /\ call[c].op = "list" /\ call[c].pc = "select" /\ Active(c)
      /\ UNCHANGED <<dir, file, torn>>
  BY DEF Select, At, Active
<1>2. CASE There = {}
  <2>1. Answer(c, {}) BY <1>2 DEF Select, There
  <2>2. {} \in Answers BY DEF Answers
  <2>3. {} = IF \A n \in There : Seen(n) # Garbage
             THEN {<<n, Seen(n)>> : n \in There} ELSE Error
    BY <1>2
  <2> QED BY <1>1, <2>1, <2>2, <2>3, ListServes
<1>3. CASE There # {}
  <2>1. call' = [call EXCEPT ![c].pc = "open", ![c].todo = There] BY <1>3 DEF Select, There
  <2>2. There \in SUBSET Names BY DEF There
  <2>3. /\ Keeps(c) /\ call'[c].pc = "open" /\ call'[c].answer = call[c].answer
        /\ call'[c].todo = There /\ call'[c].infos = call[c].infos
    BY <2>1, <2>2, SelectFields DEF IInv, TypeInv
  <2>4. GoesOn(c) BY <1>1, <2>3, KeepsGoesOn
  <2>5. call[c].infos = {} BY <1>1 DEF Undisturbed, IsCurrent
  <2>6. There' = There BY <1>1 DEF There
  <2>7. Lists(c)' BY <2>3, <2>5, <2>6 DEF Lists
  <2>8. IsCurrent(c)' BY <1>1, <2>3, <2>7 DEF IsCurrent, Keeps
  <2> QED BY <1>1, <2>3, <2>4, <2>8, ReaderGoesOn
<1> QED BY <1>2, <1>3

\* What a listing has yet to read is still there.
LEMMA OpenInputServes ==
  ASSUME IInv, Undisturbed, exclusive, UNCHANGED exclusive, NEW c \in Calls, OpenInput(c)
  PROVE  Undisturbed' /\ Serves
<1>1. /\ call[c].op \in {"get", "info", "list"} /\ call[c].pc = "open"
      /\ Active(c) /\ HasItsData(c) /\ UNCHANGED <<dir, file, torn>> /\ IsCurrent(c)
  BY DEF OpenInput, At, Active, IInv, CallInv, Undisturbed
<1>2. PICK n \in IF call[c].op = "list" THEN call[c].todo ELSE {call[c].name} :
        IF dir[n] = None THEN Answer(c, Error)
        ELSE call' = [call EXCEPT ![c].pc = "footer", ![c].name = n, ![c].file = dir[n]]
  BY DEF OpenInput
<1>3. call[c].op = "list" => Lists(c) /\ n \in There
  BY <1>1, <1>2 DEF IsCurrent, Lists
<1>4. n \in Names BY <1>1, <1>2, <1>3 DEF HasItsData, There
<1>5. call[c].op # "list" => n = call[c].name BY <1>2
<1>6. CASE dir[n] = None
  <2>1. call[c].op \in {"get", "info"} BY <1>1, <1>3, <1>6 DEF There
  <2>2. Answer(c, Error) /\ Error \in Answers BY <1>2, <1>6 DEF Answers
  <2>3. Seen(n) \notin Tables BY <1>6, StorageAssumption DEF Seen
  <2> QED BY <1>1, <1>4, <1>5, <2>1, <2>2, <2>3, GetServes
<1>7. CASE dir[n] # None
  <2>1. PICK f \in Files : f = dir[n] BY <1>4, <1>7 DEF IInv, TypeInv
  <2>2. call' = [call EXCEPT ![c].pc = "footer", ![c].name = n, ![c].file = f]
    BY <1>2, <1>7, <2>1
  <2>3. call \in [Calls -> CallStates] /\ "footer" \in Places
    BY DEF IInv, TypeInv, Places
  <2>4. Opens(c) /\ call'[c].pc = "footer" /\ call'[c].file = f /\ call'[c].name = n
    BY <1>4, <2>2, <2>3, OpenInputFields
  <2>5. call'[c].todo = call[c].todo /\ call'[c].infos = call[c].infos
    BY <2>2, <2>3, OpenInputKeeps
  <2>6. GoesOn(c) BY <1>1, <1>5, <2>4 DEF GoesOn, Opens
  <2>7. There' = There /\ \A m \in There : Seen(m)' = Seen(m) BY <1>1 DEF There, Seen
  <2>8. Lists(c) => Lists(c)' BY <2>5, <2>7 DEF Lists
  <2>9. IsCurrent(c)' BY <1>1, <1>3, <2>1, <2>4, <2>8 DEF IsCurrent, Opens
  <2> QED BY <1>1, <2>4, <2>6, <2>9, ReaderGoesOn DEF Opens
<1> QED BY <1>6, <1>7

LEMMA ReadFooterServes ==
  ASSUME IInv, Undisturbed, exclusive, UNCHANGED exclusive, NEW c \in Calls, ReadFooter(c)
  PROVE  Undisturbed' /\ Serves
<1>1. /\ call[c].op \in {"get", "info", "list"} /\ call[c].pc = "footer"
      /\ Active(c) /\ HasItsData(c) /\ UNCHANGED <<dir, file, torn>> /\ IsCurrent(c)
  BY DEF ReadFooter, At, Active, IInv, CallInv, Undisturbed
<1>2. PICK f \in Files, n \in Names : f = call[c].file /\ n = call[c].name /\ dir[n] = f
  BY <1>1 DEF HasItsData, IsCurrent
<1>3. PICK footer \in Tables \union {None} : footer = file[f].footer
  BY DEF IInv, TypeInv
<1>4. PICK left \in SUBSET Names : left = call[c].todo \ {n}
  BY DEF IInv, TypeInv, CallStates
<1>5. PICK infos : infos = call[c].infos \union {<<n, footer>>} OBVIOUS
<1>6. \/ footer = None /\ Answer(c, Error)
      \/ footer # None /\ call[c].op = "info" /\ Answer(c, footer)
      \/ /\ footer # None /\ call[c].op = "get"
         /\ call' = [call EXCEPT ![c].pc = "body", ![c].seen = footer]
      \/ /\ footer # None /\ call[c].op = "list" /\ left = {} /\ Answer(c, infos)
      \/ /\ footer # None /\ call[c].op = "list"
         /\ call' = [call EXCEPT ![c].pc = "open", ![c].todo = left, ![c].infos = infos]
  BY <1>1, <1>2, <1>3, <1>4, <1>5 DEF ReadFooter
<1>7. f # None /\ n \in There BY <1>2, StorageAssumption DEF Files, There
<1>8. Seen(n) = IF footer = None THEN Garbage ELSE footer BY <1>2, <1>3, <1>7 DEF Seen
<1>9. call[c].op = "list" => Lists(c) BY <1>1 DEF IsCurrent
<1>10. CASE footer = None /\ Answer(c, Error)
  <2>1. Error \in Answers /\ Seen(n) = Garbage /\ Seen(n) \notin Tables
    BY <1>8, <1>10, StorageAssumption DEF Answers
  <2>2. CASE call[c].op = "list"
    <3>1. ~\A m \in There : Seen(m) # Garbage BY <1>7, <2>1
    <3> QED BY <1>1, <1>10, <2>1, <2>2, <3>1, ListServes
  <2>3. CASE call[c].op # "list"
    <3>1. call[c].op \in {"get", "info"} BY <1>1, <2>3
    <3> QED BY <1>1, <1>2, <1>10, <2>1, <3>1, GetServes
  <2> QED BY <2>2, <2>3
<1>11. CASE footer # None /\ call[c].op = "info" /\ Answer(c, footer)
  <2>1. footer \in Answers /\ Seen(n) = footer /\ footer \in Tables
    BY <1>8, <1>11 DEF Answers
  <2> QED BY <1>1, <1>2, <1>11, <2>1, GetServes
<1>12. CASE /\ footer # None /\ call[c].op = "get"
            /\ call' = [call EXCEPT ![c].pc = "body", ![c].seen = footer]
  <2>1. footer \in Tables BY <1>12
  <2>2. /\ Keeps(c) /\ call'[c].pc = "body" /\ call'[c].seen = footer
        /\ call'[c].answer = call[c].answer
    BY <1>12, <2>1, SeenFields DEF IInv, TypeInv
  <2>3. GoesOn(c) BY <1>1, <2>2, KeepsGoesOn
  <2>4. IsCurrent(c)' BY <1>1, <1>2, <1>3, <1>12, <2>2 DEF IsCurrent, Keeps
  <2> QED BY <1>1, <2>2, <2>3, <2>4, ReaderGoesOn
<1>13. footer # None /\ call[c].op = "list" =>
         /\ There \ left = (There \ call[c].todo) \union {n} /\ left \subseteq There
         /\ infos = {<<m, Seen(m)>> : m \in There \ left}
         /\ \A m \in There \ left : Seen(m) \in Tables
  <2> SUFFICES ASSUME footer # None, call[c].op = "list"
               PROVE  /\ There \ left = (There \ call[c].todo) \union {n}
                      /\ left \subseteq There
                      /\ infos = {<<m, Seen(m)>> : m \in There \ left}
                      /\ \A m \in There \ left : Seen(m) \in Tables
    OBVIOUS
  <2>1. Lists(c) /\ Seen(n) = footer /\ footer \in Tables BY <1>3, <1>8, <1>9
  <2>2. There \ left = (There \ call[c].todo) \union {n} /\ left \subseteq There
    BY <1>4, <1>7, <2>1 DEF Lists
  <2>3. call[c].infos = {<<m, Seen(m)>> : m \in There \ call[c].todo} BY <2>1 DEF Lists
  <2>4. infos = {<<m, Seen(m)>> : m \in There \ left} BY <1>5, <2>1, <2>2, <2>3
  <2> QED BY <2>1, <2>2, <2>4 DEF Lists
<1>14. call[c].infos \in SUBSET (Names \X Tables) BY DEF IInv, TypeInv, CallStates
<1>15. footer # None => infos \in SUBSET (Names \X Tables) BY <1>3, <1>5, <1>14
<1>16. CASE footer # None /\ call[c].op = "list" /\ left = {} /\ Answer(c, infos)
  <2>1. infos \in Answers BY <1>15, <1>16 DEF Answers
  <2>2. There \ left = There BY <1>16
  <2>3. infos = {<<m, Seen(m)>> : m \in There} /\ \A m \in There : Seen(m) \in Tables
    BY <1>13, <1>16, <2>2
  <2>4. \A m \in There : Seen(m) # Garbage BY <2>3, StorageAssumption
  <2> QED BY <1>1, <1>16, <2>1, <2>3, <2>4, ListServes
<1>17. CASE /\ footer # None /\ call[c].op = "list"
            /\ call' = [call EXCEPT ![c].pc = "open", ![c].todo = left, ![c].infos = infos]
  <2>1. /\ Keeps(c) /\ call'[c].pc = "open" /\ call'[c].answer = call[c].answer
        /\ call'[c].todo = left /\ call'[c].infos = infos
    BY <1>15, <1>17, NextFileFields DEF IInv, TypeInv, Places
  <2>2. GoesOn(c) BY <1>1, <2>1, KeepsGoesOn
  <2>3. There' = There /\ \A m \in There : Seen(m)' = Seen(m) BY <1>1 DEF There, Seen
  <2>4. Lists(c)' BY <1>13, <1>17, <2>1, <2>3 DEF Lists
  <2>5. IsCurrent(c)' BY <1>17, <2>1, <2>4 DEF IsCurrent, Keeps
  <2> QED BY <1>1, <2>1, <2>2, <2>5, ReaderGoesOn
<1> QED BY <1>6, <1>10, <1>11, <1>12, <1>16, <1>17

\* The columns are those the footer promised.
LEMMA ReadBodyServes ==
  ASSUME IInv, Undisturbed, exclusive, UNCHANGED exclusive, NEW c \in Calls, ReadBody(c)
  PROVE  Undisturbed' /\ Serves
<1>1. /\ call[c].op = "get" /\ call[c].pc = "body"
      /\ Active(c) /\ HasItsData(c) /\ UNCHANGED <<dir, file, torn>> /\ IsCurrent(c)
  BY DEF ReadBody, At, Active, IInv, CallInv, Undisturbed
<1>2. PICK f \in Files, n \in Names, t \in Tables :
        /\ f = call[c].file /\ n = call[c].name /\ t = call[c].seen
        /\ dir[n] = f /\ file[f].footer = t
  BY <1>1 DEF HasItsData, IsCurrent
<1>3. f # None /\ t # None BY StorageAssumption DEF Files
<1>4. file[f].body = {t} BY <1>2, <1>3 DEF IInv, WriterInv, Consistent, Undisturbed
<1>5. Answer(c, t) BY <1>2, <1>4 DEF ReadBody
<1>6. Seen(n) = t BY <1>2, <1>3 DEF Seen
<1>7. t \in Answers BY DEF Answers
<1> QED BY <1>1, <1>2, <1>5, <1>6, <1>7, GetServes

LEMMA StoreStep == StoreInv /\ [Next]_vars => StoreInv' /\ [Store!Next]_(Store!vars)
<1> SUFFICES ASSUME StoreInv, [Next]_vars
             PROVE  StoreInv' /\ (UNCHANGED <<St, Rq, An>> \/ Store!Next)
  BY StoreSteps
<1>1. IInv /\ IInv' BY IInvStep DEF StoreInv
<1>2. CASE UNCHANGED vars
  <2>1. UNCHANGED <<exclusive, dir, file, call, torn>> BY <1>2 DEF vars, serviceVars
  <2>2. UNCHANGED <<St, Rq, An>> BY <2>1 DEF St, Rq, An
  <2>3. Undisturbed => Undisturbed'
    BY <2>1 DEF Undisturbed, Apart, Active, IsCurrent, Lists, There, Seen
  <2> QED BY <1>1, <2>1, <2>2, <2>3 DEF StoreInv
<1>3. CASE ~exclusive /\ Next
  <2>1. ~exclusive' BY <1>3 DEF Next
  <2>2. UNCHANGED <<St, Rq, An>> BY <1>3, <2>1 DEF St, Rq, An
  <2> QED BY <1>1, <2>1, <2>2 DEF StoreInv
<1>4. CASE exclusive /\ Next
  <2>1. exclusive' = exclusive /\ exclusive /\ Undisturbed BY <1>4 DEF Next, StoreInv
  <2>2. PICK c \in Calls :
          Step(c) \/ \E op \in Ops, n \in Names, t \in Tables : Call(c, op, n, t)
    BY <1>4 DEF Next
  <2>3. ASSUME NEW op \in Ops, NEW n \in Names, NEW t \in Tables, Call(c, op, n, t)
        PROVE  Undisturbed' /\ Serves
    BY <1>1, <2>1, <2>3, CallServes
  <2>4. ASSUME Step(c) PROVE Undisturbed' /\ Serves
    BY <1>1, <2>1, <2>4, OpenOutputServes, ToTableServes, PutFailsServes, WriteBodyServes,
       WriteFooterServes, StatServes, SelectServes, OpenInputServes, ReadFooterServes,
       ReadBodyServes, UnlinkServes
       DEF Step
  <2>5. Undisturbed' /\ Serves BY <2>2, <2>3, <2>4
  <2> QED BY <1>1, <2>1, <2>5 DEF StoreInv, Serves
<1> QED BY <1>2, <1>3, <1>4

\* flight.cc, the safety part of StoreRefinement: whatever of the calls of DoPut, DoGet,
\* GetFlightInfo, ListFlights and DoAction overlap, to clients that keep uploads and drops
\* of a dataset apart from its other calls each takes effect at one moment.
THEOREM ServiceImplementsStore == Spec => Store!Init /\ [][Store!Next]_(Store!vars)
<1>1. Init => Store!Init /\ StoreInv
  <2> SUFFICES ASSUME Init PROVE Store!Init /\ StoreInv OBVIOUS
  <2>1. \A c \in Calls : /\ call[c].pc = "idle" /\ call[c].op = None
                         /\ call[c].infos = {} /\ call[c].answer = None
    BY DEF Init
  <2>2. Store!Init BY <2>1 DEF Init, Store!Init
  <2>3. Undisturbed
    BY <2>1, StorageAssumption DEF Init, Undisturbed, Apart, Active, IsCurrent, Ops
  <2> QED BY <2>2, <2>3, InitIInv DEF StoreInv
<1> QED BY <1>1, StoreStep, PTL DEF Spec
=============================================================================
