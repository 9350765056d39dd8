---------------------------- MODULE FlightStorage ----------------------------
(***************************************************************************)
(* arrow/cookbook/flight.cc, ParquetStorageService: datasets kept as       *)
(* parquet files in one directory. Flight executes each RPC on a thread of *)
(* its own and the service has no lock, so every call of the file system   *)
(* is a step. A file (an inode) lives on while somebody has it open.       *)
(*                                                                         *)
(* Of a file's contents the model keeps which tables its column data and   *)
(* its footer come from. Parquet writes the footer last and reads it       *)
(* first; two uploads to one file overwrite each other, in whole or in     *)
(* part, and the end of the longer one remains (external).                 *)
(***************************************************************************)
EXTENDS FiniteSets, Naturals

CONSTANTS
  Names,      \* the names of datasets
  Tables,     \* the tables clients upload
  MaxCalls,   \* bound: RPCs, numbered as they are issued; each creates at most one file
  None,
  Ok, Error, Garbage  \* answers, besides tables and listings

Ops == {"put", "get", "info", "list", "drop"}

ASSUME StorageAssumption ==
  /\ MaxCalls \in Nat
  /\ None \notin Ops /\ None \notin Names /\ None \notin 1 .. MaxCalls
  /\ None \notin Tables \union {Ok, Error, Garbage}
  /\ Ok # Error /\ Ok # Garbage /\ Error # Garbage
  /\ {Ok, Error, Garbage} \intersect Tables = {}
  /\ None \notin [op : Ops, name : Names \union {None}, table : Tables \union {None}]
  /\ \A infos \in SUBSET (Names \X Tables) : infos \notin {None, Ok, Error, Garbage}

Calls == 1 .. MaxCalls
Files == 1 .. MaxCalls

VARIABLES
  exclusive, \* whether clients keep uploads and drops apart from other calls
  dir,     \* the file of each dataset
  file,    \* the contents of each file
  call,    \* the state of each RPC
  torn,    \* history: files that two uploads wrote at the same time
  mixed,   \* history: reads of a file that was torn or written meanwhile
  settled  \* history: the table of the last upload nothing interfered with

serviceVars == <<dir, file, call, torn, mixed, settled>>
vars == <<exclusive, serviceVars>>

Empty == [body |-> {}, footer |-> None]

TypeOK ==
  /\ exclusive \in BOOLEAN
  /\ dir \in [Names -> Files \union {None}]
  /\ file \in [Files -> [body : SUBSET Tables, footer : Tables \union {None}]]
  /\ \A c \in Calls :
       /\ call[c].pc \in {"idle", "stat", "select", "open", "receive", "body", "footer",
                          "unlink", "done"}
       /\ call[c].op \in Ops \union {None}
       /\ call[c].name \in Names \union {None}
       /\ {call[c].table, call[c].seen} \subseteq Tables \union {None}
       /\ call[c].file \in Files \union {None}
       /\ call[c].todo \subseteq Names
       /\ call[c].infos \subseteq Names \X Tables
       /\ call[c].answer # None <=> call[c].pc = "done"
  /\ torn \in SUBSET Files
  /\ mixed \in SUBSET Calls
  /\ settled \in [Names -> Tables \union {None}]

Init ==
  /\ exclusive \in BOOLEAN
  /\ dir = [n \in Names |-> None]
  /\ file = [f \in Files |-> Empty]
  /\ call = [c \in Calls |-> [pc |-> "idle", op |-> None, name |-> None, table |-> None,
                              file |-> None, seen |-> None, todo |-> {},
                              infos |-> {}, answer |-> None]]
  /\ torn = {}
  /\ mixed = {}
  /\ settled = [n \in Names |-> None]

-----------------------------------------------------------------------------
Active(c) == call[c].pc \notin {"idle", "done"}
Writes(c, f) == Active(c) /\ call[c].op = "put" /\ call[c].file = f
Reads(c, f) == Active(c) /\ call[c].op = "get" /\ call[c].file = f

At(c, ops, pc) == call[c].op \in ops /\ call[c].pc = pc
Goto(c, pc) == call' = [call EXCEPT ![c].pc = pc]
Answer(c, a) == call' = [call EXCEPT ![c].pc = "done", ![c].answer = a]

\* An upload or a drop, and a call it can disturb.
Conflict(op, n, c) ==
  /\ Active(c)
  /\ {op, call[c].op} \intersect {"put", "drop"} # {}
  /\ "list" \in {op, call[c].op} \/ call[c].name = n

First == [put |-> "open", get |-> "open", info |-> "stat", list |-> "select",
          drop |-> "unlink"]

\* A client issues the next RPC.
Call(c, op, n, t) ==
  /\ call[c].pc = "idle"
  /\ \A d \in 1 .. c - 1 : call[d].pc # "idle"
  /\ exclusive => \A d \in Calls : ~Conflict(op, n, d)
  /\ call' = [call EXCEPT ![c].pc = First[op], ![c].op = op,
                          ![c].name = IF op = "list" THEN None ELSE n,
                          ![c].table = IF op = "put" THEN t ELSE None]
  /\ UNCHANGED <<dir, file, torn, mixed, settled>>

-----------------------------------------------------------------------------
(* DoPut. The descriptor is resolved with a GetFileInfo whose result only  *)
(* matters for its path.                                                   *)

\* The next file to be created.
Fresh == Cardinality({call[d].file : d \in {c \in Calls : call[c].op = "put"}} \ {None}) + 1

\* The contents of f become v: whoever is reading f is disturbed.
Overwrite(f, v) ==
  /\ file' = [file EXCEPT ![f] = v]
  /\ mixed' = mixed \union {d \in Calls : Reads(d, f)}

\* A variant with a bug: an existing file is not truncated.
OpenOutputAppending(c) ==
  /\ At(c, {"put"}, "open")
  /\ LET n == call[c].name
         f == IF dir[n] # None THEN dir[n] ELSE Fresh
     IN /\ dir' = [dir EXCEPT ![n] = f]
        /\ Overwrite(f, file[f])
        /\ torn' = IF \E d \in Calls : Writes(d, f) THEN torn \union {f} ELSE torn \ {f}
        /\ call' = [call EXCEPT ![c].pc = "receive", ![c].file = f]
        /\ settled' = [settled EXCEPT ![n] = None]

\* OpenOutputStream creates the file, or truncates the one there is, also while
\* others read or write it.
OpenOutput(c) ==
  /\ At(c, {"put"}, "open")
  /\ LET n == call[c].name
         f == IF dir[n] # None THEN dir[n] ELSE Fresh
     IN /\ dir' = [dir EXCEPT ![n] = f]
        /\ Overwrite(f, Empty)
        /\ torn' = IF \E d \in Calls : Writes(d, f) THEN torn \union {f} ELSE torn \ {f}
        /\ call' = [call EXCEPT ![c].pc = "receive", ![c].file = f]
        /\ settled' = [settled EXCEPT ![n] = None]

\* reader->ToTable(): the client has sent everything. The thread waits for it as
\* long as it takes.
ToTable(c) ==
  /\ At(c, {"put"}, "receive")
  /\ Goto(c, "body")
  /\ UNCHANGED <<dir, file, torn, mixed, settled>>

\* A call of DoPut returns an error, for one because the client breaks off: the file
\* stays as it is. An error of closing it is seen by nobody (the sink is dropped).
PutFails(c) ==
  /\ call[c].op = "put" /\ call[c].pc \in {"open", "receive", "body", "footer"}
  /\ Answer(c, Error)
  /\ UNCHANGED <<dir, file, torn, mixed, settled>>

WriteBody(c) ==
  /\ At(c, {"put"}, "body")
  /\ LET f == call[c].file
         t == call[c].table
     IN \E body \in {{t}, file[f].body \union {t}} :
          Overwrite(f, [file[f] EXCEPT !.body = body])
  /\ Goto(c, "footer")
  /\ UNCHANGED <<dir, torn, settled>>

\* A variant with a bug: success is reported without closing the parquet writer.
WriteFooterForgotten(c) ==
  /\ At(c, {"put"}, "footer")
  /\ LET f == call[c].file
     IN settled' = IF dir[call[c].name] = f /\ f \notin torn
                   THEN [settled EXCEPT ![call[c].name] = call[c].table]
                   ELSE settled
  /\ Answer(c, Ok)
  /\ UNCHANGED <<dir, file, torn, mixed>>

\* The end of WriteTable.
WriteFooter(c) ==
  /\ At(c, {"put"}, "footer")
  /\ LET f == call[c].file
         t == call[c].table
     IN /\ \E footer \in {t, file[f].footer} \ {None} :
             Overwrite(f, [file[f] EXCEPT !.footer = footer])
        /\ settled' = IF dir[call[c].name] = f /\ f \notin torn
                      THEN [settled EXCEPT ![call[c].name] = t]
                      ELSE settled
  /\ Answer(c, Ok)
  /\ UNCHANGED <<dir, torn>>

-----------------------------------------------------------------------------
(* DoGet, GetFlightInfo, ListFlights, DoAction.                            *)

\* FileInfoFromDescriptor: a missing file is found out here or when it is opened.
Stat(c) ==
  /\ At(c, {"info"}, "stat")
  /\ IF dir[call[c].name] = None THEN Answer(c, Error) ELSE Goto(c, "open")
  /\ UNCHANGED <<dir, file, torn, mixed, settled>>

\* The selector lists the files there are at this moment.
Select(c) ==
  /\ At(c, {"list"}, "select")
  /\ LET there == {n \in Names : dir[n] # None}
     IN IF there = {}
        THEN Answer(c, {})
        ELSE call' = [call EXCEPT ![c].pc = "open", ![c].todo = there]
  /\ UNCHANGED <<dir, file, torn, mixed, settled>>

\* OpenInputFile, of the next file of a listing or of the one asked for.
OpenInput(c) ==
  /\ At(c, {"get", "info", "list"}, "open")
  /\ \E n \in IF call[c].op = "list" THEN call[c].todo ELSE {call[c].name} :
       IF dir[n] = None
       THEN Answer(c, Error) /\ UNCHANGED mixed
       ELSE /\ call' = [call EXCEPT ![c].pc = "footer", ![c].name = n,
                                    ![c].file = dir[n]]
            /\ mixed' = IF dir[n] \in torn THEN mixed \union {c} ELSE mixed
  /\ UNCHANGED <<dir, file, torn, settled>>

\* A variant with a bug: broken files are left out of a listing.
ReadFooterSkipping(c) ==
  /\ At(c, {"get", "info", "list"}, "footer")
  /\ LET footer == file[call[c].file].footer
         left == call[c].todo \ {call[c].name}
         infos == call[c].infos \union
                    IF footer = None THEN {} ELSE {<<call[c].name, footer>>}
     IN CASE call[c].op = "list" ->
               IF left = {}
               THEN Answer(c, infos)
               ELSE call' = [call EXCEPT ![c].pc = "open", ![c].todo = left,
                                         ![c].infos = infos]
          [] call[c].op # "list" /\ footer = None -> Answer(c, Error)
          [] call[c].op = "info" /\ footer # None -> Answer(c, footer)
          [] call[c].op = "get" /\ footer # None ->
               call' = [call EXCEPT ![c].pc = "body", ![c].seen = footer]
  /\ UNCHANGED <<dir, file, torn, mixed, settled>>

\* parquet::arrow::OpenFile reads the footer; a file without one fails the call,
\* also a listing of many other files (MakeFlightInfo).
ReadFooter(c) ==
  /\ At(c, {"get", "info", "list"}, "footer")
  /\ LET footer == file[call[c].file].footer
         left == call[c].todo \ {call[c].name}
         infos == call[c].infos \union {<<call[c].name, footer>>}
     IN CASE footer = None -> Answer(c, Error)
          [] footer # None /\ call[c].op = "info" -> Answer(c, footer)
          [] footer # None /\ call[c].op = "get" ->
               call' = [call EXCEPT ![c].pc = "body", ![c].seen = footer]
          [] footer # None /\ call[c].op = "list" ->
               IF left = {}
               THEN Answer(c, infos)
               ELSE call' = [call EXCEPT ![c].pc = "open", ![c].todo = left,
                                         ![c].infos = infos]
  /\ UNCHANGED <<dir, file, torn, mixed, settled>>

\* ReadTable reads the columns where the footer said they are. What it finds there
\* of another table may or may not be noticed; a file that ends too early is.
ReadBody(c) ==
  /\ At(c, {"get"}, "body")
  /\ LET body == file[call[c].file].body
         t == call[c].seen
     IN \E a \in CASE body = {t} -> {t}
                   [] body = {} -> {Error}
                   [] OTHER -> {Error, Garbage} : Answer(c, a)
  /\ UNCHANGED <<dir, file, torn, mixed, settled>>

\* DoActionDropDataset: DeleteFile.
Unlink(c) ==
  /\ At(c, {"drop"}, "unlink")
  /\ LET n == call[c].name
     IN IF dir[n] = None
        THEN Answer(c, Error) /\ UNCHANGED <<dir, settled>>
        ELSE /\ Answer(c, Ok)
             /\ dir' = [dir EXCEPT ![n] = None]
             /\ settled' = [settled EXCEPT ![n] = None]
  /\ UNCHANGED <<file, torn, mixed>>

-----------------------------------------------------------------------------
Step(c) ==
  \/ OpenOutput(c) \/ ToTable(c) \/ PutFails(c) \/ WriteBody(c) \/ WriteFooter(c)
  \/ Stat(c) \/ Select(c) \/ OpenInput(c) \/ ReadFooter(c) \/ ReadBody(c)
  \/ Unlink(c)

Next ==
  /\ UNCHANGED exclusive
  /\ \E c \in Calls :
       Step(c) \/ \E op \in Ops, n \in Names, t \in Tables : Call(c, op, n, t)

\* Threads run. ToTable has no deadline: it ends when the client has sent everything
\* or breaks off, and a client need do neither.
Spec ==
  /\ Init /\ [][Next]_vars
  /\ \A c \in Calls : WF_serviceVars(call[c].pc # "receive" /\ Step(c))

-----------------------------------------------------------------------------
(* Properties.                                                             *)

\* A download returns a whole table or an error, unless the very file it reads was
\* written during the download or by two uploads at once.
WholeUnlessMixed ==
  \A c \in Calls : call[c].answer = Garbage => c \in mixed

\* An acknowledged upload that no other upload of the same file overlapped is
\* stored whole and stays so until the next upload or drop of the dataset.
AcknowledgedIsStored ==
  \A n \in Names :
    settled[n] # None =>
      dir[n] # None /\ file[dir[n]] = [body |-> {settled[n]}, footer |-> settled[n]]

\* For clients that keep out of each other's way every call is atomic, and every one
\* but an upload, which waits for its client, is answered. Nothing is claimed of others.
Store == INSTANCE DatasetStore WITH
  Names <- Names, Tables <- Tables, Calls <- Calls, None <- None,
  Broken <- Garbage, Ok <- Ok, Error <- Error,
  store <- [n \in Names |-> IF ~exclusive \/ dir[n] = None THEN None
                            ELSE IF file[dir[n]].footer = None THEN Garbage
                            ELSE file[dir[n]].footer],
  request <- [c \in Calls |-> IF ~exclusive \/ call[c].pc = "idle" THEN None
                              ELSE [op |-> call[c].op,
                                    name |-> IF call[c].op = "list" THEN None
                                             ELSE call[c].name,
                                    table |-> call[c].table]],
  answer <- [c \in Calls |-> IF exclusive THEN call[c].answer ELSE None]
StoreRefinement == Store!Spec
=============================================================================
