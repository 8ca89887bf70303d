------------------------ MODULE DataFileSystemProofs ------------------------
(***************************************************************************)
(* For any number of threads and paths, any configuration and any number   *)
(* of versions: what a filesystem hands out is whole, current and closed   *)
(* when nobody holds it, and what it remembers is true.                    *)
(***************************************************************************)
EXTENDS DataFileSystem, TLAPS

Labels == {"idle", "lookup", "open", "provided", "requested", "provenance", "provenance2",
           "source", "encode", "size", "return"}

SchemaOrNone == NoSchema .. MaxVersion

FilesOrNone == [path : Paths \union {SourcePath}, source : 0 .. MaxVersion,
                provided : SchemaOrNone, requested : SchemaOrNone]

Jobs == [op : {"open", "info"}, path : Paths \union {SourcePath},
         provided : SchemaOrNone, requested : SchemaOrNone,
         file : FilesOrNone, spool : {"none", "open", "closed"}]

(* The variables of the threads are functions of the threads.              *)
ThreadVariables ==
  /\ pc \in [Threads -> Labels]
  /\ job \in [Threads -> Jobs]
  /\ result \in [Threads -> {"none", "ok", "raised"}]
  /\ began \in [Threads -> [source : Versions, latest : Versions]]
  /\ provenance \in [provided : SchemaOrNone, requested : SchemaOrNone]

\* Where a conversion has its requested schema, and where it has its file.
Resolved(t) == pc[t] \in {"provenance", "provenance2", "source"}
Made(t)     == pc[t] \in {"encode", "size", "return"}

(* A spool is open from OpenSpool on, so never where info() looks a size up. *)
SpoolInv(t) ==
  /\ pc[t] = "lookup" => job[t].op = "info" /\ job[t].spool = "none"
  /\ pc[t] = "idle" /\ job[t].spool = "open" => job[t].op = "open" /\ result[t] = "ok"

(* A conversion has what it has since its call began.                      *)
CurrentInv(t) ==
  /\ began[t].source <= source /\ began[t].latest <= latest
  /\ pc[t] # "idle" => job[t].path \in Paths
  /\ Resolved(t) /\ config.requested = "latest" =>
       job[t].requested \in began[t].latest .. latest
  /\ Made(t) \/ (result[t] = "ok" /\ job[t].op = "open") =>
       /\ job[t].file.path = job[t].path
       /\ job[t].file.source \in began[t].source .. source
       /\ config.requested = "latest" => job[t].file.requested \in began[t].latest .. latest

(* What is noted of a file is noted once it is whole.                      *)
WholeInv(t) ==
  /\ Made(t) => job[t].file \in Files
  /\ pc[t] \in {"size", "return"} => job[t].file \in completed

(* A conversion that opened its spool is alone, unless they have overlapped: *)
(* so what it set of the provenance stays.                                 *)
Active(t) == pc[t] \notin {"idle", "lookup", "open"}

AloneInv(t) ==
  /\ \A u \in Threads \ {t} : Active(t) => ~Active(u)
  /\ pc[t] = "provenance2" => provenance.provided = job[t].provided
  /\ pc[t] \in {"source", "encode", "size", "return"} =>
       provenance = [provided |-> job[t].provided, requested |-> job[t].requested]

(* While the world is as it was, a path has one file.                      *)
Unchanged == source = 1 /\ latest = 1

TheProvided  == Resolve(config.provided)
TheRequested == Resolve(config.requested)
TheDecoded   == IF config.embedded THEN 1 ELSE TheProvided

TheFile(path) ==
  [path |-> path, source |-> 1, provided |-> TheDecoded,
   requested |-> IF TheRequested \in {NoSchema, EmptySchema} THEN TheDecoded ELSE TheRequested]

OneFileInv(t) ==
  /\ pc[t] \in {"requested", "provenance", "provenance2", "source"} =>
       job[t].provided = TheProvided
  /\ Resolved(t) => job[t].requested = TheRequested
  /\ Made(t) \/ result[t] = "ok" => job[t].file = TheFile(job[t].path)

IInv ==
  /\ TypeOK
  /\ ThreadVariables
  /\ SizesAreOfWholeFiles
  /\ source = 1 => sourceSchema = 1
  /\ Unchanged => \A file \in completed : file = TheFile(file.path)
  /\ \A t \in Threads :
       /\ SpoolInv(t) /\ CurrentInv(t) /\ WholeInv(t)
       /\ ~overlapped => AloneInv(t)
       /\ Unchanged => OneFileInv(t)

-----------------------------------------------------------------------------
(* Versions and schemas are numbers in their bounds.                       *)
LEMMA Numbers ==
  /\ MaxVersion \in Nat /\ MaxVersion >= 1
  /\ Versions \subseteq Schemas /\ Schemas \subseteq SchemaOrNone
  /\ NoSchema \in SchemaOrNone /\ 1 \in Versions /\ 0 \in 0 .. MaxVersion
  /\ SchemaOrNone = Schemas \union {NoSchema}
  BY FileSystemAssumption DEF Versions, Schemas, SchemaOrNone, NoSchema, EmptySchema

(* A thread that has made no call has an empty job.                        *)
LEMMA NoJobType ==
  /\ NoJob \in Jobs /\ NoFile \in FilesOrNone
  BY Numbers DEF NoJob, Jobs, NoFile, FilesOrNone

(* A whole file is a file.                                                 *)
LEMMA FilesType == Files \subseteq FilesOrNone
  BY Numbers DEF Files, FilesOrNone, Versions

(* Nothing has been called, converted or noted.                            *)
LEMMA InitIInv == Init => IInv
<1> SUFFICES ASSUME Init PROVE IInv
  OBVIOUS
<1>1. ThreadVariables
  <2>1. pc \in [Threads -> Labels] /\ result \in [Threads -> {"none", "ok", "raised"}]
    BY DEF Init, Labels
  <2>2. job \in [Threads -> Jobs]
    BY NoJobType DEF Init
  <2>3. began \in [Threads -> [source : Versions, latest : Versions]]
    BY Numbers DEF Init
  <2>4. provenance \in [provided : SchemaOrNone, requested : SchemaOrNone]
    BY Numbers DEF Init
  <2> QED
    BY <2>1, <2>2, <2>3, <2>4 DEF ThreadVariables
<1>2. TypeOK
  BY Numbers, FileSystemAssumption DEF Init, TypeOK
<1>3. SizesAreOfWholeFiles
  BY DEF Init, SizesAreOfWholeFiles
<1>4. ASSUME NEW t \in Threads
      PROVE  SpoolInv(t) /\ CurrentInv(t) /\ WholeInv(t) /\ AloneInv(t) /\ OneFileInv(t)
  BY DEF Init, SpoolInv, CurrentInv, WholeInv, AloneInv, OneFileInv, NoJob, Active, Made, Resolved
<1> QED
  BY <1>1, <1>2, <1>3, <1>4 DEF IInv, Init

-----------------------------------------------------------------------------
\* What the invariant says of the object.
ObjectInv ==
  /\ DOMAIN sizes \subseteq Paths /\ \A p \in DOMAIN sizes : sizes[p] \in Files
  /\ completed \subseteq Files /\ calls \in 0 .. MaxCalls
  /\ SizesAreOfWholeFiles
  /\ Unchanged => \A file \in completed : file = TheFile(file.path)

(* A path's one file is the same after a step that leaves the world alone. *)
LEMMA SameFile ==
  ASSUME UNCHANGED <<world, config>>
  PROVE  /\ Unchanged' = Unchanged /\ Files' = Files
         /\ TheProvided' = TheProvided /\ TheRequested' = TheRequested
         /\ \A path : TheFile(path)' = TheFile(path)
<1>1. source' = source /\ latest' = latest /\ config' = config
  BY DEF world
<1>2. TheProvided' = TheProvided /\ TheRequested' = TheRequested
  BY <1>1 DEF TheProvided, TheRequested, Resolve
<1>3. TheDecoded' = TheDecoded
  BY <1>1, <1>2 DEF TheDecoded
<1> QED
  BY <1>1, <1>2, <1>3 DEF Unchanged, TheFile, Files, Versions, Schemas

(* A step that leaves the object's sizes and files alone.                  *)
LEMMA SameObject ==
  ASSUME IInv, UNCHANGED <<world, config, sizes, calls, completed>>
  PROVE  ObjectInv'
<1>1. SizesAreOfWholeFiles'
  BY DEF IInv, SizesAreOfWholeFiles
<1>2. Unchanged' => \A file \in completed' : file = TheFile(file.path)'
  BY SameFile DEF IInv
<1>3. Files' = Files
  BY SameFile
<1> QED
  BY <1>1, <1>2, <1>3 DEF IInv, TypeOK, ObjectInv

(* What a thread that stands still knows stays true as files are made.     *)
LEMMA Others ==
  ASSUME IInv, UNCHANGED <<world, config>>, completed \subseteq completed',
         NEW u \in Threads,
         pc'[u] = pc[u], job'[u] = job[u], result'[u] = result[u], began'[u] = began[u]
  PROVE  SpoolInv(u)' /\ CurrentInv(u)' /\ WholeInv(u)' /\ (Unchanged' => OneFileInv(u)')
<1>1. SpoolInv(u) /\ CurrentInv(u) /\ WholeInv(u) /\ (Unchanged => OneFileInv(u))
  BY DEF IInv
<1>2. SpoolInv(u)' /\ CurrentInv(u)' /\ WholeInv(u)'
  BY <1>1 DEF SpoolInv, CurrentInv, WholeInv, Made, Resolved, Files, world, Versions, Schemas
<1>3. Unchanged' => OneFileInv(u)'
  BY <1>1, SameFile DEF OneFileInv, Made, Resolved
<1> QED
  BY <1>2, <1>3

(* What a step of one thread has to show, as the others stand still.       *)
LEMMA ThreadStep ==
  ASSUME IInv, UNCHANGED <<world, config>>, ThreadVariables', ObjectInv',
         completed \subseteq completed', NEW t \in Threads,
         \A u \in Threads \ {t} : /\ pc'[u] = pc[u] /\ job'[u] = job[u]
                                  /\ result'[u] = result[u] /\ began'[u] = began[u],
         pc'[t] # "idle" => result'[t] = "none",
         SpoolInv(t)', CurrentInv(t)', WholeInv(t)', Unchanged' => OneFileInv(t)',
         ~overlapped' => \A u \in Threads : AloneInv(u)'
  PROVE  IInv'
<1>1. \A u \in Threads \ {t} :
        SpoolInv(u)' /\ CurrentInv(u)' /\ WholeInv(u)' /\ (Unchanged' => OneFileInv(u)')
  BY Others
<1>2. \A u \in Threads : SpoolInv(u)' /\ CurrentInv(u)' /\ WholeInv(u)' /\ (Unchanged' => OneFileInv(u)')
  BY <1>1
<1>3. \A u \in Threads : pc'[u] # "idle" => result'[u] = "none"
  BY DEF IInv, TypeOK
<1>4. TypeOK'
  <2>1. /\ source' \in Versions' /\ sourceSchema' \in Versions' /\ latest' \in Versions'
        /\ config' \in Configs'
    BY DEF IInv, TypeOK, world, Versions, Configs
  <2>2. /\ provenance'.provided \in Schemas' \union {NoSchema'}
        /\ provenance'.requested \in Schemas' \union {NoSchema'}
    BY Numbers DEF ThreadVariables, SchemaOrNone, Schemas
  <2>3. \A u \in Threads : pc'[u] \in {"encode", "size", "return"} => job'[u].file \in Files'
    BY <1>2 DEF WholeInv, Made
  <2>4. \A u \in Threads : result'[u] \in {"none", "ok", "raised"}
    BY DEF ThreadVariables
  <2> QED
    BY <1>3, <2>1, <2>2, <2>3, <2>4 DEF TypeOK, ObjectInv
<1> QED
  BY <1>2, <1>4 DEF IInv, ObjectInv, world

(* A step that leaves the provenance alone and opens no spool leaves those *)
(* who are alone alone.                                                    *)
LEMMA AloneStays ==
  ASSUME IInv, NEW t \in Threads, UNCHANGED <<overlapped, provenance>>,
         \A u \in Threads \ {t} : pc'[u] = pc[u] /\ job'[u] = job[u],
         Active(t)' => Active(t),
         pc'[t] \notin {"provenance2", "source"},
         pc'[t] \in {"encode", "size", "return"} =>
           /\ pc[t] \in {"source", "encode", "size", "return"}
           /\ job'[t].provided = job[t].provided /\ job'[t].requested = job[t].requested
  PROVE  ~overlapped' => \A u \in Threads : AloneInv(u)'
<1> SUFFICES ASSUME ~overlapped, NEW u \in Threads PROVE AloneInv(u)'
  OBVIOUS
<1>1. \A v \in Threads : AloneInv(v)
  BY DEF IInv
<1>2. \A v \in Threads \ {u} : Active(u)' => ~Active(v)'
  BY <1>1 DEF AloneInv, Active
<1>3. /\ pc'[u] = "provenance2" => provenance'.provided = job'[u].provided
      /\ pc'[u] \in {"source", "encode", "size", "return"} =>
           provenance' = [provided |-> job'[u].provided, requested |-> job'[u].requested]
  BY <1>1 DEF AloneInv, Active
<1> QED
  BY <1>2, <1>3 DEF AloneInv

-----------------------------------------------------------------------------
(* The source is replaced: files that were made of it grow old.            *)
LEMMA ReplaceSourceIInv ==
  ASSUME IInv, ReplaceSource
  PROVE  IInv'
<1>1. /\ source \in Versions /\ source < MaxVersion /\ source' = source + 1
      /\ source' \in Versions /\ source' # 1 /\ ~Unchanged'
  BY Numbers DEF IInv, TypeOK, ReplaceSource, Versions, Unchanged
<1>2. TypeOK'
  BY <1>1 DEF IInv, TypeOK, ReplaceSource, history, Versions, Configs, Schemas, NoSchema, Files
<1>3. ThreadVariables'
  BY DEF IInv, ThreadVariables, ReplaceSource, history, Jobs, FilesOrNone, SchemaOrNone, Versions
<1>4. SizesAreOfWholeFiles'
  BY DEF IInv, SizesAreOfWholeFiles, ReplaceSource, history
<1>5. ASSUME NEW t \in Threads
      PROVE  SpoolInv(t)' /\ CurrentInv(t)' /\ WholeInv(t)' /\ (~overlapped' => AloneInv(t)')
  <2>1. SpoolInv(t) /\ CurrentInv(t) /\ WholeInv(t) /\ (~overlapped => AloneInv(t))
    BY DEF IInv
  <2>2. SpoolInv(t)' /\ WholeInv(t)' /\ (~overlapped' => AloneInv(t)')
    BY <2>1 DEF ReplaceSource, history, SpoolInv, WholeInv, AloneInv, Active, Made, Files,
                Versions, Schemas
  <2>3. began[t].source \in Nat /\ source \in Nat
    BY DEF IInv, TypeOK, ThreadVariables, Versions
  <2>4. began[t].source <= source' /\ began[t].source .. source \subseteq began[t].source .. source'
    BY <1>1, <2>1, <2>3 DEF CurrentInv
  <2>5. CurrentInv(t)'
    BY <2>1, <2>4 DEF ReplaceSource, history, CurrentInv, Made, Resolved
  <2> QED
    BY <2>2, <2>5
<1> QED
  BY <1>1, <1>2, <1>3, <1>4, <1>5 DEF IInv

(* A new version of the schema appears.                                    *)
LEMMA RegisterSchemaIInv ==
  ASSUME IInv, RegisterSchema
  PROVE  IInv'
<1>1. /\ latest \in Versions /\ latest < MaxVersion /\ latest' = latest + 1
      /\ latest' \in Versions /\ latest' # 1 /\ ~Unchanged'
  BY Numbers DEF IInv, TypeOK, RegisterSchema, Versions, Unchanged
<1>2. TypeOK'
  BY <1>1 DEF IInv, TypeOK, RegisterSchema, history, Versions, Configs, Schemas, NoSchema, Files
<1>3. ThreadVariables'
  BY DEF IInv, ThreadVariables, RegisterSchema, history, Jobs, FilesOrNone, SchemaOrNone, Versions
<1>4. SizesAreOfWholeFiles'
  BY DEF IInv, SizesAreOfWholeFiles, RegisterSchema, history
<1>5. ASSUME NEW t \in Threads
      PROVE  SpoolInv(t)' /\ CurrentInv(t)' /\ WholeInv(t)' /\ (~overlapped' => AloneInv(t)')
  <2>1. SpoolInv(t) /\ CurrentInv(t) /\ WholeInv(t) /\ (~overlapped => AloneInv(t))
    BY DEF IInv
  <2>2. SpoolInv(t)' /\ WholeInv(t)' /\ (~overlapped' => AloneInv(t)')
    BY <2>1 DEF RegisterSchema, history, SpoolInv, WholeInv, AloneInv, Active, Made, Files,
                Versions, Schemas
  <2>3. began[t].latest \in Nat /\ latest \in Nat
    BY DEF IInv, TypeOK, ThreadVariables, Versions
  <2>4. began[t].latest <= latest' /\ began[t].latest .. latest \subseteq began[t].latest .. latest'
    BY <1>1, <2>1, <2>3 DEF CurrentInv
  <2>5. CurrentInv(t)'
    BY <2>1, <2>4 DEF RegisterSchema, history, CurrentInv, Made, Resolved
  <2> QED
    BY <2>2, <2>5
<1>6. source' = 1 => sourceSchema' = 1
  BY DEF IInv, RegisterSchema
<1> QED
  BY <1>1, <1>2, <1>3, <1>4, <1>5, <1>6 DEF IInv

-----------------------------------------------------------------------------
(* A thread whose job and place change keeps the types, if they do.        *)
LEMMA StepTypes ==
  ASSUME IInv, NEW t \in Threads, NEW j \in Jobs, NEW label \in Labels,
         NEW how \in {"none", "ok", "raised"},
         job' = [job EXCEPT ![t] = j], pc' = [pc EXCEPT ![t] = label],
         result' = [result EXCEPT ![t] = how],
         began' \in [Threads -> [source : Versions, latest : Versions]],
         provenance' \in [provided : SchemaOrNone, requested : SchemaOrNone]
  PROVE  /\ ThreadVariables'
         /\ job'[t] = j /\ pc'[t] = label /\ result'[t] = how
         /\ \A u \in Threads \ {t} :
              pc'[u] = pc[u] /\ job'[u] = job[u] /\ result'[u] = result[u]
<1>1. /\ job' \in [Threads -> Jobs] /\ pc' \in [Threads -> Labels]
      /\ result' \in [Threads -> {"none", "ok", "raised"}]
  BY DEF IInv, ThreadVariables
<1>2. ThreadVariables'
  BY <1>1 DEF ThreadVariables, Labels, Jobs, FilesOrNone, SchemaOrNone, NoSchema, Versions
<1> QED
  BY <1>2 DEF IInv, ThreadVariables

(* What a thread has of its own, in an invariant state.                    *)
LEMMA Own ==
  ASSUME IInv, NEW t \in Threads
  PROVE  /\ job[t] \in Jobs /\ pc[t] \in Labels /\ result[t] \in {"none", "ok", "raised"}
         /\ job = [job EXCEPT ![t] = job[t]] /\ pc = [pc EXCEPT ![t] = pc[t]]
         /\ result = [result EXCEPT ![t] = result[t]]
         /\ pc[t] # "idle" => result[t] = "none"
         /\ began \in [Threads -> [source : Versions, latest : Versions]]
         /\ provenance \in [provided : SchemaOrNone, requested : SchemaOrNone]
         /\ SpoolInv(t) /\ CurrentInv(t) /\ WholeInv(t)
         /\ Unchanged => OneFileInv(t)
  BY DEF IInv, TypeOK, ThreadVariables

(* A call begins with an empty job, in the world as it is.                 *)
LEMMA CallIInv ==
  ASSUME IInv, NEW t \in Threads, Call(t)
  PROVE  IInv'
<1>1. PICK op \in {"open", "info"}, p \in Paths :
        /\ job' = [job EXCEPT ![t] = [NoJob EXCEPT !.op = op, !.path = p]]
        /\ pc' = [pc EXCEPT ![t] = IF op = "info" THEN "lookup" ELSE "open"]
  BY DEF Call, Goto
<1> DEFINE j == [NoJob EXCEPT !.op = op, !.path = p]
           label == IF op = "info" THEN "lookup" ELSE "open"
<1>2. j \in Jobs /\ j.op = op /\ j.path = p /\ j.spool = "none"
  BY NoJobType DEF Jobs, NoJob
<1>3. began' \in [Threads -> [source : Versions, latest : Versions]]
  BY DEF IInv, TypeOK, ThreadVariables, Call
<1>4. label \in Labels
  BY DEF Labels
<1> HIDE DEF j, label
<1>5. /\ ThreadVariables'
      /\ job'[t] = j /\ pc'[t] = label /\ result'[t] = "none"
      /\ \A u \in Threads \ {t} :
           pc'[u] = pc[u] /\ job'[u] = job[u] /\ result'[u] = result[u]
  <2>1. job' = [job EXCEPT ![t] = j] /\ pc' = [pc EXCEPT ![t] = label]
    BY <1>1 DEF j, label
  <2>2. result' = [result EXCEPT ![t] = "none"] /\ provenance' = provenance
    BY DEF Call
  <2> QED
    BY <1>2, <1>3, <1>4, <2>1, <2>2, StepTypes, Own
<1>6. /\ began'[t] = [source |-> source, latest |-> latest]
      /\ \A u \in Threads \ {t} : began'[u] = began[u]
  BY DEF IInv, ThreadVariables, Call
<1>7. label \in {"lookup", "open"} /\ (label = "lookup" => j.op = "info")
  BY <1>2 DEF label
<1>8. ObjectInv'
  <2>1. calls' \in 0 .. MaxCalls
    BY FileSystemAssumption DEF IInv, TypeOK, Call
  <2>2. UNCHANGED <<world, config, sizes, completed>>
    BY DEF Call
  <2>3. SizesAreOfWholeFiles'
    BY <2>2 DEF IInv, SizesAreOfWholeFiles
  <2> QED
    BY <2>1, <2>2, <2>3, SameFile DEF IInv, TypeOK, ObjectInv
<1>9. SpoolInv(t)' /\ CurrentInv(t)' /\ WholeInv(t)' /\ OneFileInv(t)'
  <2>1. source \in Int /\ latest \in Int
    BY DEF IInv, TypeOK, Versions
  <2>2. /\ pc'[t] \in {"lookup", "open"} /\ result'[t] = "none"
        /\ pc'[t] = "lookup" => job'[t].op = "info"
        /\ job'[t].spool = "none" /\ job'[t].path \in Paths
        /\ began'[t].source = source /\ began'[t].latest = latest
        /\ source' = source /\ latest' = latest
    <3>1. source' = source /\ latest' = latest
      BY DEF Call, world
    <3>2. began'[t].source = source /\ began'[t].latest = latest
      BY <1>6
    <3> QED
      BY <1>2, <1>5, <1>7, <3>1, <3>2
  <2>3. ~Made(t)' /\ ~Resolved(t)'
    BY <2>2 DEF Made, Resolved
  <2>4. SpoolInv(t)'
    BY <2>2 DEF SpoolInv
  <2>5. CurrentInv(t)'
    BY <2>1, <2>2, <2>3 DEF CurrentInv
  <2>6. WholeInv(t)' /\ OneFileInv(t)'
    BY <2>2, <2>3 DEF WholeInv, OneFileInv
  <2> QED
    BY <2>4, <2>5, <2>6
<1>10. ~overlapped' => \A u \in Threads : AloneInv(u)'
  BY <1>5, <1>7, AloneStays DEF Call, Active
<1> QED
  BY <1>5, <1>6, <1>8, <1>9, <1>10, ThreadStep DEF Call

(* info() knows the size of a file that was converted whole, or converts.  *)
LEMMA InfoLookupIInv ==
  ASSUME IInv, NEW t \in Threads, InfoLookup(t)
  PROVE  IInv'
<1>1. ObjectInv' /\ UNCHANGED <<world, config, began, completed>>
  BY SameObject DEF InfoLookup, history
<1>2. CASE job[t].path \in DOMAIN sizes
  <2> DEFINE file == sizes[job[t].path]
             j == [job[t] EXCEPT !.file = file]
  <2>1. file \in Files /\ file \in completed /\ file.path = job[t].path
    BY <1>2 DEF IInv, TypeOK, SizesAreOfWholeFiles
  <2>2. j \in Jobs
    BY <2>1, Own, FilesType DEF Jobs
  <2>3. /\ j.op = "info" /\ j.spool = "none" /\ j.path = job[t].path /\ j.file = file
    BY Own DEF SpoolInv, InfoLookup, Jobs
  <2>4. Unchanged => j.file = TheFile(j.path)
    BY <2>1, <2>3 DEF IInv
  <2>5. job' = [job EXCEPT ![t] = j]
    BY <1>2 DEF InfoLookup
  <2>6. pc' = [pc EXCEPT ![t] = "idle"] /\ result' = [result EXCEPT ![t] = "ok"]
    BY <1>2 DEF InfoLookup, Return, Goto
  <2> HIDE DEF j
  <2>7. /\ ThreadVariables'
        /\ job'[t] = j /\ pc'[t] = "idle" /\ result'[t] = "ok"
        /\ \A u \in Threads \ {t} :
             pc'[u] = pc[u] /\ job'[u] = job[u] /\ result'[u] = result[u]
    BY <1>1, <2>2, <2>5, <2>6, StepTypes, Own DEF Labels, InfoLookup
  <2>8. SpoolInv(t)' /\ CurrentInv(t)' /\ WholeInv(t)'
    BY <1>1, <2>3, <2>7, Own
    DEF SpoolInv, CurrentInv, WholeInv, Made, Resolved, world
  <2>9. Unchanged' => OneFileInv(t)'
    BY <1>1, <2>4, <2>7, SameFile DEF OneFileInv, Made, Resolved
  <2>10. ~overlapped' => \A u \in Threads : AloneInv(u)'
    BY <2>7, AloneStays DEF InfoLookup, history, Active
  <2> QED
    BY <1>1, <2>7, <2>8, <2>9, <2>10, ThreadStep
<1>3. CASE job[t].path \notin DOMAIN sizes
  <2>1. pc' = [pc EXCEPT ![t] = "open"] /\ job' = job /\ result' = result
    BY <1>3 DEF InfoLookup, Goto
  <2>2. /\ ThreadVariables'
        /\ job'[t] = job[t] /\ pc'[t] = "open" /\ result'[t] = "none"
        /\ \A u \in Threads \ {t} :
             pc'[u] = pc[u] /\ job'[u] = job[u] /\ result'[u] = result[u]
    <3>1. "open" \in Labels /\ provenance' = provenance
      BY DEF Labels, InfoLookup
    <3>2. job' = [job EXCEPT ![t] = job[t]] /\ result' = [result EXCEPT ![t] = "none"]
      BY <2>1, Own DEF InfoLookup
    <3> QED
      BY <1>1, <2>1, <3>1, <3>2, StepTypes, Own
  <2>3. SpoolInv(t)' /\ CurrentInv(t)' /\ WholeInv(t)' /\ OneFileInv(t)'
    BY <1>1, <2>2, Own
    DEF SpoolInv, CurrentInv, WholeInv, OneFileInv, Made, Resolved, world, InfoLookup
  <2>4. ~overlapped' => \A u \in Threads : AloneInv(u)'
    BY <2>2, AloneStays DEF InfoLookup, history, Active
  <2> QED
    BY <1>1, <2>2, <2>3, <2>4, ThreadStep
<1> QED
  BY <1>2, <1>3

(* Whoever opens a spool is alone, or has overlapped.                      *)
LEMMA OpenSpoolIInv ==
  ASSUME IInv, NEW t \in Threads, OpenSpool(t)
  PROVE  IInv'
<1> DEFINE j == [job[t] EXCEPT !.spool = "open"]
<1>1. ObjectInv' /\ UNCHANGED <<world, config, began, completed>>
  BY SameObject DEF OpenSpool
<1>2. j \in Jobs /\ j.path = job[t].path
  BY Own DEF Jobs
<1>3. job' = [job EXCEPT ![t] = j] /\ pc' = [pc EXCEPT ![t] = "provided"]
  BY DEF OpenSpool, Goto
<1> HIDE DEF j
<1>4. /\ ThreadVariables'
      /\ job'[t] = j /\ pc'[t] = "provided" /\ result'[t] = "none"
      /\ \A u \in Threads \ {t} :
           pc'[u] = pc[u] /\ job'[u] = job[u] /\ result'[u] = result[u]
  <2>1. "provided" \in Labels /\ provenance' = provenance
    BY DEF Labels, OpenSpool
  <2>2. result' = [result EXCEPT ![t] = "none"]
    BY Own DEF OpenSpool
  <2> QED
    BY <1>1, <1>2, <1>3, <2>1, <2>2, StepTypes, Own
<1>5. SpoolInv(t)' /\ CurrentInv(t)' /\ WholeInv(t)' /\ OneFileInv(t)'
  BY <1>1, <1>2, <1>4, Own
  DEF SpoolInv, CurrentInv, WholeInv, OneFileInv, Made, Resolved, world, OpenSpool
<1>6. ~overlapped' => \A u \in Threads : AloneInv(u)'
  <2> SUFFICES ASSUME ~overlapped', NEW u \in Threads PROVE AloneInv(u)'
    OBVIOUS
  <2>1. ~overlapped /\ \A v \in Threads \ {t} : ~Active(v)
    BY DEF OpenSpool, Converting, Active
  <2>2. \A v \in Threads \ {t} : ~Active(v)'
    BY <1>4, <2>1 DEF Active
  <2> QED
    BY <1>4, <2>2 DEF AloneInv, Active
<1> QED
  BY <1>1, <1>4, <1>5, <1>6, ThreadStep

(* Whatever raises once a spool is open, the call ends with it closed.     *)
LEMMA RaiseIInv ==
  ASSUME IInv, NEW t \in Threads, Active(t), Raise(t),
         UNCHANGED <<world, config, provenance, sizes, history>>
  PROVE  IInv'
<1> DEFINE j == [NoJob EXCEPT !.op = job[t].op, !.path = job[t].path, !.spool = "closed"]
<1>1. ObjectInv' /\ UNCHANGED <<world, config, began, completed>>
  BY SameObject DEF history
<1>2. j \in Jobs /\ j.spool = "closed"
  BY Own, NoJobType DEF Jobs, NoJob
<1>3. /\ job' = [job EXCEPT ![t] = j] /\ pc' = [pc EXCEPT ![t] = "idle"]
      /\ result' = [result EXCEPT ![t] = "raised"]
  BY DEF Raise, Return, Goto
<1> HIDE DEF j
<1>4. /\ ThreadVariables'
      /\ job'[t] = j /\ pc'[t] = "idle" /\ result'[t] = "raised"
      /\ \A u \in Threads \ {t} :
           pc'[u] = pc[u] /\ job'[u] = job[u] /\ result'[u] = result[u]
  <2>1. "idle" \in Labels
    BY DEF Labels
  <2> QED
    BY <1>1, <1>2, <1>3, <2>1, StepTypes, Own
<1>5. SpoolInv(t)' /\ CurrentInv(t)' /\ WholeInv(t)' /\ OneFileInv(t)'
  BY <1>1, <1>2, <1>4, Own
  DEF SpoolInv, CurrentInv, WholeInv, OneFileInv, Made, Resolved, world
<1>6. ~overlapped' => \A u \in Threads : AloneInv(u)'
  BY <1>4, AloneStays DEF history, Active
<1> QED
  BY <1>1, <1>4, <1>5, <1>6, ThreadStep

(* A reference resolves to a schema, "latest" to the newest.               *)
LEMMA ResolveType ==
  ASSUME IInv
  PROVE  /\ TheProvided \in SchemaOrNone /\ TheRequested \in SchemaOrNone
         /\ config.requested = "latest" => TheRequested = latest
<1>1. /\ config.provided \in {"none", "inline", "empty", "latest"}
      /\ config.requested \in {"none", "inline", "empty", "latest"}
  BY FileSystemAssumption DEF IInv, TypeOK, Configs
<1>2. /\ latest \in SchemaOrNone /\ NoSchema \in SchemaOrNone
      /\ EmptySchema \in SchemaOrNone /\ 1 \in SchemaOrNone
  BY FileSystemAssumption
  DEF IInv, TypeOK, Versions, SchemaOrNone, NoSchema, EmptySchema
<1>3. TheProvided \in SchemaOrNone
  BY <1>1, <1>2 DEF TheProvided, Resolve
<1>4. TheRequested \in SchemaOrNone
  BY <1>1, <1>2 DEF TheRequested, Resolve
<1> QED
  BY <1>3, <1>4 DEF TheRequested, Resolve

(* The provided schema is resolved.                                        *)
LEMMA ResolveProvidedIInv ==
  ASSUME IInv, NEW t \in Threads, ResolveProvided(t)
  PROVE  IInv'
<1> DEFINE j == [job[t] EXCEPT !.provided = TheProvided]
<1>1. ObjectInv' /\ UNCHANGED <<world, config, began, completed>>
  BY SameObject DEF ResolveProvided, history
<1>2. j \in Jobs /\ j.path = job[t].path /\ j.provided = TheProvided
  BY Own, ResolveType DEF Jobs
<1>3. job' = [job EXCEPT ![t] = j] /\ pc' = [pc EXCEPT ![t] = "requested"]
  BY DEF ResolveProvided, Goto, TheProvided
<1> HIDE DEF j
<1>4. /\ ThreadVariables'
      /\ job'[t] = j /\ pc'[t] = "requested" /\ result'[t] = "none"
      /\ \A u \in Threads \ {t} :
           pc'[u] = pc[u] /\ job'[u] = job[u] /\ result'[u] = result[u]
  <2>1. "requested" \in Labels /\ provenance' = provenance
    BY DEF Labels, ResolveProvided
  <2>2. result' = [result EXCEPT ![t] = "none"]
    BY Own DEF ResolveProvided
  <2> QED
    BY <1>1, <1>2, <1>3, <2>1, <2>2, StepTypes, Own
<1>5. SpoolInv(t)' /\ CurrentInv(t)' /\ WholeInv(t)'
  BY <1>1, <1>2, <1>4, Own
  DEF SpoolInv, CurrentInv, WholeInv, Made, Resolved, world, ResolveProvided
<1>6. OneFileInv(t)'
  BY <1>1, <1>2, <1>4, SameFile DEF OneFileInv, Made, Resolved
<1>7. ~overlapped' => \A u \in Threads : AloneInv(u)'
  BY <1>4, AloneStays DEF ResolveProvided, history, Active
<1> QED
  BY <1>1, <1>4, <1>5, <1>6, <1>7, ThreadStep

(* The requested schema is resolved: "latest" is the newest just then.     *)
LEMMA ResolveRequestedIInv ==
  ASSUME IInv, NEW t \in Threads, ResolveRequested(t)
  PROVE  IInv'
<1> DEFINE j == [job[t] EXCEPT !.requested = TheRequested]
<1>1. ObjectInv' /\ UNCHANGED <<world, config, began, completed>>
  BY SameObject DEF ResolveRequested, history
<1>2. /\ j \in Jobs /\ j.path = job[t].path /\ j.provided = job[t].provided
      /\ j.requested = TheRequested
  BY Own, ResolveType DEF Jobs
<1>3. job' = [job EXCEPT ![t] = j] /\ pc' = [pc EXCEPT ![t] = "provenance"]
  BY DEF ResolveRequested, Goto, TheRequested
<1> HIDE DEF j
<1>4. /\ ThreadVariables'
      /\ job'[t] = j /\ pc'[t] = "provenance" /\ result'[t] = "none"
      /\ \A u \in Threads \ {t} :
           pc'[u] = pc[u] /\ job'[u] = job[u] /\ result'[u] = result[u]
  <2>1. "provenance" \in Labels /\ provenance' = provenance
    BY DEF Labels, ResolveRequested
  <2>2. result' = [result EXCEPT ![t] = "none"]
    BY Own DEF ResolveRequested
  <2> QED
    BY <1>1, <1>2, <1>3, <2>1, <2>2, StepTypes, Own
<1>5. SpoolInv(t)' /\ WholeInv(t)'
  BY <1>1, <1>4 DEF SpoolInv, WholeInv, Made
<1>6. CurrentInv(t)'
  <2>1. began[t].latest <= latest /\ began[t].latest \in Nat /\ latest \in Nat
    BY Own DEF CurrentInv, IInv, TypeOK, Versions
  <2>2. config.requested = "latest" => j.requested \in began[t].latest .. latest
    BY <1>2, <2>1, ResolveType
  <2> QED
    BY <1>1, <1>2, <1>4, <2>2, Own
    DEF CurrentInv, Made, Resolved, world, ResolveRequested
<1>7. Unchanged' => OneFileInv(t)'
  BY <1>1, <1>2, <1>4, SameFile, Own DEF OneFileInv, Made, Resolved, ResolveRequested
<1>8. ~overlapped' => \A u \in Threads : AloneInv(u)'
  BY <1>4, AloneStays DEF ResolveRequested, history, Active
<1> QED
  BY <1>1, <1>4, <1>5, <1>6, <1>7, <1>8, ThreadStep

\* A step on the way that changes the place of a thread, and the provenance.
Steps(t, label) ==
  /\ pc' = [pc EXCEPT ![t] = label]
  /\ UNCHANGED <<world, config, sizes, job, result, calls, began, completed, overlapped>>
  /\ provenance' \in [provided : SchemaOrNone, requested : SchemaOrNone]

(* One that only goes on keeps what the thread has.                        *)
LEMMA ProvenanceStep ==
  ASSUME IInv, NEW t \in Threads, NEW label \in {"provenance2", "source"}, Steps(t, label),
         pc[t] \in {"provenance", "provenance2"},
         ~overlapped' => \A u \in Threads : AloneInv(u)'
  PROVE  IInv'
<1>1. ObjectInv' /\ UNCHANGED <<world, config, began, completed>>
  BY SameObject DEF Steps
<1>2. /\ ThreadVariables'
      /\ job'[t] = job[t] /\ pc'[t] = label /\ result'[t] = "none"
      /\ \A u \in Threads \ {t} :
           pc'[u] = pc[u] /\ job'[u] = job[u] /\ result'[u] = result[u]
  <2>1. label \in Labels
    BY DEF Labels
  <2>2. job' = [job EXCEPT ![t] = job[t]] /\ result' = [result EXCEPT ![t] = "none"]
    BY Own DEF Steps
  <2>3. /\ pc' = [pc EXCEPT ![t] = label]
        /\ provenance' \in [provided : SchemaOrNone, requested : SchemaOrNone]
    BY DEF Steps
  <2> QED
    BY <1>1, <2>1, <2>2, <2>3, StepTypes, Own
<1>3. SpoolInv(t)' /\ CurrentInv(t)' /\ WholeInv(t)'
  BY <1>1, <1>2, Own DEF SpoolInv, CurrentInv, WholeInv, Made, Resolved, world
<1>4. Unchanged' => OneFileInv(t)'
  BY <1>1, <1>2, SameFile, Own DEF OneFileInv, Made, Resolved
<1> QED
  BY <1>1, <1>2, <1>3, <1>4, ThreadStep

(* The provided schema's provenance is set: nobody else is converting whom *)
(* it would mislead, or they overlap.                                      *)
LEMMA SetProvidedIInv ==
  ASSUME IInv, NEW t \in Threads, SetProvided(t)
  PROVE  IInv'
<1>1. provenance' = [provenance EXCEPT !.provided = job[t].provided]
  BY DEF SetProvided
<1>2. Steps(t, "provenance2")
  BY <1>1, Own DEF SetProvided, Steps, Goto, history, Jobs
<1>3. ~overlapped' => \A u \in Threads : AloneInv(u)'
  <2> SUFFICES ASSUME ~overlapped, NEW u \in Threads PROVE AloneInv(u)'
    BY <1>2 DEF Steps
  <2>1. Active(t) /\ \A v \in Threads \ {t} : ~Active(v)
    BY DEF IInv, AloneInv, Active, SetProvided
  <2>2. pc'[t] = "provenance2" /\ \A v \in Threads \ {t} : pc'[v] = pc[v]
    BY <1>2 DEF Steps, IInv, ThreadVariables
  <2>3. \A v \in Threads \ {t} : ~Active(v)'
    BY <2>1, <2>2 DEF Active
  <2>4. provenance'.provided = job'[t].provided
    BY <1>1, <1>2, Own DEF Steps
  <2> QED
    BY <2>2, <2>3, <2>4 DEF AloneInv, Active
<1> QED
  BY <1>2, <1>3, ProvenanceStep DEF SetProvided

(* So is the requested schema's, while the provided schema's still stands. *)
LEMMA SetRequestedIInv ==
  ASSUME IInv, NEW t \in Threads, SetRequested(t)
  PROVE  IInv'
<1>1. provenance' = [provenance EXCEPT !.requested = job[t].requested]
  BY DEF SetRequested
<1>2. Steps(t, "source")
  BY <1>1, Own DEF SetRequested, Steps, Goto, history, Jobs
<1>3. ~overlapped' => \A u \in Threads : AloneInv(u)'
  <2> SUFFICES ASSUME ~overlapped, NEW u \in Threads PROVE AloneInv(u)'
    BY <1>2 DEF Steps
  <2>1. Active(t) /\ (\A v \in Threads \ {t} : ~Active(v))
        /\ provenance.provided = job[t].provided
    BY DEF IInv, AloneInv, Active, SetRequested
  <2>2. pc'[t] = "source" /\ \A v \in Threads \ {t} : pc'[v] = pc[v]
    BY <1>2 DEF Steps, IInv, ThreadVariables
  <2>3. \A v \in Threads \ {t} : ~Active(v)'
    BY <2>1, <2>2 DEF Active
  <2>4. provenance' = [provided |-> job'[t].provided, requested |-> job'[t].requested]
    BY <1>1, <1>2, <2>1, Own DEF Steps
  <2> QED
    BY <2>2, <2>3, <2>4 DEF AloneInv, Active
<1> QED
  BY <1>2, <1>3, ProvenanceStep DEF SetRequested

(* The source is opened: the file is made of it as it is, for the path.    *)
LEMMA OpenSourceIInv ==
  ASSUME IInv, NEW t \in Threads, OpenSource(t)
  PROVE  IInv'
<1> DEFINE file == [path |-> job[t].path, source |-> source, provided |-> Decoded(t),
                    requested |-> Wanted(t)]
           j == [job[t] EXCEPT !.file = file]
<1>1. ObjectInv' /\ UNCHANGED <<world, config, began, completed>>
  BY SameObject DEF OpenSource, history
<1>2. Decoded(t) \in Schemas /\ Wanted(t) \in Schemas
  <2>1. sourceSchema \in Schemas
    BY Numbers DEF IInv, TypeOK
  <2>2. Decoded(t) \in Schemas
    BY <2>1, Own, Numbers DEF Jobs, Decoded, OpenSource, Acceptable
  <2> QED
    BY <2>2, Own, Numbers DEF Jobs, Wanted
<1>3. /\ file \in Files /\ file.path = job[t].path /\ file.source = source
      /\ file.provided = Decoded(t) /\ file.requested = Wanted(t)
  BY <1>2, Own DEF IInv, TypeOK, CurrentInv, OpenSource, Files
<1>4. Unchanged => file = TheFile(job[t].path)
  <2> SUFFICES ASSUME Unchanged PROVE file = TheFile(job[t].path)
    OBVIOUS
  <2>1. source = 1 /\ sourceSchema = 1
    BY DEF Unchanged, IInv
  <2>2. job[t].provided = TheProvided /\ job[t].requested = TheRequested
    BY Own DEF OneFileInv, Resolved, OpenSource
  <2> QED
    BY <2>1, <2>2 DEF TheFile, TheDecoded, Decoded, Wanted
<1>5. config.requested = "latest" => file.requested \in began[t].latest .. latest
  <2> SUFFICES ASSUME config.requested = "latest"
               PROVE  file.requested \in began[t].latest .. latest
    OBVIOUS
  <2>1. job[t].requested \in began[t].latest .. latest
    BY Own DEF CurrentInv, Resolved, OpenSource
  <2>2. began[t].latest \in Versions
    BY Own
  <2>3. job[t].requested >= 1
    BY <2>1, <2>2 DEF Versions
  <2>4. Wanted(t) = job[t].requested
    BY <2>1, <2>2, <2>3 DEF Wanted, NoSchema, EmptySchema, Versions
  <2> QED
    BY <1>3, <2>1, <2>4
<1> HIDE DEF file
<1>6. /\ j \in Jobs /\ j.path = job[t].path /\ j.file = file
      /\ j.provided = job[t].provided /\ j.requested = job[t].requested
  BY <1>3, Own, FilesType DEF Jobs
<1>7. job' = [job EXCEPT ![t] = j] /\ pc' = [pc EXCEPT ![t] = "encode"]
  BY DEF OpenSource, Goto, file
<1> HIDE DEF j
<1>8. /\ ThreadVariables'
      /\ job'[t] = j /\ pc'[t] = "encode" /\ result'[t] = "none"
      /\ \A u \in Threads \ {t} :
           pc'[u] = pc[u] /\ job'[u] = job[u] /\ result'[u] = result[u]
  <2>1. "encode" \in Labels /\ provenance' = provenance
    BY DEF Labels, OpenSource
  <2>2. result' = [result EXCEPT ![t] = "none"]
    BY Own DEF OpenSource
  <2> QED
    BY <1>1, <1>6, <1>7, <2>1, <2>2, StepTypes, Own
<1>9. SpoolInv(t)' /\ WholeInv(t)'
  BY <1>3, <1>6, <1>8, SameFile, <1>1 DEF SpoolInv, WholeInv, Made
<1>10. CurrentInv(t)'
  <2>1. source \in began[t].source .. source
    BY Own DEF CurrentInv, IInv, TypeOK, Versions
  <2> QED
    BY <1>1, <1>3, <1>5, <1>6, <1>8, <2>1, Own
    DEF CurrentInv, Made, Resolved, world, OpenSource
<1>11. Unchanged' => OneFileInv(t)'
  BY <1>1, <1>4, <1>6, <1>8, SameFile DEF OneFileInv, Made, Resolved
<1>12. ~overlapped' => \A u \in Threads : AloneInv(u)'
  BY <1>6, <1>8, AloneStays DEF OpenSource, history, Active
<1> QED
  BY <1>1, <1>8, <1>9, <1>10, <1>11, <1>12, ThreadStep

(* What a thread has of a file it keeps as it goes from step to step.      *)
LEMMA GoesOn ==
  ASSUME IInv, NEW t \in Threads, NEW label \in {"size", "return"}, Made(t),
         pc' = [pc EXCEPT ![t] = label], ObjectInv',
         UNCHANGED <<world, config, provenance, job, result, began, overlapped>>,
         completed \subseteq completed', job[t].file \in completed'
  PROVE  IInv'
<1>1. /\ ThreadVariables'
      /\ job'[t] = job[t] /\ pc'[t] = label /\ result'[t] = "none"
      /\ \A u \in Threads \ {t} :
           pc'[u] = pc[u] /\ job'[u] = job[u] /\ result'[u] = result[u]
  <2>1. label \in Labels
    BY DEF Labels
  <2>2. job' = [job EXCEPT ![t] = job[t]] /\ result' = [result EXCEPT ![t] = "none"]
    BY Own DEF Made
  <2> QED
    BY <2>1, <2>2, StepTypes, Own
<1>2. SpoolInv(t)' /\ CurrentInv(t)' /\ WholeInv(t)'
  BY <1>1, Own, SameFile DEF SpoolInv, CurrentInv, WholeInv, Made, Resolved, world
<1>3. Unchanged' => OneFileInv(t)'
  <2>1. Unchanged => job[t].file = TheFile(job[t].path)
    BY Own DEF OneFileInv
  <2> QED
    BY <1>1, <2>1, SameFile DEF OneFileInv, Resolved
<1>4. ~overlapped' => \A u \in Threads : AloneInv(u)'
  BY <1>1, AloneStays DEF Active, Made
<1> QED
  BY <1>1, <1>2, <1>3, <1>4, ThreadStep

(* A file that is converted to the end is whole.                           *)
LEMMA EncodeIInv ==
  ASSUME IInv, NEW t \in Threads, Encode(t)
  PROVE  IInv'
<1>1. Made(t) /\ job[t].file \in Files /\ job[t].file.path = job[t].path
  BY Own DEF Encode, Made, WholeInv, CurrentInv
<1>2. Unchanged => job[t].file = TheFile(job[t].file.path)
  BY <1>1, Own DEF OneFileInv
<1>3. completed' = completed \union {job[t].file}
  BY DEF Encode
<1>4. UNCHANGED <<world, config, sizes, calls>>
  BY DEF Encode
<1>5. SizesAreOfWholeFiles'
  BY <1>3, <1>4 DEF IInv, SizesAreOfWholeFiles
<1>6. ObjectInv'
  BY <1>1, <1>2, <1>3, <1>4, <1>5, SameFile DEF IInv, TypeOK, ObjectInv
<1> QED
  BY <1>1, <1>3, <1>6, GoesOn DEF Encode, Goto

(* The size that is noted for a path is that of its whole file.            *)
LEMMA NoteSizeIInv ==
  ASSUME IInv, NEW t \in Threads, NoteSize(t)
  PROVE  IInv'
<1>1. /\ Made(t) /\ job[t].file \in Files /\ job[t].file.path = job[t].path
      /\ job[t].file \in completed /\ job[t].path \in Paths
  BY Own DEF NoteSize, Made, WholeInv, CurrentInv
<1>2. /\ DOMAIN sizes' = DOMAIN sizes \union {job[t].path}
      /\ \A p \in DOMAIN sizes' : sizes'[p] = IF p = job[t].path THEN job[t].file ELSE sizes[p]
  BY DEF NoteSize, Noted
<1>3. UNCHANGED <<world, config, calls, completed>>
  BY DEF NoteSize, history
<1>4. SizesAreOfWholeFiles'
  BY <1>1, <1>2, <1>3 DEF IInv, SizesAreOfWholeFiles
<1>5. DOMAIN sizes' \subseteq Paths /\ \A p \in DOMAIN sizes' : sizes'[p] \in Files
  BY <1>1, <1>2 DEF IInv, TypeOK
<1>6. ObjectInv'
  BY <1>3, <1>4, <1>5, SameFile DEF IInv, TypeOK, ObjectInv
<1> QED
  BY <1>1, <1>3, <1>6, GoesOn DEF NoteSize, Goto, history

(* open() hands its file out; info() closes it.                            *)
LEMMA FinishIInv ==
  ASSUME IInv, NEW t \in Threads, Finish(t)
  PROVE  IInv'
<1> DEFINE j == [job[t] EXCEPT !.spool = IF job[t].op = "info" THEN "closed" ELSE @]
<1>1. ObjectInv' /\ UNCHANGED <<world, config, began, completed>>
  BY SameObject DEF Finish, history
<1>2. /\ j \in Jobs /\ j.path = job[t].path /\ j.file = job[t].file /\ j.op = job[t].op
      /\ j.spool = "open" => j.op = "open"
  BY Own DEF Jobs
<1>3. /\ job' = [job EXCEPT ![t] = j] /\ pc' = [pc EXCEPT ![t] = "idle"]
      /\ result' = [result EXCEPT ![t] = "ok"]
  BY DEF Finish, Return, Goto
<1> HIDE DEF j
<1>4. /\ ThreadVariables'
      /\ job'[t] = j /\ pc'[t] = "idle" /\ result'[t] = "ok"
      /\ \A u \in Threads \ {t} :
           pc'[u] = pc[u] /\ job'[u] = job[u] /\ result'[u] = result[u]
  <2>1. "idle" \in Labels /\ provenance' = provenance
    BY DEF Labels, Finish
  <2> QED
    BY <1>1, <1>2, <1>3, <2>1, StepTypes, Own
<1>5. Made(t)
  BY DEF Finish, Made
<1>6. SpoolInv(t)' /\ CurrentInv(t)' /\ WholeInv(t)'
  BY <1>1, <1>2, <1>4, <1>5, Own DEF SpoolInv, CurrentInv, WholeInv, Made, Resolved, world
<1>7. Unchanged' => OneFileInv(t)'
  <2>1. Unchanged => job[t].file = TheFile(job[t].path)
    BY <1>5, Own DEF OneFileInv
  <2> QED
    BY <1>1, <1>2, <1>4, <2>1, SameFile DEF OneFileInv, Resolved
<1>8. ~overlapped' => \A u \in Threads : AloneInv(u)'
  BY <1>4, AloneStays DEF Finish, history, Active
<1> QED
  BY <1>1, <1>4, <1>6, <1>7, <1>8, ThreadStep

-----------------------------------------------------------------------------
(* Every step keeps the invariant.                                         *)
LEMMA NextIInv == IInv /\ [Next]_vars => IInv'
<1> SUFFICES ASSUME IInv, [Next]_vars PROVE IInv'
  OBVIOUS
<1>1. CASE ReplaceSource \/ RegisterSchema
  BY <1>1, ReplaceSourceIInv, RegisterSchemaIInv
<1>2. ASSUME NEW t \in Threads,
             \/ Call(t) \/ InfoLookup(t) \/ OpenSpool(t)
             \/ ResolveProvided(t) \/ ResolveRequested(t)
             \/ SetProvided(t) \/ SetRequested(t)
             \/ OpenSource(t) \/ Encode(t) \/ NoteSize(t) \/ Finish(t)
      PROVE  IInv'
  BY <1>2, CallIInv, InfoLookupIInv, OpenSpoolIInv, ResolveProvidedIInv, ResolveRequestedIInv,
     SetProvidedIInv, SetRequestedIInv, OpenSourceIInv, EncodeIInv, NoteSizeIInv, FinishIInv
<1>3. ASSUME NEW t \in Threads, ResolveRaises(t) \/ OpenSourceRaises(t) \/ EncodeRaises(t)
      PROVE  IInv'
  <2>1. /\ Active(t) /\ Raise(t)
        /\ UNCHANGED <<world, config, provenance, sizes, history>>
    BY <1>3 DEF ResolveRaises, OpenSourceRaises, EncodeRaises, Active
  <2> QED
    BY <2>1, RaiseIInv
<1>4. CASE UNCHANGED vars
  <2>1. UNCHANGED <<world, config, sizes, calls, completed>>
    BY <1>4 DEF vars, history
  <2>2. ObjectInv' /\ Files' = Files
    BY <2>1, SameObject, SameFile
  <2>3. UNCHANGED <<source, sourceSchema, latest, pc, job, result, began, provenance, overlapped>>
    BY <1>4 DEF vars, history, world
  <2>4. TypeOK' /\ ThreadVariables'
    BY <2>1, <2>2, <2>3
    DEF IInv, TypeOK, ThreadVariables, world, Versions, Schemas, NoSchema, Configs, Jobs,
        FilesOrNone, SchemaOrNone, Labels, ObjectInv
  <2>5. ASSUME NEW t \in Threads
        PROVE  /\ SpoolInv(t)' /\ CurrentInv(t)' /\ WholeInv(t)'
               /\ ~overlapped' => AloneInv(t)'
               /\ Unchanged' => OneFileInv(t)'
    <3>1. SpoolInv(t)' /\ CurrentInv(t)' /\ WholeInv(t)' /\ (Unchanged' => OneFileInv(t)')
      BY <2>1, <2>3, Others
    <3>2. ~overlapped' => AloneInv(t)'
      BY <2>3 DEF IInv, AloneInv, Active
    <3> QED
      BY <3>1, <3>2
  <2> QED
    BY <2>2, <2>3, <2>4, <2>5 DEF IInv, ObjectInv
<1> QED
  BY <1>1, <1>2, <1>3, <1>4 DEF Next

(* The invariant holds of the filesystem.                                  *)
THEOREM Inductive == Spec => []IInv
<1> QED
  BY InitIInv, NextIInv, PTL DEF Spec

(* The object, its callers' jobs and its files keep to their types.        *)
THEOREM TypeCorrect == Spec => []TypeOK
<1>1. IInv => TypeOK
  BY DEF IInv
<1> QED
  BY Inductive, <1>1, PTL

(* Every size the object remembers is that of a whole file for its path.   *)
THEOREM SizesAreTrue == Spec => []SizesAreOfWholeFiles
<1>1. IInv => SizesAreOfWholeFiles
  BY DEF IInv
<1> QED
  BY Inductive, <1>1, PTL

(* A spool stays open only with who opened it, whatever step raised.       *)
THEOREM SpoolsDoNotLeak == Spec => []SpoolsAreClosed
<1>1. IInv => SpoolsAreClosed
  BY DEF IInv, SpoolInv, SpoolsAreClosed
<1> QED
  BY Inductive, <1>1, PTL

(* What open() returns is of the source and the schemas as they were       *)
(* during the call, whatever other threads convert and the world does.     *)
THEOREM FilesAreCurrent == Spec => []FileIsCurrent
<1>1. IInv => FileIsCurrent
  BY DEF IInv, CurrentInv, FileIsCurrent
<1> QED
  BY Inductive, <1>1, PTL

(* While the world stands still, info() and open() agree.                  *)
THEOREM InfoAndOpenAgree == Spec => []InfoAgreesWithOpen
<1>1. IInv => InfoAgreesWithOpen
  <2> SUFFICES ASSUME IInv, Unchanged, NEW t \in Threads, NEW u \in Threads,
                      result[t] = "ok", result[u] = "ok", job[t].path = job[u].path
               PROVE  job[t].file = job[u].file
    BY DEF InfoAgreesWithOpen, Unchanged
  <2>1. job[t].file = TheFile(job[t].path) /\ job[u].file = TheFile(job[u].path)
    BY Own DEF OneFileInv
  <2> QED
    BY <2>1
<1> QED
  BY Inductive, <1>1, PTL

(* The provenance is that of the last conversion, unless conversions       *)
(* overlap.                                                                *)
THEOREM ProvenanceIsTrue == Spec => []ProvenanceOfConversion
<1>1. IInv => ProvenanceOfConversion
  BY DEF IInv, AloneInv, ProvenanceOfConversion
<1> QED
  BY Inductive, <1>1, PTL
=============================================================================
