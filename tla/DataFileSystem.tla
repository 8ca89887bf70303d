--------------------------- MODULE DataFileSystem ---------------------------
(***************************************************************************)
(* A filesystem whose files are conversions of one source.  fsspec caches  *)
(* filesystem objects, so one object is used by several threads; while     *)
(* they convert, the source is replaced and new versions of the schema     *)
(* appear in the registry that the reference "latest" resolves in.         *)
(*                                                                         *)
(* Schemas are numbers: version k of the registry is schema k.  A source   *)
(* that was opened is read as it was then.                                 *)
(***************************************************************************)
EXTENDS Integers

CONSTANTS
  Threads,
  Paths,        (* paths that are opened: each names a requested format    *)
  SourcePath,   (* fo, the path of the source                              *)
  Provided,     (* how the provided and the requested schema may be given: *)
  Requested,    (* "none", "inline", "empty" (inline) or "latest"          *)
  MaxVersion,   (* bound: versions of the source, and of the schema        *)
  MaxCalls      (* bound: calls of all threads                             *)

ASSUME FileSystemAssumption ==
  /\ MaxVersion \in Nat \ {0} /\ MaxCalls \in Nat /\ SourcePath \notin Paths
  /\ Provided \union Requested \subseteq {"none", "inline", "empty", "latest"}

VARIABLES
  (* The world. *)
  source,       (* version of the source's rows                            *)
  sourceSchema, (* the schema it was written with                          *)
  latest,       (* the newest version of the schema                        *)
  (* The object. *)
  config,       (* its constructor's arguments                             *)
  provenance,   (* provided_ and requested_schema_provenance               *)
  sizes,        (* _sizes: what was converted when the size was noted      *)
  (* Of each thread's current or last call. *)
  pc,
  job,          (* its arguments and local variables                       *)
  result,
  (* History variables. *)
  calls,
  began,        (* the world when the call began                           *)
  completed,    (* every file that was converted to the end                *)
  overlapped    (* two conversions have run at once                        *)

world   == <<source, sourceSchema, latest>>
history == <<calls, began, completed, overlapped>>
vars == <<world, config, provenance, sizes, pc, job, result, history>>

NoSchema    == -1
EmptySchema == 0
Schemas     == EmptySchema .. MaxVersion
Versions    == 1 .. MaxVersion

Configs == [provided : Provided, requested : Requested,
            embedded : BOOLEAN,        \* the source's format has its schema
            exact    : BOOLEAN]        \* the schema policy is exact

\* A converted file: what it was made for, from and with.
NoFile == [path |-> SourcePath, source |-> 0, provided |-> NoSchema, requested |-> NoSchema]

NoJob == [op |-> "open", path |-> SourcePath, provided |-> NoSchema, requested |-> NoSchema,
          file |-> NoFile, spool |-> "none"]

\* The sizes with that of a path's file noted.
Noted(path, file) ==
  [p \in DOMAIN sizes \union {path} |-> IF p = path THEN file ELSE sizes[p]]

Converting(t) == pc[t] \notin {"idle", "lookup"}

Goto(t, label) == pc' = [pc EXCEPT ![t] = label]

Return(t, how) ==
  /\ Goto(t, "idle")
  /\ result' = [result EXCEPT ![t] = how]

\* Mutant: an error passes _open by.
RaiseLeavesSpool(t) == Return(t, "raised") /\ UNCHANGED job

(* The except clause of _open.                                             *)
Raise(t) ==
  /\ Return(t, "raised")
  /\ job' = [job EXCEPT ![t] =
       [NoJob EXCEPT !.op = job[t].op, !.path = job[t].path, !.spool = "closed"]]

-----------------------------------------------------------------------------
Init ==
  /\ source = 1 /\ sourceSchema = 1 /\ latest = 1
  /\ config \in Configs
  /\ provenance = [provided |-> NoSchema, requested |-> NoSchema]
  /\ sizes = [p \in {} |-> NoFile]
  /\ pc = [t \in Threads |-> "idle"]
  /\ job = [t \in Threads |-> NoJob]
  /\ result = [t \in Threads |-> "none"]
  /\ calls = 0
  /\ began = [t \in Threads |-> [source |-> 1, latest |-> 1]]
  /\ completed = {}
  /\ overlapped = FALSE

ReplaceSource ==
  /\ source < MaxVersion
  /\ source' = source + 1
  /\ sourceSchema' \in Versions
  /\ UNCHANGED <<latest, config, provenance, sizes, pc, job, result, history>>

RegisterSchema ==
  /\ latest < MaxVersion
  /\ latest' = latest + 1
  /\ UNCHANGED <<source, sourceSchema, config, provenance, sizes, pc, job, result, history>>

\* Mutant: the result of the call before is left in place.
CallKeepsResult(t) ==
  /\ pc[t] = "idle" /\ calls < MaxCalls
  /\ \E p \in Paths : job' = [job EXCEPT ![t] = [NoJob EXCEPT !.path = p]]
  /\ Goto(t, "open")
  /\ calls' = calls + 1
  /\ began' = [began EXCEPT ![t] = [source |-> source, latest |-> latest]]
  /\ UNCHANGED <<world, config, provenance, sizes, result, completed, overlapped>>

(* open(path) or info(path); ls() is info().                               *)
Call(t) ==
  /\ pc[t] = "idle" /\ calls < MaxCalls
  /\ \E op \in {"open", "info"}, p \in Paths :
       /\ job' = [job EXCEPT ![t] = [NoJob EXCEPT !.op = op, !.path = p]]
       /\ Goto(t, IF op = "info" THEN "lookup" ELSE "open")
  /\ result' = [result EXCEPT ![t] = "none"]
  /\ calls' = calls + 1
  /\ began' = [began EXCEPT ![t] = [source |-> source, latest |-> latest]]
  /\ UNCHANGED <<world, config, provenance, sizes, completed, overlapped>>

(* info() looks for a size it knows, and converts if there is none.        *)
InfoLookup(t) ==
  /\ pc[t] = "lookup"
  /\ IF job[t].path \in DOMAIN sizes
       THEN /\ job' = [job EXCEPT ![t].file = sizes[job[t].path]]
            /\ Return(t, "ok")
       ELSE Goto(t, "open") /\ UNCHANGED <<job, result>>
  /\ UNCHANGED <<world, config, provenance, sizes, history>>

(* _open makes the spooled file before it converts into it.                *)
OpenSpool(t) ==
  /\ pc[t] = "open"
  /\ job' = [job EXCEPT ![t].spool = "open"]
  /\ Goto(t, "provided")
  /\ overlapped' = (overlapped \/ \E u \in Threads \ {t} : Converting(u) /\ pc[u] # "open")
  /\ UNCHANGED <<world, config, provenance, sizes, result, calls, began, completed>>

Resolve(reference) ==
  CASE reference = "none"   -> NoSchema
    [] reference = "empty"  -> EmptySchema
    [] reference = "inline" -> 1
    [] reference = "latest" -> latest

ResolveProvided(t) ==
  /\ pc[t] = "provided"
  /\ job' = [job EXCEPT ![t].provided = Resolve(config.provided)]
  /\ Goto(t, "requested")
  /\ UNCHANGED <<world, config, provenance, sizes, result, history>>

\* Mutant: a schema that this object has resolved before is not resolved again.
ResolveRequestedOnce(t) ==
  /\ pc[t] = "requested"
  /\ job' = [job EXCEPT ![t].requested =
       IF provenance.requested # NoSchema THEN provenance.requested
                                          ELSE Resolve(config.requested)]
  /\ Goto(t, "provenance")
  /\ UNCHANGED <<world, config, provenance, sizes, result, history>>

ResolveRequested(t) ==
  /\ pc[t] = "requested"
  /\ job' = [job EXCEPT ![t].requested = Resolve(config.requested)]
  /\ Goto(t, "provenance")
  /\ UNCHANGED <<world, config, provenance, sizes, result, history>>

(* No format for the path or the source, or no answer from the registry.   *)
ResolveRaises(t) ==
  /\ \/ pc[t] = "provided"
     \/ pc[t] = "requested" /\ config.requested = "latest"
  /\ Raise(t)
  /\ UNCHANGED <<world, config, provenance, sizes, history>>

SetProvided(t) ==
  /\ pc[t] = "provenance"
  /\ provenance' = [provenance EXCEPT !.provided = job[t].provided]
  /\ Goto(t, "provenance2")
  /\ UNCHANGED <<world, config, sizes, job, result, history>>

\* Mutant: the provenance that is noted first stays.
SetRequestedFirst(t) ==
  /\ pc[t] = "provenance2"
  /\ provenance' = IF provenance.requested = NoSchema
                     THEN [provenance EXCEPT !.requested = job[t].requested] ELSE provenance
  /\ Goto(t, "source")
  /\ UNCHANGED <<world, config, sizes, job, result, history>>

SetRequested(t) ==
  /\ pc[t] = "provenance2"
  /\ provenance' = [provenance EXCEPT !.requested = job[t].requested]
  /\ Goto(t, "source")
  /\ UNCHANGED <<world, config, sizes, job, result, history>>

\* The schema the source is decoded with: a format without one is told.
Decoded(t) == IF config.embedded THEN sourceSchema ELSE job[t].provided

\* `requested_schema or provided_schema`: a schema without fields is false.
Wanted(t) ==
  IF job[t].requested \in {NoSchema, EmptySchema} THEN Decoded(t) ELSE job[t].requested

\* A source that can be decoded, has the provided schema and can be planned.
Acceptable(t) ==
  /\ Decoded(t) # NoSchema
  /\ job[t].provided \in {NoSchema, Decoded(t)}
  /\ config.exact => Wanted(t) = Decoded(t)

OpenSource(t) ==
  /\ pc[t] = "source"
  /\ Acceptable(t)
  /\ job' = [job EXCEPT ![t].file =
       [path |-> job[t].path, source |-> source, provided |-> Decoded(t), requested |-> Wanted(t)]]
  /\ Goto(t, "encode")
  /\ UNCHANGED <<world, config, provenance, sizes, result, history>>

(* The source cannot be opened or decoded, or its schema is refused; even  *)
(* if it is accepted, reading it may raise.                                *)
OpenSourceRaises(t) ==
  /\ pc[t] = "source"
  /\ Raise(t)
  /\ UNCHANGED <<world, config, provenance, sizes, history>>

Encode(t) ==
  /\ pc[t] = "encode"
  /\ Goto(t, "size")
  /\ completed' = completed \union {job[t].file}
  /\ UNCHANGED <<world, config, provenance, sizes, job, result, calls, began, overlapped>>

\* Mutant: the size is noted however the conversion ended.
EncodeRaisesNotingSize(t) ==
  /\ pc[t] = "encode"
  /\ Raise(t)
  /\ sizes' = Noted(job[t].path, job[t].file)
  /\ UNCHANGED <<world, config, provenance, history>>

(* A batch cannot be converted, or the spool not written.                  *)
EncodeRaises(t) ==
  /\ pc[t] = "encode"
  /\ Raise(t)
  /\ UNCHANGED <<world, config, provenance, sizes, history>>

\* Mutant: the converted sizes are kept by the name of the source.
NoteSizeOfSource(t) ==
  /\ pc[t] = "size"
  /\ sizes' = [p \in Paths |-> job[t].file]
  /\ Goto(t, "return")
  /\ UNCHANGED <<world, config, provenance, job, result, history>>

NoteSize(t) ==
  /\ pc[t] = "size"
  /\ sizes' = Noted(job[t].path, job[t].file)
  /\ Goto(t, "return")
  /\ UNCHANGED <<world, config, provenance, job, result, history>>

(* open() returns its file; info() closes it and returns its size.         *)
Finish(t) ==
  /\ pc[t] = "return"
  /\ Return(t, "ok")
  /\ job' = [job EXCEPT ![t].spool = IF job[t].op = "info" THEN "closed" ELSE @]
  /\ UNCHANGED <<world, config, provenance, sizes, history>>

Next ==
  \/ ReplaceSource \/ RegisterSchema
  \/ \E t \in Threads :
       \/ Call(t) \/ InfoLookup(t) \/ OpenSpool(t)
       \/ ResolveProvided(t) \/ ResolveRequested(t) \/ ResolveRaises(t)
       \/ SetProvided(t) \/ SetRequested(t)
       \/ OpenSource(t) \/ OpenSourceRaises(t)
       \/ Encode(t) \/ EncodeRaises(t) \/ NoteSize(t) \/ Finish(t)

Spec == Init /\ [][Next]_vars

-----------------------------------------------------------------------------
Files == [path : Paths, source : Versions, provided : Schemas, requested : Schemas]

TypeOK ==
  /\ source \in Versions /\ sourceSchema \in Versions /\ latest \in Versions
  /\ config \in Configs
  /\ provenance.provided \in Schemas \union {NoSchema}
  /\ provenance.requested \in Schemas \union {NoSchema}
  /\ DOMAIN sizes \subseteq Paths /\ \A p \in DOMAIN sizes : sizes[p] \in Files
  /\ completed \subseteq Files /\ calls \in 0 .. MaxCalls
  /\ \A t \in Threads :
       /\ result[t] \in {"none", "ok", "raised"}
       /\ pc[t] # "idle" => result[t] = "none"
       /\ pc[t] \in {"encode", "size", "return"} => job[t].file \in Files

(* Every size the object remembers is that of a file that was converted to *)
(* the end, for that very path, and never of one that failed half way.     *)
SizesAreOfWholeFiles ==
  \A p \in DOMAIN sizes : sizes[p] \in completed /\ sizes[p].path = p

(* A spooled file stays open only in the hands of who opened it: a         *)
(* conversion that raises, at whatever step, and info() close theirs.      *)
SpoolsAreClosed == \A t \in Threads :
  pc[t] = "idle" /\ job[t].spool = "open" => job[t].op = "open" /\ result[t] = "ok"

(* Whatever other threads do, a file that open() returns was made from the *)
(* source and with the schema versions as they were at some moment of the  *)
(* call: nothing the object keeps makes it older.                          *)
FileIsCurrent == \A t \in Threads :
  result[t] = "ok" /\ job[t].op = "open" =>
    /\ job[t].file.path = job[t].path
    /\ job[t].file.source \in began[t].source .. source
    /\ config.requested = "latest" => job[t].file.requested \in began[t].latest .. latest

(* While the source and the schemas do not change, info() tells the size   *)
(* of the very file that open() returns for the path.                      *)
InfoAgreesWithOpen ==
  source = 1 /\ latest = 1 =>
    \A t, u \in Threads :
      /\ result[t] = "ok" /\ result[u] = "ok"
      /\ job[t].op = "info" /\ job[u].op = "open" /\ job[t].path = job[u].path
      => job[t].file = job[u].file

(* Unless conversions overlap, the provenance describes the schemas of the *)
(* conversion that ran last, once it has opened its source.                *)
ProvenanceOfConversion ==
  ~overlapped => \A t \in Threads :
    pc[t] \in {"source", "encode", "size", "return"} =>
      provenance = [provided |-> job[t].provided, requested |-> job[t].requested]

(* "requested_schema: output pyarrow.Schema [...] Defaults to the source   *)
(* schema": the file has the schema that was asked for, if one was.        *)
OutputAsRequested == \A t \in Threads :
  result[t] = "ok" /\ job[t].op = "open" /\ config.requested # "none" =>
    job[t].file.requested = job[t].requested
=============================================================================
