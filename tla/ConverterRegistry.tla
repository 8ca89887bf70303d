------------------------- MODULE ConverterRegistry -------------------------
(***************************************************************************)
(* The converter registry: a dictionary of converters by route, shared by  *)
(* the threads of a process without a lock, that loads the converters of   *)
(* installed packages (its entry points) when it is first asked for one.   *)
(*                                                                         *)
(* A step is what one thread does without another getting in between: one  *)
(* operation on the dictionary or on the flag, or one entry point loaded.  *)
(***************************************************************************)
EXTENDS Integers, Sequences

CONSTANTS
  Threads,
  Routes,           (* pairs of a source and a target type, normalised     *)
  MaxEntryPoints,   (* bound: entry points installed                       *)
  MaxCalls          (* bound: calls of one thread                          *)

ASSUME RegistryAssumption == MaxEntryPoints \in Nat /\ MaxCalls \in Nat

VARIABLES
  entryPoints,      (* the installed entry points, sorted by name          *)
  discover,         (* discover_entry_points                               *)
  converters,       (* _converters: routes to converters                   *)
  loaded,           (* _entry_points_loaded                                *)
  (* Of each thread's current call. *)
  request,
  pc,
  at,               (* entry points the call has loaded, then stored       *)
  result,           (* of the last call                                    *)
  (* History variables. *)
  calls,
  builtin,          (* routes registered before any thread began           *)
  given,            (* routes that register() has stored                   *)
  before            (* routes that were there when the call began          *)

vars == <<entryPoints, discover, converters, loaded, request, pc, at, result,
          calls, builtin, given, before>>
local == <<request, at, calls, before>>
installed == <<entryPoints, discover, builtin>>

\* What an entry point loads: a converter, something else, or a converter if
\* the import does not raise.
EntryPoints == [loads : {"converter", "other", "flaky"}, route : Routes]

Requests ==
  [op : {"get"}, route : Routes] \union {[op |-> "load"]}
    \union [op : {"register"}, route : Routes, replace : BOOLEAN]

\* Where a converter came from: an entry point, or a call of register().
FromEntryPoint(i) == [origin |-> "entry_point", n |-> i]
Registered        == [origin |-> "registered", n |-> 0]

\* The registry with a converter assigned to a route.
Stored(route, converter) ==
  [r \in DOMAIN converters \union {route} |-> IF r = route THEN converter ELSE converters[r]]

EntryRoutes == {entryPoints[i].route : i \in DOMAIN entryPoints}

Return(t, how) ==
  /\ pc' = [pc EXCEPT ![t] = "idle"]
  /\ result' = [result EXCEPT ![t] = how]

Goto(t, label) ==
  /\ pc' = [pc EXCEPT ![t] = label]
  /\ UNCHANGED result

-----------------------------------------------------------------------------
Init ==
  /\ entryPoints \in UNION {[1 .. n -> EntryPoints] : n \in 0 .. MaxEntryPoints}
  /\ discover \in BOOLEAN
  /\ builtin \in SUBSET Routes
  /\ given = builtin
  /\ converters = [r \in builtin |-> Registered]
  /\ loaded = FALSE
  /\ request = [t \in Threads |-> [op |-> "load"]]
  /\ pc = [t \in Threads |-> "idle"]
  /\ at = [t \in Threads |-> 0]
  /\ result = [t \in Threads |-> "none"]
  /\ calls = [t \in Threads |-> 0]
  /\ before = [t \in Threads |-> {}]

\* Mutant: the result of the call before is left in place.
CallKeepsResult(t) ==
  /\ pc[t] = "idle" /\ calls[t] < MaxCalls
  /\ calls' = [calls EXCEPT ![t] = @ + 1]
  /\ \E r \in Requests :
       /\ request' = [request EXCEPT ![t] = r]
       /\ pc' = [pc EXCEPT ![t] = IF r.op = "register" THEN "check" ELSE "flag"]
  /\ before' = [before EXCEPT ![t] = DOMAIN converters]
  /\ UNCHANGED <<installed, converters, loaded, at, result, given>>

(* A thread calls get(), load_entry_points() or register().                *)
Call(t) ==
  /\ pc[t] = "idle" /\ calls[t] < MaxCalls
  /\ calls' = [calls EXCEPT ![t] = @ + 1]
  /\ \E r \in Requests :
       /\ request' = [request EXCEPT ![t] = r]
       /\ pc' = [pc EXCEPT ![t] = IF r.op = "register" THEN "check" ELSE "flag"]
  /\ result' = [result EXCEPT ![t] = "none"]
  /\ before' = [before EXCEPT ![t] = DOMAIN converters]
  /\ UNCHANGED <<installed, converters, loaded, at, given>>

(* register(): the test and the assignment are two steps.                  *)
RegisterCheck(t) ==
  /\ pc[t] = "check"
  /\ IF request[t].route \in DOMAIN converters /\ ~request[t].replace
       THEN Return(t, "duplicate")
       ELSE Goto(t, "store")
  /\ UNCHANGED <<installed, converters, loaded, local, given>>

RegisterStore(t) ==
  /\ pc[t] = "store"
  /\ converters' = Stored(request[t].route, Registered)
  /\ given' = given \union {request[t].route}
  /\ Return(t, "ok")
  /\ UNCHANGED <<installed, loaded, local>>

\* What follows load_entry_points() in get().
AfterLoad(t) ==
  IF request[t].op = "get" THEN Goto(t, "lookup") ELSE Return(t, "ok")

\* Mutant: a load that is under way counts as done.
FlagTestUnderWay(t) ==
  /\ pc[t] = "flag"
  /\ IF loaded \/ ~discover \/ (\E u \in Threads : pc[u] \in {"discover", "update"})
       THEN AfterLoad(t) /\ UNCHANGED at
       ELSE Goto(t, "discover") /\ at' = [at EXCEPT ![t] = 0]
  /\ UNCHANGED <<installed, converters, loaded, request, calls, before, given>>

FlagTest(t) ==
  /\ pc[t] = "flag"
  /\ IF loaded \/ ~discover
       THEN AfterLoad(t) /\ UNCHANGED at
       ELSE Goto(t, "discover") /\ at' = [at EXCEPT ![t] = 0]
  /\ UNCHANGED <<installed, converters, loaded, request, calls, before, given>>

ToLoad(t) == entryPoints[at[t] + 1]

\* Mutant: each converter is stored as soon as it is loaded.
DiscoverStores(t) ==
  /\ pc[t] = "discover" /\ at[t] < Len(entryPoints)
  /\ ToLoad(t).loads # "other"
  /\ converters' = Stored(ToLoad(t).route, FromEntryPoint(at[t] + 1))
  /\ at' = [at EXCEPT ![t] = @ + 1]
  /\ UNCHANGED <<installed, loaded, request, pc, result, calls, before, given>>

Discover(t) ==
  /\ pc[t] = "discover" /\ at[t] < Len(entryPoints)
  /\ ToLoad(t).loads # "other"
  /\ at' = [at EXCEPT ![t] = @ + 1]
  /\ UNCHANGED <<installed, converters, loaded, request, pc, result, calls, before, given>>

(* An import raises, or gives something that is not a Converter.           *)
DiscoverRaises(t) ==
  /\ pc[t] = "discover" /\ at[t] < Len(entryPoints)
  /\ ToLoad(t).loads # "converter"
  /\ Return(t, "failed")
  /\ UNCHANGED <<installed, converters, loaded, local, given>>

EntriesClash == \E i, j \in DOMAIN entryPoints :
  i # j /\ entryPoints[i].route = entryPoints[j].route

\* Mutant: what is discovered is compared with the registry only.
SnapshotOfRegistry(t) ==
  /\ pc[t] = "discover" /\ at[t] = Len(entryPoints)
  /\ IF EntryRoutes \intersect DOMAIN converters # {}
       THEN Return(t, "duplicate") /\ UNCHANGED at
       ELSE Goto(t, "update") /\ at' = [at EXCEPT ![t] = 0]
  /\ UNCHANGED <<installed, converters, loaded, request, calls, before, given>>

(* The keys of the registry are copied; what is discovered is compared     *)
(* with the copy and with itself.                                          *)
Snapshot(t) ==
  /\ pc[t] = "discover" /\ at[t] = Len(entryPoints)
  /\ IF EntriesClash \/ EntryRoutes \intersect DOMAIN converters # {}
       THEN Return(t, "duplicate") /\ UNCHANGED at
       ELSE Goto(t, "update") /\ at' = [at EXCEPT ![t] = 0]
  /\ UNCHANGED <<installed, converters, loaded, request, calls, before, given>>

(* dict.update draws its items from a generator, one by one.               *)
Update(t) ==
  /\ pc[t] = "update" /\ at[t] < Len(entryPoints)
  /\ converters' = Stored(ToLoad(t).route, FromEntryPoint(at[t] + 1))
  /\ at' = [at EXCEPT ![t] = @ + 1]
  /\ UNCHANGED <<installed, loaded, request, pc, result, calls, before, given>>

\* Mutant: the flag is set before the dictionary is updated.
SetFlagFirst(t) ==
  /\ pc[t] = "update"
  /\ loaded' = TRUE
  /\ IF at[t] = Len(entryPoints) THEN AfterLoad(t) ELSE UNCHANGED <<pc, result>>
  /\ UNCHANGED <<installed, converters, local, given>>

SetFlag(t) ==
  /\ pc[t] = "update" /\ at[t] = Len(entryPoints)
  /\ loaded' = TRUE
  /\ AfterLoad(t)
  /\ UNCHANGED <<installed, converters, local, given>>

Lookup(t) ==
  /\ pc[t] = "lookup"
  /\ Return(t, IF request[t].route \in DOMAIN converters THEN "ok" ELSE "missing")
  /\ UNCHANGED <<installed, converters, loaded, local, given>>

Next == \E t \in Threads :
  \/ Call(t)
  \/ RegisterCheck(t) \/ RegisterStore(t)
  \/ FlagTest(t) \/ Discover(t) \/ DiscoverRaises(t) \/ Snapshot(t)
  \/ Update(t) \/ SetFlag(t) \/ Lookup(t)

Spec == Init /\ [][Next]_vars

-----------------------------------------------------------------------------
TypeOK ==
  /\ entryPoints \in Seq(EntryPoints) /\ discover \in BOOLEAN
  /\ DOMAIN converters \subseteq Routes
  /\ \A r \in DOMAIN converters :
       converters[r] \in {Registered} \union {FromEntryPoint(i) : i \in DOMAIN entryPoints}
  /\ loaded \in BOOLEAN
  /\ \A t \in Threads :
       /\ request[t] \in Requests
       /\ pc[t] \in {"idle", "check", "store", "flag", "discover", "update", "lookup"}
       /\ at[t] \in 0 .. Len(entryPoints)
       /\ result[t] \in {"none", "ok", "missing", "duplicate", "failed"}
       /\ pc[t] # "idle" => result[t] = "none"
       /\ calls[t] \in 0 .. MaxCalls
       /\ before[t] \subseteq Routes
  /\ builtin \subseteq given /\ given \subseteq DOMAIN converters

(* Once the flag is set, which makes every get() skip the loading, the     *)
(* registry serves the route of every entry point.                         *)
LoadedServes == loaded => EntryRoutes \subseteq DOMAIN converters

(* A load that raises, at whichever entry point, leaves none of its        *)
(* converters behind: one is in the registry only when all were loaded.    *)
AllOrNothing ==
  (\E r \in DOMAIN converters : converters[r].origin = "entry_point")
    => loaded \/ \E t \in Threads : pc[t] = "update"

(* get() says that a route is missing only if nobody registered it before  *)
(* the call and no entry point provides it, whoever else is loading.       *)
MissingIsMissing == \A t \in Threads :
  result[t] = "missing" =>
    request[t].route \notin before[t] \union (IF discover THEN EntryRoutes ELSE {})

(* Entry points that clash with one another or with what was registered    *)
(* before never get in, however the loads overlap: every load raises.      *)
ClashNeverLoads ==
  EntriesClash \/ EntryRoutes \intersect builtin # {} =>
    /\ ~loaded
    /\ \A r \in DOMAIN converters : converters[r] = Registered

(* "Loads entry points and returns a route; missing routes raise           *)
(* ValueError": that a route is a duplicate is reported to a caller of     *)
(* get() only if two converters for it were really given.                  *)
DuplicateIsReal == \A t \in Threads :
  request[t].op = "get" /\ result[t] = "duplicate" =>
    EntriesClash \/ EntryRoutes \intersect given # {}
=============================================================================
