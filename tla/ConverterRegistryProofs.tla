----------------------- MODULE ConverterRegistryProofs -----------------------
(***************************************************************************)
(* For any number of threads, any entry points and any routes: loading the *)
(* entry points is all or nothing, what is loaded stays, and get() finds   *)
(* what was there for it to find.                                          *)
(***************************************************************************)
EXTENDS ConverterRegistry, TLAPS

\* Entry points that a load can ever store.
Loadable == ~EntriesClash /\ EntryRoutes \intersect builtin = {}

FromEntry(r) == converters[r].origin = "entry_point"

(* The variables of the threads are functions of the threads.              *)
ThreadVariables ==
  /\ request \in [Threads -> Requests]
  /\ pc \in [Threads -> {"idle", "check", "store", "flag", "discover", "update", "lookup"}]
  /\ at \in [Threads -> 0 .. Len(entryPoints)]
  /\ result \in [Threads -> {"none", "ok", "missing", "duplicate", "failed"}]
  /\ calls \in [Threads -> 0 .. MaxCalls]
  /\ before \in [Threads -> SUBSET Routes]

(* What the registry holds of entry points was loaded whole, or is being   *)
(* stored by a thread that has loaded them all.                            *)
RegistryInv ==
  /\ loaded => Loadable /\ EntryRoutes \subseteq DOMAIN converters
  /\ (\E r \in DOMAIN converters : FromEntry(r)) =>
       Loadable /\ (loaded \/ \E t \in Threads : pc[t] = "update")

(* What a thread knows of the registry where it is in its call.            *)
ThreadInv(t) ==
  /\ pc[t] \in {"check", "store"} => request[t].op = "register"
  /\ pc[t] = "update" =>
       /\ Loadable
       /\ \A i \in 1 .. at[t] : entryPoints[i].route \in DOMAIN converters
  /\ pc[t] = "lookup" => request[t].op = "get" /\ (loaded \/ ~discover)
  /\ before[t] \subseteq DOMAIN converters
  /\ result[t] = "missing" =>
       request[t].route \notin before[t] \union (IF discover THEN EntryRoutes ELSE {})

IInv ==
  /\ TypeOK
  /\ ThreadVariables
  /\ RegistryInv
  /\ \A t \in Threads : ThreadInv(t)

-----------------------------------------------------------------------------
(* The entry point a thread stores next is one of those installed.         *)
LEMMA ToLoadInstalled ==
  ASSUME IInv, NEW t \in Threads, at[t] < Len(entryPoints)
  PROVE  /\ at[t] + 1 \in DOMAIN entryPoints
         /\ ToLoad(t).route \in EntryRoutes
         /\ ToLoad(t).route \in Routes
<1>1. /\ entryPoints \in Seq(EntryPoints) /\ at[t] \in Nat
      /\ Len(entryPoints) \in Nat /\ DOMAIN entryPoints = 1 .. Len(entryPoints)
  BY DEF IInv, TypeOK
<1>2. at[t] + 1 \in DOMAIN entryPoints
  BY <1>1
<1>3. entryPoints[at[t] + 1] \in EntryPoints
  BY <1>1, <1>2
<1> QED
  BY <1>2, <1>3 DEF ToLoad, EntryRoutes, EntryPoints

(* A thread that stands still keeps what it knows: the dictionary only     *)
(* grows and the flag stays set.                                           *)
LEMMA Others ==
  ASSUME IInv, UNCHANGED installed,
         DOMAIN converters \subseteq DOMAIN converters', loaded => loaded',
         NEW u \in Threads,
         request'[u] = request[u], pc'[u] = pc[u], at'[u] = at[u],
         result'[u] = result[u], before'[u] = before[u]
  PROVE  ThreadInv(u)'
<1>1. ThreadInv(u)
  BY DEF IInv
<1> QED
  BY <1>1 DEF ThreadInv, installed, Loadable, EntriesClash, EntryRoutes

-----------------------------------------------------------------------------
(* Nothing is loaded and nobody has called yet.                            *)
LEMMA InitIInv == Init => IInv
<1> SUFFICES ASSUME Init PROVE IInv
  OBVIOUS
<1>1. entryPoints \in Seq(EntryPoints)
  <2>1. PICK n \in 0 .. MaxEntryPoints : entryPoints \in [1 .. n -> EntryPoints]
    BY DEF Init
  <2> QED
    BY <2>1, RegistryAssumption
<1>2. ThreadVariables
  <2>1. Len(entryPoints) \in Nat
    BY <1>1
  <2>2. [op |-> "load"] \in Requests
    BY DEF Requests
  <2>3. request \in [Threads -> Requests]
    BY <2>2 DEF Init
  <2> QED
    BY <2>1, <2>3, RegistryAssumption DEF Init, ThreadVariables
<1>3. TypeOK
  <2>1. \A t \in Threads : pc[t] # "idle" => result[t] = "none"
    BY DEF Init
  <2>2. DOMAIN converters = builtin /\ \A r \in builtin : converters[r] = Registered
    BY DEF Init
  <2> QED
    BY <1>1, <1>2, <2>1, <2>2 DEF Init, TypeOK, ThreadVariables
<1>4. RegistryInv
  BY DEF Init, RegistryInv, FromEntry, Registered
<1>5. \A t \in Threads : ThreadInv(t)
  BY DEF Init, ThreadInv
<1> QED
  BY <1>1, <1>2, <1>3, <1>4, <1>5 DEF IInv

-----------------------------------------------------------------------------
\* The dictionary as TypeOK has it.
Dictionary ==
  /\ DOMAIN converters \subseteq Routes
  /\ \A r \in DOMAIN converters :
       converters[r] \in {Registered} \union {FromEntryPoint(i) : i \in DOMAIN entryPoints}
  /\ builtin \subseteq given /\ given \subseteq DOMAIN converters

(* What a step has to show to keep TypeOK.                                 *)
LEMMA StepTypes ==
  ASSUME IInv, UNCHANGED installed, loaded' \in BOOLEAN, ThreadVariables', Dictionary',
         \A u \in Threads : pc'[u] # "idle" => result'[u] = "none"
  PROVE  TypeOK'
  BY DEF IInv, TypeOK, ThreadVariables, Dictionary, installed, Registered, FromEntryPoint

(* A step of one thread that leaves the registry alone has only to show    *)
(* what that thread then knows; and if it was storing, that no one else    *)
(* misses it.                                                              *)
LEMMA QuietStep ==
  ASSUME IInv, UNCHANGED <<installed, converters, loaded, given>>, ThreadVariables',
         NEW t \in Threads,
         \A u \in Threads \ {t} : /\ request'[u] = request[u] /\ pc'[u] = pc[u]
                                  /\ at'[u] = at[u] /\ result'[u] = result[u]
                                  /\ before'[u] = before[u],
         pc[t] # "update", pc'[t] # "idle" => result'[t] = "none",
         ThreadInv(t)'
  PROVE  IInv'
<1>1. Dictionary'
  BY DEF IInv, TypeOK, Dictionary, installed, Registered, FromEntryPoint
<1>2. TypeOK'
  <2>1. \A u \in Threads \ {t} : pc'[u] # "idle" => result'[u] = "none"
    BY DEF IInv, TypeOK
  <2> QED
    BY <1>1, <2>1, StepTypes DEF IInv, TypeOK
<1>3. RegistryInv'
  BY DEF IInv, RegistryInv, FromEntry, Loadable, EntriesClash, EntryRoutes, installed
<1>4. \A u \in Threads \ {t} : ThreadInv(u)'
  BY Others
<1> QED
  BY <1>2, <1>3, <1>4 DEF IInv

(* A call begins with what is in the registry.                             *)
LEMMA CallIInv ==
  ASSUME IInv, NEW t \in Threads, Call(t)
  PROVE  IInv'
<1>1. PICK r \in Requests :
        /\ request' = [request EXCEPT ![t] = r]
        /\ pc' = [pc EXCEPT ![t] = IF r.op = "register" THEN "check" ELSE "flag"]
  BY DEF Call
<1>2. ThreadVariables'
  <2>1. request' \in [Threads -> Requests] /\ at' \in [Threads -> 0 .. Len(entryPoints)']
    BY <1>1 DEF IInv, ThreadVariables, Call, installed
  <2>2. pc' \in [Threads -> {"idle", "check", "store", "flag", "discover", "update", "lookup"}]
    BY <1>1 DEF IInv, ThreadVariables
  <2>3. result' \in [Threads -> {"none", "ok", "missing", "duplicate", "failed"}]
    BY DEF IInv, ThreadVariables, Call
  <2>4. calls' \in [Threads -> 0 .. MaxCalls]
    <3>1. calls[t] \in 0 .. MaxCalls /\ calls[t] < MaxCalls
      BY DEF IInv, ThreadVariables, Call
    <3>2. calls[t] + 1 \in 0 .. MaxCalls
      BY <3>1, RegistryAssumption
    <3> QED
      BY <3>2 DEF IInv, ThreadVariables, Call
  <2>5. before' \in [Threads -> SUBSET Routes]
    BY DEF IInv, TypeOK, ThreadVariables, Call
  <2> QED
    BY <2>1, <2>2, <2>3, <2>4, <2>5 DEF ThreadVariables
<1>3. ThreadInv(t)'
  <2>1. /\ request'[t] = r
        /\ pc'[t] = IF r.op = "register" THEN "check" ELSE "flag"
        /\ result'[t] = "none" /\ before'[t] = DOMAIN converters
        /\ converters' = converters
    BY <1>1 DEF IInv, ThreadVariables, Call
  <2> QED
    BY <2>1 DEF ThreadInv
<1>4. pc[t] # "update" /\ (pc'[t] # "idle" => result'[t] = "none")
  BY DEF Call, IInv, ThreadVariables
<1>5. \A u \in Threads \ {t} : /\ request'[u] = request[u] /\ pc'[u] = pc[u]
                               /\ at'[u] = at[u] /\ result'[u] = result[u]
                               /\ before'[u] = before[u]
  BY <1>1 DEF Call, IInv, ThreadVariables
<1> QED
  BY <1>2, <1>3, <1>4, <1>5, QuietStep DEF Call

\* What Return and Goto do to one thread.
Moves(t) ==
  /\ pc' \in [Threads -> {"idle", "check", "store", "flag", "discover", "update", "lookup"}]
  /\ result' \in [Threads -> {"none", "ok", "missing", "duplicate", "failed"}]
  /\ \A u \in Threads \ {t} : pc'[u] = pc[u] /\ result'[u] = result[u]

(* A call ends with its outcome.                                           *)
LEMMA Returns ==
  ASSUME IInv, NEW t \in Threads, NEW how, Return(t, how),
         how \in {"none", "ok", "missing", "duplicate", "failed"}
  PROVE  Moves(t) /\ pc'[t] = "idle" /\ result'[t] = how
  BY DEF IInv, ThreadVariables, Return, Moves

(* A call goes on, and has no outcome as yet.                              *)
LEMMA Goes ==
  ASSUME IInv, NEW t \in Threads, NEW label, Goto(t, label), pc[t] # "idle",
         label \in {"store", "flag", "discover", "update", "lookup"}
  PROVE  Moves(t) /\ pc'[t] = label /\ result'[t] = "none"
  BY DEF IInv, TypeOK, ThreadVariables, Goto, Moves

(* After load_entry_points() get() looks its route up.                     *)
LEMMA AfterLoads ==
  ASSUME IInv, NEW t \in Threads, AfterLoad(t), pc[t] # "idle"
  PROVE  /\ Moves(t)
         /\ \/ pc'[t] = "lookup" /\ result'[t] = "none" /\ request[t].op = "get"
            \/ pc'[t] = "idle" /\ result'[t] = "ok"
  BY Returns, Goes DEF AfterLoad

(* register() finds its route taken, or goes on to store it.               *)
LEMMA RegisterCheckIInv ==
  ASSUME IInv, NEW t \in Threads, RegisterCheck(t)
  PROVE  IInv'
<1>1. /\ Moves(t)
      /\ \/ pc'[t] = "idle" /\ result'[t] = "duplicate"
         \/ pc'[t] = "store" /\ result'[t] = "none"
  BY Returns, Goes DEF RegisterCheck
<1>2. ThreadVariables'
  BY <1>1 DEF IInv, ThreadVariables, Moves, RegisterCheck, local, installed
<1>3. ThreadInv(t)'
  BY <1>1 DEF IInv, ThreadInv, RegisterCheck, local, installed
<1> QED
  BY <1>1, <1>2, <1>3, QuietStep DEF RegisterCheck, local, Moves

(* The flag sends a call on, or has it load the entry points.              *)
LEMMA FlagTestIInv ==
  ASSUME IInv, NEW t \in Threads, FlagTest(t)
  PROVE  IInv'
<1>1. /\ Moves(t)
      /\ \/ /\ pc'[t] = "lookup" /\ result'[t] = "none" /\ request[t].op = "get"
            /\ loaded \/ ~discover
         \/ pc'[t] = "idle" /\ result'[t] = "ok"
         \/ pc'[t] = "discover" /\ result'[t] = "none"
  BY AfterLoads, Goes DEF FlagTest
<1>2. at' \in [Threads -> 0 .. Len(entryPoints)] /\ \A u \in Threads \ {t} : at'[u] = at[u]
  <2>1. 0 \in 0 .. Len(entryPoints)
    BY DEF IInv, TypeOK
  <2>2. at' = at \/ at' = [at EXCEPT ![t] = 0]
    BY DEF FlagTest
  <2> QED
    BY <2>1, <2>2 DEF IInv, ThreadVariables
<1>3. ThreadVariables'
  BY <1>1, <1>2 DEF IInv, ThreadVariables, Moves, FlagTest, installed
<1>4. ThreadInv(t)'
  BY <1>1 DEF IInv, ThreadInv, FlagTest, installed, EntryRoutes
<1> QED
  BY <1>1, <1>2, <1>3, <1>4, QuietStep DEF FlagTest, Moves

(* An entry point is loaded, and nothing is stored.                        *)
LEMMA DiscoverIInv ==
  ASSUME IInv, NEW t \in Threads, Discover(t)
  PROVE  IInv'
<1>1. at' \in [Threads -> 0 .. Len(entryPoints)] /\ \A u \in Threads \ {t} : at'[u] = at[u]
  <2>1. Len(entryPoints) \in Nat /\ at[t] \in 0 .. Len(entryPoints)
    BY DEF IInv, TypeOK, ThreadVariables
  <2>2. at[t] + 1 \in 0 .. Len(entryPoints)
    BY <2>1 DEF Discover
  <2> QED
    BY <2>2 DEF IInv, ThreadVariables, Discover
<1>2. ThreadVariables'
  BY <1>1 DEF IInv, ThreadVariables, Discover, installed
<1>3. ThreadInv(t)'
  BY DEF IInv, ThreadInv, Discover, installed, EntryRoutes
<1>4. pc'[t] # "idle" => result'[t] = "none"
  BY DEF IInv, TypeOK, Discover
<1> QED
  BY <1>1, <1>2, <1>3, <1>4, QuietStep DEF Discover

(* An entry point that cannot be loaded ends the call.                     *)
LEMMA DiscoverRaisesIInv ==
  ASSUME IInv, NEW t \in Threads, DiscoverRaises(t)
  PROVE  IInv'
<1>1. Moves(t) /\ pc'[t] = "idle" /\ result'[t] = "failed"
  BY Returns DEF DiscoverRaises
<1>2. ThreadVariables'
  BY <1>1 DEF IInv, ThreadVariables, Moves, DiscoverRaises, local, installed
<1>3. ThreadInv(t)'
  BY <1>1 DEF IInv, ThreadInv, DiscoverRaises, local, installed
<1> QED
  BY <1>1, <1>2, <1>3, QuietStep DEF DiscoverRaises, local, Moves

(* Only entry points that clash with nothing go on to be stored.           *)
LEMMA SnapshotIInv ==
  ASSUME IInv, NEW t \in Threads, Snapshot(t)
  PROVE  IInv'
<1>1. /\ Moves(t)
      /\ \/ pc'[t] = "idle" /\ result'[t] = "duplicate"
         \/ /\ pc'[t] = "update" /\ result'[t] = "none" /\ at'[t] = 0
            /\ ~EntriesClash /\ EntryRoutes \intersect DOMAIN converters = {}
  BY Returns, Goes DEF Snapshot, IInv, ThreadVariables
<1>2. at' \in [Threads -> 0 .. Len(entryPoints)] /\ \A u \in Threads \ {t} : at'[u] = at[u]
  <2>1. 0 \in 0 .. Len(entryPoints)
    BY DEF IInv, TypeOK
  <2>2. at' = at \/ at' = [at EXCEPT ![t] = 0]
    BY DEF Snapshot
  <2> QED
    BY <2>1, <2>2 DEF IInv, ThreadVariables
<1>3. ThreadVariables'
  BY <1>1, <1>2 DEF IInv, ThreadVariables, Moves, Snapshot, installed
<1>4. ThreadInv(t)'
  <2>1. pc'[t] = "update" => Loadable'
    BY <1>1 DEF IInv, TypeOK, Loadable, EntriesClash, EntryRoutes, Snapshot, installed
  <2>2. ThreadInv(t)
    BY DEF IInv
  <2> QED
    BY <1>1, <2>1, <2>2 DEF ThreadInv, Snapshot, installed
<1> QED
  BY <1>1, <1>2, <1>3, <1>4, QuietStep DEF Snapshot, Moves

(* get() finds its route, or says that it is missing.                      *)
LEMMA LookupIInv ==
  ASSUME IInv, NEW t \in Threads, Lookup(t)
  PROVE  IInv'
<1>1. /\ Moves(t) /\ pc'[t] = "idle"
      /\ result'[t] = IF request[t].route \in DOMAIN converters THEN "ok" ELSE "missing"
  BY Returns DEF Lookup
<1>2. ThreadVariables'
  BY <1>1 DEF IInv, ThreadVariables, Moves, Lookup, local, installed
<1>3. ThreadInv(t)'
  <2>1. request[t].route \notin DOMAIN converters =>
          request[t].route \notin before[t] \union (IF discover THEN EntryRoutes ELSE {})
    BY DEF IInv, ThreadInv, RegistryInv, Lookup
  <2>2. ThreadInv(t)
    BY DEF IInv
  <2> QED
    BY <1>1, <2>1, <2>2 DEF ThreadInv, Lookup, local, installed, EntryRoutes
<1> QED
  BY <1>1, <1>2, <1>3, QuietStep DEF Lookup, local, Moves

(* register() stores its converter.  It may replace what an entry point    *)
(* gave, but takes no route away.                                          *)
LEMMA RegisterStoreIInv ==
  ASSUME IInv, NEW t \in Threads, RegisterStore(t)
  PROVE  IInv'
<1> DEFINE route == request[t].route
<1>1. Moves(t) /\ pc'[t] = "idle" /\ result'[t] = "ok"
  BY Returns DEF RegisterStore
<1>2. ThreadVariables'
  BY <1>1 DEF IInv, ThreadVariables, Moves, RegisterStore, local, installed
<1>3. route \in Routes
  BY DEF IInv, ThreadInv, ThreadVariables, Requests, RegisterStore
<1>4. /\ DOMAIN converters' = DOMAIN converters \union {route}
      /\ \A r \in DOMAIN converters' :
           converters'[r] = IF r = route THEN Registered ELSE converters[r]
  BY DEF RegisterStore, Stored
<1>5. Dictionary'
  BY <1>3, <1>4 DEF IInv, TypeOK, Dictionary, RegisterStore, installed, Registered, FromEntryPoint
<1>6. TypeOK'
  BY <1>1, <1>2, <1>5, StepTypes DEF IInv, TypeOK, RegisterStore, Moves
<1>7. RegistryInv'
  <2>1. \A r \in DOMAIN converters' : FromEntry(r)' => r \in DOMAIN converters /\ FromEntry(r)
    BY <1>4 DEF FromEntry, Registered
  <2>2. (\E u \in Threads : pc[u] = "update") => \E u \in Threads : pc'[u] = "update"
    BY <1>1 DEF Moves, RegisterStore
  <2> QED
    BY <1>4, <2>1, <2>2
    DEF IInv, RegistryInv, RegisterStore, Loadable, EntriesClash, EntryRoutes, installed
<1>8. \A u \in Threads \ {t} : ThreadInv(u)'
  BY <1>1, <1>4, Others DEF RegisterStore, local, Moves
<1>9. ThreadInv(t)'
  BY <1>1, <1>4 DEF IInv, ThreadInv, RegisterStore, local, installed
<1> QED
  BY <1>2, <1>6, <1>7, <1>8, <1>9 DEF IInv

(* Each entry point that a load has compared is stored, and counted.       *)
LEMMA UpdateIInv ==
  ASSUME IInv, NEW t \in Threads, Update(t)
  PROVE  IInv'
<1> DEFINE route == ToLoad(t).route
<1>1. /\ at[t] + 1 \in DOMAIN entryPoints /\ route \in Routes
      /\ route = entryPoints[at[t] + 1].route
  BY ToLoadInstalled DEF Update, ToLoad
<1>2. /\ at \in [Threads -> 0 .. Len(entryPoints)] /\ Len(entryPoints) \in Nat
      /\ DOMAIN entryPoints = 1 .. Len(entryPoints)
  BY DEF IInv, TypeOK, ThreadVariables
<1>3. /\ at' \in [Threads -> 0 .. Len(entryPoints)] /\ at'[t] = at[t] + 1
      /\ \A u \in Threads \ {t} : at'[u] = at[u]
  BY <1>1, <1>2 DEF Update
<1>4. ThreadVariables'
  BY <1>3 DEF IInv, ThreadVariables, Update, installed
<1>5. /\ DOMAIN converters' = DOMAIN converters \union {route}
      /\ \A r \in DOMAIN converters' :
           converters'[r] = IF r = route THEN FromEntryPoint(at[t] + 1) ELSE converters[r]
  BY DEF Update, Stored
<1>6. Dictionary'
  BY <1>1, <1>5 DEF IInv, TypeOK, Dictionary, Update, installed, Registered, FromEntryPoint
<1>7. TypeOK'
  BY <1>4, <1>6, StepTypes DEF IInv, TypeOK, Update
<1>8. ThreadInv(t) /\ Loadable
  BY DEF IInv, ThreadInv, Update
<1>9. RegistryInv'
  BY <1>5, <1>8 DEF IInv, RegistryInv, Update, Loadable, EntriesClash, EntryRoutes, installed
<1>10. \A u \in Threads \ {t} : ThreadInv(u)'
  BY <1>3, <1>5, Others DEF Update
<1>11. ThreadInv(t)'
  <2>1. \A i \in 1 .. at'[t] : entryPoints[i].route \in DOMAIN converters'
    <3> TAKE i \in 1 .. at'[t]
    <3>1. i \in 1 .. at[t] \/ i = at[t] + 1
      BY <1>2, <1>3
    <3> QED
      BY <1>1, <1>5, <1>8, <3>1 DEF ThreadInv, Update
  <2> QED
    BY <1>5, <1>8, <2>1
    DEF ThreadInv, Update, Loadable, EntriesClash, EntryRoutes, installed
<1> QED
  BY <1>4, <1>7, <1>9, <1>10, <1>11 DEF IInv

(* The flag is set when all are stored.                                    *)
LEMMA SetFlagIInv ==
  ASSUME IInv, NEW t \in Threads, SetFlag(t)
  PROVE  IInv'
<1>1. /\ Moves(t)
      /\ \/ pc'[t] = "lookup" /\ result'[t] = "none" /\ request[t].op = "get"
         \/ pc'[t] = "idle" /\ result'[t] = "ok"
  BY AfterLoads DEF SetFlag
<1>2. ThreadVariables'
  BY <1>1 DEF IInv, ThreadVariables, Moves, SetFlag, local, installed
<1>3. Dictionary'
  BY DEF IInv, TypeOK, Dictionary, SetFlag, installed, Registered, FromEntryPoint
<1>4. TypeOK'
  BY <1>1, <1>2, <1>3, StepTypes DEF IInv, TypeOK, SetFlag, Moves
<1>5. Loadable /\ EntryRoutes \subseteq DOMAIN converters
  BY DEF IInv, TypeOK, ThreadInv, SetFlag, EntryRoutes
<1>6. RegistryInv'
  BY <1>5 DEF RegistryInv, SetFlag, Loadable, EntriesClash, EntryRoutes, installed
<1>7. \A u \in Threads \ {t} : ThreadInv(u)'
  BY <1>1, Others DEF SetFlag, local, Moves
<1>8. ThreadInv(t)'
  BY <1>1 DEF IInv, ThreadInv, SetFlag, local, installed
<1> QED
  BY <1>2, <1>4, <1>6, <1>7, <1>8 DEF IInv

-----------------------------------------------------------------------------
(* Every step keeps the invariant.                                         *)
LEMMA NextIInv == IInv /\ [Next]_vars => IInv'
<1> SUFFICES ASSUME IInv, [Next]_vars PROVE IInv'
  OBVIOUS
<1>1. ASSUME NEW t \in Threads,
             \/ Call(t)
             \/ RegisterCheck(t) \/ RegisterStore(t)
             \/ FlagTest(t) \/ Discover(t) \/ DiscoverRaises(t) \/ Snapshot(t)
             \/ Update(t) \/ SetFlag(t) \/ Lookup(t)
      PROVE  IInv'
  BY <1>1, CallIInv, RegisterCheckIInv, RegisterStoreIInv, FlagTestIInv, DiscoverIInv,
     DiscoverRaisesIInv, SnapshotIInv, UpdateIInv, SetFlagIInv, LookupIInv
<1>2. CASE UNCHANGED vars
  BY <1>2 DEF vars, IInv, TypeOK, ThreadVariables, RegistryInv, FromEntry, ThreadInv,
              Loadable, EntriesClash, EntryRoutes, Registered, FromEntryPoint
<1> QED
  BY <1>1, <1>2 DEF Next

(* The invariant holds of the registry.                                    *)
THEOREM Inductive == Spec => []IInv
<1> QED
  BY InitIInv, NextIInv, PTL DEF Spec

(* The registry and its callers keep to their types, and what is           *)
(* registered stays registered.                                            *)
THEOREM TypeCorrect == Spec => []TypeOK
<1>1. IInv => TypeOK
  BY DEF IInv
<1> QED
  BY Inductive, <1>1, PTL

(* Once the flag is set every entry point's route is served: whichever of  *)
(* several loads set it, and whatever is registered meanwhile.             *)
THEOREM LoadedServed == Spec => []LoadedServes
<1>1. IInv => LoadedServes
  BY DEF IInv, RegistryInv, LoadedServes
<1> QED
  BY Inductive, <1>1, PTL

(* A load that raises leaves nothing behind.                               *)
THEOREM LoadIsAtomic == Spec => []AllOrNothing
<1>1. IInv => AllOrNothing
  BY DEF IInv, RegistryInv, FromEntry, AllOrNothing
<1> QED
  BY Inductive, <1>1, PTL

(* get() calls missing only what nobody had given before it was called.    *)
THEOREM MissingWasMissing == Spec => []MissingIsMissing
<1>1. IInv => MissingIsMissing
  BY DEF IInv, ThreadInv, MissingIsMissing
<1> QED
  BY Inductive, <1>1, PTL

(* Entry points that clash never get in.                                   *)
THEOREM ClashKeptOut == Spec => []ClashNeverLoads
<1>1. IInv => ClashNeverLoads
  <2> SUFFICES ASSUME IInv, EntriesClash \/ EntryRoutes \intersect builtin # {}
               PROVE  /\ ~loaded
                      /\ \A r \in DOMAIN converters : converters[r] = Registered
    BY DEF ClashNeverLoads
  <2>1. ~Loadable
    BY DEF Loadable
  <2>2. \A r \in DOMAIN converters : ~FromEntry(r)
    BY <2>1 DEF IInv, RegistryInv
  <2>3. \A i : FromEntryPoint(i).origin = "entry_point"
    BY DEF FromEntryPoint
  <2> QED
    BY <2>1, <2>2, <2>3 DEF IInv, TypeOK, RegistryInv, FromEntry
<1> QED
  BY Inductive, <1>1, PTL
=============================================================================
