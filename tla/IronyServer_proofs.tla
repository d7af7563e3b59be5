------------------------- MODULE IronyServer_proofs ------------------------
(***************************************************************************)
(* Proofs about irony-server and its client, for any files, flags, texts   *)
(* and number of requests, and for every file name and compile option      *)
(* there is: what the words of a command are at the other end of the pipe, *)
(* that no translation unit is lost or used after it was disposed of, that *)
(* an answer is about the request it belongs to, that no stale             *)
(* compilation database is served, and where the client cuts the           *)
(* candidates of every completion string there is.                         *)
(***************************************************************************)
EXTENDS IronyServer, Integers, SequenceTheorems, FiniteSetTheorems,
        FunctionTheorems, SeqLemmas, TLAPS

\* The three maps of TUManager fit together.
MapsInv(u, fl, h) ==
    /\ DOMAIN u = DOMAIN fl
    /\ DOMAIN h \subseteq Handle
    /\ DOMAIN h = {u[f] : f \in DOMAIN u} \ {Null}
    /\ \A f \in DOMAIN u : u[f] # Null => h[u[f]].file = f /\ h[u[f]].flags = fl[f]

UnitsInv ==
    /\ MapsInv(units, flagsFor, heap)
    /\ activeTu # Null => file \in DOMAIN units /\ activeTu = units[file]
    /\ cxUnsaved = content

-----------------------------------------------------------------------------
(***************************************************************************)
(* The operations of TUManager on maps that fit together.                  *)
(***************************************************************************)
\* The unit of a file is disposed of and its flags are noted.
LEMMA DisposeMaps ==
    ASSUME NEW u, NEW fl, NEW h, NEW f, NEW flags, MapsInv(u, fl, h)
    PROVE  MapsInv(Set(u, f, Null), Set(fl, f, flags), Without(h, Get(u, f, Null)))
<1> DEFINE u2 == Set(u, f, Null)
           fl2 == Set(fl, f, flags)
           old == Get(u, f, Null)
           h2 == Without(h, old)
<1>1. /\ DOMAIN u2 = DOMAIN u \cup {f} /\ u2[f] = Null
      /\ \A k \in DOMAIN u : k # f => u2[k] = u[k]
  BY DEF Set
<1>2. /\ DOMAIN fl2 = DOMAIN fl \cup {f}
      /\ \A k \in DOMAIN fl : k # f => fl2[k] = fl[k]
  BY DEF Set
<1>3. /\ DOMAIN h2 = DOMAIN h \ {old}
      /\ \A k \in DOMAIN h : k # old => h2[k] = h[k]
  BY DEF Without
<1>4. old = IF f \in DOMAIN u THEN u[f] ELSE Null
  BY DEF Get
<1>5. \A k \in DOMAIN u : k # f /\ u[k] # Null => u[k] # old /\ u[k] \in DOMAIN h
  BY <1>4 DEF MapsInv
<1> HIDE DEF u2, fl2, old, h2
<1>6. DOMAIN u2 = DOMAIN fl2 /\ DOMAIN h2 \subseteq Handle
  BY <1>1, <1>2, <1>3 DEF MapsInv
<1>7. DOMAIN h2 = {u2[k] : k \in DOMAIN u2} \ {Null}
  <2>1. ASSUME NEW x \in DOMAIN h2 PROVE x \in {u2[k] : k \in DOMAIN u2} \ {Null}
    <3>1. PICK k \in DOMAIN u : x = u[k] /\ x # Null /\ x # old
      BY <1>3 DEF MapsInv
    <3>2. k # f
      BY <3>1, <1>4
    <3> QED
      BY <1>1, <3>1, <3>2
  <2>2. ASSUME NEW k \in DOMAIN u2, u2[k] # Null PROVE u2[k] \in DOMAIN h2
    BY <1>1, <1>3, <1>5, <2>2
  <2> QED
    BY <2>1, <2>2
<1>8. \A k \in DOMAIN u2 : u2[k] # Null => h2[u2[k]].file = k /\ h2[u2[k]].flags = fl2[k]
  BY <1>1, <1>2, <1>3, <1>5 DEF MapsInv
<1> QED
  BY <1>6, <1>7, <1>8 DEF MapsInv, u2, fl2, old, h2

\* The same flags as before change nothing but that there are entries.
LEMMA SameMaps ==
    ASSUME NEW u, NEW fl, NEW h, NEW f, NEW flags, MapsInv(u, fl, h),
           Get(fl, f, <<>>) = flags
    PROVE  MapsInv(Set(u, f, Get(u, f, Null)), Set(fl, f, flags), h)
<1> DEFINE u2 == Set(u, f, Get(u, f, Null))
           fl2 == Set(fl, f, flags)
<1>1. /\ DOMAIN u2 = DOMAIN u \cup {f}
      /\ u2[f] = IF f \in DOMAIN u THEN u[f] ELSE Null
      /\ \A k \in DOMAIN u : u2[k] = u[k]
  BY DEF Set, Get
<1>2. /\ DOMAIN fl2 = DOMAIN fl \cup {f} /\ \A k \in DOMAIN fl : fl2[k] = fl[k]
  BY DEF Set, Get
<1> HIDE DEF u2, fl2
<1>3. DOMAIN u2 = DOMAIN fl2 /\ DOMAIN h \subseteq Handle
  BY <1>1, <1>2 DEF MapsInv
<1>4. DOMAIN h = {u2[k] : k \in DOMAIN u2} \ {Null}
  BY <1>1 DEF MapsInv
<1>5. \A k \in DOMAIN u2 : u2[k] # Null => h[u2[k]].file = k /\ h[u2[k]].flags = fl2[k]
  BY <1>1, <1>2 DEF MapsInv
<1> QED
  BY <1>3, <1>4, <1>5 DEF MapsInv, u2, fl2

\* A new unit at a free address, or the old one parsed again.
LEMMA ReparseMaps ==
    ASSUME NEW u, NEW fl, NEW h, NEW f \in DOMAIN u, NEW a \in Handle, NEW unit,
           MapsInv(u, fl, h), Null \notin Handle,
           u[f] = Null => a \notin DOMAIN h, u[f] # Null => a = u[f],
           unit.file = f, unit.flags = fl[f]
    PROVE  MapsInv(Set(u, f, a), fl, Set(h, a, unit))
<1> DEFINE u2 == Set(u, f, a)
           h2 == Set(h, a, unit)
<1>1. DOMAIN u2 = DOMAIN u /\ u2[f] = a /\ \A k \in DOMAIN u : k # f => u2[k] = u[k]
  BY DEF Set
<1>2. /\ DOMAIN h2 = DOMAIN h \cup {a} /\ h2[a] = unit
      /\ \A x \in DOMAIN h : x # a => h2[x] = h[x]
  BY DEF Set
<1>3. \A k \in DOMAIN u : k # f /\ u[k] # Null => u[k] # a /\ u[k] \in DOMAIN h
  BY DEF MapsInv
<1> HIDE DEF u2, h2
<1>4. DOMAIN u2 = DOMAIN fl /\ DOMAIN h2 \subseteq Handle
  BY <1>1, <1>2 DEF MapsInv
<1>5. DOMAIN h2 = {u2[k] : k \in DOMAIN u2} \ {Null}
  <2>1. ASSUME NEW x \in DOMAIN h2 PROVE x \in {u2[k] : k \in DOMAIN u2} \ {Null}
    <3>1. CASE x = a
      BY <1>1, <3>1
    <3>2. CASE x # a
      <4>1. PICK k \in DOMAIN u : x = u[k] /\ x # Null
        BY <1>2, <3>2 DEF MapsInv
      <4>2. k # f
        BY <3>2, <4>1
      <4> QED
        BY <1>1, <4>1, <4>2
    <3> QED
      BY <3>1, <3>2
  <2>2. ASSUME NEW k \in DOMAIN u2, u2[k] # Null PROVE u2[k] \in DOMAIN h2
    BY <1>1, <1>2, <1>3, <2>2
  <2> QED
    BY <2>1, <2>2
<1>6. \A k \in DOMAIN u2 : u2[k] # Null => h2[u2[k]].file = k /\ h2[u2[k]].flags = fl[k]
  BY <1>1, <1>2, <1>3 DEF MapsInv
<1> QED
  BY <1>4, <1>5, <1>6 DEF MapsInv, u2, h2

\* What a request for the unit of a file, with its flags, makes of them.
ManagerInv(m) == MapsInv(m.units, m.flagsFor, m.heap)

\* getTranslationUnit by its parts, and whatever comes of libclang.
LEMMA TuRefInv ==
    ASSUME MapsInv(units, flagsFor, heap), NEW f, NEW flags
    PROVE  LET m == TuRef(Manager, f, flags)
           IN  /\ m = [units |-> m.units, flagsFor |-> m.flagsFor, heap |-> m.heap]
               /\ ManagerInv(m) /\ f \in DOMAIN m.units /\ m.flagsFor[f] = flags
<1> DEFINE m == TuRef(Manager, f, flags)
           fl == Set(flagsFor, f, flags)
<1>1. CASE SameFlags(Manager, f, flags)
  <2>1. m = [units |-> Set(units, f, Get(units, f, Null)), flagsFor |-> fl, heap |-> heap]
    BY <1>1 DEF TuRef, Manager
  <2>2. MapsInv(Set(units, f, Get(units, f, Null)), fl, heap)
    BY <1>1, SameMaps DEF SameFlags, Manager
  <2> QED
    BY <2>1, <2>2 DEF ManagerInv, Set
<1>2. CASE ~SameFlags(Manager, f, flags)
  <2>1. m = [units |-> Set(units, f, Null), flagsFor |-> fl,
             heap |-> Without(heap, Get(units, f, Null))]
    BY <1>2 DEF TuRef, Dispose, Manager
  <2>2. MapsInv(Set(units, f, Null), fl, Without(heap, Get(units, f, Null)))
    BY DisposeMaps
  <2> QED
    BY <2>1, <2>2 DEF ManagerInv, Set
<1> QED
  BY <1>1, <1>2

LEMMA OutcomesInv ==
    ASSUME MapsInv(units, flagsFor, heap), NEW f, NEW flags,
           NEW r \in ParseOutcomes(f, flags) \cup GetOutcomes(f, flags)
    PROVE  ManagerInv(r) /\ f \in DOMAIN r.units /\ r.flagsFor[f] = flags
<1> DEFINE m == TuRef(Manager, f, flags)
<1>1. /\ m = [units |-> m.units, flagsFor |-> m.flagsFor, heap |-> m.heap]
      /\ ManagerInv(m) /\ f \in DOMAIN m.units /\ m.flagsFor[f] = flags
  BY TuRefInv
<1>2. \/ r = m
      \/ r = Dispose(m, f)
      \/ r = Reparse(m, f, flags) /\ (m.units[f] # Null \/ Free(m) # {})
  BY DEF ParseOutcomes, GetOutcomes
<1> HIDE DEF m
<1>3. CASE r = m
  BY <1>1, <1>3
<1>4. CASE r = Dispose(m, f)
  <2>1. r = [units |-> Set(m.units, f, Null), flagsFor |-> m.flagsFor,
             heap |-> Without(m.heap, Get(m.units, f, Null))]
    BY <1>1, <1>4 DEF Dispose
  <2>2. MapsInv(Set(m.units, f, Null), Set(m.flagsFor, f, flags),
                Without(m.heap, Get(m.units, f, Null)))
    BY <1>1, DisposeMaps DEF ManagerInv
  <2>3. /\ DOMAIN Set(m.flagsFor, f, flags) = DOMAIN m.flagsFor
        /\ \A k \in DOMAIN m.flagsFor : Set(m.flagsFor, f, flags)[k] = m.flagsFor[k]
    BY <1>1 DEF Set, ManagerInv, MapsInv
  <2>4. MapsInv(Set(m.units, f, Null), m.flagsFor, Without(m.heap, Get(m.units, f, Null)))
    BY <2>2, <2>3 DEF MapsInv
  <2> QED
    BY <1>1, <2>1, <2>4 DEF ManagerInv, Set
<1>5. CASE r = Reparse(m, f, flags) /\ (m.units[f] # Null \/ Free(m) # {})
  <2> DEFINE a == IF m.units[f] = Null THEN Fresh(m) ELSE m.units[f]
             unit == [file |-> f,
                      flags |-> IF m.units[f] = Null THEN flags ELSE m.heap[a].flags,
                      seen |-> cxUnsaved]
  <2>1. r = [units |-> Set(m.units, f, a), flagsFor |-> m.flagsFor,
             heap |-> Set(m.heap, a, unit)]
    BY <1>1, <1>5 DEF Reparse
  <2>2. /\ m.units[f] = Null => a \in Handle /\ a \notin DOMAIN m.heap
        /\ m.units[f] # Null => a = m.units[f] /\ a \in Handle /\ m.heap[a].flags = flags
    BY <1>1, <1>5 DEF Fresh, Free, ManagerInv, MapsInv
  <2>3. unit.file = f /\ unit.flags = m.flagsFor[f]
    BY <1>1, <2>2
  <2> HIDE DEF a, unit
  <2>4. Null \notin Handle
    BY ServerAssumption DEF Null
  <2>5. MapsInv(Set(m.units, f, a), m.flagsFor, Set(m.heap, a, unit))
    BY <1>1, <2>2, <2>3, <2>4, ReparseMaps DEF ManagerInv
  <2> QED
    BY <1>1, <2>1, <2>5 DEF ManagerInv, Set
<1> QED
  BY <1>2, <1>3, <1>4, <1>5

-----------------------------------------------------------------------------
(***************************************************************************)
(* The steps of the server.                                                *)
(***************************************************************************)
LEMMA InitUnits == Init => UnitsInv
<1> SUFFICES ASSUME Init PROVE UnitsInv
  OBVIOUS
<1>1. units = NoMap /\ flagsFor = NoMap /\ heap = NoMap
  BY DEF Init, ServerInit
<1>2. DOMAIN NoMap = {}
  BY DEF NoMap
<1> QED
  BY <1>1, <1>2 DEF Init, ServerInit, UnitsInv, MapsInv

\* Nothing that UnitsInv is about changes.
LEMMA SameUnits == UnitsInv /\ UNCHANGED <<unitVars, ironyVars>> => UnitsInv'
BY DEF UnitsInv, MapsInv, unitVars, ironyVars

LEMMA ParseUnits ==
    ASSUME UnitsInv, NEW c, Parse(c)
    PROVE  UnitsInv'
<1> DEFINE f == c.args[1]
<1>1. PICK m \in ParseOutcomes(f, c.flags) : Install(m) /\ activeTu' = m.units[f]
  BY DEF Parse
<1>2. ManagerInv(m) /\ f \in DOMAIN m.units
  BY <1>1, OutcomesInv DEF UnitsInv
<1>3. file' = f /\ UNCHANGED <<content, cxUnsaved>>
  BY DEF Parse
<1> HIDE DEF f
<1> QED
  BY <1>1, <1>2, <1>3 DEF UnitsInv, ManagerInv, MapsInv, Install

LEMMA CompleteUnits ==
    ASSUME UnitsInv, NEW c, Complete(c)
    PROVE  UnitsInv'
<1> DEFINE f == c.args[1]
<1>1. PICK m \in GetOutcomes(f, c.flags) : Install(m)
  BY DEF Complete
<1>2. ManagerInv(m)
  BY <1>1, OutcomesInv DEF UnitsInv
<1>3. activeTu' = Null /\ UNCHANGED <<content, cxUnsaved>>
  BY DEF Complete, ActiveAfterReset
<1> HIDE DEF f
<1> QED
  BY <1>1, <1>2, <1>3 DEF UnitsInv, ManagerInv, MapsInv, Install

\* set-unsaved and reset-unsaved leave no unit active, and give libclang the
\* new map of texts.
LEMMA TextUnits ==
    ASSUME UnitsInv, NEW c, SetUnsaved(c) \/ ResetUnsaved(c)
    PROVE  UnitsInv'
<1>1. /\ activeTu' = Null /\ cxUnsaved' = content'
      /\ units' = units /\ flagsFor' = flagsFor /\ heap' = heap
  BY DEF SetUnsaved, ResetUnsaved, ActiveAfterReset, unitVars
<1> QED
  BY <1>1 DEF UnitsInv, MapsInv

LEMMA NewProcessUnits == NewProcess => UnitsInv'
<1> SUFFICES ASSUME NewProcess PROVE UnitsInv'
  OBVIOUS
<1>1. units' = NoMap /\ flagsFor' = NoMap /\ heap' = NoMap
  BY DEF NewProcess
<1>2. DOMAIN NoMap = {}
  BY DEF NoMap
<1> QED
  BY <1>1, <1>2 DEF NewProcess, UnitsInv, MapsInv

LEMMA ServerStepUnits ==
    ASSUME UnitsInv, NEW strings, ServerStep(strings)
    PROVE  UnitsInv'
<1>1. PICK c : Execute(c, strings)
  BY DEF ServerStep
<1>2. CASE Parse(c) \/ Complete(c)
  BY <1>2, ParseUnits, CompleteUnits
<1>3. CASE SetUnsaved(c) \/ ResetUnsaved(c)
  BY <1>3, TextUnits
<1>4. CASE Diagnostics(c) \/ GetType(c) \/ Candidates(c, strings) \/ Exit(c) \/ Options(c)
  BY <1>4, SameUnits DEF Diagnostics, GetType, Candidates, Exit, Options, serverVars
<1>5. CASE LookUp(c)
  BY <1>5, SameUnits DEF LookUp, fileVars, serverVars
<1> QED
  BY <1>1, <1>2, <1>3, <1>4, <1>5 DEF Execute

LEMMA NextUnits == UnitsInv /\ [Next]_vars => UnitsInv'
<1> SUFFICES ASSUME UnitsInv, [Next]_vars PROVE UnitsInv'
  OBVIOUS
<1>1. CASE AskAny \/ AskAnyOptions
  BY <1>1, SameUnits DEF AskAny, AskAnyOptions, Ask, AskOptions, serverVars
<1>2. CASE Send \/ Receive
  BY <1>2, SameUnits DEF Send, Receive, serverVars
<1>3. CASE ServerStep(String)
  BY <1>3, ServerStepUnits
<1>4. CASE NewProcess
  BY <1>4, NewProcessUnits
<1>5. CASE Tools
  BY <1>5, SameUnits DEF Tools, fileVars, serverVars
<1>6. CASE UNCHANGED vars
  BY <1>6, SameUnits DEF vars, fileVars, serverVars
<1> QED
  BY <1>1, <1>2, <1>3, <1>4, <1>5, <1>6 DEF Next

\* irony-server has no translation unit that it has lost, and none that it
\* uses after TUManager has disposed of it (TUManager.cpp:62-158), although
\* Irony keeps a pointer to one across commands (Irony.cpp:124-170).
THEOREM NoUnitLost == Spec => []NoDangling
<1>1. UnitsInv => NoDangling
  BY DEF UnitsInv, MapsInv, NoDangling
<1> QED
  BY <1>1, InitUnits, NextUnits, PTL DEF Spec

-----------------------------------------------------------------------------
(***************************************************************************)
(* CompDBCache: the accounts that make a database fresh.                   *)
(***************************************************************************)
\* A file is not younger than the clock, and has been written if it is there.
FilesInv ==
    \A d \in Dir :
        /\ json[d].mtime <= clock
        /\ json[d].exists => json[d].version >= 1

\* While the file has the time that was remembered, it is the version that
\* was loaded, unless it was written twice in that second.
CacheInv ==
    cache.dir # NoDir =>
        /\ cache.mtime <= json[cache.dir].mtime
        /\ cache.mtime = json[cache.dir].mtime =>
              \/ cache.version = json[cache.dir].version
              \/ <<cache.dir, cache.mtime>> \in rewritten

\* Between its stat and its load a lookup knows no more than there is now; and
\* if it is to be answered from the cache, the cache is new enough.
LookupInv ==
    lookup # NoLookup =>
        /\ lookup.seen <= json[lookup.dir].version
        /\ lookup.mtime <= json[lookup.dir].mtime
        /\ IsCached => \/ cache.version >= lookup.seen
                       \/ <<lookup.dir, lookup.mtime>> \in rewritten

CdbInv == CdbTypeOK /\ CacheIsOwn /\ FilesInv /\ CacheInv /\ LookupInv /\ ServedIsFresh

\* The constants and sets that types are made of.
LEMMA Types ==
    /\ NoDir \notin Dir
    /\ 0 \in Time /\ 1 \in Time /\ 0 \in Version
    /\ \A t \in Time : t \in Nat
    /\ \A v \in Version : v \in Nat
BY CompDBAssumption DEF Time, Version

LEMMA CdbInitInv == CdbInit => CdbInv
<1> SUFFICES ASSUME CdbInit PROVE CdbInv
  OBVIOUS
<1> USE Types DEF CdbInit, Empty, NoLookup, NothingServed
<1>1. CdbTypeOK
  BY DEF CdbTypeOK, JsonFile, Cached
<1>2. CacheIsOwn /\ FilesInv /\ CacheInv /\ LookupInv /\ ServedIsFresh
  BY DEF CacheIsOwn, FilesInv, CacheInv, LookupInv, ServedIsFresh
<1> QED
  BY <1>1, <1>2 DEF CdbInv

\* What the types say of the parts of the variables.
LEMMA Parts ==
    ASSUME CdbTypeOK
    PROVE  /\ \A d \in Dir : /\ json[d].version \in Version /\ json[d].version \in Nat
                             /\ json[d].mtime \in Time /\ json[d].mtime \in Nat
           /\ clock \in Time /\ clock \in Nat
           /\ cache.mtime \in Nat /\ cache.version \in Nat /\ cache.dir \in Dir \cup {NoDir}
           /\ lookup # NoLookup => /\ lookup.dir \in Dir /\ lookup.mtime \in Time
                                   /\ lookup.seen \in Version
                                   /\ lookup.mtime \in Nat /\ lookup.seen \in Nat
BY Types DEF CdbTypeOK, JsonFile, Cached, Lookup

-----------------------------------------------------------------------------
(***************************************************************************)
(* One lemma for each action.                                              *)
(***************************************************************************)
LEMMA WriteInv ==
    ASSUME CdbInv, NEW d \in Dir, Write(d)
    PROVE  CdbInv'
<1> USE Types, Parts DEF CdbInv
<1>1. /\ json' = [json EXCEPT ![d] = [version |-> json[d].version + 1,
                                      mtime |-> clock, exists |-> TRUE]]
      /\ UNCHANGED <<clock, cache, lookup, served>>
      /\ rewritten \subseteq rewritten'
      /\ json[d].mtime = clock => <<d, clock>> \in rewritten'
      /\ rewritten' \subseteq rewritten \cup {<<d, clock>>}
  BY DEF Write
<1>2. json[d].version + 1 \in Version /\ json[d].mtime <= clock
  BY CompDBAssumption DEF Write, Version, FilesInv
<1>3. json \in [Dir -> JsonFile] /\ json' \in [Dir -> JsonFile]
  BY <1>1, <1>2 DEF CdbTypeOK, JsonFile
<1>4. \A e \in Dir :
        /\ e # d => json'[e] = json[e]
        /\ e = d => /\ json'[e].version = json[e].version + 1
                    /\ json'[e].mtime = clock
        /\ json'[e].version >= json[e].version /\ json'[e].mtime >= json[e].mtime
  BY <1>1, <1>2, <1>3
<1>5. CdbTypeOK'
  BY <1>1, <1>3 DEF CdbTypeOK
<1>6. CacheIsOwn' /\ FilesInv' /\ ServedIsFresh'
  BY <1>1, <1>4 DEF CacheIsOwn, FilesInv, ServedIsFresh
<1>7. CacheInv'
  <2> SUFFICES ASSUME cache.dir # NoDir PROVE CacheInv'
    BY <1>1 DEF CacheInv
  <2>1. CASE cache.dir = d
    BY <1>1, <1>2, <1>4, <2>1 DEF CacheInv
  <2>2. CASE cache.dir # d
    BY <1>1, <1>4, <2>2 DEF CacheInv
  <2> QED
    BY <2>1, <2>2
<1>8. LookupInv'
  <2> SUFFICES ASSUME lookup # NoLookup PROVE LookupInv'
    BY <1>1 DEF LookupInv
  <2> QED
    BY <1>1, <1>4 DEF LookupInv, IsCached
<1> QED
  BY <1>5, <1>6, <1>7, <1>8

LEMMA DeleteInv ==
    ASSUME CdbInv, NEW d \in Dir, Delete(d)
    PROVE  CdbInv'
<1> USE Types, Parts DEF CdbInv
<1>1. UNCHANGED <<clock, cache, lookup, served, rewritten>>
  BY DEF Delete
<1>2. json \in [Dir -> JsonFile] /\ json' \in [Dir -> JsonFile]
  BY DEF CdbTypeOK, JsonFile, Delete
<1>3. \A e \in Dir :
        /\ json'[e].version = json[e].version /\ json'[e].mtime = json[e].mtime
        /\ json'[e].exists => json[e].exists
  BY <1>2 DEF Delete, JsonFile
<1>4. CdbTypeOK'
  BY <1>1, <1>2 DEF CdbTypeOK
<1>5. CacheIsOwn' /\ FilesInv' /\ ServedIsFresh' /\ CacheInv'
  BY <1>1, <1>3 DEF CacheIsOwn, FilesInv, ServedIsFresh, CacheInv
<1>6. LookupInv'
  BY <1>1, <1>3 DEF LookupInv, IsCached
<1> QED
  BY <1>4, <1>5, <1>6

LEMMA TickInv ==
    ASSUME CdbInv, Tick
    PROVE  CdbInv'
<1> USE Types, Parts DEF CdbInv
<1>1. UNCHANGED <<json, cache, lookup, served, rewritten>> /\ clock' = clock + 1
  BY DEF Tick
<1>2. clock + 1 \in Time
  BY CompDBAssumption DEF Tick, Time
<1>3. CdbTypeOK'
  BY <1>1, <1>2 DEF CdbTypeOK
<1>4. FilesInv'
  BY <1>1 DEF FilesInv
<1>5. CacheIsOwn' /\ ServedIsFresh' /\ CacheInv' /\ LookupInv'
  BY <1>1 DEF CacheIsOwn, ServedIsFresh, CacheInv, LookupInv, IsCached
<1> QED
  BY <1>3, <1>4, <1>5

LEMMA StatInv ==
    ASSUME CdbInv, NEW d \in Dir, Stat(d)
    PROVE  CdbInv'
<1> USE Types, Parts DEF CdbInv
<1>1. /\ UNCHANGED <<json, clock, cache, rewritten>>
      /\ served' = NothingServed
      /\ lookup'.dir = d
      /\ lookup'.mtime = IF json[d].exists THEN json[d].mtime ELSE 0
      /\ lookup'.seen = IF json[d].exists THEN json[d].version ELSE 0
      /\ lookup' \in Lookup
  BY DEF Stat, ModificationTime, Lookup
<1>2. CdbTypeOK'
  BY <1>1 DEF CdbTypeOK
<1>3. CacheIsOwn' /\ FilesInv' /\ CacheInv' /\ ServedIsFresh'
  BY <1>1 DEF CacheIsOwn, FilesInv, CacheInv, ServedIsFresh
<1>4. LookupInv'
  BY <1>1 DEF LookupInv, CacheInv, IsCached
<1> QED
  BY <1>2, <1>3, <1>4

\* What is returned ends the lookup.
LEMMA ServeInv ==
    ASSUME CdbInv, lookup # NoLookup,
           NEW of \in Dir \cup {NoDir}, NEW version \in Version, Serve(of, version),
           version # 0 =>
             /\ of = lookup.dir
             /\ version >= lookup.seen \/ <<lookup.dir, lookup.mtime>> \in rewritten,
           cache' \in Cached, CacheIsOwn', CacheInv'
    PROVE  CdbInv'
<1> USE Types, Parts DEF CdbInv
<1>1. /\ UNCHANGED <<json, clock, rewritten>> /\ lookup' = NoLookup
      /\ served' \in Served
      /\ served'.dir = lookup.dir /\ served'.mtime = lookup.mtime
      /\ served'.seen = lookup.seen /\ served'.of = of /\ served'.version = version
  BY DEF Serve, Served
<1>2. CdbTypeOK' /\ FilesInv' /\ LookupInv'
  BY <1>1 DEF CdbTypeOK, FilesInv, LookupInv
<1>3. ServedIsFresh'
  BY <1>1 DEF ServedIsFresh
<1> QED
  BY <1>2, <1>3

LEMMA UseCachedInv ==
    ASSUME CdbInv, UseCached
    PROVE  CdbInv'
<1> USE Types, Parts DEF CdbInv
<1>1. /\ lookup # NoLookup /\ IsCached /\ UNCHANGED <<cache, json, rewritten>>
      /\ Serve(cache.of, cache.version)
  BY DEF UseCached, Serve
<1>2. cache.of = lookup.dir /\ cache.version \in Version /\ cache.of \in Dir \cup {NoDir}
  BY <1>1 DEF IsCached, CacheIsOwn, CdbTypeOK, Cached
<1>3. cache.version >= lookup.seen \/ <<lookup.dir, lookup.mtime>> \in rewritten
  BY <1>1 DEF LookupInv
<1>4. cache' \in Cached /\ CacheIsOwn' /\ CacheInv'
  BY <1>1 DEF CdbTypeOK, CacheIsOwn, CacheInv
<1> QED
  BY <1>1, <1>2, <1>3, <1>4, ServeInv

LEMMA LoadInv ==
    ASSUME CdbInv, Load
    PROVE  CdbInv'
<1> USE Types, Parts DEF CdbInv
<1> DEFINE d == lookup.dir
           v == json[d].version
<1>1. /\ lookup # NoLookup /\ json[d].exists /\ UNCHANGED <<json, rewritten>>
      /\ Serve(d, v) /\ cache' = Remember(d, v)
  BY DEF Load, Serve
<1>2. /\ d \in Dir /\ v \in Version /\ v >= 1 /\ v >= lookup.seen
      /\ lookup.mtime <= json[d].mtime
  BY <1>1 DEF FilesInv, LookupInv
<1>3. cache' \in Cached /\ CacheIsOwn' /\ CacheInv'
  <2>1. CASE lookup.mtime = 0
    <3>1. cache'.dir = NoDir /\ cache' \in Cached
      BY <1>1, <1>2, <2>1 DEF Remember, Empty, Cached
    <3> QED
      BY <3>1 DEF CacheIsOwn, CacheInv
  <2>2. CASE lookup.mtime # 0
    <3>1. /\ cache' \in Cached
          /\ cache'.dir = d /\ cache'.of = d /\ cache'.mtime = lookup.mtime /\ cache'.version = v
      BY <1>1, <1>2, <2>2 DEF Remember, Cached
    <3> QED
      BY <1>1, <1>2, <2>2, <3>1 DEF CacheIsOwn, CacheInv
  <2> QED
    BY <2>1, <2>2
<1> QED
  BY <1>1, <1>2, <1>3, ServeInv

LEMMA LoadErrorInv ==
    ASSUME CdbInv, LoadError
    PROVE  CdbInv'
<1>1. lookup # NoLookup /\ cache' = Empty /\ Serve(NoDir, 0)
  BY DEF LoadError
<1>2. cache' \in Cached /\ cache'.dir = NoDir
  BY <1>1, Types DEF Empty, Cached
<1>3. CacheIsOwn' /\ CacheInv'
  BY <1>2 DEF CacheIsOwn, CacheInv
<1> QED
  BY <1>1, <1>2, <1>3, Types, ServeInv

LEMMA NewCacheInv ==
    ASSUME CdbInv, NewCache
    PROVE  CdbInv'
<1> USE Types DEF CdbInv
<1>1. /\ UNCHANGED <<json, clock, rewritten>>
      /\ cache' = Empty /\ cache'.dir = NoDir /\ lookup' = NoLookup /\ served' = NothingServed
  BY DEF NewCache, Empty
<1>2. CdbTypeOK'
  BY <1>1 DEF CdbTypeOK, Empty, Cached
<1>3. CacheIsOwn' /\ FilesInv' /\ CacheInv' /\ LookupInv' /\ ServedIsFresh'
  BY <1>1 DEF CacheIsOwn, FilesInv, CacheInv, LookupInv, ServedIsFresh
<1> QED
  BY <1>2, <1>3

-----------------------------------------------------------------------------
LEMMA CdbNextInv == CdbInv /\ [CdbNext]_cdbVars => CdbInv'
<1> SUFFICES ASSUME CdbInv, [CdbNext]_cdbVars PROVE CdbInv'
  OBVIOUS
<1>1. CASE UNCHANGED cdbVars
  BY <1>1 DEF cdbVars, CdbInv, CdbTypeOK, CacheIsOwn, FilesInv, CacheInv, LookupInv,
              ServedIsFresh, IsCached
<1>2. CASE CdbNext
  BY <1>2, WriteInv, DeleteInv, TickInv, StatInv, UseCachedInv, LoadInv, LoadErrorInv,
     NewCacheInv DEF CdbNext, FromDirectory
<1> QED
  BY <1>1, <1>2

\* Types, and the accounts of cache and lookup that make a database fresh: for
\* every set of build directories, however often their files are written.
THEOREM CacheAccounts == CdbSpec => []CdbInv
BY CdbInitInv, CdbNextInv, PTL DEF CdbSpec

\* CompDBCache::fromDirectory returns no database of another directory and
\* none that is older than the request, but for a file that was written twice
\* in one second (CompDBCache.cpp:13-40).
THEOREM NoStaleDatabase == CdbSpec => []ServedIsFresh
<1>1. CdbInv => ServedIsFresh
  BY DEF CdbInv
<1> QED
  BY <1>1, CacheAccounts, PTL

-----------------------------------------------------------------------------
(***************************************************************************)
(* The server uses the cache of compilation databases as CompDBCache says, *)
(* so what is proved there holds here.                                     *)
(***************************************************************************)
LEMMA ServerStepCache ==
    ASSUME NEW strings, ServerStep(strings)
    PROVE  [CdbNext]_cdbVars
<1>1. PICK c : Execute(c, strings)
  BY DEF ServerStep
<1>2. CASE LookUp(c)
  BY <1>2 DEF LookUp, CdbNext
<1>3. CASE Options(c)
  BY <1>3 DEF Options, CdbNext
<1>4. CASE ~(LookUp(c) \/ Options(c))
  <2>1. UNCHANGED cdbVars
    BY <1>1, <1>4 DEF Execute, Parse, Complete, Diagnostics, GetType, Candidates,
                      SetUnsaved, ResetUnsaved, Exit
  <2> QED
    BY <2>1
<1> QED
  BY <1>2, <1>3, <1>4

LEMMA NextCache == [Next]_vars => [CdbNext]_cdbVars
<1> SUFFICES ASSUME [Next]_vars PROVE [CdbNext]_cdbVars
  OBVIOUS
<1>1. CASE AskAny \/ AskAnyOptions \/ Send \/ Receive \/ UNCHANGED vars
  <2>1. UNCHANGED cdbVars
    BY <1>1 DEF AskAny, AskAnyOptions, Ask, AskOptions, Send, Receive, vars
  <2> QED
    BY <2>1
<1>2. CASE ServerStep(String)
  BY <1>2, ServerStepCache
<1>3. CASE NewProcess
  BY <1>3 DEF NewProcess, CdbNext
<1>4. CASE Tools
  BY <1>4 DEF Tools, CdbNext
<1> QED
  BY <1>1, <1>2, <1>3, <1>4 DEF Next

\* Every behaviour of the server is one of the cache (Irony.cpp:579-650 with
\* CompDBCache.cpp:15-40).
THEOREM UsesCache == Spec => CdbSpec
<1>1. Init => CdbInit
  BY DEF Init
<1> QED
  BY <1>1, NextCache, PTL DEF Spec, CdbSpec

\* get-compile-options is answered from the database of the directory that was
\* asked for, no older than the request but for the second written twice.
THEOREM OptionsAreFresh == Spec => []ServedIsFresh
BY UsesCache, NoStaleDatabase, PTL

-----------------------------------------------------------------------------
(***************************************************************************)
(* Lines: sequences that are put together of pieces.                       *)
(***************************************************************************)
\* A recursive definition along a sequence has a solution.
LEMMA FlattenFcn ==
    ASSUME NEW p, NEW n \in Nat
    PROVE  \E f : f = [i \in 1..n |-> IF i = 1 THEN p[i] ELSE f[i - 1] \o p[i]]
<1> DEFINE S == {m \in Nat : \E f : f = [i \in 1..m |-> IF i = 1 THEN p[i] ELSE f[i - 1] \o p[i]]}
<1>1. 0 \in S
  <2> DEFINE f == [i \in 1..0 |-> p[i]]
  <2>1. f = [i \in 1..0 |-> IF i = 1 THEN p[i] ELSE f[i - 1] \o p[i]]
    OBVIOUS
  <2> HIDE DEF f
  <2> QED
    BY <2>1
<1>2. ASSUME NEW m \in Nat, m \in S PROVE m + 1 \in S
  <2>1. PICK f : f = [i \in 1..m |-> IF i = 1 THEN p[i] ELSE f[i - 1] \o p[i]]
    BY <1>2
  <2> DEFINE g == [i \in 1..(m + 1) |-> IF i = m + 1 THEN IF i = 1 THEN p[i] ELSE f[i - 1] \o p[i] ELSE f[i]]
  <2>2. \A i \in 1..(m + 1) : g[i] = IF i = 1 THEN p[i] ELSE g[i - 1] \o p[i]
    <3> TAKE i \in 1..(m + 1)
    <3>1. CASE i = m + 1
      BY <3>1
    <3>2. CASE i # m + 1
      <4>1. i \in 1..m /\ (i # 1 => i - 1 \in 1..m)
        BY <3>2
      <4>2. g[i] = f[i] /\ (i # 1 => g[i - 1] = f[i - 1])
        BY <3>2, <4>1
      <4>3. f[i] = IF i = 1 THEN p[i] ELSE f[i - 1] \o p[i]
        BY <2>1, <4>1
      <4> QED
        BY <4>2, <4>3
    <3> QED
      BY <3>1, <3>2
  <2>3. g = [i \in 1..(m + 1) |-> IF i = 1 THEN p[i] ELSE g[i - 1] \o p[i]]
    <3>1. g = [i \in 1..(m + 1) |-> g[i]]
      OBVIOUS
    <3> HIDE DEF g
    <3> QED
      BY <2>2, <3>1
  <2> HIDE DEF g
  <2>4. \E h : h = [i \in 1..(m + 1) |-> IF i = 1 THEN p[i] ELSE h[i - 1] \o p[i]]
    BY <2>3
  <2>5. m + 1 \in Nat
    OBVIOUS
  <2> QED
    BY <2>4, <2>5, Zenon DEF S
<1> HIDE DEF S
<1>3. Nat \subseteq S
  BY <1>1, <1>2, Induct
<1> QED
  BY <1>3 DEF S

\* FlattenSeq adds one piece after the other.
LEMMA Flatten ==
    ASSUME NEW S, NEW p \in Seq(Seq(S)), p # <<>>
    PROVE  \E g : /\ g[1] = p[1] /\ \A i \in 2..Len(p) : g[i] = g[i - 1] \o p[i]
                  /\ FlattenSeq(p) = g[Len(p)]
<1>1. Len(p) \in Nat /\ Len(p) # 0
  OBVIOUS
<1> DEFINE g == CHOOSE f : f = [i \in 1..Len(p) |-> IF i = 1 THEN p[i] ELSE f[i - 1] \o p[i]]
<1>2. g = [i \in 1..Len(p) |-> IF i = 1 THEN p[i] ELSE g[i - 1] \o p[i]]
  BY <1>1, FlattenFcn, Zenon
<1>3. FlattenSeq(p) = g[Len(p)]
  BY <1>1 DEF FlattenSeq
<1> HIDE DEF g
<1>4. 1 \in 1..Len(p)
  BY <1>1
<1>5. g[1] = p[1]
  BY <1>2, <1>4
<1>6. ASSUME NEW i \in 2..Len(p) PROVE g[i] = g[i - 1] \o p[i]
  <2>1. i \in 1..Len(p) /\ i # 1
    BY <1>1
  <2> QED
    BY <1>2, <2>1
<1> QED
  BY <1>3, <1>5, <1>6

\* A function on 1..n is a sequence of that length.
LEMMA FcnSeq ==
    ASSUME NEW S, NEW n \in Nat, NEW p \in [1..n -> S]
    PROVE  p \in Seq(S) /\ Len(p) = n
<1>1. p \in Seq(S)
  BY SeqDef
<1>2. 1..Len(p) = 1..n /\ Len(p) \in Nat
  BY <1>1, LenProperties
<1> QED
  BY <1>1, <1>2

-----------------------------------------------------------------------------
(***************************************************************************)
(* The scanner, and what it makes of a piece of a line.                    *)
(* Takes(P, line, Q): a scanner in a state of P is in one of Q behind the  *)
(* line.                                                                   *)
(***************************************************************************)
\* The characters.  (That the literals are in STRING the provers do not know.)
Chr == STRING \cup Special \cup Action \cup {Dash, "smart-case"}

Mode == {"gap", "free", "double", "single"}

\* The states of the scanner
ScanState == [mode : Mode, escape : BOOLEAN, argument : Seq(Chr), done : Seq(Seq(Chr))]

\* The fields of the scanner when it takes a character, and when it ends an
\* argument.
LEMMA PushFields ==
    ASSUME NEW s \in ScanState, NEW c \in Chr
    PROVE  /\ Push(s, c) \in ScanState /\ ~Push(s, c).escape
           /\ s.mode = "gap" => Push(s, c).mode = "free"
           /\ s.mode # "gap" => Push(s, c).mode = s.mode
           /\ Push(s, c).argument = Append(s.argument, c) /\ Push(s, c).done = s.done
<1>1. /\ s.mode \in Mode /\ s.argument \in Seq(Chr) /\ Append(s.argument, c) \in Seq(Chr)
  BY DEF ScanState
<1>2. /\ Started(s) \in ScanState /\ Started(s).done = s.done /\ Started(s).argument = s.argument
      /\ s.mode = "gap" => Started(s).mode = "free"
      /\ s.mode # "gap" => Started(s).mode = s.mode
  BY <1>1 DEF Started, ScanState, Mode
<1> DEFINE t == Started(s)
<1> HIDE DEF t
<1>3. t \in ScanState /\ t.argument = s.argument /\ Append(t.argument, c) \in Seq(Chr)
  BY <1>1, <1>2 DEF t
<1>4. Push(s, c) = [t EXCEPT !.argument = Append(@, c), !.escape = FALSE]
  BY DEF Push, t
<1>5. /\ Push(s, c) \in ScanState /\ ~Push(s, c).escape
      /\ Push(s, c).mode = t.mode
      /\ Push(s, c).argument = Append(t.argument, c) /\ Push(s, c).done = t.done
  BY <1>3, <1>4 DEF ScanState
<1> QED
  BY <1>2, <1>3, <1>5 DEF t

LEMMA FinishFields ==
    ASSUME NEW s \in ScanState
    PROVE  /\ Finish(s) \in ScanState /\ Finish(s).mode = "gap"
           /\ Finish(s).escape = s.escape /\ Finish(s).argument = <<>>
           /\ Finish(s).done = Append(s.done, s.argument)
<1>1. <<>> \in Seq(Chr) /\ Append(s.done, s.argument) \in Seq(Seq(Chr))
  BY DEF ScanState
<1> QED
  BY <1>1 DEF Finish, ScanState, Mode

LEMMA ScanType ==
    ASSUME NEW s \in ScanState, NEW c \in Chr
    PROVE  Scan(s, c) \in ScanState
<1>1. /\ s.mode \in Mode /\ s.argument \in Seq(Chr) /\ s.done \in Seq(Seq(Chr))
      /\ Append(s.argument, c) \in Seq(Chr) /\ Append(s.done, s.argument) \in Seq(Seq(Chr))
  BY DEF ScanState
<1>2. Started(s) \in ScanState
  BY <1>1 DEF Started, ScanState, Mode
<1>3. Push(s, c) \in ScanState
  BY <1>1, <1>2 DEF Push, Started, ScanState, Mode
<1>4. Finish(s) \in ScanState
  BY <1>1, FinishFields
<1>5. ScanFree(s, c) \in ScanState
  BY <1>1, <1>2, <1>3, <1>4 DEF ScanFree, ScanState, Mode
<1>6. ScanDouble(s, c) \in ScanState /\ ScanSingle(s, c) \in ScanState
  BY <1>1, <1>3 DEF ScanDouble, ScanSingle, ScanState, Mode
<1> QED
  BY <1>3, <1>5, <1>6 DEF Scan

Run(s, line, f) == f[0] = s /\ \A i \in 1..Len(line) : f[i] = Scan(f[i - 1], line[i])

\* Reading the line takes every state of P to one of Q.
Takes(P, line, Q) == \A s \in P : \A f : Run(s, line, f) => f[Len(line)] \in Q

\* A line is taken when each of its characters is, by induction on its length.
LEMMA TakesEach ==
    ASSUME NEW line, Len(line) \in Nat, NEW PP,
           \A i \in 1..Len(line) : \A s \in PP[i - 1] : Scan(s, line[i]) \in PP[i]
    PROVE  Takes(PP[0], line, PP[Len(line)])
<1> SUFFICES ASSUME NEW s \in PP[0], NEW f, Run(s, line, f) PROVE f[Len(line)] \in PP[Len(line)]
  BY DEF Takes
<1> DEFINE S == {i \in Nat : i <= Len(line) => f[i] \in PP[i]}
<1>1. 0 \in S
  BY DEF Run
<1>2. ASSUME NEW n \in Nat, n \in S PROVE n + 1 \in S
  <2> SUFFICES ASSUME n + 1 <= Len(line) PROVE f[n + 1] \in PP[n + 1]
    OBVIOUS
  <2>1. n + 1 \in 1..Len(line) /\ (n + 1) - 1 = n /\ f[n] \in PP[n]
    BY <1>2
  <2>2. f[n + 1] = Scan(f[n], line[n + 1])
    BY <2>1 DEF Run
  <2>3. Scan(f[n], line[n + 1]) \in PP[n + 1]
    BY <2>1
  <2> QED
    BY <2>2, <2>3
<1> HIDE DEF S
<1>3. Nat \subseteq S
  BY <1>1, <1>2, Induct
<1> QED
  BY <1>3 DEF S

\* One character, a line behind a line, and the pieces of a line.
LEMMA TakesOne ==
    ASSUME NEW c, NEW P, NEW Q, \A s \in P : Scan(s, c) \in Q
    PROVE  Takes(P, <<c>>, Q)
<1>1. Len(<<c>>) = 1 /\ <<c>>[1] = c /\ 1 \in 1..1 /\ 1 - 1 = 0
  OBVIOUS
<1> QED
  BY <1>1 DEF Takes, Run

LEMMA TakesThen ==
    ASSUME NEW a \in Seq(Chr), NEW b \in Seq(Chr), NEW P, NEW Q, NEW R,
           Takes(P, a, Q), Takes(Q, b, R)
    PROVE  Takes(P, a \o b, R)
<1> SUFFICES ASSUME NEW s \in P, NEW f, Run(s, a \o b, f) PROVE f[Len(a \o b)] \in R
  BY DEF Takes
<1>1. /\ Len(a) \in Nat /\ Len(b) \in Nat /\ Len(a \o b) = Len(a) + Len(b)
      /\ \A i \in 1..Len(a) : (a \o b)[i] = a[i] /\ i \in 1..Len(a \o b)
      /\ \A i \in 1..Len(b) : (a \o b)[Len(a) + i] = b[i] /\ Len(a) + i \in 1..Len(a \o b)
  OBVIOUS
<1> DEFINE g == [i \in 0..Len(b) |-> f[Len(a) + i]]
<1>2. Run(s, a, f)
  BY <1>1 DEF Run
<1>3. f[Len(a)] \in Q
  BY <1>2 DEF Takes
<1>4. Run(f[Len(a)], b, g)
  <2>1. g[0] = f[Len(a)]
    BY <1>1
  <2>2. ASSUME NEW i \in 1..Len(b) PROVE g[i] = Scan(g[i - 1], b[i])
    <3>1. i \in 0..Len(b) /\ i - 1 \in 0..Len(b) /\ Len(a) + (i - 1) = (Len(a) + i) - 1
      BY <1>1
    <3>2. g[i] = f[Len(a) + i] /\ g[i - 1] = f[(Len(a) + i) - 1]
      BY <3>1
    <3>3. f[Len(a) + i] = Scan(f[(Len(a) + i) - 1], b[i])
      BY <1>1 DEF Run
    <3> QED
      BY <3>2, <3>3
  <2> HIDE DEF g
  <2> QED
    BY <2>1, <2>2 DEF Run
<1>5. g[Len(b)] = f[Len(a \o b)]
  BY <1>1
<1> HIDE DEF g
<1> QED
  BY <1>3, <1>4, <1>5 DEF Takes

LEMMA TakesFlatten ==
    ASSUME NEW p \in Seq(Seq(Chr)), NEW PP,
           \A i \in 1..Len(p) : Takes(PP[i - 1], p[i], PP[i])
    PROVE  Takes(PP[0], FlattenSeq(p), PP[Len(p)])
<1>1. Len(p) \in Nat
  OBVIOUS
<1>2. CASE p = <<>>
  <2>1. FlattenSeq(p) = <<>> /\ Len(p) = 0 /\ Len(<<>>) = 0
    BY <1>2 DEF FlattenSeq
  <2> QED
    BY <2>1 DEF Takes, Run
<1>3. CASE p # <<>>
  <2>1. PICK g : /\ g[1] = p[1] /\ \A i \in 2..Len(p) : g[i] = g[i - 1] \o p[i]
                 /\ FlattenSeq(p) = g[Len(p)]
    BY <1>3, Flatten
  <2> DEFINE S == {n \in Nat : n \in 1..Len(p) => g[n] \in Seq(Chr) /\ Takes(PP[0], g[n], PP[n])}
  <2>2. 0 \in S
    OBVIOUS
  <2>3. ASSUME NEW n \in Nat, n \in S PROVE n + 1 \in S
    <3> SUFFICES ASSUME n + 1 \in 1..Len(p)
                 PROVE  g[n + 1] \in Seq(Chr) /\ Takes(PP[0], g[n + 1], PP[n + 1])
      OBVIOUS
    <3>1. p[n + 1] \in Seq(Chr) /\ (n + 1) - 1 = n
      OBVIOUS
    <3>2. Takes(PP[n], p[n + 1], PP[n + 1])
      BY <3>1
    <3>3. CASE n = 0
      BY <2>1, <3>1, <3>2, <3>3
    <3>4. CASE n # 0
      <4>1. n \in 1..Len(p) /\ n + 1 \in 2..Len(p)
        BY <1>1, <3>4
      <4>2. g[n + 1] = g[n] \o p[n + 1]
        BY <2>1, <3>1, <4>1
      <4>3. g[n] \in Seq(Chr) /\ Takes(PP[0], g[n], PP[n])
        BY <2>3, <4>1
      <4>4. Takes(PP[0], g[n] \o p[n + 1], PP[n + 1])
        BY <3>1, <3>2, <4>3, TakesThen
      <4>5. g[n] \o p[n + 1] \in Seq(Chr)
        BY <3>1, <4>3
      <4> QED
        BY <4>2, <4>4, <4>5
    <3> QED
      BY <3>3, <3>4
  <2> HIDE DEF S
  <2>4. Nat \subseteq S
    BY <2>2, <2>3, Induct
  <2>5. Len(p) \in 1..Len(p)
    BY <1>1, <1>3
  <2> QED
    BY <1>1, <2>1, <2>4, <2>5 DEF S
<1> QED
  BY <1>2, <1>3

\* What is flattened is a sequence again.
LEMMA FlattenType ==
    ASSUME NEW p \in Seq(Seq(Chr))
    PROVE  FlattenSeq(p) \in Seq(Chr)
<1>1. Len(p) \in Nat
  OBVIOUS
<1>2. CASE p = <<>>
  BY <1>2 DEF FlattenSeq
<1>3. CASE p # <<>>
  <2>1. PICK g : /\ g[1] = p[1] /\ \A i \in 2..Len(p) : g[i] = g[i - 1] \o p[i]
                 /\ FlattenSeq(p) = g[Len(p)]
    BY <1>3, Flatten
  <2> DEFINE S == {n \in Nat : n \in 1..Len(p) => g[n] \in Seq(Chr)}
  <2>2. 0 \in S
    OBVIOUS
  <2>3. ASSUME NEW n \in Nat, n \in S PROVE n + 1 \in S
    <3> SUFFICES ASSUME n + 1 \in 1..Len(p) PROVE g[n + 1] \in Seq(Chr)
      OBVIOUS
    <3>1. p[n + 1] \in Seq(Chr) /\ (n + 1) - 1 = n
      OBVIOUS
    <3>2. CASE n = 0
      BY <2>1, <3>1, <3>2
    <3>3. CASE n # 0
      <4>1. n \in 1..Len(p) /\ n + 1 \in 2..Len(p)
        BY <1>1, <3>3
      <4>2. g[n + 1] = g[n] \o p[n + 1]
        BY <2>1, <3>1, <4>1
      <4> QED
        BY <2>3, <3>1, <4>1, <4>2
    <3> QED
      BY <3>2, <3>3
  <2> HIDE DEF S
  <2>4. Nat \subseteq S
    BY <2>2, <2>3, Induct
  <2>5. Len(p) \in 1..Len(p)
    BY <1>1, <1>3
  <2> QED
    BY <1>1, <2>1, <2>4, <2>5 DEF S
<1> QED
  BY <1>2, <1>3

\* The recursive function of Unescape has a value for every line.
LEMMA ScanFcn ==
    ASSUME NEW line, NEW n \in Nat
    PROVE  \E f : f = [i \in 0..n |-> IF i = 0 THEN Scanner ELSE Scan(f[i - 1], line[i])]
<1> DEFINE S == {m \in Nat : \E f :
                    f = [i \in 0..m |-> IF i = 0 THEN Scanner ELSE Scan(f[i - 1], line[i])]}
<1>1. 0 \in S
  <2> DEFINE f == [i \in 0..0 |-> Scanner]
  <2>1. f = [i \in 0..0 |-> IF i = 0 THEN Scanner ELSE Scan(f[i - 1], line[i])]
    OBVIOUS
  <2> HIDE DEF f
  <2> QED
    BY <2>1
<1>2. ASSUME NEW m \in Nat, m \in S PROVE m + 1 \in S
  <2>1. PICK f : f = [i \in 0..m |-> IF i = 0 THEN Scanner ELSE Scan(f[i - 1], line[i])]
    BY <1>2
  <2> DEFINE g == [i \in 0..(m + 1) |-> IF i = m + 1 THEN Scan(f[i - 1], line[i]) ELSE f[i]]
  <2>2. \A i \in 0..(m + 1) : g[i] = IF i = 0 THEN Scanner ELSE Scan(g[i - 1], line[i])
    <3> TAKE i \in 0..(m + 1)
    <3>1. CASE i = m + 1
      <4>1. i # 0 /\ i - 1 \in 0..(m + 1) /\ i - 1 # m + 1
        BY <3>1
      <4> QED
        BY <3>1, <4>1
    <3>2. CASE i # m + 1
      <4>1. i \in 0..m /\ (i # 0 => i - 1 \in 0..m /\ i - 1 \in 0..(m + 1) /\ i - 1 # m + 1)
        BY <3>2
      <4>2. g[i] = f[i] /\ (i # 0 => g[i - 1] = f[i - 1])
        BY <3>2, <4>1
      <4>3. f[i] = IF i = 0 THEN Scanner ELSE Scan(f[i - 1], line[i])
        BY <2>1, <4>1
      <4> QED
        BY <4>2, <4>3
    <3> QED
      BY <3>1, <3>2
  <2>3. g = [i \in 0..(m + 1) |-> IF i = 0 THEN Scanner ELSE Scan(g[i - 1], line[i])]
    <3>1. g = [i \in 0..(m + 1) |-> g[i]]
      OBVIOUS
    <3> HIDE DEF g
    <3> QED
      BY <2>2, <3>1
  <2> HIDE DEF g
  <2>4. \E h : h = [i \in 0..(m + 1) |-> IF i = 0 THEN Scanner ELSE Scan(h[i - 1], line[i])]
    BY <2>3
  <2>5. m + 1 \in Nat
    OBVIOUS
  <2> QED
    BY <2>4, <2>5, Zenon DEF S
<1> HIDE DEF S
<1>3. Nat \subseteq S
  BY <1>1, <1>2, Induct
<1> QED
  BY <1>3 DEF S

\* What the server reads is what the scanner has at the end of the line.
LEMMA Reads ==
    ASSUME NEW line, Len(line) \in Nat, NEW Q, Takes({Scanner}, line, Q)
    PROVE  \E t \in Q : Unescape(line) = IF t.mode = "gap" THEN t.done ELSE Finish(t).done
<1> DEFINE f == CHOOSE h : h = [i \in 0..Len(line) |-> IF i = 0 THEN Scanner ELSE Scan(h[i - 1], line[i])]
<1>1. f = [i \in 0..Len(line) |-> IF i = 0 THEN Scanner ELSE Scan(f[i - 1], line[i])]
  BY ScanFcn, Zenon
<1>2. Unescape(line) = IF f[Len(line)].mode = "gap" THEN f[Len(line)].done
                       ELSE Finish(f[Len(line)]).done
  BY DEF Unescape
<1> HIDE DEF f
<1>3. Run(Scanner, line, f)
  <2>1. f[0] = Scanner
    BY <1>1
  <2>2. ASSUME NEW i \in 1..Len(line) PROVE f[i] = Scan(f[i - 1], line[i])
    <3>1. i \in 0..Len(line) /\ i # 0
      OBVIOUS
    <3> QED
      BY <1>1, <3>1
  <2> QED
    BY <2>1, <2>2 DEF Run
<1>4. f[Len(line)] \in Q
  BY <1>3 DEF Takes
<1> QED
  BY <1>2, <1>4

\* The scanner in an argument, of which a has been read, behind those of d.
Within(m, a, d) ==
    {s \in ScanState : s.mode = m /\ ~s.escape /\ s.argument = a /\ s.done = d}

Gap(d) == Within("gap", <<>>, d)

\* The characters that mean something to the scanner are different ones.
LEMMA Characters ==
    /\ Quote # Space /\ Quote # Apostrophe /\ Quote # Backslash
    /\ Apostrophe # Space /\ Apostrophe # Backslash /\ Backslash # Space
    /\ Special \subseteq Chr
<1>1. Quote # Space /\ Quote # Apostrophe
  BY DEF Quote, Space, Apostrophe
<1>2. Quote # Backslash /\ Apostrophe # Space
  BY DEF Quote, Space, Apostrophe, Backslash
<1>3. Apostrophe # Backslash /\ Backslash # Space
  BY DEF Space, Apostrophe, Backslash
<1> QED
  BY <1>1, <1>2, <1>3 DEF Chr

\* What the scanner makes of each kind of character, outside and inside of
\* quotes.
LEMMA ScanPlain ==
    ASSUME NEW m \in {"gap", "free"}, NEW a, NEW d, NEW s \in Within(m, a, d),
           NEW c \in Chr, c \notin Special
    PROVE  Scan(s, c) \in Within("free", Append(a, c), d)
<1>1. s \in ScanState /\ ~s.escape /\ s.mode \in {"gap", "free"}
  BY DEF Within
<1>2. c # Space /\ c # Quote /\ c # Apostrophe /\ c # Backslash
  BY DEF Special
<1>3. Scan(s, c) = Push(s, c)
  BY <1>1, <1>2 DEF Scan, ScanFree
<1> QED
  BY <1>1, <1>3, PushFields DEF Within

LEMMA ScanQuoted ==
    ASSUME NEW a, NEW d, NEW s \in Within("double", a, d),
           NEW c \in Chr, c # Quote, c # Backslash
    PROVE  Scan(s, c) \in Within("double", Append(a, c), d)
<1>1. s \in ScanState /\ ~s.escape /\ s.mode = "double"
  BY DEF Within
<1>2. Scan(s, c) = Push(s, c)
  BY <1>1 DEF Scan, ScanDouble
<1> QED
  BY <1>1, <1>2, PushFields DEF Within

LEMMA ScanEscaped ==
    ASSUME NEW a, NEW d, NEW s \in Within("double", a, d), NEW c \in Chr
    PROVE  Scan(Scan(s, Backslash), c) \in Within("double", Append(a, c), d)
<1> DEFINE e == Scan(s, Backslash)
<1>1. s \in ScanState /\ ~s.escape /\ s.mode = "double"
  BY DEF Within
<1>2. e = [s EXCEPT !.escape = TRUE]
  BY <1>1, Characters DEF Scan, ScanDouble
<1>3. /\ e \in ScanState /\ e.mode = "double" /\ e.escape
      /\ e.argument = s.argument /\ e.done = s.done
  BY <1>1, <1>2 DEF ScanState
<1> HIDE DEF e
<1>4. Scan(e, c) = Push(e, c)
  BY <1>3 DEF Scan
<1> QED
  BY <1>3, <1>4, PushFields DEF Within, e

LEMMA ScanQuote ==
    ASSUME NEW a, NEW d, NEW s
    PROVE  /\ s \in Gap(d) => Scan(s, Quote) \in Within("double", <<>>, d)
           /\ s \in Within("double", a, d) => Scan(s, Quote) \in Within("free", a, d)
<1>1. ASSUME s \in Gap(d) PROVE Scan(s, Quote) \in Within("double", <<>>, d)
  <2>1. s \in ScanState /\ ~s.escape /\ s.mode = "gap"
    BY <1>1 DEF Gap, Within
  <2>2. Scan(s, Quote) = [s EXCEPT !.mode = "double"]
    BY <2>1, Characters DEF Scan, ScanFree
  <2> QED
    BY <1>1, <2>1, <2>2 DEF Gap, Within, ScanState, Mode
<1>2. ASSUME s \in Within("double", a, d) PROVE Scan(s, Quote) \in Within("free", a, d)
  <2>1. s \in ScanState /\ ~s.escape /\ s.mode = "double"
    BY <1>2 DEF Within
  <2>2. Scan(s, Quote) = [s EXCEPT !.mode = "free"]
    BY <2>1, Characters DEF Scan, ScanDouble
  <2> QED
    BY <1>2, <2>1, <2>2 DEF Within, ScanState, Mode
<1> QED
  BY <1>1, <1>2

LEMMA ScanSpace ==
    ASSUME NEW a, NEW d, NEW s
    PROVE  s \in Within("free", a, d) => Scan(s, Space) \in Gap(Append(d, a))
<1> SUFFICES ASSUME s \in Within("free", a, d) PROVE Scan(s, Space) \in Gap(Append(d, a))
  OBVIOUS
<1>1. s \in ScanState /\ ~s.escape /\ s.mode = "free"
  BY DEF Within
<1>2. Scan(s, Space) = Finish(s)
  BY <1>1, Characters DEF Scan, ScanFree
<1> QED
  BY <1>1, <1>2, FinishFields DEF Within, Gap

\* The first characters of a word, one more at a time.
LEMMA Grow ==
    ASSUME NEW S, NEW w \in Seq(S)
    PROVE  /\ SubSeq(w, 1, 0) = <<>> /\ SubSeq(w, 1, Len(w)) = w /\ Len(w) \in Nat
           /\ \A i \in 0..Len(w) : SubSeq(w, 1, i) \in Seq(S) /\ Len(SubSeq(w, 1, i)) = i
           /\ \A i \in 1..Len(w) : SubSeq(w, 1, i) = Append(SubSeq(w, 1, i - 1), w[i])
<1>1. Len(w) \in Nat
  OBVIOUS
<1>2. SubSeq(w, 1, 0) = <<>> /\ SubSeq(w, 1, Len(w)) = w
  BY <1>1
<1>3. ASSUME NEW i \in 0..Len(w)
      PROVE  SubSeq(w, 1, i) \in Seq(S) /\ Len(SubSeq(w, 1, i)) = i
  BY <1>1
<1>4. ASSUME NEW i \in 1..Len(w)
      PROVE  SubSeq(w, 1, i) = Append(SubSeq(w, 1, i - 1), w[i])
  BY <1>1
<1> QED
  BY <1>1, <1>2, <1>3, <1>4

Word == Seq(Chr)

LEMMA TakesSame ==
    ASSUME NEW P, NEW Q, NEW P2, NEW Q2, NEW line, Takes(P, line, Q), P2 \subseteq P, Q \subseteq Q2
    PROVE  Takes(P2, line, Q2)
BY DEF Takes

LEMMA TakesSpace ==
    ASSUME NEW a, NEW d
    PROVE  Takes(Within("free", a, d), <<Space>>, Gap(Append(d, a)))
BY ScanSpace, TakesOne

\* Between quotes the server reads the word that was escaped.
LEMMA TakesEscaped ==
    ASSUME NEW w \in Word, NEW d
    PROVE  /\ Escaped(w) \in Word
           /\ Takes(Within("double", <<>>, d), Escaped(w), Within("double", w, d))
<1> DEFINE p == [i \in 1..Len(w) |->
                   IF w[i] \in {Quote, Backslash} THEN <<Backslash, w[i]>> ELSE <<w[i]>>]
           PP == [i \in 0..Len(w) |-> Within("double", SubSeq(w, 1, i), d)]
<1>1. Len(w) \in Nat /\ \A i \in 1..Len(w) : w[i] \in Chr
  BY DEF Word
<1>2. Backslash \in Chr
  BY Characters DEF Special
<1>3. p \in Seq(Seq(Chr)) /\ Len(p) = Len(w)
  <2>1. \A i \in 1..Len(w) : p[i] \in Seq(Chr)
    BY <1>1, <1>2
  <2>2. p = [i \in 1..Len(w) |-> p[i]]
    OBVIOUS
  <2> HIDE DEF p
  <2>3. p \in [1..Len(w) -> Seq(Chr)]
    BY <2>1, <2>2
  <2> QED
    BY <1>1, <2>3, FcnSeq
<1>4. Escaped(w) = FlattenSeq(p)
  BY DEF Escaped
<1>5. ASSUME NEW i \in 1..Len(p) PROVE Takes(PP[i - 1], p[i], PP[i])
  <2> DEFINE a == SubSeq(w, 1, i - 1)
  <2>1. i \in 1..Len(w) /\ i \in 0..Len(w) /\ i - 1 \in 0..Len(w) /\ w[i] \in Chr
    BY <1>1, <1>3
  <2>2. SubSeq(w, 1, i) = Append(a, w[i])
    BY <2>1, Grow DEF Word
  <2>3. PP[i - 1] = Within("double", a, d) /\ PP[i] = Within("double", Append(a, w[i]), d)
    BY <2>1, <2>2
  <2> HIDE DEF a, PP
  <2>4. CASE w[i] \in {Quote, Backslash}
    <3>1. p[i] = <<Backslash>> \o <<w[i]>>
      BY <2>1, <2>4
    <3> DEFINE M == {s \in ScanState : Scan(s, w[i]) \in PP[i]}
    <3>2. Takes(PP[i - 1], <<Backslash>>, M)
      <4>1. \A s \in PP[i - 1] : Scan(s, Backslash) \in M
        BY <1>2, <2>1, <2>3, ScanEscaped, ScanType DEF Within
      <4> HIDE DEF M
      <4> QED
        BY <4>1, TakesOne
    <3>3. Takes(M, <<w[i]>>, PP[i])
      <4>1. \A s \in M : Scan(s, w[i]) \in PP[i]
        OBVIOUS
      <4> HIDE DEF M
      <4> QED
        BY <4>1, TakesOne
    <3>4. <<Backslash>> \in Seq(Chr) /\ <<w[i]>> \in Seq(Chr)
      BY <1>2, <2>1
    <3> HIDE DEF M, p
    <3> QED
      BY <3>1, <3>2, <3>3, <3>4, TakesThen
  <2>5. CASE w[i] \notin {Quote, Backslash}
    <3>1. p[i] = <<w[i]>>
      BY <2>1, <2>5
    <3>2. \A s \in PP[i - 1] : Scan(s, w[i]) \in PP[i]
      BY <2>1, <2>3, <2>5, ScanQuoted
    <3> HIDE DEF p
    <3> QED
      BY <3>1, <3>2, TakesOne
  <2> QED
    BY <2>4, <2>5
<1>6. PP[0] = Within("double", <<>>, d) /\ PP[Len(p)] = Within("double", w, d)
  <2>1. 0 \in 0..Len(w) /\ Len(p) \in 0..Len(w)
    BY <1>1, <1>3
  <2>2. SubSeq(w, 1, 0) = <<>> /\ SubSeq(w, 1, Len(w)) = w
    BY Grow DEF Word
  <2> QED
    BY <1>3, <2>1, <2>2
<1> HIDE DEF p, PP
<1>7. Takes(PP[0], FlattenSeq(p), PP[Len(p)])
  BY <1>3, <1>5, TakesFlatten
<1> QED
  BY <1>3, <1>4, <1>6, <1>7, FlattenType DEF Word

\* A word that survives is read as it was sent.
LEMMA TakesWord ==
    ASSUME NEW w \in Word, Survives(w), NEW d
    PROVE  Takes(Gap(d), QuoteWord(w), Within("free", w, d))
<1>1. CASE NeedsQuotes(w)
  <2>1. QuoteWord(w) = (<<Quote>> \o Escaped(w)) \o <<Quote>>
    BY <1>1 DEF QuoteWord
  <2>2. <<Quote>> \in Seq(Chr) /\ Escaped(w) \in Seq(Chr) /\ <<Quote>> \o Escaped(w) \in Seq(Chr)
    <3>1. Quote \in Chr
      BY Characters DEF Special
    <3>2. <<Quote>> \in Seq(Chr)
      BY <3>1
    <3>3. Escaped(w) \in Seq(Chr)
      BY TakesEscaped DEF Word
    <3> QED
      BY <3>2, <3>3
  <2>3. Takes(Gap(d), <<Quote>>, Within("double", <<>>, d))
    BY ScanQuote, TakesOne
  <2>4. Takes(Within("double", <<>>, d), Escaped(w), Within("double", w, d))
    BY TakesEscaped
  <2>5. Takes(Within("double", w, d), <<Quote>>, Within("free", w, d))
    BY ScanQuote, TakesOne
  <2>6. Takes(Gap(d), <<Quote>> \o Escaped(w), Within("double", w, d))
    BY <2>2, <2>3, <2>4, TakesThen
  <2> QED
    BY <2>1, <2>2, <2>5, <2>6, TakesThen
<1>2. CASE ~NeedsQuotes(w)
  <2> DEFINE PP == [i \in 0..Len(w) |-> IF i = 0 THEN Gap(d) ELSE Within("free", SubSeq(w, 1, i), d)]
  <2>1. Len(w) \in Nat /\ Len(w) # 0
    BY <1>2 DEF NeedsQuotes, Word
  <2>2. \A i \in 1..Len(w) : w[i] \in Chr /\ w[i] \notin Special
    BY <1>2 DEF NeedsQuotes, Survives, Word, Special
  <2>3. ASSUME NEW i \in 1..Len(w) PROVE \A s \in PP[i - 1] : Scan(s, w[i]) \in PP[i]
    <3> DEFINE a == SubSeq(w, 1, i - 1)
    <3>1. i \in 0..Len(w) /\ i - 1 \in 0..Len(w) /\ i # 0
      BY <2>1
    <3>2. SubSeq(w, 1, i) = Append(a, w[i]) /\ (i - 1 = 0 => a = <<>>)
      BY <3>1, Grow DEF Word
    <3>3. PP[i] = Within("free", Append(a, w[i]), d)
      BY <3>1, <3>2
    <3>4. PP[i - 1] = Within("gap", a, d) \/ PP[i - 1] = Within("free", a, d)
      BY <3>1, <3>2 DEF Gap
    <3> HIDE DEF a, PP
    <3> QED
      BY <2>2, <3>3, <3>4, ScanPlain
  <2>4. PP[0] = Gap(d) /\ PP[Len(w)] = Within("free", w, d)
    <3>1. 0 \in 0..Len(w) /\ Len(w) \in 0..Len(w) /\ SubSeq(w, 1, Len(w)) = w
      BY <2>1, Grow DEF Word
    <3> QED
      BY <2>1, <3>1
  <2> HIDE DEF PP
  <2>5. Takes(PP[0], w, PP[Len(w)])
    BY <2>1, <2>3, TakesEach
  <2> QED
    BY <1>2, <2>4, <2>5 DEF QuoteWord
<1> QED
  BY <1>1, <1>2

\* The pieces that irony--quote-strings puts together.
Pieces(words) ==
    [i \in 1..Len(words) |->
        IF i = 1 THEN QuoteWord(words[i]) ELSE <<Space>> \o QuoteWord(words[i])]

LEMMA QuoteType == ASSUME NEW w \in Word PROVE QuoteWord(w) \in Word
<1>1. <<Quote>> \in Seq(Chr)
  <2>1. Quote \in Chr
    BY Characters DEF Special
  <2> QED
    BY <2>1
<1>2. Escaped(w) \in Seq(Chr)
  BY TakesEscaped DEF Word
<1> QED
  BY <1>1, <1>2 DEF QuoteWord, Word

LEMMA PiecesType ==
    ASSUME NEW words \in Seq(Word)
    PROVE  /\ Pieces(words) \in Seq(Seq(Chr)) /\ Len(Pieces(words)) = Len(words)
           /\ Len(words) \in Nat
           /\ \A i \in 1..Len(words) : words[i] \in Word /\ QuoteWord(words[i]) \in Seq(Chr)
           /\ <<Space>> \in Seq(Chr)
           /\ QuoteStrings(words) = FlattenSeq(Pieces(words))
           /\ \A i \in 1..Len(words) :
                 Pieces(words)[i] = IF i = 1 THEN QuoteWord(words[i])
                                    ELSE <<Space>> \o QuoteWord(words[i])
<1> DEFINE p == Pieces(words)
<1>1. Len(words) \in Nat /\ \A i \in 1..Len(words) : words[i] \in Word
  OBVIOUS
<1>2. \A i \in 1..Len(words) : QuoteWord(words[i]) \in Seq(Chr)
  BY <1>1, QuoteType DEF Word
<1>3. <<Space>> \in Seq(Chr)
  <2>1. Space \in Chr
    BY Characters DEF Special
  <2> QED
    BY <2>1
<1>4. \A i \in 1..Len(words) :
        p[i] = IF i = 1 THEN QuoteWord(words[i]) ELSE <<Space>> \o QuoteWord(words[i])
  BY DEF Pieces
<1>5. ASSUME NEW i \in 1..Len(words) PROVE p[i] \in Seq(Chr)
  <2> DEFINE q == QuoteWord(words[i])
  <2>1. q \in Seq(Chr)
    BY <1>2
  <2>2. p[i] = q \/ p[i] = <<Space>> \o q
    BY <1>4
  <2> HIDE DEF p, q
  <2>3. <<Space>> \o q \in Seq(Chr)
    BY <1>3, <2>1, ConcatProperties
  <2> QED
    BY <2>1, <2>2, <2>3
<1>6. p = [i \in 1..Len(words) |-> p[i]]
  BY DEF Pieces
<1>7. QuoteStrings(words) = FlattenSeq(p)
  BY DEF QuoteStrings, Pieces
<1> HIDE DEF p
<1>8. p \in [1..Len(words) -> Seq(Chr)]
  BY <1>5, <1>6
<1>9. p \in Seq(Seq(Chr)) /\ Len(p) = Len(words)
  BY <1>1, <1>8, FcnSeq
<1> QED
  BY <1>1, <1>2, <1>3, <1>4, <1>7, <1>9 DEF p

LEMMA ScannerState == Scanner \in Gap(<<>>)
BY DEF Scanner, Gap, Within, ScanState, Mode

\* A line that ends in an argument.
LEMMA ReadsWithin ==
    ASSUME NEW line, Len(line) \in Nat, NEW w, NEW d,
           Takes(Gap(<<>>), line, Within("free", w, d))
    PROVE  Unescape(line) = Append(d, w)
<1>1. Takes({Scanner}, line, Within("free", w, d))
  BY ScannerState, TakesSame
<1>2. PICK t \in Within("free", w, d) :
        Unescape(line) = IF t.mode = "gap" THEN t.done ELSE Finish(t).done
  BY <1>1, Reads
<1>3. t \in ScanState /\ t.mode = "free" /\ t.argument = w /\ t.done = d
  BY DEF Within
<1> QED
  BY <1>2, <1>3, FinishFields

\* The words of a line all survive: the state behind each piece.
LEMMA TakesPieces ==
    ASSUME NEW words \in Seq(Word), NEW n \in 0..Len(words), \A i \in 1..n : Survives(words[i]),
           NEW PP, PP[0] = Gap(<<>>),
           \A i \in 1..n : PP[i] = Within("free", words[i], SubSeq(words, 1, i - 1))
    PROVE  \A i \in 1..n : Takes(PP[i - 1], Pieces(words)[i], PP[i])
<1> SUFFICES ASSUME NEW i \in 1..n PROVE Takes(PP[i - 1], Pieces(words)[i], PP[i])
  OBVIOUS
<1> DEFINE d == SubSeq(words, 1, i - 1)
           w == words[i]
<1>0. Len(words) \in Nat /\ n \in Nat /\ i \in Nat
  OBVIOUS
<1>1. i \in 1..Len(words) /\ w \in Word /\ Survives(w)
  BY <1>0
<1>2. Takes(Gap(d), QuoteWord(w), Within("free", w, d))
  BY <1>1, TakesWord
<1>3. CASE i = 1
  <2>0. i - 1 = 0
    BY <1>3
  <2>1. d = <<>> /\ PP[i - 1] = Gap(d)
    BY <2>0, Grow
  <2>2. Pieces(words)[i] = QuoteWord(w)
    BY <1>1, <1>3, PiecesType
  <2> QED
    BY <1>2, <2>1, <2>2
<1>4. CASE i # 1
  <2> DEFINE e == SubSeq(words, 1, (i - 1) - 1)
  <2>1. i - 1 \in 1..n /\ i - 1 \in 1..Len(words)
    BY <1>0, <1>1, <1>4
  <2>2. d = Append(e, words[i - 1])
    BY <2>1, Grow
  <2>3. PP[i - 1] = Within("free", words[i - 1], e)
    BY <2>1
  <2>4. Pieces(words)[i] = <<Space>> \o QuoteWord(w)
    BY <1>1, <1>4, PiecesType
  <2> HIDE DEF d, e
  <2>5. Takes(PP[i - 1], <<Space>>, Gap(d))
    BY <2>2, <2>3, TakesSpace
  <2>6. <<Space>> \in Seq(Chr) /\ QuoteWord(w) \in Seq(Chr)
    BY <1>1, PiecesType
  <2>7. Takes(PP[i - 1], <<Space>> \o QuoteWord(w), Within("free", w, d))
    BY <1>2, <2>5, <2>6, TakesThen
  <2> QED
    BY <2>4, <2>7 DEF d
<1> QED
  BY <1>3, <1>4

\* irony--quote-strings and unescapeCommandLine are inverse to each other on
\* words that survive.
LEMMA Arrives ==
    ASSUME NEW words \in Seq(Word), words # <<>>, AllSurvive(words)
    PROVE  Unescape(QuoteStrings(words)) = words
<1> DEFINE n == Len(words)
           PP == [i \in 0..n |-> IF i = 0 THEN Gap(<<>>)
                                 ELSE Within("free", words[i], SubSeq(words, 1, i - 1))]
           p == Pieces(words)
<1>1. n \in Nat /\ n # 0 /\ n \in 1..n /\ p \in Seq(Seq(Chr)) /\ Len(p) = n
      /\ QuoteStrings(words) = FlattenSeq(p)
  <2>1. n \in Nat /\ n # 0
    OBVIOUS
  <2> QED
    BY <2>1, PiecesType
<1>2. PP[0] = Gap(<<>>)
      /\ \A i \in 1..n : PP[i] = Within("free", words[i], SubSeq(words, 1, i - 1))
  BY <1>1
<1> HIDE DEF PP
<1>3. \A i \in 1..n : Takes(PP[i - 1], p[i], PP[i])
  <2>1. n \in 0..Len(words) /\ \A i \in 1..n : Survives(words[i])
    BY <1>1 DEF AllSurvive
  <2> HIDE DEF n, p
  <2> QED
    BY <1>2, <2>1, TakesPieces DEF p
<1>4. Takes(PP[0], FlattenSeq(p), PP[Len(p)])
  BY <1>1, <1>3, TakesFlatten
<1>5. FlattenSeq(p) \in Seq(Chr)
  BY <1>1, FlattenType
<1>6. Len(FlattenSeq(p)) \in Nat
  BY <1>5
<1> DEFINE d == SubSeq(words, 1, n - 1)
           w == words[n]
<1>7. Takes(Gap(<<>>), FlattenSeq(p), Within("free", w, d))
  BY <1>1, <1>2, <1>4
<1>8. Append(d, w) = words
  BY <1>1, Grow
<1> HIDE DEF p, d, w
<1> QED
  BY <1>1, <1>6, <1>7, <1>8, ReadsWithin

\* What a character can do: become a part of the argument, or not; or end it.
LEMMA ScanSteps ==
    ASSUME NEW s \in ScanState, NEW c \in Chr
    PROVE  LET t == Scan(s, c)
           IN  \/ /\ t.done = s.done /\ (s.mode # "gap" => t.mode # "gap")
                  /\ t.argument = s.argument \/ t.argument = Append(s.argument, c)
               \/ s.mode # "gap" /\ t.done = Append(s.done, s.argument)
<1> DEFINE t == Scan(s, c)
<1>1. CASE t = Push(s, c)
  BY <1>1, PushFields
<1>2. CASE t = Finish(s) /\ s.mode # "gap"
  BY <1>2, FinishFields
<1>3. CASE \E m \in {"free", "double", "single"} : t = [s EXCEPT !.mode = m]
  BY <1>3 DEF ScanState
<1>4. CASE t = [s EXCEPT !.escape = TRUE]
  BY <1>4 DEF ScanState
<1>5. CASE t = [Started(s) EXCEPT !.escape = TRUE]
  <2> DEFINE u == Started(s)
  <2>1. /\ u \in ScanState /\ u.done = s.done /\ u.argument = s.argument
        /\ s.mode # "gap" => u.mode # "gap"
    BY DEF Started, ScanState, Mode
  <2>2. t = [u EXCEPT !.escape = TRUE]
    BY <1>5
  <2> HIDE DEF t, u
  <2>3. t.done = u.done /\ t.argument = u.argument /\ t.mode = u.mode
    BY <2>1, <2>2 DEF ScanState
  <2> QED
    BY <2>1, <2>3 DEF t
<1>6. CASE t = s
  BY <1>6
<1>7. \/ t = Push(s, c) \/ (t = Finish(s) /\ s.mode # "gap")
      \/ (\E m \in {"free", "double", "single"} : t = [s EXCEPT !.mode = m])
      \/ t = [s EXCEPT !.escape = TRUE] \/ t = [Started(s) EXCEPT !.escape = TRUE]
      \/ t = s
  <2>1. CASE s.escape
    BY <2>1 DEF Scan
  <2>2. CASE ~s.escape /\ s.mode = "double"
    BY <2>2, Characters DEF Scan, ScanDouble
  <2>3. CASE ~s.escape /\ s.mode = "single"
    BY <2>3 DEF Scan, ScanSingle
  <2>4. CASE ~s.escape /\ s.mode # "double" /\ s.mode # "single"
    <3>1. t = ScanFree(s, c)
      BY <2>4 DEF Scan
    <3> QED
      BY <3>1, Characters DEF ScanFree
  <2> QED
    BY <2>1, <2>2, <2>3, <2>4
<1> QED
  BY ONLY <1>1, <1>2, <1>3, <1>4, <1>5, <1>6, <1>7, Zenon

\* Behind k - 1 arguments, an argument of p - 1 characters, an apostrophe not
\* being a part of it.
Pending(k, p) ==
    {s \in ScanState : /\ Len(s.done) = k - 1 /\ Len(s.argument) = p - 1
                       /\ ~s.escape /\ s.mode \in {"single", "free"}}

\* The argument k is not, or will not be, w, whose character p is an apostrophe.
Broken(k, p, w) ==
    {s \in ScanState :
        \/ Len(s.done) >= k /\ s.done[k] # w
        \/ /\ Len(s.done) = k - 1 /\ s.mode # "gap"
           /\ Len(s.argument) >= p /\ s.argument[p] # Apostrophe}

\* An argument that has gone wrong stays wrong, whatever comes behind it, and
\* one that lacks its apostrophe goes wrong when it goes on or ends.
LEMMA BrokenStays ==
    ASSUME NEW k \in Nat \ {0}, NEW p \in Nat \ {0}, NEW w, p <= Len(w), w[p] = Apostrophe,
           NEW s \in Broken(k, p, w), NEW c \in Chr
    PROVE  Scan(s, c) \in Broken(k, p, w)
<1> DEFINE t == Scan(s, c)
<1>1. s \in ScanState /\ t \in ScanState
  BY ScanType DEF Broken
<1>2. /\ s.done \in Seq(Seq(Chr)) /\ s.argument \in Seq(Chr)
      /\ Len(s.done) \in Nat /\ Len(s.argument) \in Nat
  BY <1>1 DEF ScanState
<1>3. /\ Len(Append(s.done, s.argument)) = Len(s.done) + 1
      /\ Append(s.done, s.argument)[Len(s.done) + 1] = s.argument
      /\ \A i \in 1..Len(s.done) : Append(s.done, s.argument)[i] = s.done[i]
  BY <1>2
<1>4. /\ Len(Append(s.argument, c)) = Len(s.argument) + 1
      /\ \A i \in 1..Len(s.argument) : Append(s.argument, c)[i] = s.argument[i]
  BY <1>2
<1>5. \/ /\ t.done = s.done /\ (s.mode # "gap" => t.mode # "gap")
         /\ t.argument = s.argument \/ t.argument = Append(s.argument, c)
      \/ s.mode # "gap" /\ t.done = Append(s.done, s.argument)
  BY <1>1, ScanSteps
<1> HIDE DEF t
<1>6. CASE Len(s.done) >= k /\ s.done[k] # w
  <2>1. k \in 1..Len(s.done)
    BY <1>2, <1>6
  <2>2. t.done = s.done \/ t.done = Append(s.done, s.argument)
    BY <1>5
  <2>3. Append(s.done, s.argument)[k] = s.done[k]
    BY <1>3, <2>1
  <2>4. Len(t.done) >= k
    BY <1>2, <1>3, <1>6, <2>2
  <2>5. t.done[k] # w
    BY <1>6, <2>2, <2>3
  <2> QED
    BY <1>1, <2>4, <2>5 DEF Broken, t
<1>7. CASE /\ Len(s.done) = k - 1 /\ s.mode # "gap"
           /\ Len(s.argument) >= p /\ s.argument[p] # Apostrophe
  <2>1. p \in 1..Len(s.argument)
    BY <1>2, <1>7
  <2>2. CASE t.done = Append(s.done, s.argument)
    <3>1. Len(t.done) >= k /\ t.done[k] = s.argument
      BY <1>2, <1>3, <1>7, <2>2
    <3>2. s.argument # w
      BY <1>7
    <3> QED
      BY <1>1, <3>1, <3>2 DEF Broken, t
  <2>3. CASE /\ t.done = s.done /\ t.mode # "gap"
             /\ t.argument = s.argument \/ t.argument = Append(s.argument, c)
    <3>1. Len(t.argument) >= p /\ t.argument[p] # Apostrophe
      BY <1>2, <1>4, <1>7, <2>1, <2>3
    <3> QED
      BY <1>1, <1>7, <2>3, <3>1 DEF Broken, t
  <2> QED
    BY <1>5, <1>7, <2>2, <2>3
<1> QED
  BY <1>6, <1>7 DEF Broken

LEMMA PendingGoesOn ==
    ASSUME NEW k \in Nat \ {0}, NEW p \in Nat \ {0}, NEW w,
           NEW s \in Pending(k, p), NEW c \in Chr, c \notin {Quote, Backslash, Space}
    PROVE  Scan(s, c) \in Pending(k, p) \cup Broken(k, p, w)
<1>1. /\ s \in ScanState /\ Len(s.done) = k - 1 /\ Len(s.argument) = p - 1
      /\ ~s.escape /\ s.mode \in {"single", "free"}
  BY DEF Pending
<1>2. CASE c = Apostrophe
  <2>1. \E m \in {"single", "free"} : Scan(s, c) = [s EXCEPT !.mode = m]
    BY <1>1, <1>2, Characters DEF Scan, ScanSingle, ScanFree
  <2>2. Scan(s, c) \in Pending(k, p)
    BY <1>1, <2>1 DEF Pending, ScanState, Mode
  <2> QED
    BY <2>2
<1>3. CASE c # Apostrophe
  <2>1. Scan(s, c) = Push(s, c)
    BY <1>1, <1>3, Characters DEF Scan, ScanSingle, ScanFree
  <2> DEFINE t == Push(s, c)
  <2>2. t \in ScanState /\ t.mode # "gap" /\ t.argument = Append(s.argument, c) /\ t.done = s.done
    BY <1>1, PushFields
  <2>3. s.argument \in Seq(Chr)
    BY <1>1 DEF ScanState
  <2>4. Len(Append(s.argument, c)) = p /\ Append(s.argument, c)[p] = c
    BY <1>1, <2>3
  <2> HIDE DEF t
  <2>5. t \in Broken(k, p, w)
    BY <1>1, <1>3, <2>2, <2>4 DEF Broken
  <2> QED
    BY <2>1, <2>5 DEF t
<1> QED
  BY <1>2, <1>3

LEMMA PendingEnds ==
    ASSUME NEW k \in Nat \ {0}, NEW p \in Nat \ {0}, NEW w \in Word, p <= Len(w), w[p] = Apostrophe,
           NEW s \in Pending(k, p)
    PROVE  Scan(s, Space) \in Broken(k, p, w)
<1>1. /\ s \in ScanState /\ Len(s.done) = k - 1 /\ Len(s.argument) = p - 1
      /\ ~s.escape /\ s.mode \in {"single", "free"}
  BY DEF Pending
<1>2. Space \in Chr /\ s.argument \in Seq(Chr) /\ s.done \in Seq(Seq(Chr)) /\ Len(w) \in Nat
  BY <1>1, Characters DEF Special, ScanState, Word
<1>3. CASE s.mode = "single"
  <2> DEFINE t == Push(s, Space)
  <2>1. Scan(s, Space) = t
    BY <1>1, <1>3, Characters DEF Scan, ScanSingle
  <2>2. /\ t \in ScanState /\ t.mode # "gap" /\ t.argument = Append(s.argument, Space)
        /\ t.done = s.done
    BY <1>1, <1>2, PushFields
  <2>3. Len(Append(s.argument, Space)) = p /\ Append(s.argument, Space)[p] = Space
    BY <1>1, <1>2
  <2> HIDE DEF t
  <2>4. t \in Broken(k, p, w)
    BY <1>1, <2>2, <2>3, Characters DEF Broken
  <2> QED
    BY <2>1, <2>4
<1>4. CASE s.mode = "free"
  <2> DEFINE t == Finish(s)
  <2>1. Scan(s, Space) = t
    BY <1>1, <1>4, Characters DEF Scan, ScanFree
  <2>2. t \in ScanState /\ t.done = Append(s.done, s.argument)
    BY <1>1, FinishFields
  <2>3. Len(Append(s.done, s.argument)) = k /\ Append(s.done, s.argument)[k] = s.argument
    BY <1>1, <1>2
  <2>4. s.argument # w
    BY <1>1, <1>2
  <2> HIDE DEF t
  <2>5. t \in Broken(k, p, w)
    BY <1>1, <2>2, <2>3, <2>4 DEF Broken
  <2> QED
    BY <2>1, <2>5
<1> QED
  BY <1>1, <1>3, <1>4

\* What no character can undo, no line can.
LEMMA TakesStable ==
    ASSUME NEW P, NEW line \in Word, \A s \in P, c \in Chr : Scan(s, c) \in P
    PROVE  Takes(P, line, P)
<1> DEFINE PP == [i \in 0..Len(line) |-> P]
<1>1. Len(line) \in Nat /\ \A i \in 1..Len(line) : line[i] \in Chr
  BY DEF Word
<1>2. ASSUME NEW i \in 1..Len(line) PROVE \A s \in PP[i - 1] : Scan(s, line[i]) \in PP[i]
  <2>1. i \in 0..Len(line) /\ i - 1 \in 0..Len(line)
    BY <1>1
  <2> QED
    BY <1>1, <2>1
<1>3. PP[0] = P /\ PP[Len(line)] = P
  BY <1>1
<1> HIDE DEF PP
<1>4. Takes(PP[0], line, PP[Len(line)])
  BY <1>1, <1>2, TakesEach
<1> QED
  BY <1>3, <1>4

\* A word whose first apostrophe, at p, is not quoted.
LostAt(w, p) ==
    /\ ~NeedsQuotes(w) /\ p \in 1..Len(w) /\ w[p] = Apostrophe
    /\ \A i \in 1..(p - 1) : w[i] # Apostrophe

\* A word that does not survive has a first apostrophe that is lost.
LEMMA LostSomewhere ==
    ASSUME NEW w \in Word, ~Survives(w)
    PROVE  \E p \in Nat \ {0} : LostAt(w, p)
<1> DEFINE T == {i \in 1..Len(w) : w[i] = Apostrophe}
<1>1. Len(w) \in Nat
  BY DEF Word
<1>2. T # {} /\ T \subseteq Nat
  BY DEF Survives
<1>3. PICK p \in T : \A i \in T : p <= i
  BY <1>2, Least
<1>4. p \in Nat \ {0} /\ p \in 1..Len(w) /\ w[p] = Apostrophe
  OBVIOUS
<1>5. ASSUME NEW i \in 1..(p - 1) PROVE w[i] # Apostrophe
  <2>1. i \in 1..Len(w) /\ ~(p <= i)
    BY <1>1, <1>4
  <2> QED
    BY <1>3, <2>1
<1> QED
  BY <1>4, <1>5 DEF LostAt, Survives

\* The scanner reads up to it, and has lost it then.
LEMMA TakesLost ==
    ASSUME NEW k \in Nat \ {0}, NEW p \in Nat \ {0}, NEW w \in Word, LostAt(w, p),
           NEW d \in Seq(Seq(Chr)), Len(d) = k - 1
    PROVE  Takes(Gap(d), QuoteWord(w), Pending(k, p) \cup Broken(k, p, w))
<1> DEFINE Wrong == Pending(k, p) \cup Broken(k, p, w)
           PP == [i \in 0..Len(w) |-> IF i = 0 THEN Gap(d)
                                      ELSE IF i < p THEN Within("free", SubSeq(w, 1, i), d)
                                      ELSE Wrong]
<1>1. /\ Len(w) \in Nat /\ p <= Len(w) /\ w[p] = Apostrophe /\ QuoteWord(w) = w
      /\ \A i \in 1..Len(w) : w[i] \in Chr /\ w[i] \notin {Quote, Backslash, Space}
      /\ \A i \in 1..(p - 1) : w[i] # Apostrophe
  BY DEF LostAt, QuoteWord, NeedsQuotes, Word
<1>2. ASSUME NEW i \in 1..Len(w) PROVE \A s \in PP[i - 1] : Scan(s, w[i]) \in PP[i]
  <2> DEFINE a == SubSeq(w, 1, i - 1)
  <2>1. i \in 0..Len(w) /\ i - 1 \in 0..Len(w) /\ i # 0 /\ i \in Nat /\ i - 1 \in Nat
    BY <1>1
  <2>2. /\ SubSeq(w, 1, i) = Append(a, w[i]) /\ (i - 1 = 0 => a = <<>>)
        /\ a \in Seq(Chr) /\ Len(a) = i - 1
    BY <2>1, Grow DEF Word
  <2>3. CASE i <= p
    <3>0. PP[i - 1] = IF i - 1 = 0 THEN Gap(d)
                      ELSE IF i - 1 < p THEN Within("free", a, d) ELSE Wrong
      BY <2>1
    <3>1. PP[i - 1] = Within("gap", a, d) \/ PP[i - 1] = Within("free", a, d)
      <4> HIDE DEF PP, a, Wrong
      <4>1. i - 1 < p
        BY <2>1, <2>3
      <4> QED
        BY <2>2, <3>0, <4>1 DEF Gap
    <3>2. CASE i < p
      <4>1. PP[i] = Within("free", Append(a, w[i]), d)
        BY <2>1, <2>2, <3>2
      <4>2. w[i] \in Chr /\ w[i] \notin Special
        BY <1>1, <2>1, <3>2 DEF Special
      <4> HIDE DEF a, PP
      <4> QED
        BY <3>1, <4>1, <4>2, ScanPlain
    <3>3. CASE i = p
      <4>1. PP[i] = Wrong
        BY <2>1, <3>3
      <4>2. ASSUME NEW s \in PP[i - 1] PROVE Scan(s, w[i]) \in Pending(k, p)
        <5> HIDE DEF PP, a
        <5>1. /\ s \in ScanState /\ ~s.escape /\ s.mode \in {"gap", "free"}
              /\ s.argument = a /\ s.done = d
          BY <3>1, <4>2 DEF Within
        <5>2. Scan(s, w[i]) = [s EXCEPT !.mode = "single"]
          BY <1>1, <3>3, <5>1, Characters DEF Scan, ScanFree
        <5> QED
          BY <2>2, <3>3, <5>1, <5>2 DEF Pending, ScanState, Mode
      <4> QED
        BY <4>1, <4>2
    <3> QED
      BY <2>1, <2>3, <3>2, <3>3
  <2>4. CASE p < i
    <3>1. PP[i - 1] = Wrong /\ PP[i] = Wrong
      BY <2>1, <2>4
    <3>2. w[i] \in Chr /\ w[i] \notin {Quote, Backslash, Space}
      BY <1>1
    <3> HIDE DEF PP, a
    <3>3. ASSUME NEW s \in Wrong PROVE Scan(s, w[i]) \in Wrong
      <4>1. CASE s \in Pending(k, p)
        BY <3>2, <4>1, PendingGoesOn
      <4>2. CASE s \in Broken(k, p, w)
        BY <1>1, <3>2, <4>2, BrokenStays
      <4> QED
        BY <3>3, <4>1, <4>2
    <3> QED
      BY <3>1, <3>3
  <2> QED
    BY <2>1, <2>3, <2>4
<1>3. PP[0] = Gap(d) /\ PP[Len(w)] = Wrong
  BY <1>1
<1> HIDE DEF PP, Wrong
<1>4. Takes(PP[0], w, PP[Len(w)])
  BY <1>1, <1>2, TakesEach
<1> QED
  BY <1>1, <1>3, <1>4 DEF Wrong

\* The space behind the word, and another word, do not make it right.
LEMMA TakesRest ==
    ASSUME NEW k \in Nat \ {0}, NEW p \in Nat \ {0}, NEW w \in Word, LostAt(w, p), NEW v \in Word
    PROVE  Takes(Pending(k, p) \cup Broken(k, p, w), <<Space>> \o v,
                 Pending(k, p) \cup Broken(k, p, w))
<1> DEFINE Wrong == Pending(k, p) \cup Broken(k, p, w)
<1>1. p <= Len(w) /\ w[p] = Apostrophe /\ Space \in Chr
  BY Characters DEF LostAt, Special, Word
<1>2. \A s \in Broken(k, p, w), c \in Chr : Scan(s, c) \in Broken(k, p, w)
  BY <1>1, BrokenStays
<1>3. Takes(Wrong, <<Space>>, Broken(k, p, w))
  <2>1. \A s \in Wrong : Scan(s, Space) \in Broken(k, p, w)
    BY <1>1, <1>2, PendingEnds
  <2> HIDE DEF Wrong
  <2> QED
    BY <2>1, TakesOne
<1>4. Takes(Broken(k, p, w), v, Broken(k, p, w))
  BY <1>2, TakesStable
<1>5. <<Space>> \in Seq(Chr) /\ v \in Seq(Chr)
  BY <1>1 DEF Word
<1> HIDE DEF Wrong
<1>6. Takes(Wrong, <<Space>> \o v, Broken(k, p, w))
  BY <1>3, <1>4, <1>5, TakesThen
<1> QED
  BY <1>6, TakesSame DEF Wrong

\* A line that ends like this is not read as the words that were sent.
LEMMA WrongAtEnd ==
    ASSUME NEW k \in Nat \ {0}, NEW p \in Nat \ {0}, NEW w \in Word, p <= Len(w), w[p] = Apostrophe,
           NEW t \in Pending(k, p) \cup Broken(k, p, w)
    PROVE  LET read == IF t.mode = "gap" THEN t.done ELSE Finish(t).done
           IN  Len(read) >= k => read[k] # w
<1> DEFINE read == IF t.mode = "gap" THEN t.done ELSE Finish(t).done
           longer == Append(t.done, t.argument)
<1>1. t \in ScanState
  BY DEF Pending, Broken
<1>2. /\ t.done \in Seq(Seq(Chr)) /\ t.argument \in Seq(Chr) /\ Len(w) \in Nat
      /\ Len(t.done) \in Nat /\ Len(t.argument) \in Nat
  BY <1>1 DEF ScanState, Word
<1>3. /\ Len(longer) = Len(t.done) + 1
      /\ longer[Len(t.done) + 1] = t.argument
      /\ \A i \in 1..Len(t.done) : longer[i] = t.done[i]
  BY <1>2
<1>4. IF t.mode = "gap" THEN read = t.done ELSE read = longer
  BY <1>1, FinishFields
<1> HIDE DEF read, longer
<1>5. CASE t \in Pending(k, p)
  <2>1. read = longer /\ Len(t.done) = k - 1 /\ Len(t.argument) = p - 1
    BY <1>4, <1>5 DEF Pending
  <2>2. read[k] = t.argument
    BY <1>2, <1>3, <2>1
  <2>3. t.argument # w
    BY <1>2, <2>1
  <2> QED
    BY <2>2, <2>3 DEF read
<1>6. CASE Len(t.done) >= k /\ t.done[k] # w
  <2>1. k \in 1..Len(t.done)
    BY <1>2, <1>6
  <2>2. longer[k] = t.done[k]
    BY <1>3, <2>1
  <2> QED
    BY <1>4, <1>6, <2>2 DEF read
<1>7. CASE /\ Len(t.done) = k - 1 /\ t.mode # "gap"
           /\ Len(t.argument) >= p /\ t.argument[p] # Apostrophe
  <2>1. read = longer /\ read[k] = t.argument
    BY <1>2, <1>3, <1>4, <1>7
  <2>2. t.argument # w
    BY <1>7
  <2> QED
    BY <2>1, <2>2 DEF read
<1> QED
  BY <1>5, <1>6, <1>7 DEF Broken

\* A word that does not survive does not arrive.
LEMMA Lost ==
    ASSUME NEW words \in Seq(Word), ~AllSurvive(words)
    PROVE  Unescape(QuoteStrings(words)) # words
<1> DEFINE n == Len(words)
           T == {i \in 1..n : ~Survives(words[i])}
<1>1. n \in Nat /\ T # {} /\ T \subseteq Nat
  BY DEF AllSurvive
<1>2. PICK k \in T : \A i \in T : k <= i
  BY <1>1, Least
<1> DEFINE w == words[k]
           d == SubSeq(words, 1, k - 1)
<1>3. k \in Nat \ {0} /\ k \in 1..n /\ k - 1 \in 0..n /\ w \in Word /\ ~Survives(w)
  BY <1>1
<1>4. \A i \in 1..(k - 1) : Survives(words[i])
  <2> SUFFICES ASSUME NEW i \in 1..(k - 1) PROVE Survives(words[i])
    OBVIOUS
  <2>1. i \in 1..n /\ ~(k <= i)
    BY <1>1, <1>3
  <2> QED
    BY <1>2, <2>1
<1>5. PICK p \in Nat \ {0} : LostAt(w, p)
  BY <1>3, LostSomewhere
<1>6. p <= Len(w) /\ w[p] = Apostrophe
  BY <1>3, <1>5 DEF LostAt, Word
<1>7. /\ d \in Seq(Word) /\ Len(d) = k - 1
  BY <1>3, Grow
<1> DEFINE Wrong == Pending(k, p) \cup Broken(k, p, w)
           PP == [i \in 0..n |-> IF i = 0 THEN Gap(<<>>)
                                 ELSE IF i < k
                                 THEN Within("free", words[i], SubSeq(words, 1, i - 1))
                                 ELSE Wrong]
           q == Pieces(words)
<1>8. /\ q \in Seq(Seq(Chr)) /\ Len(q) = n /\ QuoteStrings(words) = FlattenSeq(q)
      /\ <<Space>> \in Seq(Chr)
      /\ \A i \in 1..n : /\ QuoteWord(words[i]) \in Seq(Chr)
                         /\ q[i] = IF i = 1 THEN QuoteWord(words[i])
                                   ELSE <<Space>> \o QuoteWord(words[i])
  BY PiecesType
<1>9. /\ PP[0] = Gap(<<>>)
      /\ \A i \in 1..(k - 1) : PP[i] = Within("free", words[i], SubSeq(words, 1, i - 1))
      /\ \A i \in k..n : PP[i] = Wrong
  <2>1. 0 \in 0..n /\ \A i \in 1..(k - 1) : i \in 0..n /\ i # 0 /\ i < k
    BY <1>1, <1>3
  <2>2. \A i \in k..n : i \in 0..n /\ i # 0 /\ ~(i < k)
    BY <1>1, <1>3
  <2> HIDE DEF Wrong, n
  <2> QED
    BY <2>1, <2>2
<1> HIDE DEF PP, n, d, w, T, q
<1>10. \A i \in 1..(k - 1) : Takes(PP[i - 1], q[i], PP[i])
  <2>1. k - 1 \in 0..Len(words)
    BY <1>3 DEF n
  <2> QED
    BY <1>4, <1>9, <2>1, TakesPieces DEF q
<1>11. Takes(Gap(d), QuoteWord(w), Wrong)
  BY <1>3, <1>5, <1>7, TakesLost DEF Word
<1>12. Takes(PP[k - 1], q[k], PP[k])
  <2>1. PP[k] = Wrong
    BY <1>3, <1>9
  <2>2. CASE k = 1
    <3>1. k - 1 = 0
      BY <2>2
    <3>2. d = <<>>
      BY <1>7, <3>1
    <3>3. PP[k - 1] = Gap(d)
      BY <1>9, <3>1, <3>2
    <3>4. q[k] = QuoteWord(w)
      BY <1>3, <1>8, <2>2 DEF w
    <3> QED
      BY <1>11, <2>1, <3>3, <3>4
  <2>3. CASE k # 1
    <3> DEFINE e == SubSeq(words, 1, (k - 1) - 1)
               v == words[k - 1]
    <3>1. k - 1 \in 1..(k - 1) /\ k - 1 \in 1..Len(words)
      BY <1>3, <2>3 DEF n
    <3>2. d = Append(e, v)
      BY <3>1, Grow DEF d
    <3>3. PP[k - 1] = Within("free", v, e)
      BY <1>9, <3>1
    <3> HIDE DEF e, v
    <3>4. Takes(PP[k - 1], <<Space>>, Gap(d))
      BY <3>2, <3>3, TakesSpace
    <3>5. q[k] = <<Space>> \o QuoteWord(w) /\ QuoteWord(w) \in Seq(Chr)
      BY <1>3, <1>8, <2>3 DEF w
    <3> HIDE DEF Wrong
    <3>6. <<Space>> \in Seq(Chr) /\ QuoteWord(w) \in Seq(Chr)
      BY <1>8, <3>5
    <3>7. Takes(PP[k - 1], <<Space>> \o QuoteWord(w), Wrong)
      BY <1>11, <3>4, <3>6, TakesThen
    <3> QED
      BY <2>1, <3>5, <3>7
  <2> QED
    BY <2>2, <2>3
<1>13. ASSUME NEW i \in (k + 1)..n PROVE Takes(PP[i - 1], q[i], PP[i])
  <2>1. i \in 1..n /\ i # 1 /\ i - 1 \in k..n /\ i \in k..n
    BY <1>1, <1>3
  <2>2. PP[i - 1] = Wrong /\ PP[i] = Wrong
    BY <1>9, <2>1
  <2>3. q[i] = <<Space>> \o QuoteWord(words[i]) /\ QuoteWord(words[i]) \in Word
    BY <1>8, <2>1 DEF Word
  <2>4. Takes(Wrong, <<Space>> \o QuoteWord(words[i]), Wrong)
    BY <1>3, <1>5, <2>3, TakesRest
  <2> HIDE DEF Wrong
  <2> QED
    BY <2>2, <2>3, <2>4
<1>14. \A i \in 1..Len(q) : Takes(PP[i - 1], q[i], PP[i])
  <2> SUFFICES ASSUME NEW i \in 1..n PROVE Takes(PP[i - 1], q[i], PP[i])
    BY <1>8
  <2>1. i \in 1..(k - 1) \/ i = k \/ i \in (k + 1)..n
    BY <1>1, <1>3
  <2> QED
    BY <1>10, <1>12, <1>13, <2>1
<1>15. Takes(PP[0], FlattenSeq(q), PP[Len(q)])
  BY <1>8, <1>14, TakesFlatten
<1>16. Takes({Scanner}, FlattenSeq(q), Wrong)
  <2>1. n \in k..n
    BY <1>1, <1>3
  <2>2. PP[0] = Gap(<<>>) /\ PP[Len(q)] = Wrong
    BY <1>8, <1>9, <2>1
  <2> HIDE DEF Wrong
  <2> QED
    BY <1>15, <2>2, ScannerState, TakesSame
<1>17. Len(FlattenSeq(q)) \in Nat
  <2>1. FlattenSeq(q) \in Seq(Chr)
    BY <1>8, FlattenType
  <2> QED
    BY <2>1
<1>18. PICK t \in Wrong :
         Unescape(FlattenSeq(q)) = IF t.mode = "gap" THEN t.done ELSE Finish(t).done
  <2> HIDE DEF Wrong
  <2> QED
    BY <1>16, <1>17, Reads
<1> DEFINE read == IF t.mode = "gap" THEN t.done ELSE Finish(t).done
<1>19. Len(read) >= k => read[k] # w
  BY <1>3, <1>6, WrongAtEnd
<1> HIDE DEF read, Wrong
<1>20. read # words
  BY <1>3, <1>19 DEF n, w
<1> QED
  BY <1>8, <1>18, <1>20 DEF read

\* What is read from a line of characters, and what is written, are words and
\* characters.
LEMMA ReadType ==
    ASSUME NEW line \in Word
    PROVE  Unescape(line) \in Seq(Word)
<1>1. Takes(ScanState, line, ScanState)
  BY ScanType, TakesStable
<1>2. Takes({Scanner}, line, ScanState)
  BY <1>1, ScannerState, TakesSame DEF Gap, Within
<1>3. Len(line) \in Nat
  BY DEF Word
<1>4. PICK t \in ScanState : Unescape(line) = IF t.mode = "gap" THEN t.done ELSE Finish(t).done
  BY <1>2, <1>3, Reads
<1>5. t.done \in Seq(Seq(Chr)) /\ Finish(t).done \in Seq(Seq(Chr))
  BY FinishFields DEF ScanState
<1> QED
  BY <1>4, <1>5 DEF Word

LEMMA QuotedType ==
    ASSUME NEW words \in Seq(Word)
    PROVE  QuoteStrings(words) \in Word
BY PiecesType, FlattenType DEF Word

\* A keyword is the first word that the server reads, whatever comes behind it.
LEMMA FirstWord ==
    ASSUME NEW words \in Seq(Word), words # <<>>,
           NEW a \in Chr, a \notin Special, words[1] = <<a>>
    PROVE  /\ QuoteStrings(words) # <<>>
           /\ Len(Unescape(QuoteStrings(words))) >= 1
           /\ Unescape(QuoteStrings(words))[1] = <<a>>
<1> DEFINE n == Len(words)
           line == QuoteStrings(words)
           read == Unescape(line)
           w == words[1]
<1>1. n \in Nat /\ n >= 1 /\ w \in Word /\ Len(w) = 1 /\ w[1] = a
  BY DEF Word
<1>2. Survives(w)
  <2>1. a # Apostrophe
    BY DEF Special
  <2> QED
    BY <1>1, <2>1 DEF Survives
<1>3. line \in Word
  BY QuotedType
<1>4. ASSUME n = 1 PROVE Len(read) >= 1 /\ read[1] = <<a>>
  <2>1. AllSurvive(words)
    BY <1>2, <1>4 DEF AllSurvive
  <2>2. read = words
    BY <2>1, Arrives
  <2> QED
    BY <1>1, <2>2
<1>5. ASSUME n # 1 PROVE Len(read) >= 1 /\ read[1] = <<a>>
  <2> DEFINE F == {s \in ScanState : Len(s.done) >= 1 /\ s.done[1] = w}
             PP == [i \in 0..n |-> IF i = 0 THEN Gap(<<>>)
                                   ELSE IF i = 1 THEN Within("free", w, <<>>) ELSE F]
             q == Pieces(words)
  <2>1. ASSUME NEW s \in F, NEW c \in Chr PROVE Scan(s, c) \in F
    <3> DEFINE t == Scan(s, c)
    <3>1. t \in ScanState
      BY ScanType
    <3>2. t.done = s.done \/ t.done = Append(s.done, s.argument)
      BY ScanSteps
    <3>3. s.done \in Seq(Seq(Chr)) /\ s.argument \in Seq(Chr) /\ Len(s.done) >= 1 /\ s.done[1] = w
      BY DEF ScanState
    <3>4. /\ Len(Append(s.done, s.argument)) >= 1
          /\ Append(s.done, s.argument)[1] = s.done[1]
      BY <3>3
    <3> HIDE DEF t
    <3> QED
      BY <3>1, <3>2, <3>3, <3>4 DEF t
  <2>2. /\ q \in Seq(Seq(Chr)) /\ Len(q) = n /\ line = FlattenSeq(q)
        /\ <<Space>> \in Seq(Chr)
        /\ \A i \in 1..n : /\ QuoteWord(words[i]) \in Seq(Chr)
                           /\ q[i] = IF i = 1 THEN QuoteWord(words[i])
                                     ELSE <<Space>> \o QuoteWord(words[i])
    BY PiecesType
  <2>3. /\ PP[0] = Gap(<<>>) /\ PP[1] = Within("free", w, <<>>)
        /\ \A i \in 2..n : PP[i] = F
    BY <1>1
  <2>4. Takes(Gap(<<>>), QuoteWord(w), Within("free", w, <<>>))
    BY <1>1, <1>2, TakesWord
  <2> HIDE DEF PP, q
  <2>5. Takes(Within("free", w, <<>>), <<Space>>, F)
    <3>1. Takes(Within("free", w, <<>>), <<Space>>, Gap(Append(<<>>, w)))
      BY TakesSpace
    <3>2. Len(Append(<<>>, w)) = 1 /\ Append(<<>>, w)[1] = w
      BY <1>1
    <3>3. Gap(Append(<<>>, w)) \subseteq F
      BY <3>2 DEF Gap, Within
    <3> HIDE DEF F
    <3> QED
      BY <3>1, <3>3, TakesSame
  <2>6. ASSUME NEW v \in Word PROVE Takes(F, v, F)
    <3> HIDE DEF F
    <3> QED
      BY <2>1, TakesStable
  <2>7. Takes(F, <<Space>>, F)
    <3> HIDE DEF F
    <3> QED
      BY <2>2, <2>6 DEF Word
  <2> HIDE DEF F
  <2>8. ASSUME NEW i \in 1..n PROVE Takes(PP[i - 1], q[i], PP[i])
    <3>1. CASE i = 1
      <4>1. i - 1 = 0 /\ q[i] = QuoteWord(w)
        BY <2>2, <3>1
      <4> QED
        BY <2>3, <2>4, <3>1, <4>1
    <3>2. CASE i # 1
      <4> DEFINE v == QuoteWord(words[i])
      <4>1. i \in 2..n /\ (i - 1 = 1 \/ i - 1 \in 2..n)
        BY <1>1, <3>2
      <4>2. q[i] = <<Space>> \o v /\ v \in Seq(Chr) /\ <<Space>> \in Seq(Chr)
        BY <2>2, <3>2
      <4>3. PP[i] = F /\ (PP[i - 1] = Within("free", w, <<>>) \/ PP[i - 1] = F)
        BY <2>3, <4>1
      <4> HIDE DEF v
      <4>4. Takes(PP[i - 1], <<Space>>, F)
        BY <2>5, <2>7, <4>3
      <4>5. Takes(F, v, F)
        BY <2>6, <4>2 DEF Word
      <4>6. Takes(PP[i - 1], <<Space>> \o v, F)
        BY <4>2, <4>4, <4>5, TakesThen
      <4> QED
        BY <4>2, <4>3, <4>6
    <3> QED
      BY <3>1, <3>2
  <2>9. Takes(PP[0], FlattenSeq(q), PP[Len(q)])
    BY <2>2, <2>8, TakesFlatten
  <2>10. Takes({Scanner}, line, F)
    <3>1. PP[Len(q)] = F
      <4>1. n \in 2..n
        BY <1>1, <1>5
      <4> QED
        BY <2>2, <2>3, <4>1
    <3> QED
      BY <2>2, <2>3, <2>9, <3>1, ScannerState, TakesSame
  <2>11. Len(line) \in Nat
    BY <1>3 DEF Word
  <2>12. PICK t \in F : read = IF t.mode = "gap" THEN t.done ELSE Finish(t).done
    BY <2>10, <2>11, Reads
  <2>13. t \in ScanState /\ Len(t.done) >= 1 /\ t.done[1] = w
    BY DEF F
  <2>14. Finish(t).done = Append(t.done, t.argument)
    BY <2>13, FinishFields
  <2>15. /\ Len(Append(t.done, t.argument)) >= 1
         /\ Append(t.done, t.argument)[1] = t.done[1]
    <3>1. t.done \in Seq(Seq(Chr)) /\ t.argument \in Seq(Chr)
      BY <2>13 DEF ScanState
    <3> QED
      BY <2>13, <3>1
  <2> HIDE DEF read
  <2> QED
    BY <2>12, <2>13, <2>14, <2>15
<1>6. Len(read) >= 1 /\ read[1] = <<a>>
  BY <1>1, <1>4, <1>5
<1>7. ASSUME line = <<>> PROVE FALSE
  <2>1. AllSurvive(<<>>) /\ <<>> \in Seq(Word)
    BY DEF AllSurvive
  <2> DEFINE empty == <<>>
             Z == Gap(<<>>)
  <2>2. Takes({Scanner}, empty, Z)
    <3>1. Len(empty) = 0
      OBVIOUS
    <3> HIDE DEF empty, Z
    <3> QED
      BY <3>1, ScannerState DEF Takes, Run, Z
  <2>3. Len(empty) \in Nat
    OBVIOUS
  <2> HIDE DEF empty, Z
  <2>4. PICK t \in Z : Unescape(empty) = IF t.mode = "gap" THEN t.done ELSE Finish(t).done
    BY <2>2, <2>3, Reads
  <2>5. Unescape(<<>>) = <<>>
    BY <2>4 DEF Z, Gap, Within, empty
  <2> HIDE DEF read
  <2>6. read = <<>>
    BY <1>7, <2>5 DEF read
  <2> QED
    BY <1>6, <2>6
<1> QED
  BY <1>6, <1>7

LEMMA OneMore ==
    ASSUME NEW s \in ScanState
    PROVE  LET longer == Append(s.done, s.argument)
           IN  /\ Len(s.done) \in Nat /\ Len(longer) = Len(s.done) + 1
               /\ longer[Len(s.done) + 1] = s.argument
<1>1. s.done \in Seq(Seq(Chr)) /\ s.argument \in Seq(Chr)
  BY DEF ScanState
<1> DEFINE d == s.done
           a == s.argument
<1> HIDE DEF d, a
<1>2. d \in Seq(Seq(Chr)) /\ a \in Seq(Chr)
  BY <1>1 DEF d, a
<1>3. Len(d) \in Nat /\ Len(Append(d, a)) = Len(d) + 1 /\ Append(d, a)[Len(d) + 1] = a
  BY <1>2
<1> QED
  BY <1>3 DEF d, a

\* A word without spaces in front of a plain one: the server reads both, or
\* one word of the two.
LEMMA LastWord ==
    ASSUME NEW a \in Chr, a \notin Special, NEW f \in Word, NEW b \in Chr, b \notin Special
    PROVE  LET read == Unescape(QuoteStrings(<<<<a>>, f, <<b>>>>))
           IN  Len(read) >= 3 => Len(read) = 3 /\ read[3] = <<b>>
<1> DEFINE words == <<<<a>>, f, <<b>>>>
           read == Unescape(QuoteStrings(words))
           q == Pieces(words)
<1>1. /\ <<a>> \in Word /\ <<b>> \in Word
      /\ Len(<<a>>) = 1 /\ <<a>>[1] = a /\ Len(<<b>>) = 1 /\ <<b>>[1] = b
  BY DEF Word
<1>2. /\ words \in Seq(Word) /\ Len(words) = 3
      /\ words[1] = <<a>> /\ words[2] = f /\ words[3] = <<b>>
  BY <1>1
<1>3. Survives(<<a>>) /\ Survives(<<b>>)
  BY <1>1 DEF Survives, Special
<1>4. CASE Survives(f)
  <2>1. AllSurvive(words)
    BY <1>2, <1>3, <1>4 DEF AllSurvive
  <2>2. read = words
    BY <1>2, <2>1, Arrives
  <2> QED
    BY <1>2, <2>2
<1>5. CASE ~Survives(f)
  <2> DEFINE Open == {s \in ScanState : Len(s.done) = 1 /\ ~s.escape /\ s.mode # "double"}
             Two == {s \in ScanState : Len(s.done) = 2 /\ s.argument = <<>> /\ s.mode = "gap" /\ ~s.escape}
             Three == {s \in ScanState : Len(s.done) = 2 /\ s.argument = <<b>> /\ s.mode = "free"}
             One1 == {s \in ScanState : Len(s.done) = 1}
             Mid == Two \cup {s \in One1 : ~s.escape /\ s.mode # "double"}
             PP == [i \in 0..3 |-> CASE i = 0 -> Gap(<<>>)
                                     [] i = 1 -> Within("free", <<a>>, <<>>)
                                     [] i = 2 -> Open
                                     [] OTHER -> Three \cup One1]
  <2>1. /\ QuoteWord(f) = f /\ Len(f) \in Nat
        /\ \A i \in 1..Len(f) : f[i] \in Chr /\ f[i] \notin {Quote, Backslash, Space}
    BY <1>5 DEF Survives, NeedsQuotes, QuoteWord, Word
  <2>2. ASSUME NEW s \in Open, NEW c \in Chr, c \notin {Quote, Backslash, Space}
        PROVE  Scan(s, c) \in Open
    <3>1. /\ s \in ScanState /\ Len(s.done) = 1 /\ ~s.escape /\ s.mode \in {"gap", "free", "single"}
      BY DEF ScanState, Mode
    <3>2. CASE c = Apostrophe
      <4>1. \E m \in {"single", "free"} : Scan(s, c) = [s EXCEPT !.mode = m]
        BY <3>1, <3>2, Characters DEF Scan, ScanSingle, ScanFree
      <4> QED
        BY <3>1, <4>1 DEF ScanState, Mode
    <3>3. CASE c # Apostrophe
      <4>1. Scan(s, c) = Push(s, c)
        BY <2>2, <3>1, <3>3, Characters DEF Scan, ScanSingle, ScanFree
      <4> QED
        BY <3>1, <4>1, PushFields
    <3> QED
      BY <3>2, <3>3
  <2>3. Takes(Open, f, Open)
    <3> DEFINE OO == [i \in 0..Len(f) |-> Open]
    <3> HIDE DEF Open
    <3>1. ASSUME NEW i \in 1..Len(f) PROVE \A s \in OO[i - 1] : Scan(s, f[i]) \in OO[i]
      <4>1. i \in 0..Len(f) /\ i - 1 \in 0..Len(f)
        BY <2>1
      <4> QED
        BY <2>1, <2>2, <4>1
    <3>2. OO[0] = Open /\ OO[Len(f)] = Open
      BY <2>1
    <3> HIDE DEF OO
    <3>3. Takes(OO[0], f, OO[Len(f)])
      BY <2>1, <3>1, TakesEach
    <3> QED
      BY <3>2, <3>3
  <2>4. Takes(Within("free", <<a>>, <<>>), <<Space>>, Open)
    <3>1. Takes(Within("free", <<a>>, <<>>), <<Space>>, Gap(Append(<<>>, <<a>>)))
      BY TakesSpace
    <3>2. Len(Append(<<>>, <<a>>)) = 1
      OBVIOUS
    <3>3. Gap(Append(<<>>, <<a>>)) \subseteq Open
      BY <3>2 DEF Gap, Within
    <3> HIDE DEF Open
    <3> QED
      BY <3>1, <3>3, TakesSame
  <2>5. Takes(Open, <<Space>>, Mid)
    <3> SUFFICES ASSUME NEW s \in Open PROVE Scan(s, Space) \in Mid
      <4> HIDE DEF Open, Mid
      <4> QED
        BY TakesOne
    <3>1. /\ s \in ScanState /\ Len(s.done) = 1 /\ ~s.escape /\ s.mode \in {"gap", "free", "single"}
          /\ Space \in Chr
      BY Characters DEF ScanState, Mode, Special
    <3>2. CASE s.mode = "gap"
      <4>1. Scan(s, Space) = s
        BY <3>1, <3>2, Characters DEF Scan, ScanFree
      <4> QED
        BY <3>1, <4>1
    <3>3. CASE s.mode = "single"
      <4>1. Scan(s, Space) = Push(s, Space)
        BY <3>1, <3>3, Characters DEF Scan, ScanSingle
      <4>2. /\ Push(s, Space) \in ScanState /\ ~Push(s, Space).escape
            /\ Push(s, Space).mode = "single" /\ Push(s, Space).done = s.done
        BY <3>1, <3>3, PushFields
      <4> QED
        BY <3>1, <4>1, <4>2
    <3>4. CASE s.mode = "free"
      <4>1. Scan(s, Space) = Finish(s)
        BY <3>1, <3>4, Characters DEF Scan, ScanFree
      <4>2. Len(Append(s.done, s.argument)) = 2
        <5>1. Len(Append(s.done, s.argument)) = Len(s.done) + 1
          BY <3>1, OneMore
        <5> QED
          BY <3>1, <5>1
      <4>3. Finish(s) \in Two
        BY <3>1, <4>2, FinishFields
      <4> QED
        BY <4>1, <4>3
    <3> QED
      BY <3>1, <3>2, <3>3, <3>4
  <2>6. Takes(Mid, <<b>>, Three \cup One1)
    <3> SUFFICES ASSUME NEW s \in Mid PROVE Scan(s, b) \in Three \cup One1
      <4> DEFINE Q == Three \cup One1
      <4>1. \A s \in Mid : Scan(s, b) \in Q
        OBVIOUS
      <4> HIDE DEF Mid, Q
      <4> QED
        BY <4>1, TakesOne DEF Q
    <3>1. /\ s \in ScanState /\ ~s.escape /\ s.mode \in {"gap", "free", "single"}
          /\ b # Quote /\ b # Space /\ b # Backslash /\ b # Apostrophe
      BY DEF ScanState, Mode, Special
    <3>2. Scan(s, b) = Push(s, b)
      BY <3>1 DEF Scan, ScanSingle, ScanFree
    <3>3. Append(<<>>, b) = <<b>>
      OBVIOUS
    <3> QED
      BY <3>1, <3>2, <3>3, PushFields
  <2>7. /\ q \in Seq(Seq(Chr)) /\ Len(q) = 3 /\ QuoteStrings(words) = FlattenSeq(q)
        /\ <<Space>> \in Seq(Chr) /\ f \in Seq(Chr) /\ <<b>> \in Seq(Chr)
        /\ q[1] = QuoteWord(<<a>>) /\ q[2] = <<Space>> \o f /\ q[3] = <<Space>> \o <<b>>
    <3>1. QuoteWord(<<b>>) = <<b>>
      BY <1>1 DEF QuoteWord, NeedsQuotes, Special
    <3> HIDE DEF words, q
    <3>2. 1 \in 1..Len(words) /\ 2 \in 1..Len(words) /\ 3 \in 1..Len(words)
      BY <1>2
    <3>3. /\ q \in Seq(Seq(Chr)) /\ Len(q) = Len(words) /\ QuoteStrings(words) = FlattenSeq(q)
          /\ <<Space>> \in Seq(Chr)
          /\ \A i \in 1..Len(words) : q[i] = IF i = 1 THEN QuoteWord(words[i])
                                             ELSE <<Space>> \o QuoteWord(words[i])
      BY <1>2, PiecesType DEF q
    <3>4. q[1] = QuoteWord(words[1])
      BY <3>2, <3>3
    <3>5. q[2] = <<Space>> \o QuoteWord(words[2]) /\ q[3] = <<Space>> \o QuoteWord(words[3])
      <4>1. 2 # 1 /\ 3 # 1
        OBVIOUS
      <4> QED
        BY <3>2, <3>3, <4>1, Zenon
    <3> QED
      BY <1>1, <1>2, <2>1, <3>1, <3>3, <3>4, <3>5 DEF Word
  <2>8. /\ PP[0] = Gap(<<>>) /\ PP[1] = Within("free", <<a>>, <<>>) /\ PP[2] = Open
        /\ PP[3] = Three \cup One1
    OBVIOUS
  <2> HIDE DEF words, q, PP, Open, Two, Three, One1, Mid, read
  <2>9. Takes(PP[0], q[1], PP[1])
    BY <1>1, <1>3, <2>7, <2>8, TakesWord
  <2>10. Takes(PP[1], q[2], PP[2])
    BY <2>3, <2>4, <2>7, <2>8, TakesThen
  <2>11. Takes(PP[2], q[3], PP[3])
    <3> DEFINE P == Open
               R == Three \cup One1
    <3>1. Takes(P, <<Space>>, Mid) /\ Takes(Mid, <<b>>, R)
      BY <2>5, <2>6
    <3> HIDE DEF P, R
    <3>2. Takes(P, <<Space>> \o <<b>>, R)
      BY <2>7, <3>1, TakesThen
    <3> QED
      BY <2>7, <2>8, <3>2 DEF P, R
  <2>12. \A i \in 1..Len(q) : Takes(PP[i - 1], q[i], PP[i])
    <3>1. \A i \in 1..3 : i = 1 \/ i = 2 \/ i = 3
      OBVIOUS
    <3>2. 1 - 1 = 0 /\ 2 - 1 = 1 /\ 3 - 1 = 2
      OBVIOUS
    <3> QED
      BY <2>7, <2>9, <2>10, <2>11, <3>1, <3>2
  <2>13. Takes(PP[0], FlattenSeq(q), PP[Len(q)])
    BY <2>7, <2>12, TakesFlatten
  <2>14. Takes({Scanner}, QuoteStrings(words), Three \cup One1)
    BY <2>7, <2>8, <2>13, ScannerState, TakesSame
  <2>15. Len(QuoteStrings(words)) \in Nat
    <3>1. QuoteStrings(words) \in Word
      BY <1>2, QuotedType
    <3> QED
      BY <3>1 DEF Word
  <2>16. PICK t \in Three \cup One1 :
           read = IF t.mode = "gap" THEN t.done ELSE Finish(t).done
    BY <2>14, <2>15, Reads DEF read
  <2>17. t \in ScanState
    BY DEF Three, One1
  <2>18. t.done \in Seq(Seq(Chr)) /\ t.argument \in Seq(Chr)
    BY <2>17 DEF ScanState
  <2>19. Finish(t).done = Append(t.done, t.argument)
    BY <2>17, FinishFields
  <2>20. CASE t \in One1
    <3>0. Len(t.done) = 1
      BY <2>20 DEF One1
    <3>1. Len(t.done) = 1 /\ Len(Append(t.done, t.argument)) = 2
      <4>1. Len(Append(t.done, t.argument)) = Len(t.done) + 1
        BY <2>17, OneMore
      <4> QED
        BY <3>0, <4>1
    <3>2. Len(read) < 3
      BY <2>16, <2>19, <3>1
    <3> QED
      BY <3>2 DEF read, words
  <2>21. CASE t \in Three
    <3>1. t.mode # "gap" /\ t.argument = <<b>> /\ Len(t.done) = 2
      BY <2>21 DEF Three
    <3>2. Len(Append(t.done, t.argument)) = 3 /\ Append(t.done, t.argument)[3] = t.argument
      <4>1. /\ Len(Append(t.done, t.argument)) = Len(t.done) + 1
            /\ Append(t.done, t.argument)[Len(t.done) + 1] = t.argument
        BY <2>17, OneMore
      <4>2. Len(t.done) + 1 = 3
        BY <3>1
      <4> QED
        BY <4>1, <4>2, Zenon
    <3>3. Len(read) = 3 /\ read[3] = <<b>>
      BY <2>16, <2>19, <3>1, <3>2
    <3> QED
      BY <3>3 DEF read, words
  <2> QED
    BY <2>20, <2>21
<1> QED
  BY <1>4, <1>5

-----------------------------------------------------------------------------
(***************************************************************************)
(* From words to commands: the lines of the client are accepted, and read as *)
(* they were meant.                                                        *)
(***************************************************************************)
\* Keywords are not special to the scanner.
LEMMA ActionPlain ==
    /\ \A a \in Action : a \in Chr /\ a \notin Special
    /\ "smart-case" \in Chr /\ "smart-case" \notin Special /\ Dash \in Chr
<1>1. \A a \in Action : a # Space /\ a # Quote
  BY DEF Action, Space, Quote
<1>2. \A a \in Action : a # Apostrophe /\ a # Backslash
  BY DEF Action, Apostrophe, Backslash
<1>3. "smart-case" \notin Special
  BY DEF Special, Space, Quote, Apostrophe, Backslash
<1> QED
  BY <1>1, <1>2, <1>3 DEF Special, Chr

\* The arguments of an action end at the first "--".
LEMMA Split ==
    ASSUME NEW argv \in Seq(Word), NEW n \in Nat, n + 1 <= Len(argv),
           \A i \in 2..(n + 1) : argv[i] # <<Dash, Dash>>,
           Len(argv) = n + 1 \/ (n + 2 <= Len(argv) /\ argv[n + 2] = <<Dash, Dash>>)
    PROVE  /\ EndOfArguments(argv) = n + 2 /\ Len(Arguments(argv)) = n
           /\ \A i \in 1..n : Arguments(argv)[i] = argv[i + 1]
<1> DEFINE ends == {i \in 2..Len(argv) : argv[i] = <<Dash, Dash>>}
<1>1. Len(argv) \in Nat
  OBVIOUS
<1>2. EndOfArguments(argv) = n + 2
  <2>1. CASE Len(argv) = n + 1
    <3>1. ends = {}
      BY <2>1
    <3> QED
      BY <2>1, <3>1 DEF EndOfArguments
  <2>2. CASE n + 2 <= Len(argv) /\ argv[n + 2] = <<Dash, Dash>>
    <3>1. n + 2 \in ends
      BY <1>1, <2>2
    <3>2. \A i \in ends : n + 2 <= i
      <4> SUFFICES ASSUME NEW i \in ends, i < n + 2 PROVE FALSE
        BY <1>1
      <4>1. i \in 2..(n + 1)
        BY <1>1
      <4> QED
        BY <4>1
    <3>3. \A i \in ends : (\A j \in ends : i <= j) => i = n + 2
      <4> SUFFICES ASSUME NEW i \in ends, \A j \in ends : i <= j PROVE i = n + 2
        OBVIOUS
      <4>1. i \in Nat /\ i <= n + 2 /\ n + 2 <= i
        BY <1>1, <3>1, <3>2
      <4> QED
        BY ONLY <4>1, n \in Nat
    <3>4. EndOfArguments(argv) = CHOOSE i \in ends : \A j \in ends : i <= j
      BY <3>1 DEF EndOfArguments
    <3> HIDE DEF ends
    <3> QED
      BY <3>1, <3>2, <3>3, <3>4
  <2> QED
    BY <2>1, <2>2
<1>3. Arguments(argv) = SubSeq(argv, 2, n + 1)
  <2>1. (n + 2) - 1 = n + 1
    OBVIOUS
  <2> QED
    BY <1>2, <2>1 DEF Arguments
<1>4. /\ Len(SubSeq(argv, 2, n + 1)) = n
      /\ \A i \in 1..n : SubSeq(argv, 2, n + 1)[i] = argv[i + 1]
  BY <1>1
<1> QED
  BY <1>2, <1>3, <1>4

\* A line of an action with as many arguments as the parser asks for, and what
\* it is read as.
Fitting(argv, n, action) ==
    /\ argv \in Seq(Word) /\ n \in Nat /\ n + 1 <= Len(argv)
    /\ \A i \in 2..(n + 1) : argv[i] # <<Dash, Dash>>
    /\ Len(argv) = n + 1 \/ (n + 2 <= Len(argv) /\ argv[n + 2] = <<Dash, Dash>>)
    /\ action \in Action /\ argv[1] = <<action>> /\ Len(Positional(action)) = n

Taken(argv, n, action, c) ==
    /\ c.action = action
    /\ \A i \in 1..n :
          c.args[i] = IF i = FileArgument(action) THEN Substituted(argv[i + 1]) ELSE argv[i + 1]
    /\ action \in {"parse", "complete"} => c.flags = SubSeq(argv, n + 3, Len(argv))

\* Such a line is taken as it is, unless an argument cannot be converted.
LEMMA Accepted ==
    ASSUME NEW argv, NEW n, NEW action, NEW range, Fitting(argv, n, action)
    PROVE  \/ /\ ParseCommand(argv, range) = Rejected
              /\ \E i \in 1..n : ~Converts(Positional(action)[i], argv[i + 1], range)
           \/ Taken(argv, n, action, ParseCommand(argv, range))
<1> DEFINE kinds == Positional(action)
<1>0. /\ argv \in Seq(Word) /\ n \in Nat /\ n + 1 <= Len(argv)
      /\ \A i \in 2..(n + 1) : argv[i] # <<Dash, Dash>>
      /\ Len(argv) = n + 1 \/ (n + 2 <= Len(argv) /\ argv[n + 2] = <<Dash, Dash>>)
      /\ action \in Action /\ argv[1] = <<action>> /\ Len(kinds) = n
  BY DEF Fitting
<1> DEFINE args == Arguments(argv)
           end == EndOfArguments(argv)
           c == [action |-> action,
                 args |-> [i \in 1..Len(args) |->
                            IF i = FileArgument(action) THEN Substituted(args[i]) ELSE args[i]],
                 flags |-> IF action \in {"parse", "complete"}
                           THEN SubSeq(argv, end + 1, Len(argv)) ELSE <<>>]
<1>1. end = n + 2 /\ Len(args) = n /\ \A i \in 1..n : args[i] = argv[i + 1]
  BY <1>0, Split
<1>2. argv # <<>> /\ Len(argv[1]) = 1 /\ argv[1][1] = action
  BY <1>0
<1>3. ParseCommand(argv, range) =
        IF \E i \in 1..n : ~Converts(kinds[i], args[i], range) THEN Rejected ELSE c
  BY <1>1, <1>2, <1>0, Zenon DEF ParseCommand
<1>4. CASE \E i \in 1..n : ~Converts(kinds[i], args[i], range)
  BY <1>1, <1>3, <1>4
<1>5. CASE ~\E i \in 1..n : ~Converts(kinds[i], args[i], range)
  <2>1. ParseCommand(argv, range) = c
    BY <1>3, <1>5
  <2>2. c.action = action /\ end + 1 = n + 3
    BY <1>1
  <2>3. \A i \in 1..n : c.args[i] = IF i = FileArgument(action) THEN Substituted(args[i]) ELSE args[i]
    BY <1>1
  <2>4. action \in {"parse", "complete"} => c.flags = SubSeq(argv, end + 1, Len(argv))
    OBVIOUS
  <2> HIDE DEF c, args, end
  <2> QED
    BY <1>1, <2>1, <2>2, <2>3, <2>4 DEF Taken
<1> QED
  BY <1>4, <1>5

\* Whatever the line, the command is that of its first word, or none.
LEMMA CommandAction ==
    ASSUME NEW argv, NEW range
    PROVE  \/ ParseCommand(argv, range) = Rejected
           \/ /\ ParseCommand(argv, range).action = argv[1][1]
              /\ Len(Arguments(argv)) = Len(Positional(argv[1][1]))
              /\ \A i \in 1..Len(Arguments(argv)) : i # FileArgument(argv[1][1]) =>
                    ParseCommand(argv, range).args[i] = Arguments(argv)[i]
<1> DEFINE action == argv[1][1]
           args == Arguments(argv)
           flags == SubSeq(argv, EndOfArguments(argv) + 1, Len(argv))
           c == [action |-> action,
                 args |-> [i \in 1..Len(args) |->
                            IF i = FileArgument(action) THEN Substituted(args[i]) ELSE args[i]],
                 flags |-> IF action \in {"parse", "complete"} THEN flags ELSE <<>>]
<1>1. \/ ParseCommand(argv, range) = Rejected
      \/ ParseCommand(argv, range) = c /\ Len(args) = Len(Positional(action))
  BY Zenon DEF ParseCommand
<1>2. c.action = action
  OBVIOUS
<1>3. \A i \in 1..Len(args) : i # FileArgument(action) => c.args[i] = args[i]
  OBVIOUS
<1> HIDE DEF c, args
<1> QED
  BY <1>1, <1>2, <1>3 DEF args

\* A command begins with the name of an action.
Keyworded(l) == l \in Seq(Word) /\ l # <<>> /\ \E a \in Action : l[1] = <<a>>

LEMMA SeqWider == ASSUME NEW S, NEW T, S \subseteq T PROVE Seq(S) \subseteq Seq(T)
BY SeqMonotonic

\* The words that the client puts together are words, and none but the
\* separator looks like it.
LEMMA WordTypes ==
    /\ File \cup Prefix \cup Dir \subseteq Word
    /\ \A w \in File \cup Prefix \cup Dir : w # <<Dash, Dash>>
    /\ \A flags \in Flags : flags \in Seq(Word)
    /\ \A t \in Text : t \in Chr /\ t \notin Special /\ K(t) \in Word
    /\ \A a \in Action : K(a) \in Word
    /\ K("smart-case") \in Word /\ Separator \in Word
    /\ One \in Word /\ One # <<Dash, Dash>> /\ \E n \in Number : One = <<n>>
<1>1. STRING \subseteq Chr
  BY DEF Chr
<1>2. Seq(STRING) \subseteq Word
  BY <1>1, SeqWider DEF Word
<1>3. Seq(Seq(STRING)) \subseteq Seq(Word)
  BY <1>2, SeqWider
<1>4. \A c \in Chr : K(c) \in Word
  BY DEF Word, K
<1>5. Separator \in Word
  BY ActionPlain DEF Separator, Word
<1>6. \E n \in Number : One = <<n>>
  BY CommandLineAssumption, Zenon DEF One, K
<1>7. One \in Word /\ One # <<Dash, Dash>>
  <2>1. PICK n \in Number : One = <<n>>
    BY <1>6
  <2>2. n \in Chr
    BY <1>1, CommandLineAssumption
  <2>3. One \in Word
    BY <1>4, <2>1, <2>2 DEF K
  <2>4. Len(One) = 1 /\ Len(<<Dash, Dash>>) = 2
    BY <2>1
  <2> QED
    BY <2>3, <2>4
<1>8. \A t \in Text : t \in Chr /\ t \notin Special
  BY <1>1, WordsAssumption
<1>9. \A flags \in Flags : flags \in Seq(Word)
  BY <1>3, WordsAssumption
<1>10. /\ File \cup Prefix \cup Dir \subseteq Word
       /\ \A w \in File \cup Prefix \cup Dir : w # <<Dash, Dash>>
  BY <1>2, WordsAssumption
<1> QED
  BY <1>4, <1>5, <1>6, <1>7, <1>8, <1>9, <1>10, ActionPlain

LEMMA JoinedWords ==
    ASSUME NEW S, NEW a \in Seq(S), NEW b \in Seq(S)
    PROVE  /\ a \o b \in Seq(S) /\ Len(a) \in Nat /\ Len(b) \in Nat
           /\ Len(a \o b) = Len(a) + Len(b)
           /\ \A i \in 1..Len(a) : (a \o b)[i] = a[i]
           /\ SubSeq(a \o b, Len(a) + 1, Len(a \o b)) = b
<1>1. /\ a \o b \in Seq(S) /\ Len(a) \in Nat /\ Len(b) \in Nat
      /\ Len(a \o b) = Len(a) + Len(b)
      /\ \A i \in 1..Len(a) : (a \o b)[i] = a[i]
      /\ \A i \in 1..Len(b) : (a \o b)[Len(a) + i] = b[i]
  OBVIOUS
<1> DEFINE s == a \o b
           t == SubSeq(s, Len(a) + 1, Len(s))
<1>2. t \in Seq(S) /\ Len(t) = Len(b) /\ \A i \in 1..Len(b) : t[i] = s[Len(a) + i]
  <2> HIDE DEF s
  <2>1. s \in Seq(S) /\ Len(s) = Len(a) + Len(b)
    BY <1>1 DEF s
  <2>2. t \in Seq(S)
    BY <1>1, <2>1
  <2>3. Len(t) = Len(b)
    BY <1>1, <2>1
  <2>4. \A i \in 1..Len(b) : t[i] = s[Len(a) + i]
    BY <1>1, <2>1
  <2> QED
    BY <2>2, <2>3, <2>4
<1>3. \A i \in 1..Len(b) : t[i] = b[i]
  BY <1>1, <1>2
<1> HIDE DEF t
<1>4. t = b
  BY <1>2, <1>3, SeqEqual
<1> QED
  BY <1>1, <1>4 DEF t

\* The lines of parse and complete, with the flags behind the separator.
LEMMA ParseLineForm ==
    ASSUME NEW f \in File, NEW flags \in Flags
    PROVE  LET l == ParseLine(f, flags)
           IN  /\ l \in Seq(Word) /\ Len(l) >= 3 /\ Len(l) \in Nat
               /\ l[1] = K("parse") /\ l[2] = f /\ l[3] = Separator
               /\ SubSeq(l, 4, Len(l)) = flags
<1> DEFINE h == <<K("parse"), f, Separator>>
<1>1. h \in Seq(Word) /\ Len(h) = 3 /\ h[1] = K("parse") /\ h[2] = f /\ h[3] = Separator
  <2>1. K("parse") \in Word /\ f \in Word /\ Separator \in Word
    BY WordTypes DEF Action
  <2> HIDE DEF h
  <2>2. h = <<K("parse"), f, Separator>>
    BY DEF h
  <2> QED
    BY <2>1, <2>2
<1>2. flags \in Seq(Word)
  BY WordTypes
<1>3. ParseLine(f, flags) = h \o flags
  BY DEF ParseLine
<1> HIDE DEF h
<1>4. h \in Seq(Word) /\ Len(h) = 3
  BY <1>1
<1>5. /\ h \o flags \in Seq(Word) /\ Len(h) \in Nat /\ Len(flags) \in Nat
      /\ Len(h \o flags) = Len(h) + Len(flags)
      /\ \A i \in 1..Len(h) : (h \o flags)[i] = h[i]
      /\ SubSeq(h \o flags, Len(h) + 1, Len(h \o flags)) = flags
  BY <1>2, <1>4, JoinedWords, Zenon
<1>6. SubSeq(h \o flags, 4, Len(h \o flags)) = flags
  <2>1. Len(h) + 1 = 4
    BY <1>4
  <2> QED
    BY <1>5, <2>1, Zenon
<1>7. Len(h \o flags) >= 3 /\ Len(h \o flags) \in Nat
  BY <1>4, <1>5
<1>8. \A i \in 1..3 : (h \o flags)[i] = h[i]
  BY <1>4, <1>5
<1> QED
  BY <1>1, <1>3, <1>5, <1>6, <1>7, <1>8

LEMMA CompleteLineForm ==
    ASSUME NEW f \in File, NEW flags \in Flags
    PROVE  LET l == CompleteLine(f, flags)
           IN  /\ l \in Seq(Word) /\ Len(l) >= 5 /\ Len(l) \in Nat
               /\ l[1] = K("complete") /\ l[2] = f /\ l[3] = One /\ l[4] = One /\ l[5] = Separator
               /\ SubSeq(l, 6, Len(l)) = flags
<1> DEFINE h == <<K("complete"), f, One, One, Separator>>
<1>1. /\ h \in Seq(Word) /\ Len(h) = 5
      /\ h[1] = K("complete") /\ h[2] = f /\ h[3] = One /\ h[4] = One /\ h[5] = Separator
  <2>1. K("complete") \in Word /\ f \in Word /\ Separator \in Word /\ One \in Word
    BY WordTypes DEF Action
  <2> HIDE DEF h
  <2>2. h = <<K("complete"), f, One, One, Separator>>
    BY DEF h
  <2> QED
    BY <2>1, <2>2
<1>2. flags \in Seq(Word)
  BY WordTypes
<1>3. CompleteLine(f, flags) = h \o flags
  BY DEF CompleteLine
<1> HIDE DEF h
<1>4. h \in Seq(Word) /\ Len(h) = 5
  BY <1>1
<1>5. /\ h \o flags \in Seq(Word) /\ Len(h) \in Nat /\ Len(flags) \in Nat
      /\ Len(h \o flags) = Len(h) + Len(flags)
      /\ \A i \in 1..Len(h) : (h \o flags)[i] = h[i]
      /\ SubSeq(h \o flags, Len(h) + 1, Len(h \o flags)) = flags
  BY <1>2, <1>4, JoinedWords, Zenon
<1>6. SubSeq(h \o flags, 6, Len(h \o flags)) = flags
  <2>1. Len(h) + 1 = 6
    BY <1>4
  <2> QED
    BY <1>5, <2>1, Zenon
<1>7. Len(h \o flags) >= 5 /\ Len(h \o flags) \in Nat
  BY <1>4, <1>5
<1>8. \A i \in 1..5 : (h \o flags)[i] = h[i]
  BY <1>4, <1>5
<1> QED
  BY <1>1, <1>3, <1>5, <1>6, <1>7, <1>8

\* Every command of the client begins with a keyword.
LEMMA LinesKeyworded ==
    /\ \A f \in File, flags \in Flags :
          Keyworded(ParseLine(f, flags)) /\ Keyworded(CompleteLine(f, flags))
    /\ \A f \in File, t \in Text : Keyworded(<<K("set-unsaved"), f, K(t)>>)
    /\ \A f \in File : Keyworded(<<K("reset-unsaved"), f>>)
    /\ \A d \in Dir, f \in File : Keyworded(<<K("get-compile-options"), d, f>>)
    /\ \A p \in Prefix : Keyworded(<<K("candidates"), p, K("smart-case")>>)
    /\ Keyworded(<<K("diagnostics")>>) /\ Keyworded(<<K("get-type"), One, One>>)
<1>1. \A a \in Action : K(a) \in Word /\ K(a) = <<a>>
  BY WordTypes DEF K
<1>2. /\ "set-unsaved" \in Action /\ "reset-unsaved" \in Action /\ "get-compile-options" \in Action
      /\ "candidates" \in Action /\ "diagnostics" \in Action /\ "get-type" \in Action
      /\ "parse" \in Action /\ "complete" \in Action
  BY DEF Action
<1>3. ASSUME NEW f \in File, NEW flags \in Flags
      PROVE  Keyworded(ParseLine(f, flags)) /\ Keyworded(CompleteLine(f, flags))
  <2> DEFINE l == ParseLine(f, flags)
             m == CompleteLine(f, flags)
  <2>1. l \in Seq(Word) /\ Len(l) >= 3 /\ l[1] = K("parse")
    BY ParseLineForm
  <2>2. m \in Seq(Word) /\ Len(m) >= 5 /\ m[1] = K("complete")
    BY CompleteLineForm
  <2> HIDE DEF l, m
  <2>3. Keyworded(l) /\ Keyworded(m)
    BY <1>1, <1>2, <2>1, <2>2 DEF Keyworded
  <2> QED
    BY <2>3 DEF l, m
<1>4. ASSUME NEW a \in Action, NEW v \in Word
      PROVE  Keyworded(<<K(a), v>>) /\ Keyworded(<<K(a)>>)
  BY <1>1, <1>4 DEF Keyworded
<1>5. ASSUME NEW a \in Action, NEW v \in Word, NEW w \in Word
      PROVE  Keyworded(<<K(a), v, w>>)
  BY <1>1, <1>5 DEF Keyworded
<1> QED
  BY <1>2, <1>3, <1>4, <1>5, WordTypes

\* What the server reads in the line of a command of the client that arrives
\* as it was sent.
LEMMA PositionalForms ==
    /\ Positional("parse") = <<"string">>
    /\ Positional("complete") = <<"string", "unsigned", "unsigned">>
    /\ Positional("get-type") = <<"unsigned", "unsigned">>
    /\ Positional("set-unsaved") = <<"string", "string">>
    /\ Positional("reset-unsaved") = <<"string">>
    /\ Positional("candidates") = <<"string", "style">>
    /\ Positional("get-compile-options") = <<"string", "string">>
    /\ Positional("diagnostics") = <<>>
BY DEF Positional

\* Which argument of an action is the file, and which arguments convert.
LEMMA FileArguments ==
    /\ FileArgument("parse") = 1 /\ FileArgument("complete") = 1
    /\ FileArgument("set-unsaved") = 1 /\ FileArgument("reset-unsaved") = 1
    /\ FileArgument("get-compile-options") = 2
    /\ FileArgument("diagnostics") = 0 /\ FileArgument("get-type") = 0
    /\ FileArgument("candidates") = 0
BY DEF FileArgument

LEMMA Conversions ==
    ASSUME NEW range
    PROVE  /\ \A w : Converts("string", w, range)
           /\ Converts("style", K("smart-case"), range)
           /\ Converts("unsigned", One, range) \/ range
<1>1. \A w : Converts("string", w, range)
  BY DEF Converts
<1>2. Converts("style", K("smart-case"), range)
  BY DEF Converts, K
<1>3. Converts("unsigned", One, range) \/ range
  BY WordTypes DEF Converts
<1> QED
  BY <1>1, <1>2, <1>3

\* Accepted, for the numbers of arguments that there are
LEMMA NoArgument ==
    ASSUME NEW argv \in Seq(Word), Len(argv) = 1, NEW action \in Action,
           argv[1] = <<action>>, Positional(action) = <<>>, NEW range
    PROVE  ParseCommand(argv, range).action = action
<1> DEFINE n == 0
           kinds == Positional(action)
<1>1. n \in Nat /\ n + 1 = 1 /\ Len(kinds) = n /\ 1..n = {} /\ 2..(n + 1) = {}
  OBVIOUS
<1> HIDE DEF n, kinds
<1>2. n + 1 <= Len(argv) /\ (\A i \in 2..(n + 1) : argv[i] # <<Dash, Dash>>) /\ Len(argv) = n + 1
  BY <1>1
<1>3. Fitting(argv, n, action)
  BY <1>1, <1>2 DEF Fitting, kinds
<1>4. \/ \E i \in 1..n : ~Converts(kinds[i], argv[i + 1], range)
      \/ Taken(argv, n, action, ParseCommand(argv, range))
  BY <1>3, Accepted DEF kinds
<1> QED
  BY <1>1, <1>4 DEF Taken

\* A line with one, two or three arguments
LEMMA OneArgument ==
    ASSUME NEW argv \in Seq(Word), Len(argv) >= 2, NEW action \in Action,
           argv[1] = <<action>>, argv[2] # <<Dash, Dash>>,
           Len(argv) = 2 \/ (Len(argv) >= 3 /\ argv[3] = <<Dash, Dash>>),
           Positional(action) = <<"string">>, FileArgument(action) = 1, NEW range
    PROVE  LET c == ParseCommand(argv, range)
           IN  /\ c.action = action /\ c.args[1] = Substituted(argv[2])
               /\ action \in {"parse", "complete"} => c.flags = SubSeq(argv, 4, Len(argv))
<1> DEFINE n == 1
           kinds == Positional(action)
           c == ParseCommand(argv, range)
<1>1. /\ n \in Nat /\ n + 1 = 2 /\ n + 2 = 3 /\ n + 3 = 4
      /\ 1..n = {1} /\ 2..(n + 1) = {2} /\ Len(kinds) = n /\ kinds[1] = "string"
  OBVIOUS
<1>2. Len(argv) \in Nat
  OBVIOUS
<1> HIDE DEF n, kinds
<1>3. n + 1 <= Len(argv) /\ (\A i \in 2..(n + 1) : argv[i] # <<Dash, Dash>>)
  BY <1>1, <1>2
<1>4. Len(argv) = n + 1 \/ (n + 2 <= Len(argv) /\ argv[n + 2] = <<Dash, Dash>>)
  BY <1>1, <1>2
<1>5a. Fitting(argv, n, action)
  BY <1>1, <1>3, <1>4 DEF Fitting, kinds
<1>5. \/ \E i \in 1..n : ~Converts(kinds[i], argv[i + 1], range)
      \/ Taken(argv, n, action, c)
  BY <1>5a, Accepted DEF kinds
<1>6. \A i \in 1..n : Converts(kinds[i], argv[i + 1], range)
  BY <1>1, Conversions
<1> HIDE DEF c
<1> QED
  BY <1>1, <1>5, <1>6 DEF c, Taken

LEMMA TwoArguments ==
    ASSUME NEW argv \in Seq(Word), Len(argv) = 3, NEW action \in Action,
           argv[1] = <<action>>, argv[2] # <<Dash, Dash>>, argv[3] # <<Dash, Dash>>,
           Len(Positional(action)) = 2, NEW range,
           \A i \in 1..2 : Converts(Positional(action)[i], argv[i + 1], range)
    PROVE  LET c == ParseCommand(argv, range)
           IN  /\ c.action = action
               /\ c.args[1] = IF FileArgument(action) = 1 THEN Substituted(argv[2]) ELSE argv[2]
               /\ c.args[2] = IF FileArgument(action) = 2 THEN Substituted(argv[3]) ELSE argv[3]
<1> DEFINE n == 2
           kinds == Positional(action)
           c == ParseCommand(argv, range)
<1>1. /\ n \in Nat /\ n + 1 = 3 /\ 1..n = {1, 2} /\ 2..(n + 1) = {2, 3} /\ Len(kinds) = n
  OBVIOUS
<1>2. \A i \in 1..n : Converts(kinds[i], argv[i + 1], range)
  OBVIOUS
<1> HIDE DEF n, kinds
<1>3. /\ n + 1 <= Len(argv) /\ (\A i \in 2..(n + 1) : argv[i] # <<Dash, Dash>>)
      /\ Len(argv) = n + 1
  BY <1>1
<1>4a. Fitting(argv, n, action)
  BY <1>1, <1>3 DEF Fitting, kinds
<1>4. \/ \E i \in 1..n : ~Converts(kinds[i], argv[i + 1], range)
      \/ Taken(argv, n, action, c)
  BY <1>4a, Accepted DEF kinds
<1> HIDE DEF c
<1> QED
  BY <1>1, <1>2, <1>4 DEF c, Taken

LEMMA ThreeArguments ==
    ASSUME NEW argv \in Seq(Word), Len(argv) >= 5, NEW action \in Action,
           argv[1] = <<action>>, argv[2] # <<Dash, Dash>>, argv[3] # <<Dash, Dash>>,
           argv[4] # <<Dash, Dash>>, argv[5] = <<Dash, Dash>>,
           Len(Positional(action)) = 3, FileArgument(action) = 1, NEW range
    PROVE  LET c == ParseCommand(argv, range)
           IN  \/ /\ c = Rejected
                  /\ \E i \in 1..3 : ~Converts(Positional(action)[i], argv[i + 1], range)
               \/ /\ c.action = action /\ c.args[1] = Substituted(argv[2])
                  /\ action \in {"parse", "complete"} => c.flags = SubSeq(argv, 6, Len(argv))
<1> DEFINE n == 3
           kinds == Positional(action)
           c == ParseCommand(argv, range)
<1>1. /\ n \in Nat /\ n + 1 = 4 /\ n + 2 = 5 /\ n + 3 = 6
      /\ 1 \in 1..n /\ 1..n = 1..3 /\ 2..(n + 1) = {2, 3, 4} /\ Len(kinds) = n
  OBVIOUS
<1>2. Len(argv) \in Nat
  OBVIOUS
<1> HIDE DEF n, kinds
<1>3. n + 1 <= Len(argv) /\ (\A i \in 2..(n + 1) : argv[i] # <<Dash, Dash>>)
  BY <1>1, <1>2
<1>4. n + 2 <= Len(argv) /\ argv[n + 2] = <<Dash, Dash>>
  BY <1>1, <1>2
<1>5a. Fitting(argv, n, action)
  BY <1>1, <1>3, <1>4 DEF Fitting, kinds
<1>5. \/ c = Rejected /\ \E i \in 1..n : ~Converts(kinds[i], argv[i + 1], range)
      \/ Taken(argv, n, action, c)
  BY <1>5a, Accepted DEF kinds
<1> HIDE DEF c
<1>6. CASE c = Rejected /\ \E i \in 1..n : ~Converts(kinds[i], argv[i + 1], range)
  BY <1>1, <1>6 DEF c, kinds
<1>7. CASE Taken(argv, n, action, c)
  BY <1>1, <1>7 DEF c, Taken
<1> QED
  BY <1>5, <1>6, <1>7

\* How the commands of the client are read when they arrive as they were sent.
LEMMA ParseRead ==
    ASSUME NEW f \in File, NEW flags \in Flags, NEW range
    PROVE  LET c == ParseCommand(ParseLine(f, flags), range)
           IN  c.action = "parse" /\ c.args[1] = Substituted(f) /\ c.flags = flags
<1> DEFINE l == ParseLine(f, flags)
<1>1. /\ l \in Seq(Word) /\ Len(l) >= 3 /\ Len(l) \in Nat
      /\ l[1] = K("parse") /\ l[2] = f /\ l[3] = Separator
      /\ SubSeq(l, 4, Len(l)) = flags
  BY ParseLineForm
<1> HIDE DEF l
<1>2. Len(l) >= 2 /\ l[1] = <<"parse">> /\ l[2] # <<Dash, Dash>>
  BY <1>1, WordTypes DEF K
<1>3. Len(l) >= 3 /\ l[3] = <<Dash, Dash>>
  BY <1>1 DEF Separator
<1>4. "parse" \in Action /\ "parse" \in {"parse", "complete"}
  BY DEF Action
<1> QED
  BY <1>1, <1>2, <1>3, <1>4, OneArgument, PositionalForms, FileArguments DEF l

\* What each command of the client is read as, when its words arrive: itself, or
\* rejected because errno was left at ERANGE.
LEMMA CompleteRead ==
    ASSUME NEW f \in File, NEW flags \in Flags, NEW range
    PROVE  LET c == ParseCommand(CompleteLine(f, flags), range)
           IN  \/ c = Rejected /\ range
               \/ c.action = "complete" /\ c.args[1] = Substituted(f) /\ c.flags = flags
<1> DEFINE l == CompleteLine(f, flags)
           kinds == Positional("complete")
<1>1. /\ l \in Seq(Word) /\ Len(l) >= 5 /\ Len(l) \in Nat
      /\ l[1] = K("complete") /\ l[2] = f /\ l[3] = One /\ l[4] = One /\ l[5] = Separator
      /\ SubSeq(l, 6, Len(l)) = flags
  BY CompleteLineForm
<1>2. Len(kinds) = 3 /\ kinds[1] = "string" /\ kinds[2] = "unsigned" /\ kinds[3] = "unsigned"
  BY PositionalForms
<1> HIDE DEF l, kinds
<1>3. /\ l[1] = <<"complete">> /\ l[2] # <<Dash, Dash>> /\ l[3] # <<Dash, Dash>>
      /\ l[4] # <<Dash, Dash>> /\ l[5] = <<Dash, Dash>>
  BY <1>1, WordTypes DEF K, Separator
<1>4. "complete" \in Action /\ "complete" \in {"parse", "complete"}
  BY DEF Action
<1>5. range \/ \A i \in 1..3 : Converts(kinds[i], l[i + 1], range)
  <2>1. Converts("string", l[2], range) /\ (Converts("unsigned", One, range) \/ range)
    BY Conversions
  <2> QED
    BY <1>1, <1>2, <2>1
<1>6. FileArgument("complete") = 1
  BY FileArguments
<1> DEFINE c == ParseCommand(l, range)
<1>7. \/ c = Rejected /\ \E i \in 1..3 : ~Converts(kinds[i], l[i + 1], range)
      \/ c.action = "complete" /\ c.args[1] = Substituted(l[2]) /\ c.flags = SubSeq(l, 6, Len(l))
  BY <1>1, <1>2, <1>3, <1>4, <1>6, ThreeArguments DEF kinds
<1> HIDE DEF c
<1> QED
  BY <1>1, <1>5, <1>7 DEF l, c

LEMMA SetUnsavedRead ==
    ASSUME NEW f \in File, NEW t \in Text, NEW range
    PROVE  LET c == ParseCommand(<<K("set-unsaved"), f, K(t)>>, range)
           IN  c.action = "set-unsaved" /\ c.args[1] = Substituted(f) /\ c.args[2] = K(t)
<1> DEFINE l == <<K("set-unsaved"), f, K(t)>>
           kinds == Positional("set-unsaved")
<1>1. "set-unsaved" \in Action /\ K("set-unsaved") = <<"set-unsaved">>
  BY DEF Action, K
<1>2. l \in Seq(Word) /\ Len(l) = 3 /\ l[1] = <<"set-unsaved">> /\ l[2] = f /\ l[3] = K(t)
  BY <1>1, WordTypes
<1>3. f # <<Dash, Dash>> /\ K(t) # <<Dash, Dash>>
  BY WordTypes DEF K
<1>4. Len(kinds) = 2 /\ kinds[1] = "string" /\ kinds[2] = "string"
  BY PositionalForms
<1> HIDE DEF l, kinds
<1>5. \A i \in 1..2 : Converts(kinds[i], l[i + 1], range)
  <2>1. \A w : Converts("string", w, range)
    BY Conversions
  <2> QED
    BY <1>4, <2>1
<1>6. FileArgument("set-unsaved") = 1
  BY FileArguments
<1>7. LET c == ParseCommand(l, range)
      IN  /\ c.action = "set-unsaved"
          /\ c.args[1] = IF FileArgument("set-unsaved") = 1 THEN Substituted(l[2]) ELSE l[2]
          /\ c.args[2] = IF FileArgument("set-unsaved") = 2 THEN Substituted(l[3]) ELSE l[3]
  BY <1>1, <1>2, <1>3, <1>4, <1>5, TwoArguments DEF kinds
<1> QED
  BY <1>2, <1>6, <1>7 DEF l

LEMMA ResetUnsavedRead ==
    ASSUME NEW f \in File, NEW range
    PROVE  LET c == ParseCommand(<<K("reset-unsaved"), f>>, range)
           IN  c.action = "reset-unsaved" /\ c.args[1] = Substituted(f)
<1> DEFINE l == <<K("reset-unsaved"), f>>
<1>1. "reset-unsaved" \in Action /\ K("reset-unsaved") = <<"reset-unsaved">>
  BY DEF Action, K
<1>2. l \in Seq(Word) /\ Len(l) = 2 /\ l[1] = <<"reset-unsaved">> /\ l[2] = f
  BY <1>1, WordTypes
<1>3. f # <<Dash, Dash>>
  BY WordTypes
<1>4. Positional("reset-unsaved") = <<"string">> /\ FileArgument("reset-unsaved") = 1
  BY PositionalForms, FileArguments
<1> HIDE DEF l
<1>5. LET c == ParseCommand(l, range)
      IN  c.action = "reset-unsaved" /\ c.args[1] = Substituted(l[2])
  BY <1>1, <1>2, <1>3, <1>4, OneArgument
<1> QED
  BY <1>2, <1>5 DEF l

LEMMA CompileOptionsRead ==
    ASSUME NEW d \in Dir, NEW f \in File, NEW range
    PROVE  ParseCommand(<<K("get-compile-options"), d, f>>, range).action = "get-compile-options"
<1> DEFINE l == <<K("get-compile-options"), d, f>>
           kinds == Positional("get-compile-options")
<1>1. "get-compile-options" \in Action /\ K("get-compile-options") = <<"get-compile-options">>
  BY DEF Action, K
<1>2. l \in Seq(Word) /\ Len(l) = 3 /\ l[1] = <<"get-compile-options">> /\ l[2] = d /\ l[3] = f
  BY <1>1, WordTypes
<1>3. d # <<Dash, Dash>> /\ f # <<Dash, Dash>>
  BY WordTypes
<1>4. Len(kinds) = 2 /\ kinds[1] = "string" /\ kinds[2] = "string"
  BY PositionalForms
<1> HIDE DEF l, kinds
<1>5. \A i \in 1..2 : Converts(kinds[i], l[i + 1], range)
  <2>1. \A w : Converts("string", w, range)
    BY Conversions
  <2> QED
    BY <1>4, <2>1
<1>6. ParseCommand(l, range).action = "get-compile-options"
  BY <1>1, <1>2, <1>3, <1>4, <1>5, TwoArguments DEF kinds
<1> QED
  BY <1>6 DEF l

LEMMA CandidatesRead ==
    ASSUME NEW p \in Prefix, NEW range
    PROVE  ParseCommand(<<K("candidates"), p, K("smart-case")>>, range).action = "candidates"
<1> DEFINE l == <<K("candidates"), p, K("smart-case")>>
           kinds == Positional("candidates")
<1>1. "candidates" \in Action /\ K("candidates") = <<"candidates">>
  BY DEF Action, K
<1>2. l \in Seq(Word) /\ Len(l) = 3 /\ l[1] = <<"candidates">> /\ l[2] = p /\ l[3] = K("smart-case")
  BY <1>1, WordTypes
<1>3. p # <<Dash, Dash>> /\ K("smart-case") # <<Dash, Dash>>
  BY WordTypes DEF K
<1>4. Len(kinds) = 2 /\ kinds[1] = "string" /\ kinds[2] = "style"
  BY PositionalForms
<1> HIDE DEF l, kinds
<1>5. \A i \in 1..2 : Converts(kinds[i], l[i + 1], range)
  <2>1. Converts("string", p, range) /\ Converts("style", K("smart-case"), range)
    BY Conversions
  <2> QED
    BY <1>2, <1>4, <2>1
<1>6. ParseCommand(l, range).action = "candidates"
  BY <1>1, <1>2, <1>3, <1>4, <1>5, TwoArguments DEF kinds
<1> QED
  BY <1>6 DEF l

LEMMA GetTypeRead ==
    ASSUME NEW range, ~range
    PROVE  ParseCommand(<<K("get-type"), One, One>>, range).action = "get-type"
<1> DEFINE l == <<K("get-type"), One, One>>
           kinds == Positional("get-type")
<1>1. "get-type" \in Action /\ K("get-type") = <<"get-type">>
  BY DEF Action, K
<1>2. l \in Seq(Word) /\ Len(l) = 3 /\ l[1] = <<"get-type">> /\ l[2] = One /\ l[3] = One
  BY <1>1, WordTypes
<1>3. One # <<Dash, Dash>>
  BY WordTypes
<1>4. Len(kinds) = 2 /\ kinds[1] = "unsigned" /\ kinds[2] = "unsigned"
  BY PositionalForms
<1> HIDE DEF l, kinds
<1>5. \A i \in 1..2 : Converts(kinds[i], l[i + 1], range)
  <2>1. Converts("unsigned", One, range)
    BY Conversions
  <2> QED
    BY <1>2, <1>4, <2>1
<1>6. ParseCommand(l, range).action = "get-type"
  BY <1>1, <1>2, <1>3, <1>4, <1>5, TwoArguments DEF kinds
<1> QED
  BY <1>6 DEF l

LEMMA DiagnosticsRead ==
    ASSUME NEW range
    PROVE  ParseCommand(<<K("diagnostics")>>, range).action = "diagnostics"
<1> DEFINE l == <<K("diagnostics")>>
<1>1. "diagnostics" \in Action /\ K("diagnostics") = <<"diagnostics">>
  BY DEF Action, K
<1>2. l \in Seq(Word) /\ Len(l) = 1 /\ l[1] = <<"diagnostics">>
  BY <1>1, WordTypes
<1> HIDE DEF l
<1> QED
  BY <1>1, <1>2, NoArgument, PositionalForms DEF l

-----------------------------------------------------------------------------
(***************************************************************************)
(* What a request has on its way, and what the server makes of it.         *)
(***************************************************************************)
\* The commands of a request: about a text, the first one of its own, and the
\* query behind that.
TextLine(l) ==
    \/ \E f \in File, t \in Text : l = <<K("set-unsaved"), f, K(t)>>
    \/ \E f \in File : l = <<K("reset-unsaved"), f>>

FirstLine(a, l) ==
    /\ a.file \in File
    /\ \/ /\ a.kind \in {"parse", "diagnostics", "get-type"} /\ a.flags \in Flags
          /\ l = ParseLine(a.file, a.flags)
       \/ a.kind = "candidates" /\ a.flags \in Flags /\ l = CompleteLine(a.file, a.flags)
       \/ a.kind = "get-compile-options" /\ \E d \in Dir : l = <<K("get-compile-options"), d, a.file>>

QueryLine(a, l) ==
    \/ a.kind = "diagnostics" /\ l = <<K("diagnostics")>>
    \/ a.kind = "get-type" /\ l = <<K("get-type"), One, One>>
    \/ a.kind = "candidates" /\ \E p \in Prefix : l = <<K("candidates"), p, K("smart-case")>>

\* At most the query is left, or the first command and what is behind it.
QueryLeft(a, lines) == lines # <<>> => QueryLine(a, Head(lines)) /\ Tail(lines) = <<>>
AllLeft(a, lines) ==
    lines # <<>> /\ FirstLine(a, Head(lines)) /\ QueryLeft(a, Tail(lines))

\* How far a request has got: sent is on its way, todo is left.
Stage ==
    \/ sent = <<>> /\ todo # <<>> /\ TextLine(Head(todo)) /\ AllLeft(asked, Tail(todo))
    \/ (sent = <<>> \/ TextLine(sent)) /\ AllLeft(asked, todo)
    \/ (sent = <<>> \/ FirstLine(asked, sent)) /\ QueryLeft(asked, todo)
    \/ (sent = <<>> \/ QueryLine(asked, sent)) /\ todo = <<>>

Idling == asked = Nothing /\ todo = <<>> /\ sent = <<>> /\ told = content

AskedInv ==
    \/ Idling
    \/ asked # Nothing /\ todo \in Seq(Seq(Word)) /\ Stage

\* Only what survives quoting was sent for a request whose words do.
SurvivesInv ==
    asked # Nothing =>
        /\ asked.survives => AllSurvive(sent) /\ Quotable(todo)
        /\ asked.intact => asked.survives

\* The answer to a command takes the place of its line.
PipeInv ==
    \/ sent = <<>> /\ pipe = NoLine /\ reply = Nothing
    \/ sent # <<>> /\ pipe = QuoteStrings(sent) /\ reply = Nothing
    \/ sent # <<>> /\ pipe = NoLine /\ reply # Nothing

\* The commands that are answered with data of the active unit or the results
Queries == {K("diagnostics"), K("get-type"), K("candidates")}

\* Which command an answer is to
ReplyInv ==
    \/ reply \in {Nothing, Success, Failure, Unreadable, [kind |-> "exit"]}
    \/ reply.kind = "options" /\ sent[1] = K("get-compile-options")
    \/ reply.kind \in {"answer", "list"} /\ sent[1] \in Queries

\* The client and the server have texts under names.
TextsInv == MapInto(told, Text) /\ MapInto(content, Text)

\* What the server knows is what the client was told, or is being told.
ToldInv ==
    asked # Nothing /\ asked.intact =>
        content = IF reply # Nothing THEN Confirmed ELSE told

\* What a query of the request is about, and that the server has it
Own == [file |-> Substituted(asked.file), flags |-> asked.flags, seen |-> told]

Ready ==
    IF asked.kind = "candidates" THEN results = Own
    ELSE /\ activeTu \in DOMAIN heap /\ heap[activeTu] = Own
         /\ file = Substituted(asked.file)

ReadyInv ==
    asked # Nothing /\ asked.intact =>
        /\ todo # <<>> /\ QueryLine(asked, Head(todo)) /\ (sent = <<>> \/ reply = Success) => Ready
        /\ sent # <<>> /\ QueryLine(asked, sent) => Ready
        /\ reply.kind \in {"answer", "list"} => reply.about = Own

\* The reason there is when the server ends.
ExitInv == reply.kind = "exit" => ~asked.survives \/ erange

RequestInv ==
    AskedInv /\ SurvivesInv /\ PipeInv /\ ReplyInv /\ TextsInv /\ ToldInv /\ ReadyInv /\ ExitInv

\* Any command of any request
Line(l) == TextLine(l) \/ \E a : FirstLine(a, l) \/ QueryLine(a, l)

\* The commands about a text, the first commands and the queries of requests are
\* told apart by their keywords.
LEMMA Keywords ==
    /\ \A l : TextLine(l) => Keyworded(l) /\ l[1] \in {K("set-unsaved"), K("reset-unsaved")}
    /\ \A a, l : FirstLine(a, l) =>
          Keyworded(l) /\ l[1] \in {K("parse"), K("complete"), K("get-compile-options")}
    /\ \A a, l : QueryLine(a, l) => Keyworded(l) /\ l[1] \in Queries
<1>1. ASSUME NEW l, TextLine(l)
      PROVE  Keyworded(l) /\ l[1] \in {K("set-unsaved"), K("reset-unsaved")}
  <2>1. CASE \E f \in File, t \in Text : l = <<K("set-unsaved"), f, K(t)>>
    <3>1. PICK f \in File, t \in Text : l = <<K("set-unsaved"), f, K(t)>>
      BY <2>1
    <3>2. Keyworded(<<K("set-unsaved"), f, K(t)>>)
      BY LinesKeyworded
    <3> QED
      BY <3>1, <3>2
  <2>2. CASE \E f \in File : l = <<K("reset-unsaved"), f>>
    <3>1. PICK f \in File : l = <<K("reset-unsaved"), f>>
      BY <2>2
    <3>2. Keyworded(<<K("reset-unsaved"), f>>)
      BY LinesKeyworded
    <3> QED
      BY <3>1, <3>2
  <2> QED
    BY <1>1, <2>1, <2>2 DEF TextLine
<1>2. ASSUME NEW a, NEW l, FirstLine(a, l)
      PROVE  Keyworded(l) /\ l[1] \in {K("parse"), K("complete"), K("get-compile-options")}
  <2>1. CASE l = ParseLine(a.file, a.flags) /\ a.flags \in Flags
    <3>1. a.file \in File
      BY <1>2 DEF FirstLine
    <3> QED
      BY <2>1, <3>1, LinesKeyworded, ParseLineForm
  <2>2. CASE l = CompleteLine(a.file, a.flags) /\ a.flags \in Flags
    <3>1. a.file \in File
      BY <1>2 DEF FirstLine
    <3> QED
      BY <2>2, <3>1, LinesKeyworded, CompleteLineForm
  <2>3. CASE \E d \in Dir : l = <<K("get-compile-options"), d, a.file>>
    <3>1. PICK d \in Dir : l = <<K("get-compile-options"), d, a.file>>
      BY <2>3
    <3>2. a.file \in File
      BY <1>2 DEF FirstLine
    <3>3. Keyworded(<<K("get-compile-options"), d, a.file>>)
      BY <3>2, LinesKeyworded
    <3> QED
      BY <3>1, <3>3
  <2> QED
    BY <1>2, <2>1, <2>2, <2>3 DEF FirstLine
<1>3. ASSUME NEW a, NEW l, QueryLine(a, l)
      PROVE  Keyworded(l) /\ l[1] \in Queries
  <2>1. CASE l = <<K("diagnostics")>>
    BY <2>1, LinesKeyworded DEF Queries
  <2>2. CASE l = <<K("get-type"), One, One>>
    BY <2>2, LinesKeyworded DEF Queries
  <2>3. CASE \E p \in Prefix : l = <<K("candidates"), p, K("smart-case")>>
    <3>1. PICK p \in Prefix : l = <<K("candidates"), p, K("smart-case")>>
      BY <2>3
    <3>2. Keyworded(<<K("candidates"), p, K("smart-case")>>)
      BY LinesKeyworded
    <3> QED
      BY <3>1, <3>2 DEF Queries
  <2> QED
    BY <1>3, <2>1, <2>2, <2>3 DEF QueryLine
<1> QED
  BY <1>1, <1>2, <1>3

LEMMA KeywordsDiffer == \A a, b : K(a) = K(b) => a = b
BY DEF K

\* Whatever becomes of the words behind it, the keyword arrives.
LEMMA CommandRead ==
    ASSUME NEW l, Keyworded(l), NEW range
    PROVE  LET c == ParseCommand(Unescape(QuoteStrings(l)), range)
           IN  /\ QuoteStrings(l) # NoLine
               /\ c = Rejected \/ K(c.action) = l[1]
<1>1. PICK a \in Action : l[1] = <<a>>
  BY DEF Keyworded
<1>2. l \in Seq(Word) /\ l # <<>> /\ a \in Chr /\ a \notin Special
  BY ActionPlain DEF Keyworded
<1> DEFINE read == Unescape(QuoteStrings(l))
<1>3. QuoteStrings(l) # <<>> /\ read[1] = <<a>>
  BY <1>1, <1>2, FirstWord
<1>4. ParseCommand(read, range) = Rejected \/ ParseCommand(read, range).action = read[1][1]
  BY CommandAction
<1> HIDE DEF read
<1>5. read[1][1] = a
  BY <1>3
<1> QED
  BY <1>1, <1>3, <1>4, <1>5 DEF read, K, NoLine

\* A command whose words survive quoting is not rejected.
LEMMA NotRejected ==
    ASSUME NEW l, Line(l), AllSurvive(l), NEW range, ~range
    PROVE  ParseCommand(Unescape(QuoteStrings(l)), range).action # "rejected"
<1>1. Keyworded(l)
  BY Keywords DEF Line
<1>2. Unescape(QuoteStrings(l)) = l
  BY <1>1, Arrives DEF Keyworded
<1> SUFFICES ParseCommand(l, range).action # "rejected"
  BY <1>2
<1>3. CASE TextLine(l)
  BY <1>3, SetUnsavedRead, ResetUnsavedRead DEF TextLine
<1>4. CASE \E a : FirstLine(a, l)
  <2>1. PICK a : FirstLine(a, l)
    BY <1>4
  <2>2. CASE l = ParseLine(a.file, a.flags) /\ a.flags \in Flags
    BY <2>1, <2>2, ParseRead DEF FirstLine
  <2>3. CASE l = CompleteLine(a.file, a.flags) /\ a.flags \in Flags
    BY <2>1, <2>3, CompleteRead DEF FirstLine
  <2>4. CASE \E d \in Dir : l = <<K("get-compile-options"), d, a.file>>
    BY <2>1, <2>4, CompileOptionsRead DEF FirstLine
  <2> QED
    BY <2>1, <2>2, <2>3, <2>4 DEF FirstLine
<1>5. CASE \E a : QueryLine(a, l)
  BY <1>5, DiagnosticsRead, GetTypeRead, CandidatesRead DEF QueryLine
<1> QED
  BY <1>3, <1>4, <1>5 DEF Line

\* What is on its way is a command of the client, and its line is not empty.
LEMMA SentLine ==
    ASSUME AskedInv, sent # <<>>
    PROVE  asked # Nothing /\ Line(sent) /\ Keyworded(sent) /\ QuoteStrings(sent) # NoLine
<1>1. asked # Nothing /\ Stage
  BY DEF AskedInv, Idling
<1>2. Line(sent)
  BY <1>1 DEF Stage, Line
<1>3. Keyworded(sent)
  BY <1>2, Keywords DEF Line
<1> QED
  BY <1>1, <1>2, <1>3, CommandRead

\* Without a line or an answer there is nothing on its way.
LEMMA NothingSent ==
    ASSUME AskedInv, PipeInv, pipe = NoLine, reply = Nothing
    PROVE  sent = <<>>
BY SentLine DEF PipeInv

LEMMA HeadAndTail ==
    ASSUME NEW S, NEW a \in S, NEW b \in S
    PROVE  /\ <<a>> \in Seq(S) /\ <<a>> # <<>> /\ Head(<<a>>) = a /\ Tail(<<a>>) = <<>>
           /\ <<a, b>> \in Seq(S) /\ <<a, b>> # <<>> /\ Head(<<a, b>>) = a /\ Tail(<<a, b>>) = <<b>>
OBVIOUS

\* The commands of a request, the first and the query if there is one
LEMMA ChainForm ==
    ASSUME NEW kind \in {"parse", "diagnostics", "get-type", "candidates"},
           NEW f \in File, NEW flags \in Flags, NEW prefix \in Prefix,
           NEW a, a.kind = kind, a.file = f, a.flags = flags
    PROVE  Chain(kind, f, flags, prefix) \in Seq(Seq(Word)) /\ AllLeft(a, Chain(kind, f, flags, prefix))
<1> DEFINE p == ParseLine(f, flags)
           c == CompleteLine(f, flags)
           d == <<K("diagnostics")>>
           g == <<K("get-type"), One, One>>
           l == <<K("candidates"), prefix, K("smart-case")>>
<1>1. p \in Seq(Word) /\ c \in Seq(Word) /\ d \in Seq(Word) /\ g \in Seq(Word) /\ l \in Seq(Word)
  BY LinesKeyworded DEF Keyworded
<1>2. /\ kind = "parse" => Chain(kind, f, flags, prefix) = <<p>>
      /\ kind = "diagnostics" => Chain(kind, f, flags, prefix) = <<p, d>>
      /\ kind = "get-type" => Chain(kind, f, flags, prefix) = <<p, g>>
      /\ kind = "candidates" => Chain(kind, f, flags, prefix) = <<c, l>>
  BY DEF Chain
<1>3. /\ kind \in {"parse", "diagnostics", "get-type"} => FirstLine(a, p)
      /\ kind = "candidates" => FirstLine(a, c)
      /\ kind = "diagnostics" => QueryLine(a, d)
      /\ kind = "get-type" => QueryLine(a, g)
      /\ kind = "candidates" => QueryLine(a, l)
  BY DEF FirstLine, QueryLine
<1> HIDE DEF p, c, d, g, l
<1>4. ASSUME NEW x \in Seq(Word), FirstLine(a, x)
      PROVE  <<x>> \in Seq(Seq(Word)) /\ AllLeft(a, <<x>>)
  BY <1>4, HeadAndTail DEF AllLeft, QueryLeft
<1>5. ASSUME NEW x \in Seq(Word), NEW y \in Seq(Word), FirstLine(a, x), QueryLine(a, y)
      PROVE  <<x, y>> \in Seq(Seq(Word)) /\ AllLeft(a, <<x, y>>)
  BY <1>5, HeadAndTail DEF AllLeft, QueryLeft
<1>6. CASE kind = "parse"
  BY <1>1, <1>2, <1>3, <1>4, <1>6
<1>7. CASE kind = "diagnostics"
  BY <1>1, <1>2, <1>3, <1>5, <1>7
<1>8. CASE kind = "get-type"
  BY <1>1, <1>2, <1>3, <1>5, <1>8
<1>9. CASE kind = "candidates"
  BY <1>1, <1>2, <1>3, <1>5, <1>9
<1> QED
  BY <1>6, <1>7, <1>8, <1>9

LEMMA Prepended ==
    ASSUME NEW S, NEW x \in S, NEW c \in Seq(S)
    PROVE  LET t == <<x>> \o c IN t \in Seq(S) /\ t # <<>> /\ Head(t) = x /\ Tail(t) = c
<1> DEFINE t == <<x>> \o c
<1>1. t \in Seq(S) /\ Len(t) = 1 + Len(c) /\ t[1] = x /\ \A i \in 1..Len(c) : t[i + 1] = c[i]
  OBVIOUS
<1>2. Len(c) \in Nat
  OBVIOUS
<1> HIDE DEF t
<1>3. t # <<>> /\ Head(t) = x
  BY <1>1, <1>2
<1>4. Tail(t) \in Seq(S) /\ Len(Tail(t)) = Len(c) /\ \A i \in 1..Len(c) : Tail(t)[i] = t[i + 1]
  BY <1>1, <1>2
<1>5. \A i \in 1..Len(c) : Tail(t)[i] = c[i]
  BY <1>1, <1>4
<1>6. Tail(t) = c
  BY <1>4, <1>5, SeqEqual
<1> QED
  BY <1>1, <1>3, <1>6 DEF t

\* A command about a text may come before the others.
LEMMA UnsavedForm ==
    ASSUME NEW u \in Unsaved, NEW c \in Seq(Seq(Word)), NEW a, AllLeft(a, c)
    PROVE  /\ u \o c \in Seq(Seq(Word)) /\ u \o c # <<>>
           /\ \/ AllLeft(a, u \o c)
              \/ TextLine(Head(u \o c)) /\ AllLeft(a, Tail(u \o c))
<1>1. u = <<>> \/ \E l : TextLine(l) /\ u = <<l>>
  BY DEF Unsaved, TextLine
<1>2. CASE u = <<>>
  <2>1. u \o c = c
    BY <1>2
  <2> QED
    BY <2>1 DEF AllLeft
<1>3. ASSUME NEW l, TextLine(l), u = <<l>>
      PROVE  /\ u \o c \in Seq(Seq(Word)) /\ u \o c # <<>>
             /\ TextLine(Head(u \o c)) /\ AllLeft(a, Tail(u \o c))
  <2>1. l \in Seq(Word)
    BY <1>3, Keywords DEF Keyworded
  <2>2. <<l>> \o c \in Seq(Seq(Word)) /\ <<l>> \o c # <<>> /\ Head(<<l>> \o c) = l /\ Tail(<<l>> \o c) = c
    BY <2>1, Prepended
  <2> QED
    BY <1>3, <2>2, Zenon
<1> QED
  BY <1>1, <1>2, <1>3

LEMMA InitRequest == Init => RequestInv
<1> SUFFICES ASSUME Init PROVE RequestInv
  OBVIOUS
<1>1. /\ asked = Nothing /\ todo = <<>> /\ told = NoMap /\ sent = <<>> /\ pipe = NoLine
      /\ reply = Nothing /\ content = NoMap
  BY DEF Init, ServerInit
<1>2. MapInto(NoMap, Text)
  BY DEF MapInto, NoMap
<1>3. AskedInv /\ SurvivesInv /\ PipeInv /\ ReplyInv /\ ToldInv /\ ReadyInv
  BY <1>1 DEF AskedInv, Idling, SurvivesInv, PipeInv, ReplyInv, ToldInv, ReadyInv
<1>4. TextsInv /\ ExitInv
  BY <1>1, <1>2 DEF TextsInv, ExitInv, Nothing
<1> QED
  BY <1>3, <1>4 DEF RequestInv

\* A query, a command about a text and the first command are different lines.
LEMMA LinesDiffer ==
    ASSUME NEW l, NEW a, NEW b
    PROVE  /\ ~(TextLine(l) /\ FirstLine(a, l)) /\ ~(TextLine(l) /\ QueryLine(a, l))
           /\ ~(FirstLine(a, l) /\ QueryLine(b, l))
<1>1. TextLine(l) => l[1] \in {K("set-unsaved"), K("reset-unsaved")}
  BY Keywords
<1>2. FirstLine(a, l) => l[1] \in {K("parse"), K("complete"), K("get-compile-options")}
  BY Keywords
<1>3. \A x : QueryLine(x, l) => l[1] \in {K("diagnostics"), K("get-type"), K("candidates")}
  BY Keywords DEF Queries
<1> QED
  BY <1>1, <1>2, <1>3, KeywordsDiffer

\* A new request.
LEMMA NewRequest ==
    ASSUME RequestInv, Idle,
           asked'.survives = Quotable(todo'),
           asked'.intact = (Quotable(todo') /\ (asked = Nothing \/ asked.intact)),
           asked' # Nothing, todo' \in Seq(Seq(Word)), todo' # <<>>,
           \/ AllLeft(asked', todo')
           \/ TextLine(Head(todo')) /\ AllLeft(asked', Tail(todo')),
           UNCHANGED <<told, sent, pipe, reply, serverVars>>
    PROVE  RequestInv'
<1>1. sent = <<>> /\ pipe = NoLine /\ reply = Nothing
  BY NothingSent DEF RequestInv, Idle
<1>2. /\ sent' = <<>> /\ pipe' = NoLine /\ reply' = Nothing /\ told' = told
      /\ content' = content
  BY <1>1 DEF serverVars, ironyVars
<1>3. AskedInv'
  BY <1>2 DEF AskedInv, Stage
<1>4. SurvivesInv'
  <2>1. AllSurvive(<<>>)
    BY DEF AllSurvive
  <2> QED
    BY <1>2, <2>1 DEF SurvivesInv
<1>5. PipeInv' /\ ReplyInv'
  BY <1>2 DEF PipeInv, ReplyInv, Nothing
<1>6. TextsInv' /\ ExitInv'
  BY <1>2 DEF RequestInv, TextsInv, MapInto, ExitInv, Nothing
<1>7. ToldInv'
  <2>1. asked = Nothing => content = told
    BY DEF RequestInv, AskedInv, Idling
  <2>2. asked # Nothing /\ asked.intact => content = told
    BY <1>1 DEF RequestInv, ToldInv
  <2> QED
    BY <1>2, <2>1, <2>2 DEF ToldInv
<1>8. ReadyInv'
  <2>1. ~QueryLine(asked', Head(todo'))
    BY LinesDiffer DEF AllLeft
  <2>2. ~(reply'.kind \in {"answer", "list"})
    BY <1>2 DEF Nothing
  <2> QED
    BY <1>2, <2>1, <2>2 DEF ReadyInv
<1> QED
  BY <1>3, <1>4, <1>5, <1>6, <1>7, <1>8 DEF RequestInv

LEMMA RequestFields ==
    ASSUME NEW kind, kind # "nothing", NEW f, NEW flags, NEW lines
    PROVE  LET r == Request(kind, f, flags, lines)
           IN  /\ r.kind = kind /\ r.file = f /\ r.flags = flags /\ r # Nothing
               /\ r.survives = Quotable(lines)
               /\ r.intact = (Quotable(lines) /\ (asked = Nothing \/ asked.intact))
<1> DEFINE r == Request(kind, f, flags, lines)
<1>1. /\ r.kind = kind /\ r.file = f /\ r.flags = flags
      /\ r.survives = Quotable(lines)
      /\ r.intact = (Quotable(lines) /\ (asked = Nothing \/ asked.intact))
  BY DEF Request
<1>2. Nothing.kind = "nothing"
  BY DEF Nothing
<1> QED
  BY <1>1, <1>2

LEMMA AskRequest ==
    ASSUME RequestInv, AskAny
    PROVE  RequestInv'
<1>1. PICK kind \in {"parse", "diagnostics", "get-type", "candidates"}, f \in File,
           flags \in Flags, prefix \in Prefix, unsaved \in Unsaved :
              Ask(kind, f, flags, prefix, unsaved)
  BY DEF AskAny
<1>2. Idle
  BY DEF AskAny, MayAsk
<1> DEFINE c == Chain(kind, f, flags, prefix)
<1>3. /\ todo' = unsaved \o c /\ asked' = Request(kind, f, flags, todo')
      /\ UNCHANGED <<told, sent, pipe, reply, serverVars>>
  BY <1>1 DEF Ask
<1>4. kind # "nothing"
  OBVIOUS
<1>5. /\ asked'.kind = kind /\ asked'.file = f /\ asked'.flags = flags /\ asked' # Nothing
      /\ asked'.survives = Quotable(todo')
      /\ asked'.intact = (Quotable(todo') /\ (asked = Nothing \/ asked.intact))
  BY <1>3, <1>4, RequestFields
<1>6. c \in Seq(Seq(Word)) /\ AllLeft(asked', c)
  BY <1>5, ChainForm
<1> HIDE DEF c
<1>7. /\ todo' \in Seq(Seq(Word)) /\ todo' # <<>>
      /\ \/ AllLeft(asked', todo')
         \/ TextLine(Head(todo')) /\ AllLeft(asked', Tail(todo'))
  BY <1>3, <1>6, UnsavedForm
<1> QED
  BY <1>2, <1>3, <1>5, <1>7, NewRequest

LEMMA AskOptionsRequest ==
    ASSUME RequestInv, AskAnyOptions
    PROVE  RequestInv'
<1>1. PICK d \in Dir, f \in File : AskOptions(d, f)
  BY DEF AskAnyOptions
<1>2. Idle
  BY DEF AskAnyOptions, MayAsk
<1> DEFINE l == <<K("get-compile-options"), d, f>>
<1>3. /\ todo' = <<l>> /\ asked' = Request("get-compile-options", f, <<d>>, todo')
      /\ UNCHANGED <<told, sent, pipe, reply, serverVars>>
  BY <1>1 DEF AskOptions
<1>4. /\ asked'.kind = "get-compile-options" /\ asked'.file = f /\ asked' # Nothing
      /\ asked'.survives = Quotable(todo')
      /\ asked'.intact = (Quotable(todo') /\ (asked = Nothing \/ asked.intact))
  BY <1>3, RequestFields
<1>5. FirstLine(asked', l) /\ l \in Seq(Word)
  BY <1>4, LinesKeyworded DEF FirstLine, Keyworded
<1> HIDE DEF l
<1>6. todo' \in Seq(Seq(Word)) /\ todo' # <<>> /\ AllLeft(asked', todo')
  BY <1>3, <1>5, HeadAndTail DEF AllLeft, QueryLeft
<1> QED
  BY <1>2, <1>3, <1>4, <1>6, NewRequest

\* The lines of a request one by one.
LEMMA QuotableParts ==
    ASSUME NEW lines \in Seq(Seq(Word)), lines # <<>>, Quotable(lines)
    PROVE  AllSurvive(Head(lines)) /\ Quotable(Tail(lines))
<1> DEFINE n == Len(lines)
           t == Tail(lines)
<1>1. n \in Nat /\ n >= 1 /\ Head(lines) = lines[1]
  OBVIOUS
<1>2. Len(t) = n - 1 /\ \A i \in 1..Len(t) : t[i] = lines[i + 1]
  BY <1>1
<1> HIDE DEF t
<1>3. \A i \in 1..Len(t) : AllSurvive(t[i])
  <2> SUFFICES ASSUME NEW i \in 1..Len(t) PROVE AllSurvive(t[i])
    OBVIOUS
  <2>1. i + 1 \in 1..n
    BY <1>1, <1>2
  <2> QED
    BY <1>2, <2>1 DEF Quotable
<1>4. AllSurvive(lines[1])
  BY <1>1 DEF Quotable
<1> QED
  BY <1>1, <1>3, <1>4 DEF t, Quotable

LEMMA SendRequest ==
    ASSUME RequestInv, Send
    PROVE  RequestInv'
<1>1. /\ todo # <<>> /\ pipe = NoLine /\ reply = Nothing
      /\ sent' = Head(todo) /\ pipe' = QuoteStrings(Head(todo)) /\ todo' = Tail(todo)
      /\ asked' = asked /\ told' = told /\ reply' = reply /\ content' = content
      /\ results' = results /\ activeTu' = activeTu /\ heap' = heap /\ file' = file
  BY DEF Send, serverVars, unitVars, ironyVars
<1>2. sent = <<>>
  BY <1>1, NothingSent DEF RequestInv
<1>3. asked # Nothing /\ todo \in Seq(Seq(Word)) /\ Stage
  BY <1>1 DEF RequestInv, AskedInv, Idling
<1>4. todo' \in Seq(Seq(Word))
  BY <1>1, <1>3
<1>5. Stage'
  <2>1. CASE TextLine(Head(todo)) /\ AllLeft(asked, Tail(todo))
    BY <1>1, <2>1 DEF Stage
  <2>2. CASE AllLeft(asked, todo)
    BY <1>1, <2>2 DEF Stage, AllLeft
  <2>3. CASE QueryLeft(asked, todo)
    BY <1>1, <2>3 DEF Stage, QueryLeft
  <2> QED
    BY <1>1, <1>3, <2>1, <2>2, <2>3 DEF Stage
<1>6. AskedInv'
  BY <1>1, <1>3, <1>4, <1>5 DEF AskedInv
<1>7. SurvivesInv'
  <2>1. asked.survives => AllSurvive(Head(todo)) /\ Quotable(Tail(todo))
    BY <1>1, <1>3, QuotableParts DEF RequestInv, SurvivesInv
  <2> QED
    BY <1>1, <1>3, <2>1 DEF RequestInv, SurvivesInv
<1>7a. sent' # <<>>
  <2>1. Line(sent')
    BY <1>1, <1>3 DEF Stage, AllLeft, QueryLeft, Line
  <2>2. Keyworded(sent')
    BY <2>1, Keywords DEF Line
  <2> QED
    BY <2>2 DEF Keyworded
<1>8. PipeInv'
  BY <1>1, <1>7a DEF PipeInv
<1>9. ReplyInv' /\ TextsInv' /\ ToldInv' /\ ExitInv'
  BY <1>1 DEF RequestInv, ReplyInv, TextsInv, MapInto, ToldInv, ExitInv, Nothing
<1>10. ReadyInv'
  <2>1. asked.intact /\ QueryLine(asked, Head(todo)) => Ready
    BY <1>1, <1>2, <1>3 DEF RequestInv, ReadyInv
  <2>2. Ready' <=> Ready
    BY <1>1 DEF Ready, Own
  <2>3. reply' # Success /\ ~(reply'.kind \in {"answer", "list"})
    BY <1>1 DEF Nothing, Success
  <2> QED
    BY <1>1, <1>3, <1>7a, <2>1, <2>2, <2>3 DEF ReadyInv
<1> QED
  BY <1>6, <1>7, <1>8, <1>9, <1>10 DEF RequestInv

\* A text that is confirmed is one that the client sent.
LEMMA ConfirmedTexts ==
    ASSUME TextsInv, Line(sent)
    PROVE  MapInto(Confirmed, Text)
<1>1. \A k, v : v \in Text => MapInto(Set(told, k, v), Text)
  BY DEF TextsInv, MapInto, Set
<1>2. \A k : MapInto(Without(told, k), Text)
  BY DEF TextsInv, MapInto, Without
<1>3. sent[1] = K("set-unsaved") => sent[3][1] \in Text
  <2> SUFFICES ASSUME sent[1] = K("set-unsaved") PROVE sent[3][1] \in Text
    OBVIOUS
  <2>1. /\ \A a : FirstLine(a, sent) =>
              sent[1] \in {K("parse"), K("complete"), K("get-compile-options")}
        /\ \A a : QueryLine(a, sent) => sent[1] \in {K("diagnostics"), K("get-type"), K("candidates")}
    BY Keywords DEF Queries
  <2>2. TextLine(sent)
    BY <2>1, KeywordsDiffer DEF Line
  <2>3. K("set-unsaved") # K("reset-unsaved")
    BY KeywordsDiffer
  <2>4. PICK f \in File, t \in Text : sent = <<K("set-unsaved"), f, K(t)>>
    BY <2>2, <2>3 DEF TextLine
  <2> QED
    BY <2>4 DEF K
<1> QED
  BY <1>1, <1>2, <1>3 DEF Confirmed, TextsInv

LEMMA ReceiveRequest ==
    ASSUME RequestInv, Receive
    PROVE  RequestInv'
<1>1. /\ reply.kind \notin {"nothing", "exit"}
      /\ told' = Confirmed /\ todo' = (IF Succeeded THEN todo ELSE <<>>)
      /\ sent' = <<>> /\ reply' = Nothing /\ asked' = asked /\ pipe' = pipe
      /\ content' = content
      /\ results' = results /\ activeTu' = activeTu /\ heap' = heap /\ file' = file
  BY DEF Receive, serverVars, unitVars, ironyVars
<1>2. reply # Nothing
  BY <1>1 DEF Nothing
<1>3. sent # <<>> /\ pipe = NoLine
  BY <1>2 DEF RequestInv, PipeInv
<1>4. asked # Nothing /\ Line(sent) /\ Keyworded(sent)
  BY <1>3, SentLine DEF RequestInv
<1>5. todo \in Seq(Seq(Word)) /\ Stage
  BY <1>4 DEF RequestInv, AskedInv, Idling
<1>6. AskedInv'
  <2>1. CASE Succeeded
    <3>1. todo' = todo
      BY <1>1, <2>1
    <3> QED
      BY <1>1, <1>3, <1>4, <1>5, <3>1 DEF AskedInv, Stage
  <2>2. CASE ~Succeeded
    <3>1. todo' = <<>>
      BY <1>1, <2>2
    <3>2. todo' \in Seq(Seq(Word))
      BY <3>1
    <3>3. Stage'
      BY <1>1, <3>1 DEF Stage
    <3> QED
      BY <1>1, <1>4, <3>2, <3>3 DEF AskedInv
  <2> QED
    BY <2>1, <2>2
<1>7. SurvivesInv'
  <2>1. AllSurvive(<<>>) /\ Quotable(<<>>)
    BY DEF AllSurvive, Quotable
  <2> QED
    BY <1>1, <1>4, <2>1 DEF RequestInv, SurvivesInv
<1>8. PipeInv' /\ ReplyInv' /\ ExitInv'
  BY <1>1, <1>3 DEF PipeInv, ReplyInv, ExitInv, Nothing
<1>9. TextsInv'
  BY <1>1, <1>4, ConfirmedTexts DEF RequestInv, TextsInv, MapInto
<1>10. ToldInv'
  <2>1. asked.intact => content = Confirmed
    BY <1>2, <1>4 DEF RequestInv, ToldInv
  <2> QED
    BY <1>1, <2>1 DEF ToldInv
<1>11. ReadyInv'
  <2>1. ASSUME asked.intact, todo' # <<>>, QueryLine(asked, Head(todo')) PROVE Ready'
    <3>1. Succeeded /\ todo' = todo
      BY <1>1, <2>1
    <3>2. ~AllLeft(asked, todo)
      BY <2>1, <3>1, LinesDiffer DEF AllLeft
    <3>3. FirstLine(asked, sent)
      BY <1>3, <1>5, <2>1, <3>1, <3>2 DEF Stage
    <3>4. sent[1] \in {K("parse"), K("complete")}
      <4>1. asked.kind # "get-compile-options"
        BY <2>1 DEF QueryLine
      <4>2. CASE asked.kind = "candidates"
        <5>1. sent = CompleteLine(asked.file, asked.flags) /\ asked.file \in File /\ asked.flags \in Flags
          BY <3>3, <4>2 DEF FirstLine
        <5> QED
          BY <5>1, CompleteLineForm
      <4>3. CASE asked.kind # "candidates"
        <5>1. sent = ParseLine(asked.file, asked.flags) /\ asked.file \in File /\ asked.flags \in Flags
          BY <3>3, <4>1, <4>3 DEF FirstLine
        <5> QED
          BY <5>1, ParseLineForm
      <4> QED
        BY <4>2, <4>3
    <3>5. reply = Success
      <4>1. sent[1] # K("get-compile-options") /\ sent[1] \notin Queries
        BY <3>4, KeywordsDiffer DEF Queries
      <4>2. reply \in {Nothing, Success, Failure, Unreadable, [kind |-> "exit"]}
        BY <4>1 DEF RequestInv, ReplyInv
      <4> QED
        BY <3>1, <4>2 DEF Succeeded, Nothing, Failure, Unreadable
    <3>6. Ready
      BY <1>4, <2>1, <3>1, <3>5 DEF RequestInv, ReadyInv
    <3>7. told' = told
      <4>1. sent[1] # K("set-unsaved") /\ sent[1] # K("reset-unsaved")
        BY <3>4, KeywordsDiffer
      <4> QED
        BY <1>1, <4>1 DEF Confirmed
    <3> QED
      BY <1>1, <3>6, <3>7 DEF Ready, Own
  <2>2. ~(reply'.kind \in {"answer", "list"})
    BY <1>1 DEF Nothing
  <2> QED
    BY <1>1, <2>1, <2>2 DEF ReadyInv
<1> QED
  BY <1>6, <1>7, <1>8, <1>9, <1>10, <1>11 DEF RequestInv

LEMMA NewProcessRequest == NewProcess => RequestInv'
<1> SUFFICES ASSUME NewProcess PROVE RequestInv'
  OBVIOUS
<1>1. /\ asked' = Nothing /\ todo' = <<>> /\ told' = NoMap /\ sent' = <<>> /\ pipe' = NoLine
      /\ reply' = Nothing /\ content' = NoMap
  BY DEF NewProcess
<1>2. MapInto(NoMap, Text)
  BY DEF MapInto, NoMap
<1>3. AskedInv' /\ SurvivesInv' /\ PipeInv' /\ ReplyInv' /\ ToldInv' /\ ReadyInv'
  BY <1>1 DEF AskedInv, Idling, SurvivesInv, PipeInv, ReplyInv, ToldInv, ReadyInv
<1>4. TextsInv' /\ ExitInv'
  BY <1>1, <1>2 DEF TextsInv, MapInto, ExitInv, Nothing
<1> QED
  BY <1>3, <1>4 DEF RequestInv

\* Nothing that RequestInv is about changes.
LEMMA SameRequest == RequestInv /\ UNCHANGED fileVars => RequestInv'
<1> SUFFICES ASSUME RequestInv, UNCHANGED fileVars PROVE RequestInv'
  OBVIOUS
<1>1. /\ asked' = asked /\ todo' = todo /\ told' = told /\ sent' = sent /\ pipe' = pipe
      /\ reply' = reply /\ content' = content /\ results' = results /\ activeTu' = activeTu
      /\ heap' = heap /\ file' = file /\ erange' = erange
  BY DEF fileVars, clientVars, serverVars, unitVars, ironyVars
<1>2. AskedInv' /\ SurvivesInv' /\ PipeInv'
  BY <1>1 DEF RequestInv, AskedInv, Stage, Idling, SurvivesInv, PipeInv
<1>3. ReplyInv' /\ TextsInv' /\ ExitInv'
  BY <1>1 DEF RequestInv, ReplyInv, TextsInv, MapInto, ExitInv
<1>4. ToldInv'
  BY <1>1 DEF RequestInv, ToldInv, Confirmed
<1>5. ReadyInv'
  BY <1>1 DEF RequestInv, ReadyInv, Ready, Own
<1> QED
  BY <1>2, <1>3, <1>4, <1>5 DEF RequestInv

\* The unit of a file that was just parsed is what libclang made of the file
\* with these flags and the texts there are.
LEMMA ParsedUnit ==
    ASSUME MapsInv(units, flagsFor, heap), NEW f, NEW flags,
           NEW r \in ParseOutcomes(f, flags), r.units[f] # Null
    PROVE  /\ r.units[f] \in DOMAIN r.heap
           /\ r.heap[r.units[f]] = [file |-> f, flags |-> flags, seen |-> cxUnsaved]
<1> DEFINE m == TuRef(Manager, f, flags)
           a == IF m.units[f] = Null THEN Fresh(m) ELSE m.units[f]
           unit == [file |-> f,
                    flags |-> IF m.units[f] = Null THEN flags ELSE m.heap[a].flags,
                    seen |-> cxUnsaved]
<1>1. /\ m = [units |-> m.units, flagsFor |-> m.flagsFor, heap |-> m.heap]
      /\ ManagerInv(m) /\ f \in DOMAIN m.units /\ m.flagsFor[f] = flags
  BY TuRefInv
<1>2. r = Dispose(m, f) \/ r = Reparse(m, f, flags)
  BY DEF ParseOutcomes
<1> HIDE DEF m
<1>3. r # Dispose(m, f)
  <2>1. Dispose(m, f).units = Set(m.units, f, Null)
    BY <1>1 DEF Dispose
  <2>2. Set(m.units, f, Null)[f] = Null
    BY DEF Set
  <2> QED
    BY <2>1, <2>2
<1>4. r = [units |-> Set(m.units, f, a), flagsFor |-> m.flagsFor, heap |-> Set(m.heap, a, unit)]
  BY <1>1, <1>2, <1>3 DEF Reparse
<1>5. m.units[f] # Null => m.heap[m.units[f]].flags = flags
  BY <1>1 DEF ManagerInv, MapsInv
<1>6. unit = [file |-> f, flags |-> flags, seen |-> cxUnsaved]
  BY <1>5
<1> HIDE DEF a, unit
<1>7. Set(m.units, f, a)[f] = a /\ a \in DOMAIN Set(m.heap, a, unit) /\ Set(m.heap, a, unit)[a] = unit
  BY DEF Set
<1> QED
  BY <1>4, <1>6, <1>7

\* The unit that is there for a file and these flags
LEMMA GotUnit ==
    ASSUME MapsInv(units, flagsFor, heap), NEW f, NEW flags,
           NEW r \in GetOutcomes(f, flags), r.units[f] # Null
    PROVE  r.heap[r.units[f]].file = f /\ r.heap[r.units[f]].flags = flags
<1>1. ManagerInv(r) /\ f \in DOMAIN r.units /\ r.flagsFor[f] = flags
  BY OutcomesInv
<1> QED
  BY <1>1 DEF ManagerInv, MapsInv

\* What holds when the server reads a line.
LEMMA AtServer ==
    ASSUME RequestInv, pipe # NoLine, reply = Nothing,
           NEW c, c = ParseCommand(Unescape(pipe), erange)
    PROVE  /\ sent # <<>> /\ asked # Nothing /\ Line(sent)
           /\ c = Rejected \/ K(c.action) = sent[1]
           /\ asked.survives => AllSurvive(sent) /\ Unescape(pipe) = sent
           /\ asked.intact => asked.survives /\ content = told
           /\ \/ TextLine(sent) /\ AllLeft(asked, todo)
              \/ FirstLine(asked, sent) /\ QueryLeft(asked, todo)
              \/ QueryLine(asked, sent) /\ todo = <<>>
<1>1. sent # <<>> /\ pipe = QuoteStrings(sent)
  BY DEF RequestInv, PipeInv
<1>2. asked # Nothing /\ Line(sent) /\ Keyworded(sent)
  BY <1>1, SentLine DEF RequestInv
<1>3. c = Rejected \/ K(c.action) = sent[1]
  BY <1>1, <1>2, CommandRead
<1>4. (asked.survives => AllSurvive(sent)) /\ (asked.intact => asked.survives)
  BY <1>2 DEF RequestInv, SurvivesInv
<1>5. AllSurvive(sent) => Unescape(pipe) = sent
  BY <1>1, <1>2, Arrives DEF Keyworded
<1>6. asked.intact => content = told
  BY <1>2 DEF RequestInv, ToldInv
<1>7. Stage
  BY <1>2 DEF RequestInv, AskedInv, Idling
<1>8. \/ TextLine(sent) /\ AllLeft(asked, todo)
      \/ FirstLine(asked, sent) /\ QueryLeft(asked, todo)
      \/ QueryLine(asked, sent) /\ todo = <<>>
  BY <1>1, <1>7 DEF Stage
<1> QED
  BY <1>1, <1>2, <1>3, <1>4, <1>5, <1>6, <1>8

\* What an answer leaves as it is.
LEMMA Answered ==
    ASSUME RequestInv, pipe # NoLine, reply = Nothing, pipe' = NoLine, reply' # Nothing,
           UNCHANGED <<asked, todo, told, sent>>
    PROVE  AskedInv' /\ SurvivesInv' /\ PipeInv'
<1>1. sent # <<>> /\ asked # Nothing
  BY AtServer
<1>2. asked' = asked /\ todo' = todo /\ told' = told /\ sent' = sent
  OBVIOUS
<1>3. todo \in Seq(Seq(Word)) /\ Stage
  BY <1>1 DEF RequestInv, AskedInv, Idling
<1>4. Stage'
  BY <1>2, <1>3 DEF Stage
<1>5. AskedInv'
  BY <1>1, <1>2, <1>3, <1>4 DEF AskedInv
<1>6. SurvivesInv'
  BY <1>2 DEF RequestInv, SurvivesInv
<1>7. PipeInv'
  BY <1>1, <1>2 DEF PipeInv
<1> QED
  BY <1>5, <1>6, <1>7

\* The line of a command, by its keyword
LEMMA LineOf ==
    ASSUME NEW a, NEW l,
           TextLine(l) \/ FirstLine(a, l) \/ QueryLine(a, l)
    PROVE  /\ l[1] = K("parse") => 
                a.kind # "candidates" /\ a.file \in File /\ a.flags \in Flags
                /\ l = ParseLine(a.file, a.flags)
           /\ l[1] = K("complete") =>
                a.kind = "candidates" /\ a.file \in File /\ a.flags \in Flags
                /\ l = CompleteLine(a.file, a.flags)
           /\ l[1] = K("set-unsaved") => \E f \in File, t \in Text : l = <<K("set-unsaved"), f, K(t)>>
           /\ l[1] = K("reset-unsaved") => \E f \in File : l = <<K("reset-unsaved"), f>>
           /\ l[1] = K("diagnostics") => a.kind = "diagnostics" /\ QueryLine(a, l)
           /\ l[1] = K("get-type") => a.kind = "get-type" /\ QueryLine(a, l)
           /\ l[1] = K("candidates") => a.kind = "candidates" /\ QueryLine(a, l)
<1>1. CASE TextLine(l)
  <2>1. l[1] = K("set-unsaved") \/ l[1] = K("reset-unsaved")
    BY <1>1, Keywords
  <2> QED
    BY <1>1, <2>1, KeywordsDiffer DEF TextLine
<1>2. CASE FirstLine(a, l)
  <2>1. CASE a.kind \in {"parse", "diagnostics", "get-type"}
    <3>1. a.file \in File /\ a.flags \in Flags /\ l = ParseLine(a.file, a.flags)
      BY <1>2, <2>1 DEF FirstLine
    <3>2. l[1] = K("parse")
      BY <3>1, ParseLineForm
    <3> QED
      BY <2>1, <3>1, <3>2, KeywordsDiffer
  <2>2. CASE a.kind = "candidates"
    <3>1. a.file \in File /\ a.flags \in Flags /\ l = CompleteLine(a.file, a.flags)
      BY <1>2, <2>2 DEF FirstLine
    <3>2. l[1] = K("complete")
      BY <3>1, CompleteLineForm
    <3> QED
      BY <2>2, <3>1, <3>2, KeywordsDiffer
  <2>3. CASE a.kind = "get-compile-options"
    <3>1. l[1] = K("get-compile-options")
      BY <1>2, <2>3 DEF FirstLine
    <3> QED
      BY <3>1, KeywordsDiffer
  <2> QED
    BY <1>2, <2>1, <2>2, <2>3 DEF FirstLine
<1>3. CASE QueryLine(a, l)
  <2>1. CASE a.kind = "diagnostics"
    <3>1. l[1] = K("diagnostics")
      BY <1>3, <2>1 DEF QueryLine
    <3> QED
      BY <1>3, <2>1, <3>1, KeywordsDiffer
  <2>2. CASE a.kind = "get-type"
    <3>1. l[1] = K("get-type")
      BY <1>3, <2>2 DEF QueryLine
    <3> QED
      BY <1>3, <2>2, <3>1, KeywordsDiffer
  <2>3. CASE a.kind = "candidates"
    <3>1. l[1] = K("candidates")
      BY <1>3, <2>3 DEF QueryLine
    <3> QED
      BY <1>3, <2>3, <3>1, KeywordsDiffer
  <2> QED
    BY <1>3, <2>1, <2>2, <2>3 DEF QueryLine
<1> QED
  BY <1>1, <1>2, <1>3

-----------------------------------------------------------------------------
(***************************************************************************)
(* The answers of the server.  In each, c is what the line is read as.     *)
(***************************************************************************)
Reading(c) == pipe # NoLine /\ reply = Nothing /\ c = ParseCommand(Unescape(pipe), erange)

\* No command about a text is being answered.
LEMMA NotAboutText ==
    ASSUME RequestInv, NEW c, Reading(c), UNCHANGED <<told, sent, content>>,
           sent[1] \notin {K("set-unsaved"), K("reset-unsaved")},
           asked' = asked, reply' # Nothing
    PROVE  TextsInv' /\ ToldInv'
<1>1. TextsInv'
  BY DEF RequestInv, TextsInv, MapInto
<1>2. Confirmed' = told
  BY DEF Confirmed
<1>3. asked # Nothing /\ (asked.intact => content = told)
  BY AtServer DEF Reading
<1> QED
  BY <1>1, <1>2, <1>3 DEF ToldInv

LEMMA ParseRequest ==
    ASSUME RequestInv, UnitsInv, NEW c, Reading(c), Parse(c)
    PROVE  RequestInv'
<1> DEFINE f == c.args[1]
<1>1. PICK m \in ParseOutcomes(f, c.flags) : 
         /\ Install(m) /\ activeTu' = m.units[f]
         /\ Answer(IF activeTu' = Null THEN Failure ELSE Success)
  BY DEF Parse
<1>2. /\ pipe' = NoLine /\ reply' = (IF activeTu' = Null THEN Failure ELSE Success)
      /\ asked' = asked /\ todo' = todo /\ told' = told /\ sent' = sent
      /\ content' = content /\ file' = f /\ heap' = m.heap
  BY <1>1 DEF Answer, clientVars, Parse, Install
<1>3. reply' \in {Failure, Success} /\ reply' # Nothing
  BY <1>2 DEF Failure, Success, Nothing
<1>4. AskedInv' /\ SurvivesInv' /\ PipeInv'
  BY <1>2, <1>3, Answered DEF Reading
<1>5. sent[1] = K("parse")
  <2>1. c.action = "parse" /\ c # Rejected
    BY DEF Parse, Rejected
  <2> QED
    BY <2>1, AtServer DEF Reading
<1>6. TextsInv' /\ ToldInv'
  BY <1>2, <1>3, <1>5, NotAboutText, KeywordsDiffer
<1>7. ReplyInv' /\ ExitInv'
  BY <1>3 DEF ReplyInv, ExitInv, Failure, Success
<1>8. ASSUME asked.intact, reply' = Success PROVE Ready'
  <2>1. /\ asked.kind # "candidates" /\ asked.file \in File /\ asked.flags \in Flags
        /\ sent = ParseLine(asked.file, asked.flags)
    BY <1>5, AtServer, LineOf DEF Reading
  <2>2. Unescape(pipe) = sent /\ content = told
    BY <1>8, AtServer DEF Reading
  <2>3. f = Substituted(asked.file) /\ c.flags = asked.flags
    BY <2>1, <2>2, ParseRead DEF Reading
  <2>4. m.units[f] # Null
    BY <1>1, <1>2, <1>8 DEF Failure, Success
  <2> HIDE DEF f
  <2>5. /\ m.units[f] \in DOMAIN m.heap
        /\ m.heap[m.units[f]] = [file |-> f, flags |-> c.flags, seen |-> cxUnsaved]
    BY <1>1, <2>4, ParsedUnit DEF UnitsInv, f
  <2>6. cxUnsaved = told
    BY <2>2 DEF UnitsInv
  <2> QED
    BY <1>1, <1>2, <2>1, <2>3, <2>5, <2>6 DEF Ready, Own
<1>9. ReadyInv'
  <2>1. ~QueryLine(asked, sent)
    BY <1>5, Keywords, KeywordsDiffer DEF Queries
  <2>2. sent # <<>>
    BY AtServer DEF Reading
  <2> QED
    BY <1>2, <1>3, <1>8, <2>1, <2>2 DEF ReadyInv, Failure, Success
<1> QED
  BY <1>4, <1>6, <1>7, <1>9 DEF RequestInv

LEMMA CompleteRequest ==
    ASSUME RequestInv, UnitsInv, NEW c, Reading(c), Complete(c)
    PROVE  RequestInv'
<1> DEFINE f == c.args[1]
<1>1. PICK m \in GetOutcomes(f, c.flags) :
         /\ Install(m)
         /\ \/ results' = Nothing
            \/ /\ m.units[f] # Null
               /\ results' = [file |-> m.heap[m.units[f]].file, flags |-> m.heap[m.units[f]].flags,
                              seen |-> cxUnsaved]
         /\ Answer(IF results' = Nothing THEN Failure ELSE Success)
  BY DEF Complete
<1>2. /\ pipe' = NoLine /\ reply' = (IF results' = Nothing THEN Failure ELSE Success)
      /\ asked' = asked /\ todo' = todo /\ told' = told /\ sent' = sent
      /\ content' = content
  BY <1>1 DEF Answer, clientVars, Complete
<1>3. reply' \in {Failure, Success} /\ reply' # Nothing
  BY <1>2 DEF Failure, Success, Nothing
<1>4. AskedInv' /\ SurvivesInv' /\ PipeInv'
  BY <1>2, <1>3, Answered DEF Reading
<1>0. c.action = "complete" /\ c # Rejected
  <2>1. c.action = "complete"
    BY Zenon DEF Complete
  <2> QED
    BY ONLY <2>1 DEF Rejected
<1>5. sent[1] = K("complete")
  BY <1>0, AtServer DEF Reading
<1>6. TextsInv' /\ ToldInv'
  BY <1>2, <1>3, <1>5, NotAboutText, KeywordsDiffer
<1>7. ReplyInv' /\ ExitInv'
  BY <1>3 DEF ReplyInv, ExitInv, Failure, Success
<1>8. ASSUME asked.intact, reply' = Success PROVE Ready'
  <2>1. /\ asked.kind = "candidates" /\ asked.file \in File /\ asked.flags \in Flags
        /\ sent = CompleteLine(asked.file, asked.flags)
    BY <1>5, AtServer, LineOf DEF Reading
  <2>2. Unescape(pipe) = sent /\ content = told
    BY <1>8, AtServer DEF Reading
  <2>3. c = ParseCommand(CompleteLine(asked.file, asked.flags), erange)
    BY <2>1, <2>2 DEF Reading
  <2>5. f = Substituted(asked.file) /\ c.flags = asked.flags
    BY <1>0, <2>1, <2>3, CompleteRead
  <2>6. results' # Nothing
    BY <1>2, <1>8 DEF Failure, Success
  <2> HIDE DEF f
  <2>7. /\ m.units[f] # Null
        /\ results' = [file |-> m.heap[m.units[f]].file, flags |-> m.heap[m.units[f]].flags,
                       seen |-> cxUnsaved]
    BY <1>1, <2>6 DEF f
  <2>8. m.heap[m.units[f]].file = f /\ m.heap[m.units[f]].flags = c.flags
    <3>1. MapsInv(units, flagsFor, heap)
      BY DEF UnitsInv
    <3>2. m \in GetOutcomes(f, c.flags) /\ m.units[f] # Null
      BY <2>7 DEF f
    <3> QED
      BY ONLY <3>1, <3>2, GotUnit
  <2>9. cxUnsaved = told
    BY <2>2 DEF UnitsInv
  <2> QED
    BY <1>2, <2>1, <2>5, <2>7, <2>8, <2>9 DEF Ready, Own
<1>9. ReadyInv'
  <2>1. ~QueryLine(asked, sent)
    BY <1>5, Keywords, KeywordsDiffer DEF Queries
  <2>2. sent # <<>>
    BY AtServer DEF Reading
  <2> QED
    BY <1>2, <1>3, <1>8, <2>1, <2>2 DEF ReadyInv, Failure, Success
<1> QED
  BY <1>4, <1>6, <1>7, <1>9 DEF RequestInv

\* If a line has two arguments there are three words or more, and the second
\* argument is the third word.
LEMMA SecondArgument ==
    ASSUME NEW argv \in Seq(Word), Len(Arguments(argv)) = 2
    PROVE  Len(argv) >= 3 /\ Arguments(argv)[2] = argv[3]
<1> DEFINE ends == {i \in 2..Len(argv) : argv[i] = <<Dash, Dash>>}
           e == EndOfArguments(argv)
<1>1. Len(argv) \in Nat
  OBVIOUS
<1>2. e \in Nat /\ e <= Len(argv) + 1 /\ e >= 1
  <2>1. CASE ends = {}
    <3>1. e = Len(argv) + 1
      BY <2>1 DEF EndOfArguments
    <3> QED
      BY <1>1, <3>1
  <2>2. CASE ends # {}
    <3>1. ends \subseteq Nat
      BY <1>1
    <3>2. \E i \in ends : \A j \in ends : i <= j
      BY <2>2, <3>1, Least
    <3>3. e = CHOOSE i \in ends : \A j \in ends : i <= j
      BY <2>2 DEF EndOfArguments
    <3>4. e \in ends
      <4> HIDE DEF ends, e
      <4> QED
        BY <3>2, <3>3
    <3> QED
      BY <1>1, <3>4
  <2> QED
    BY <2>1, <2>2
<1> HIDE DEF e
<1>3. Arguments(argv) = SubSeq(argv, 2, e - 1)
  BY DEF Arguments, e
<1>4. e - 1 \in Int /\ e - 1 <= Len(argv)
  BY <1>1, <1>2
<1>5. Len(SubSeq(argv, 2, e - 1)) = IF 2 <= e - 1 THEN (e - 1) - 1 ELSE 0
  BY <1>1, <1>2, <1>4
<1>6. e - 1 = 3
  BY <1>2, <1>3, <1>5
<1>7. Len(argv) >= 3
  BY <1>4, <1>6
<1>8. SubSeq(argv, 2, 3)[2] = argv[3]
  BY <1>1, <1>7
<1> QED
  BY <1>3, <1>6, <1>7, <1>8

\* The text that the server takes is the one that was sent, even if the words
\* of the line did not survive.
LEMMA TextRead ==
    ASSUME NEW f \in File, NEW t \in Text, NEW range, NEW c,
           c = ParseCommand(Unescape(QuoteStrings(<<K("set-unsaved"), f, K(t)>>)), range),
           c.action = "set-unsaved"
    PROVE  c.args[2] = K(t)
<1> DEFINE l == <<K("set-unsaved"), f, K(t)>>
           read == Unescape(QuoteStrings(l))
<1>1. "set-unsaved" \in Action
  BY DEF Action
<1>2. /\ "set-unsaved" \in Chr /\ "set-unsaved" \notin Special /\ f \in Word
      /\ t \in Chr /\ t \notin Special
  BY <1>1, ActionPlain, WordTypes
<1>3. l \in Seq(Word)
  BY LinesKeyworded DEF Keyworded
<1>4. read \in Seq(Word)
  BY <1>3, QuotedType, ReadType
<1>5. l = <<<<"set-unsaved">>, f, <<t>>>>
  BY DEF K
<1>6. Len(read) >= 3 => Len(read) = 3 /\ read[3] = <<t>>
  BY <1>2, <1>5, LastWord
<1> HIDE DEF read
<1>7. /\ read[1][1] = "set-unsaved"
      /\ Len(Arguments(read)) = Len(Positional("set-unsaved"))
      /\ \A i \in 1..Len(Arguments(read)) : i # FileArgument("set-unsaved") =>
            c.args[i] = Arguments(read)[i]
  BY CommandAction DEF read, Rejected
<1>8. Len(Arguments(read)) = 2
  BY <1>7, PositionalForms
<1>9. c.args[2] = Arguments(read)[2]
  <2>1. 2 # FileArgument("set-unsaved") /\ 2 \in 1..Len(Arguments(read))
    BY <1>8, FileArguments
  <2> QED
    BY <1>7, <2>1, Zenon
<1> QED
  BY <1>4, <1>6, <1>8, <1>9, SecondArgument DEF K

\* Texts are entered and removed.
LEMMA MapUpdates ==
    ASSUME NEW map, MapInto(map, Text), NEW k
    PROVE  /\ \A t \in Text : MapInto(Set(map, k, t), Text)
           /\ MapInto(Without(map, k), Text)
BY DEF MapInto, Set, Without

\* A command about a text is followed by the first command of the request.
LEMMA TextReady ==
    ASSUME RequestInv, NEW c, Reading(c), UNCHANGED <<asked, todo, sent>>,
           sent[1] \in {K("set-unsaved"), K("reset-unsaved")},
           reply' \in {Success, Unreadable}
    PROVE  ReadyInv'
<1>1. sent # <<>> /\ Line(sent)
  BY AtServer DEF Reading
<1>2. (\A a : ~FirstLine(a, sent)) /\ (\A a : ~QueryLine(a, sent))
  BY Keywords, KeywordsDiffer DEF Queries
<1>3. AllLeft(asked, todo)
  BY <1>2, AtServer DEF Reading
<1>4. ~QueryLine(asked, Head(todo))
  BY <1>3, LinesDiffer DEF AllLeft
<1> QED
  BY <1>1, <1>2, <1>4 DEF ReadyInv, Success, Unreadable

LEMMA SetUnsavedRequest ==
    ASSUME RequestInv, NEW c, Reading(c), SetUnsaved(c)
    PROVE  RequestInv'
<1>1. PICK readable \in BOOLEAN :
         /\ content' = IF readable THEN Set(content, c.args[1], c.args[2][1])
                       ELSE Without(content, c.args[1])
         /\ Answer(IF readable THEN Success ELSE Unreadable)
  BY DEF SetUnsaved
<1>2. /\ pipe' = NoLine /\ reply' = (IF readable THEN Success ELSE Unreadable)
      /\ asked' = asked /\ todo' = todo /\ told' = told /\ sent' = sent
  BY <1>1 DEF Answer, clientVars
<1>3. reply' \in {Success, Unreadable} /\ reply' # Nothing
  BY <1>2 DEF Success, Unreadable, Nothing
<1>4. AskedInv' /\ SurvivesInv' /\ PipeInv'
  BY <1>2, <1>3, Answered DEF Reading
<1>5. c.action = "set-unsaved" /\ c # Rejected
  BY DEF SetUnsaved, Rejected
<1>6. sent[1] = K("set-unsaved")
  BY <1>5, AtServer DEF Reading
<1>7. PICK f \in File, t \in Text : sent = <<K("set-unsaved"), f, K(t)>>
  BY <1>6, AtServer, LineOf DEF Reading
<1>8. c.args[2] = K(t)
  <2>1. pipe = QuoteStrings(sent)
    BY DEF Reading, RequestInv, PipeInv
  <2> QED
    BY <1>5, <1>7, <2>1, TextRead DEF Reading
<1>9. TextsInv'
  <2>1. c.args[2][1] \in Text
    BY <1>8 DEF K
  <2>2. MapInto(told', Text)
    BY <1>2 DEF RequestInv, TextsInv, MapInto
  <2>3. MapInto(content, Text)
    BY DEF RequestInv, TextsInv
  <2>4. MapInto(content', Text)
    BY <1>1, <2>1, <2>3, MapUpdates
  <2> QED
    BY <2>2, <2>4 DEF TextsInv
<1>10. ToldInv'
  <2> SUFFICES ASSUME asked.intact PROVE content' = Confirmed'
    BY <1>2, <1>3 DEF ToldInv
  <2>1. Unescape(pipe) = sent /\ content = told
    BY AtServer DEF Reading
  <2>2. c.args[1] = Substituted(f)
    BY <1>7, <2>1, SetUnsavedRead DEF Reading
  <2>3. sent[2] = f /\ sent[3][1] = t /\ c.args[2][1] = t
    BY <1>7, <1>8 DEF K
  <2>4. CASE readable
    <3>1. Confirmed' = Set(told, Substituted(sent[2]), sent[3][1])
      BY <1>2, <1>6, <2>4 DEF Confirmed, Success
    <3> QED
      BY <1>1, <2>1, <2>2, <2>3, <2>4, <3>1
  <2>5. CASE ~readable
    <3>1. Confirmed' = Without(told, Substituted(sent[2]))
      BY <1>2, <1>6, <2>5 DEF Confirmed, Unreadable
    <3> QED
      BY <1>1, <2>1, <2>2, <2>3, <2>5, <3>1
  <2> QED
    BY <2>4, <2>5
<1>11. ReplyInv' /\ ExitInv'
  BY <1>3 DEF ReplyInv, ExitInv, Success, Unreadable
<1>12. ReadyInv'
  BY <1>2, <1>3, <1>6, TextReady
<1> QED
  BY <1>4, <1>9, <1>10, <1>11, <1>12 DEF RequestInv

LEMMA ResetUnsavedRequest ==
    ASSUME RequestInv, NEW c, Reading(c), ResetUnsaved(c)
    PROVE  RequestInv'
<1>1. /\ pipe' = NoLine /\ reply' = (IF c.args[1] \in DOMAIN content THEN Success ELSE Unreadable)
      /\ asked' = asked /\ todo' = todo /\ told' = told /\ sent' = sent
      /\ content' = Without(content, c.args[1])
  BY DEF Answer, clientVars, ResetUnsaved
<1>2. reply' \in {Success, Unreadable} /\ reply' # Nothing
  BY <1>1 DEF Success, Unreadable, Nothing
<1>3. AskedInv' /\ SurvivesInv' /\ PipeInv'
  BY <1>1, <1>2, Answered DEF Reading
<1>4. c.action = "reset-unsaved" /\ c # Rejected
  BY DEF ResetUnsaved, Rejected
<1>5. sent[1] = K("reset-unsaved")
  BY <1>4, AtServer DEF Reading
<1>6. PICK f \in File : sent = <<K("reset-unsaved"), f>>
  BY <1>5, AtServer, LineOf DEF Reading
<1>7. TextsInv'
  <2>1. MapInto(told', Text)
    BY <1>1 DEF RequestInv, TextsInv, MapInto
  <2>2. MapInto(content, Text)
    BY DEF RequestInv, TextsInv
  <2>3. MapInto(content', Text)
    BY <1>1, <2>2, MapUpdates
  <2> QED
    BY <2>1, <2>3 DEF TextsInv
<1>8. ToldInv'
  <2> SUFFICES ASSUME asked.intact PROVE content' = Confirmed'
    BY <1>1, <1>2 DEF ToldInv
  <2>1. Unescape(pipe) = sent /\ content = told
    BY AtServer DEF Reading
  <2>2. c.args[1] = Substituted(sent[2])
    BY <1>6, <2>1, ResetUnsavedRead DEF Reading
  <2>3. Confirmed' = Without(told, Substituted(sent[2]))
    BY <1>1, <1>5, KeywordsDiffer DEF Confirmed
  <2> QED
    BY <1>1, <2>1, <2>2, <2>3
<1>9. ReplyInv' /\ ExitInv'
  BY <1>2 DEF ReplyInv, ExitInv, Success, Unreadable
<1>10. ReadyInv'
  BY <1>1, <1>2, <1>5, TextReady
<1> QED
  BY <1>3, <1>7, <1>8, <1>9, <1>10 DEF RequestInv

\* The server has what a query is about.
LEMMA QueryReady ==
    ASSUME RequestInv, NEW c, Reading(c), sent[1] \in Queries, c # Rejected
    PROVE  /\ todo = <<>> /\ QueryLine(asked, sent) /\ (asked.intact => Ready)
           /\ (c.action = "candidates" <=> asked.kind = "candidates")
<1>1. K(c.action) = sent[1] /\ Line(sent) /\ sent # <<>> /\ asked # Nothing
  BY AtServer DEF Reading
<1>2. ~TextLine(sent) /\ ~FirstLine(asked, sent)
  BY Keywords, KeywordsDiffer DEF Queries
<1>3. QueryLine(asked, sent) /\ todo = <<>>
  BY <1>2, AtServer DEF Reading
<1>4. asked.intact => Ready
  BY <1>1, <1>3 DEF RequestInv, ReadyInv
<1>5. c.action = "candidates" <=> asked.kind = "candidates"
  <2>1. CASE asked.kind = "diagnostics"
    BY <1>1, <1>3, <2>1, KeywordsDiffer DEF QueryLine
  <2>2. CASE asked.kind = "get-type"
    BY <1>1, <1>3, <2>2, KeywordsDiffer DEF QueryLine
  <2>3. CASE asked.kind = "candidates"
    BY <1>1, <1>3, <2>3, KeywordsDiffer DEF QueryLine
  <2> QED
    BY <1>3, <2>1, <2>2, <2>3 DEF QueryLine
<1> QED
  BY <1>3, <1>4, <1>5

\* The answer to a query.
LEMMA QueryAnswered ==
    ASSUME RequestInv, NEW c, Reading(c), sent[1] \in Queries, c # Rejected,
           pipe' = NoLine, reply'.kind \in {"answer", "list"},
           UNCHANGED <<asked, todo, told, sent>>, UNCHANGED serverVars,
           asked.intact => reply'.about = Own
    PROVE  RequestInv'
<1>1. /\ content' = content /\ results' = results /\ activeTu' = activeTu /\ heap' = heap
      /\ file' = file
  BY DEF serverVars, unitVars, ironyVars
<1>2. reply' # Nothing
  BY DEF Nothing
<1>3. AskedInv' /\ SurvivesInv' /\ PipeInv'
  BY <1>2, Answered DEF Reading
<1>4. TextsInv' /\ ToldInv'
  <2>1. sent[1] \notin {K("set-unsaved"), K("reset-unsaved")}
    BY KeywordsDiffer DEF Queries
  <2> QED
    BY <1>1, <1>2, <2>1, NotAboutText
<1>5. ReplyInv' /\ ExitInv'
  BY DEF ReplyInv, ExitInv
<1>6. ReadyInv'
  <2>1. todo = <<>> /\ (asked.intact => Ready)
    BY QueryReady
  <2>2. Own' = Own /\ (Ready' <=> Ready)
    BY <1>1 DEF Own, Ready
  <2> QED
    BY <2>1, <2>2 DEF ReadyInv
<1> QED
  BY <1>3, <1>4, <1>5, <1>6 DEF RequestInv

LEMMA DiagnosticsRequest ==
    ASSUME RequestInv, NEW c, Reading(c), Diagnostics(c)
    PROVE  RequestInv'
<1>1. /\ pipe' = NoLine /\ reply' = [kind |-> "answer", about |-> Deref(activeTu)]
      /\ UNCHANGED <<asked, todo, told, sent>> /\ UNCHANGED serverVars
  BY DEF Diagnostics, Answer, clientVars
<1>2. c.action = "diagnostics" /\ c # Rejected
  BY DEF Diagnostics, Rejected
<1>3. sent[1] \in Queries
  BY <1>2, AtServer DEF Reading, Queries
<1>4. asked.intact => Deref(activeTu) = Own
  <2>1. asked.intact => Ready /\ asked.kind # "candidates"
    BY <1>2, <1>3, QueryReady
  <2> QED
    BY <2>1 DEF Ready, Deref
<1>5. reply'.kind \in {"answer", "list"} /\ (asked.intact => reply'.about = Own)
  BY <1>1, <1>4
<1> QED
  BY <1>1, <1>2, <1>3, <1>5, QueryAnswered

LEMMA GetTypeRequest ==
    ASSUME RequestInv, UnitsInv, NEW c, Reading(c), GetType(c)
    PROVE  RequestInv'
<1> DEFINE about == IF activeTu = Null THEN Nothing ELSE [Deref(activeTu) EXCEPT !.file = file]
<1>1. /\ pipe' = NoLine /\ reply' = [kind |-> "answer", about |-> about]
      /\ UNCHANGED <<asked, todo, told, sent>> /\ UNCHANGED serverVars
  BY DEF GetType, Answer, clientVars
<1>2. c.action = "get-type" /\ c # Rejected
  BY DEF GetType, Rejected
<1>3. sent[1] \in Queries
  BY <1>2, AtServer DEF Reading, Queries
<1>4. asked.intact => about = Own
  <2> SUFFICES ASSUME asked.intact PROVE about = Own
    OBVIOUS
  <2>1. Ready /\ asked.kind # "candidates"
    BY <1>2, <1>3, QueryReady
  <2>2. activeTu \in DOMAIN heap /\ heap[activeTu] = Own /\ file = Substituted(asked.file)
    BY <2>1 DEF Ready
  <2>3. activeTu # Null
    BY <2>2, ServerAssumption DEF UnitsInv, MapsInv, Null
  <2>4. about = [Own EXCEPT !.file = Substituted(asked.file)]
    BY <2>2, <2>3 DEF Deref
  <2> QED
    BY <2>4 DEF Own
<1> HIDE DEF about
<1>5. reply'.kind \in {"answer", "list"} /\ (asked.intact => reply'.about = Own)
  BY <1>1, <1>4
<1> QED
  BY <1>1, <1>2, <1>3, <1>5, QueryAnswered

LEMMA CandidatesRequest ==
    ASSUME RequestInv, NEW c, Reading(c), NEW strings, Candidates(c, strings)
    PROVE  RequestInv'
<1>1. PICK string \in strings :
         \E list : Answer([kind |-> "list", about |-> results, string |-> string, list |-> list])
  BY DEF Candidates
<1>2. PICK list : Answer([kind |-> "list", about |-> results, string |-> string, list |-> list])
  BY <1>1
<1>3. /\ pipe' = NoLine /\ reply'.kind = "list" /\ reply'.about = results
      /\ UNCHANGED <<asked, todo, told, sent>>
  BY <1>2 DEF Answer, clientVars
<1>4. c.action = "candidates" /\ c # Rejected /\ UNCHANGED serverVars
  BY DEF Candidates, Rejected
<1>5. sent[1] \in Queries
  BY <1>4, AtServer DEF Reading, Queries
<1>6. asked.intact => reply'.about = Own
  <2>1. asked.intact => Ready /\ asked.kind = "candidates"
    BY <1>4, <1>5, QueryReady
  <2> QED
    BY <1>3, <2>1 DEF Ready
<1> QED
  BY <1>3, <1>4, <1>5, <1>6, QueryAnswered

\* An answer that is no success, or to get-compile-options, leads nowhere.
LEMMA OtherAnswered ==
    ASSUME RequestInv, NEW c, Reading(c), pipe' = NoLine,
           \/ reply' = [kind |-> "exit"] /\ (~asked.survives \/ erange)
           \/ reply' = Failure /\ sent[1] = K("get-compile-options")
           \/ reply' = [kind |-> "options"] /\ sent[1] = K("get-compile-options"),
           asked.intact => sent[1] \notin {K("set-unsaved"), K("reset-unsaved")},
           UNCHANGED <<asked, todo, told, sent>>, UNCHANGED serverVars
    PROVE  RequestInv'
<1>1. /\ content' = content /\ results' = results /\ activeTu' = activeTu /\ heap' = heap
      /\ file' = file /\ erange' = erange
  BY DEF serverVars, unitVars, ironyVars
<1>2. reply' # Nothing /\ reply' # Success /\ ~(reply'.kind \in {"answer", "list"})
  BY DEF Nothing, Success, Failure
<1>3. AskedInv' /\ SurvivesInv' /\ PipeInv'
  BY <1>2, Answered DEF Reading
<1>4. TextsInv'
  BY <1>1 DEF RequestInv, TextsInv, MapInto
<1>5. ReplyInv' /\ ExitInv'
  BY <1>1 DEF ReplyInv, ExitInv, Failure
<1>6. ToldInv'
  <2>1. asked.intact => content = told
    BY AtServer DEF Reading
  <2>2. asked.intact => Confirmed' = told
    BY DEF Confirmed
  <2> QED
    BY <1>1, <1>2, <2>1, <2>2 DEF ToldInv
<1>7. ReadyInv'
  <2>1. asked # Nothing /\ sent # <<>>
    BY AtServer DEF Reading
  <2>2. Ready' <=> Ready
    BY <1>1 DEF Own, Ready
  <2>3. asked.intact /\ QueryLine(asked, sent) => Ready
    BY <2>1 DEF RequestInv, ReadyInv
  <2> QED
    BY <1>2, <2>1, <2>2, <2>3 DEF ReadyInv
<1> QED
  BY <1>3, <1>4, <1>5, <1>6, <1>7 DEF RequestInv

LEMMA OptionsRequest ==
    ASSUME RequestInv, NEW c, Reading(c), Options(c)
    PROVE  RequestInv'
<1>1. /\ pipe' = NoLine /\ UNCHANGED <<asked, todo, told, sent>> /\ UNCHANGED serverVars
      /\ reply' = IF served'.version = 0 THEN Failure ELSE [kind |-> "options"]
  BY DEF Options, Answer, clientVars
<1>2. c.action = "get-compile-options" /\ c # Rejected
  BY DEF Options, Rejected
<1>3. sent[1] = K("get-compile-options")
  BY <1>2, AtServer DEF Reading
<1>4. sent[1] \notin {K("set-unsaved"), K("reset-unsaved")}
  BY <1>3, KeywordsDiffer
<1>5. reply' = Failure \/ reply' = [kind |-> "options"]
  BY <1>1
<1> QED
  BY <1>1, <1>3, <1>4, <1>5, OtherAnswered

LEMMA ExitRequest ==
    ASSUME RequestInv, NEW c, Reading(c), Exit(c)
    PROVE  RequestInv'
<1>1. /\ pipe' = NoLine /\ UNCHANGED <<asked, todo, told, sent>> /\ UNCHANGED serverVars
      /\ reply' = [kind |-> "exit"]
  BY DEF Exit, Answer, clientVars
<1>2. c.action = "rejected"
  BY DEF Exit
<1>3. ~asked.survives \/ erange
  <2> SUFFICES ASSUME asked.survives, ~erange PROVE FALSE
    OBVIOUS
  <2>1. Line(sent) /\ AllSurvive(sent) /\ Unescape(pipe) = sent
    BY AtServer DEF Reading
  <2>2. pipe = QuoteStrings(sent)
    BY DEF Reading, RequestInv, PipeInv
  <2> QED
    BY <1>2, <2>1, <2>2, NotRejected DEF Reading
<1>4. ASSUME asked.intact PROVE sent[1] \notin {K("set-unsaved"), K("reset-unsaved")}
  <2>1. Unescape(pipe) = sent /\ c = ParseCommand(sent, erange)
    BY <1>4, AtServer DEF Reading
  <2>2. sent[1] # K("set-unsaved")
    <3> SUFFICES ASSUME sent[1] = K("set-unsaved") PROVE FALSE
      OBVIOUS
    <3>1. PICK f \in File, t \in Text : sent = <<K("set-unsaved"), f, K(t)>>
      BY AtServer, LineOf DEF Reading
    <3> QED
      BY <1>2, <2>1, <3>1, SetUnsavedRead
  <2>3. sent[1] # K("reset-unsaved")
    <3> SUFFICES ASSUME sent[1] = K("reset-unsaved") PROVE FALSE
      OBVIOUS
    <3>1. PICK f \in File : sent = <<K("reset-unsaved"), f>>
      BY AtServer, LineOf DEF Reading
    <3> QED
      BY <1>2, <2>1, <3>1, ResetUnsavedRead
  <2> QED
    BY <2>2, <2>3
<1> QED
  BY <1>1, <1>3, <1>4, OtherAnswered

LEMMA ServerStepRequest ==
    ASSUME RequestInv, UnitsInv, NEW strings, ServerStep(strings)
    PROVE  RequestInv'
<1> DEFINE c == ParseCommand(Unescape(pipe), erange)
<1>1. pipe # NoLine /\ reply = Nothing /\ Execute(c, strings)
  BY DEF ServerStep
<1>2. Reading(c)
  BY <1>1 DEF Reading
<1> HIDE DEF c
<1>3. CASE Parse(c) \/ Complete(c)
  BY <1>2, <1>3, ParseRequest, CompleteRequest
<1>4. CASE Diagnostics(c) \/ GetType(c) \/ Candidates(c, strings)
  BY <1>2, <1>4, DiagnosticsRequest, GetTypeRequest, CandidatesRequest
<1>5. CASE SetUnsaved(c) \/ ResetUnsaved(c)
  BY <1>2, <1>5, SetUnsavedRequest, ResetUnsavedRequest
<1>6. CASE LookUp(c)
  BY <1>6, SameRequest DEF LookUp
<1>7. CASE Options(c) \/ Exit(c)
  BY <1>2, <1>7, OptionsRequest, ExitRequest
<1> QED
  BY <1>1, <1>3, <1>4, <1>5, <1>6, <1>7 DEF Execute

LEMMA NextRequest == RequestInv /\ UnitsInv /\ [Next]_vars => RequestInv'
<1> SUFFICES ASSUME RequestInv, UnitsInv, [Next]_vars PROVE RequestInv'
  OBVIOUS
<1>1. CASE AskAny \/ AskAnyOptions
  BY <1>1, AskRequest, AskOptionsRequest
<1>2. CASE Send \/ Receive
  BY <1>2, SendRequest, ReceiveRequest
<1>3. CASE ServerStep(String)
  BY <1>3, ServerStepRequest
<1>4. CASE NewProcess
  BY <1>4, NewProcessRequest
<1>5. CASE Tools \/ UNCHANGED vars
  BY <1>5, SameRequest DEF Tools, vars
<1> QED
  BY <1>1, <1>2, <1>3, <1>4, <1>5 DEF Next

\* What a request has on its way is accounted for in every state.
LEMMA RequestsHold == Spec => [](RequestInv /\ UnitsInv)
<1>1. Init => RequestInv /\ UnitsInv
  BY InitRequest, InitUnits
<1>2. RequestInv /\ UnitsInv /\ [Next]_vars => (RequestInv /\ UnitsInv)'
  BY NextRequest, NextUnits
<1> QED
  BY <1>1, <1>2, PTL DEF Spec

\* What irony--quote-strings makes of the words of a command, whatever is in
\* them and however many they are, unescapeCommandLine reads as those words if
\* and only if each one survives (irony.el:660-683, CommandLineParser.cpp).
THEOREM WordsArrive == Spec => []ArrivesAsSent
<1>1. RequestInv => ArrivesAsSent
  <2> SUFFICES ASSUME RequestInv, pipe # NoLine PROVE Unescape(pipe) = sent <=> AllSurvive(sent)
    BY DEF ArrivesAsSent
  <2>1. pipe = QuoteStrings(sent) /\ sent # <<>>
    BY DEF RequestInv, PipeInv
  <2>2. sent \in Seq(Word)
    BY <2>1, SentLine DEF RequestInv, Keyworded
  <2> QED
    BY <2>1, <2>2, Arrives, Lost
<1> QED
  BY <1>1, RequestsHold, PTL

\* irony-server does not leave its loop over a command of the client
\* (main.cpp:171-234, Command.cpp:174-277), but for a word that does not survive
\* quoting, or when errno was left at ERANGE.
THEOREM NoOtherExit == Spec => []ExitsOnlyFor
<1>1. RequestInv => ExitsOnlyFor
  BY DEF RequestInv, ExitInv, ExitsOnlyFor
<1> QED
  BY <1>1, RequestsHold, PTL

\* Irony answers diagnostics, get-type and candidates about the file, the flags
\* and the texts of the request the query is of, although the query names none
\* and the unit and the results are left by earlier commands (Irony.cpp:124-577).
THEOREM NoForeignAnswer == Spec => []AnswersOwnRequest
<1>1. RequestInv => AnswersOwnRequest
  <2> SUFFICES ASSUME RequestInv, reply.kind \in {"answer", "list"}, asked.intact
               PROVE  reply.about = Own
    BY DEF AnswersOwnRequest, Own
  <2>1. reply # Nothing
    BY DEF Nothing
  <2>2. asked # Nothing
    BY <2>1, SentLine DEF RequestInv, PipeInv
  <2> QED
    BY <2>2 DEF RequestInv, ReadyInv
<1> QED
  BY <1>1, RequestsHold, PTL

\* What TypeOK says that no other invariant does.
BoundsInv ==
    /\ requests \in 0..MaxRequests
    /\ activeTu = Null \/ results = Nothing
    /\ erange \in BOOLEAN

LEMMA InitBounds == Init => BoundsInv
<1> SUFFICES ASSUME Init PROVE BoundsInv
  OBVIOUS
<1>1. requests = 0 /\ activeTu = Null /\ erange = FALSE
  BY DEF Init, ServerInit
<1>2. 0 \in 0..MaxRequests
  BY ServerAssumption
<1> QED
  BY <1>1, <1>2 DEF BoundsInv

LEMMA ServerStepBounds ==
    ASSUME BoundsInv, NEW strings, ServerStep(strings)
    PROVE  BoundsInv'
<1>1. PICK c : Execute(c, strings)
  BY DEF ServerStep
<1>2. CASE Parse(c)
  <2>1. requests' = requests /\ results' = Nothing /\ erange' \in BOOLEAN
    BY <1>2 DEF Parse, Answer, clientVars, BoundsInv
  <2> QED
    BY <2>1 DEF BoundsInv
<1>3. CASE Complete(c)
  <2>1. requests' = requests /\ activeTu' = Null /\ erange' \in BOOLEAN
    BY <1>3 DEF Complete, Answer, clientVars, ActiveAfterReset, BoundsInv
  <2> QED
    BY <2>1 DEF BoundsInv
<1>4. CASE SetUnsaved(c) \/ ResetUnsaved(c)
  <2>1. requests' = requests /\ results' = Nothing /\ erange' = erange
    BY <1>4 DEF SetUnsaved, ResetUnsaved, Answer, clientVars
  <2> QED
    BY <2>1 DEF BoundsInv
<1>5. CASE Diagnostics(c) \/ GetType(c) \/ Candidates(c, strings) \/ Options(c) \/ Exit(c)
  <2>1. requests' = requests /\ UNCHANGED serverVars
    BY <1>5 DEF Diagnostics, GetType, Candidates, Options, Exit, Answer, clientVars
  <2> QED
    BY <2>1 DEF BoundsInv, serverVars, ironyVars
<1>6. CASE LookUp(c)
  BY <1>6 DEF LookUp, fileVars, clientVars, serverVars, ironyVars, BoundsInv
<1> QED
  BY <1>1, <1>2, <1>3, <1>4, <1>5, <1>6 DEF Execute

LEMMA NextBounds == BoundsInv /\ [Next]_vars => BoundsInv'
<1> SUFFICES ASSUME BoundsInv, [Next]_vars PROVE BoundsInv'
  OBVIOUS
<1>1. CASE AskAny \/ AskAnyOptions
  <2>1. requests < MaxRequests /\ requests' = requests + 1 /\ UNCHANGED serverVars
    BY <1>1 DEF AskAny, AskAnyOptions, Ask, AskOptions, MayAsk
  <2>2. requests' \in 0..MaxRequests
    BY <2>1, ServerAssumption DEF BoundsInv
  <2> QED
    BY <2>1, <2>2 DEF BoundsInv, serverVars, ironyVars
<1>2. CASE Send \/ Receive
  BY <1>2 DEF Send, Receive, serverVars, ironyVars, BoundsInv
<1>3. CASE ServerStep(String)
  BY <1>3, ServerStepBounds
<1>4. CASE NewProcess
  BY <1>4 DEF NewProcess, BoundsInv
<1>5. CASE Tools \/ UNCHANGED vars
  BY <1>5 DEF Tools, vars, fileVars, clientVars, serverVars, ironyVars, BoundsInv
<1> QED
  BY <1>1, <1>2, <1>3, <1>4, <1>5 DEF Next

\* The variables of the server and its client have their types; the results of
\* a completion and an active unit are never there together.
THEOREM ServerTypes == Spec => []TypeOK
<1>1. RequestInv /\ UnitsInv /\ BoundsInv /\ CdbTypeOK => TypeOK
  <2> SUFFICES ASSUME RequestInv, UnitsInv, BoundsInv, CdbTypeOK PROVE TypeOK
    OBVIOUS
  <2>1. MapInto(told, Text) /\ MapInto(content, Text)
    BY DEF RequestInv, TextsInv
  <2>2. DOMAIN units = DOMAIN flagsFor /\ DOMAIN heap \subseteq Handle
    BY DEF UnitsInv, MapsInv
  <2>3. MapInto(units, Handle \cup {Null})
    BY DEF UnitsInv, MapsInv, MapInto
  <2>4. activeTu \in Handle \cup {Null}
    BY <2>3 DEF UnitsInv, MapInto
  <2> QED
    BY <2>1, <2>2, <2>3, <2>4 DEF TypeOK, BoundsInv
<1>2. Spec => []BoundsInv
  BY InitBounds, NextBounds, PTL DEF Spec
<1>3. CdbInv => CdbTypeOK
  BY DEF CdbInv
<1> QED
  BY <1>1, <1>2, <1>3, RequestsHold, UsesCache, CacheAccounts, PTL

-----------------------------------------------------------------------------
(***************************************************************************)
(* Texts of a completion: bytes and characters.                            *)
(***************************************************************************)

Wides(text) == {i \in 1..Len(text) : text[i] \in Wide}

\* How far a text is longer in bytes than in characters
Excess(text) == Cardinality(Wides(text))

\* A text has no wide character exactly when it is as long as its bytes are many.
LEMMA ExcessType ==
    ASSUME NEW S, NEW text \in Seq(S)
    PROVE  /\ Excess(text) \in Nat /\ IsFiniteSet(Wides(text))
           /\ Excess(text) = 0 <=> OneByteEach(text)
           /\ Bytes(text) = Len(text) + Excess(text)
           /\ Len(text) \in Nat
<1>1. Len(text) \in Nat
  BY LenProperties
<1>2. IsFiniteSet(1..Len(text)) /\ Wides(text) \in SUBSET (1..Len(text))
  BY <1>1, FS_Interval DEF Wides
<1>3. IsFiniteSet(Wides(text))
  BY <1>2, FS_Subset
<1>4. Wides(text) = {} <=> OneByteEach(text)
  BY DEF Wides, OneByteEach
<1>5. Bytes(text) = Len(text) + Excess(text)
  BY DEF Bytes, Excess, Wides
<1> QED
  BY <1>1, <1>3, <1>4, <1>5, FS_CardinalityType, FS_EmptySet DEF Excess

\* The wide characters of two texts add up.
LEMMA ExcessConcat ==
    ASSUME NEW S, NEW s \in Seq(S), NEW t \in Seq(S)
    PROVE  Excess(s \o t) = Excess(s) + Excess(t)
<1>1. /\ Len(s) \in Nat /\ Len(t) \in Nat
      /\ Len(s \o t) = Len(s) + Len(t)
      /\ \A i \in 1..(Len(s) + Len(t)) :
            (s \o t)[i] = IF i <= Len(s) THEN s[i] ELSE t[i - Len(s)]
  BY LenProperties, ConcatProperties
<1> DEFINE M == {i + Len(s) : i \in Wides(t)}
<1>2. Wides(s \o t) = Wides(s) \cup M
  <2>1. ASSUME NEW i \in Wides(s \o t) PROVE i \in Wides(s) \cup M
    <3>1. i \in 1..(Len(s) + Len(t)) /\ (s \o t)[i] \in Wide
      BY <1>1 DEF Wides
    <3>2. CASE i <= Len(s)
      BY <3>1, <3>2, <1>1 DEF Wides
    <3>3. CASE i > Len(s)
      <4>1. i - Len(s) \in 1..Len(t) /\ t[i - Len(s)] \in Wide /\ i = (i - Len(s)) + Len(s)
        BY <3>1, <3>3, <1>1
      <4>2. i - Len(s) \in Wides(t)
        BY <4>1 DEF Wides
      <4> QED
        BY <4>1, <4>2
    <3> QED
      BY <3>1, <3>2, <3>3, <1>1
  <2>2. ASSUME NEW i \in Wides(s) PROVE i \in Wides(s \o t)
    BY <1>1 DEF Wides
  <2>3. ASSUME NEW i \in Wides(t) PROVE i + Len(s) \in Wides(s \o t)
    <3>1. i \in 1..Len(t) /\ t[i] \in Wide
      BY DEF Wides
    <3>2. i + Len(s) \in 1..(Len(s) + Len(t)) /\ ~(i + Len(s) <= Len(s)) /\ (i + Len(s)) - Len(s) = i
      BY <3>1, <1>1
    <3>3. (s \o t)[i + Len(s)] = t[i]
      BY <3>2, <1>1
    <3> QED
      BY <3>1, <3>2, <3>3, <1>1 DEF Wides
  <2> QED
    BY <2>1, <2>2, <2>3
<1>3. Wides(s) \cap M = {}
  BY <1>1 DEF Wides
<1>4. IsFiniteSet(Wides(s)) /\ IsFiniteSet(Wides(t))
  BY ExcessType
<1>5. IsFiniteSet(M) /\ Cardinality(M) = Cardinality(Wides(t))
  <2> DEFINE b == [i \in Wides(t) |-> i + Len(s)]
  <2>1. b \in Bijection(Wides(t), M)
    <3>1. b \in [Wides(t) -> M] /\ \A m \in M : \E i \in Wides(t) : b[i] = m
      OBVIOUS
    <3>2. \A i, j \in Wides(t) : b[i] = b[j] => i = j
      BY <1>1 DEF Wides
    <3> QED
      BY <3>1, <3>2, Fun_IsBij
  <2>2. ExistsBijection(Wides(t), M)
    BY <2>1 DEF ExistsBijection
  <2> QED
    BY <2>2, <1>4, FS_Bijection
<1> HIDE DEF M
<1>6. Cardinality(Wides(s) \cup M) = Cardinality(Wides(s)) + Cardinality(M) - Cardinality({})
  BY <1>3, <1>4, <1>5, FS_Union
<1>7. Cardinality(Wides(s)) \in Nat /\ Cardinality(M) \in Nat /\ Cardinality({}) = 0
  BY <1>4, <1>5, FS_CardinalityType, FS_EmptySet
<1> QED
  BY <1>2, <1>5, <1>6, <1>7 DEF Excess

-----------------------------------------------------------------------------
(***************************************************************************)
(* Texts joined one by one.                                                *)
(***************************************************************************)

\* f[i] is the first i of the sequences seqs, joined.
Joins(f, seqs) ==
    /\ f[0] = <<>>
    /\ \A i \in 1..Len(seqs) : f[i] = f[i - 1] \o seqs[i]

Joined(seqs) == CHOOSE f : Joins(f, seqs)

\* The function that joins sequences one after the other exists.
LEMMA JoinExists ==
    ASSUME NEW s, NEW n \in Nat
    PROVE  \E f : f = [i \in 1..n |-> IF i = 1 THEN s[i] ELSE f[i - 1] \o s[i]]
<1> DEFINE T == {k \in Nat : \E f : \A i \in 1..k :
                    f[i] = IF i = 1 THEN s[i] ELSE f[i - 1] \o s[i]}
<1>1. 0 \in T
  OBVIOUS
<1>2. ASSUME NEW k \in Nat, k \in T PROVE k + 1 \in T
  <2>1. PICK f : \A i \in 1..k : f[i] = IF i = 1 THEN s[i] ELSE f[i - 1] \o s[i]
    BY <1>2
  <2> DEFINE g == [i \in 1..(k + 1) |->
                      IF i <= k THEN f[i] ELSE IF i = 1 THEN s[i] ELSE f[i - 1] \o s[i]]
  <2>2. ASSUME NEW i \in 1..(k + 1) PROVE g[i] = IF i = 1 THEN s[i] ELSE g[i - 1] \o s[i]
    <3>1. i # 1 => i - 1 \in 1..(k + 1) /\ i - 1 <= k /\ g[i - 1] = f[i - 1]
      OBVIOUS
    <3>2. g[i] = IF i = 1 THEN s[i] ELSE f[i - 1] \o s[i]
      BY <2>1
    <3> QED
      BY <3>1, <3>2
  <2> HIDE DEF g
  <2>3. \E h : \A i \in 1..(k + 1) : h[i] = IF i = 1 THEN s[i] ELSE h[i - 1] \o s[i]
    BY <2>2
  <2>4. k + 1 \in Nat
    OBVIOUS
  <2> QED
    BY <2>3, <2>4, Zenon DEF T
<1> HIDE DEF T
<1>3. n \in T
  BY <1>1, <1>2, Induct
<1>4. PICK f : \A i \in 1..n : f[i] = IF i = 1 THEN s[i] ELSE f[i - 1] \o s[i]
  BY <1>3 DEF T
<1> DEFINE g == [i \in 1..n |-> f[i]]
<1>5. \A i \in 1..n : g[i] = IF i = 1 THEN s[i] ELSE g[i - 1] \o s[i]
  <2> SUFFICES ASSUME NEW i \in 1..n PROVE g[i] = IF i = 1 THEN s[i] ELSE g[i - 1] \o s[i]
    OBVIOUS
  <2>1. i # 1 => i - 1 \in 1..n
    OBVIOUS
  <2> QED
    BY <2>1, <1>4
<1>6. g = [i \in 1..n |-> g[i]]
  OBVIOUS
<1> HIDE DEF g
<1>7. g = [i \in 1..n |-> IF i = 1 THEN s[i] ELSE g[i - 1] \o s[i]]
  BY <1>5, <1>6
<1> QED
  BY <1>7

\* FlattenSeq of the community modules joins all of them.
LEMMA JoinedIs ==
    ASSUME NEW S, NEW seqs \in Seq(Seq(S))
    PROVE  /\ Joins(Joined(seqs), seqs)
           /\ \A i \in 0..Len(seqs) : Joined(seqs)[i] \in Seq(S)
           /\ FlattenSeq(seqs) = Joined(seqs)[Len(seqs)]
<1> DEFINE n == Len(seqs)
           g == CHOOSE f : f = [i \in 1..n |-> IF i = 1 THEN seqs[i] ELSE f[i - 1] \o seqs[i]]
           f0 == [i \in 0..n |-> IF i = 0 THEN <<>> ELSE g[i]]
<1>1. n \in Nat /\ \A i \in 1..n : seqs[i] \in Seq(S)
  BY LenProperties, ElementOfSeq
<1>2. g = [i \in 1..n |-> IF i = 1 THEN seqs[i] ELSE g[i - 1] \o seqs[i]]
  BY <1>1, JoinExists, Zenon
<1>3. FlattenSeq(seqs) = IF n = 0 THEN seqs ELSE g[n]
  BY DEF FlattenSeq
<1> HIDE DEF g, n
<1>4. \A i \in 1..n : g[i] = IF i = 1 THEN seqs[i] ELSE g[i - 1] \o seqs[i]
  BY <1>2
<1>5. Joins(f0, seqs)
  <2>1. f0[0] = <<>>
    BY <1>1
  <2>2. ASSUME NEW i \in 1..n PROVE f0[i] = f0[i - 1] \o seqs[i]
    <3>1. CASE i = 1
      <4>1. f0[i] = seqs[i] /\ f0[i - 1] = <<>>
        BY <3>1, <1>1, <1>4
      <4> QED
        BY <4>1, <1>1, ConcatEmptySeq
    <3>2. CASE i # 1
      <4>1. i - 1 \in 0..n /\ i - 1 # 0 /\ i \in 0..n /\ i # 0
        BY <3>2, <1>1
      <4>2. f0[i] = g[i] /\ f0[i - 1] = g[i - 1]
        BY <4>1
      <4> QED
        BY <3>2, <4>2, <1>4
    <3> QED
      BY <3>1, <3>2
  <2> QED
    BY <2>1, <2>2 DEF Joins, n
<1>6. Joins(Joined(seqs), seqs)
  BY <1>5, Zenon DEF Joined
<1> DEFINE J == Joined(seqs)
<1> HIDE DEF f0, J
<1>7. J[0] = <<>> /\ \A i \in 1..n : J[i] = J[i - 1] \o seqs[i]
  BY <1>6 DEF J, Joins, n
<1> DEFINE T == {i \in Nat : i <= n => J[i] \in Seq(S) /\ J[i] = f0[i]}
<1>8. 0 \in T
  BY <1>7, <1>5, EmptySeq DEF Joins
<1>9. ASSUME NEW i \in Nat, i \in T PROVE i + 1 \in T
  <2> SUFFICES ASSUME i + 1 <= n PROVE J[i + 1] \in Seq(S) /\ J[i + 1] = f0[i + 1]
    OBVIOUS
  <2>1. i <= n /\ i + 1 \in 1..n /\ (i + 1) - 1 = i
    BY <1>1
  <2>2. J[i] \in Seq(S) /\ J[i] = f0[i]
    BY <1>9, <2>1
  <2>3. J[i + 1] = J[i] \o seqs[i + 1] /\ f0[i + 1] = f0[i] \o seqs[i + 1]
    BY <2>1, <1>5, <1>7 DEF Joins, n
  <2>4. J[i] \o seqs[i + 1] \in Seq(S)
    BY <2>1, <2>2, <1>1, ConcatProperties
  <2> QED
    BY <2>2, <2>3, <2>4
<1> HIDE DEF T
<1>10. Nat \subseteq T
  BY <1>8, <1>9, Induct
<1>11. \A i \in 0..n : J[i] \in Seq(S) /\ J[i] = f0[i]
  BY <1>10, <1>1 DEF T
<1>12. FlattenSeq(seqs) = f0[n]
  <2>1. CASE n = 0
    <3>1. seqs = <<>>
      BY <2>1, EmptySeq DEF n
    <3> QED
      BY <2>1, <3>1, <1>3 DEF f0
  <2>2. CASE n # 0
    BY <2>2, <1>1, <1>3 DEF f0
  <2> QED
    BY <2>1, <2>2
<1> QED
  BY <1>1, <1>6, <1>11, <1>12 DEF J, n

\* f[i] is f[0] with the first i of the sequences s joined to it.
Steps(f, s, n) == \A i \in 1..n : f[i] = f[i - 1] \o s[i]
Same(f, g, a, n) == \A i \in a..n : f[i] = g[i]

\* Two ways of joining agree as long as what they join does.
LEMMA SameJoin ==
    ASSUME NEW n \in Nat, NEW f, NEW g, NEW s, NEW t,
           f[0] = g[0], Steps(f, s, n), Steps(g, t, n), Same(s, t, 1, n)
    PROVE  Same(f, g, 0, n)
<1>0. \A i \in 1..n : f[i] = f[i - 1] \o s[i] /\ g[i] = g[i - 1] \o t[i] /\ s[i] = t[i]
  BY Zenon DEF Steps, Same
<1> DEFINE T == {i \in Nat : i <= n => f[i] = g[i]}
<1>1. 0 \in T
  OBVIOUS
<1>2. ASSUME NEW i \in Nat, i \in T PROVE i + 1 \in T
  <2> SUFFICES ASSUME i + 1 <= n PROVE f[i + 1] = g[i + 1]
    OBVIOUS
  <2>1. i <= n /\ i + 1 \in 1..n /\ (i + 1) - 1 = i
    OBVIOUS
  <2>2. f[i] = g[i]
    BY <1>2, <2>1
  <2> QED
    BY <2>1, <2>2, <1>0
<1> HIDE DEF T
<1>3. Nat \subseteq T
  BY <1>1, <1>2, Induct
<1> QED
  BY <1>3 DEF T, Same

Associate(s, t, u) == (s \o t) \o u = s \o (t \o u)

\* Joining three sequences does not depend on which two come first.
LEMMA Associative == \A S : \A s, t, u \in Seq(S) : Associate(s, t, u)
BY ConcatAssociative DEF Associate

Follows(w, s, t, S) == t \in Seq(S) /\ w = s \o t

AllSeqs(t, S, n) == \A i \in 1..n : t[i] \in Seq(S)

\* What is joined to a text is joined to its end.
LEMMA JoinFrom ==
    ASSUME NEW S, NEW n \in Nat, NEW h, NEW g, NEW t,
           h[0] \in Seq(S), g[0] = <<>>,
           AllSeqs(t, S, n), Steps(g, t, n), Steps(h, t, n)
    PROVE  Follows(h[n], h[0], g[n], S)
<1> DEFINE P(i) == g[i] \in Seq(S) /\ h[i] = h[0] \o g[i]
           T == {i \in Nat : i <= n => P(i)}
<1>0. \A a, b, c \in Seq(S) : (a \o b) \o c = a \o (b \o c)
  BY ConcatAssociative
<1>1. P(0)
  BY ConcatEmptySeq, EmptySeq
<1>2. ASSUME NEW i \in Nat, i + 1 <= n, P(i) PROVE P(i + 1)
  <2>1. i + 1 \in 1..n /\ (i + 1) - 1 = i
    BY <1>2
  <2>2. t[i + 1] \in Seq(S) /\ g[i + 1] = g[i] \o t[i + 1] /\ h[i + 1] = h[i] \o t[i + 1]
    BY <2>1, Zenon DEF AllSeqs, Steps
  <2>3. (h[0] \o g[i]) \o t[i + 1] = h[0] \o (g[i] \o t[i + 1])
    BY <1>2, <2>2, <1>0
  <2>4. g[i] \o t[i + 1] \in Seq(S)
    BY <1>2, <2>2, ConcatProperties
  <2> QED
    BY ONLY <1>2, <2>2, <2>3, <2>4
<1> HIDE DEF P
<1>3. 0 \in T
  BY <1>1
<1>4. \A i \in Nat : i \in T => i + 1 \in T
  BY <1>2
<1> HIDE DEF T
<1>5. Nat \subseteq T
  BY <1>3, <1>4, Induct
<1>6. P(n)
  BY <1>5 DEF T
<1> QED
  BY <1>6, Zenon DEF P, Follows

-----------------------------------------------------------------------------
(***************************************************************************)
(* A template: a text that is cut at marks, with a field at each pair.     *)
(***************************************************************************)

\* The marks of a template
Opens == "${"
Colon == ":"
Closes == "}"
Ends == "$0"

Token == Character \cup Nat \cup {Opens, Colon, Closes, Ends}

\* What the client writes between characters can be told from them.
LEMMA MarkTypes ==
    /\ Opens \in Token /\ Colon \in Token /\ Closes \in Token /\ Ends \in Token
    /\ Character \subseteq Token /\ Nat \subseteq Token
    /\ Opens # Closes /\ Ends # Closes
    /\ Opens \notin Character /\ Ends \notin Character /\ "args-out-of-range" \notin Character
<1>1. Opens # Closes /\ Ends # Closes
  BY Zenon DEF Opens, Closes, Ends
<1>2. Opens \notin Character /\ Ends \notin Character /\ "args-out-of-range" \notin Character
  BY CharacterAssumption, Zenon DEF Opens, Ends
<1>3. /\ Opens \in Token /\ Colon \in Token /\ Closes \in Token /\ Ends \in Token
      /\ Character \subseteq Token /\ Nat \subseteq Token
  BY Zenon DEF Token
<1> QED
  BY <1>1, <1>2, <1>3, Zenon

\* A field of a template in its three parts
LEMMA FieldIs ==
    ASSUME NEW k, NEW text
    PROVE  Field(k, text) = (<<Opens, k, Colon>> \o text) \o <<Closes>>
BY Zenon DEF Field, Opens, Colon, Closes

From(m, k) == IF k = 0 THEN 0 ELSE m[2 * k]

\* n pairs of marks, in their order, in a text of length l
Cuts(m, n, l) ==
    \A k \in 1..n :
        /\ From(m, k - 1) \in Nat /\ m[2 * k - 1] \in Nat /\ m[2 * k] \in Nat
        /\ From(m, k - 1) <= m[2 * k - 1] /\ m[2 * k - 1] <= m[2 * k] /\ m[2 * k] <= l

\* A text from a to b behind what there is, and the one from b to c as a field
With(f, str, a, b, c, k) == f \o SubSeq(str, a + 1, b) \o Field(k, SubSeq(str, b + 1, c))

\* f[k] is the template up to the end of its k-th field.
Templates(f, str, m, n) ==
    /\ f[0] = <<>>
    /\ \A k \in 1..n :
          f[k] = With(f[k - 1], str, From(m, k - 1), m[2 * k - 1], m[2 * k], k)

\* Two sequences, one behind the other
IsConcat(w, s, t) ==
    /\ Len(w) = Len(s) + Len(t)
    /\ Len(s) \in Nat /\ Len(t) \in Nat
    /\ \A i \in 1..Len(s) : w[i] = s[i]
    /\ \A i \in 1..Len(t) : w[Len(s) + i] = t[i]

\* Where the elements of two sequences are in the joined one
LEMMA ConcatAt ==
    ASSUME NEW S
    PROVE  \A s, t \in Seq(S) : s \o t \in Seq(S) /\ IsConcat(s \o t, s, t)
<1> TAKE s, t \in Seq(S)
<1>1. Len(s) \in Nat /\ Len(t) \in Nat
  BY LenProperties
<1>2. /\ s \o t \in Seq(S)
      /\ Len(s \o t) = Len(s) + Len(t)
      /\ \A i \in 1..(Len(s) + Len(t)) :
            (s \o t)[i] = IF i <= Len(s) THEN s[i] ELSE t[i - Len(s)]
  BY ConcatProperties
<1>3. \A i \in 1..Len(s) : i \in 1..(Len(s) + Len(t)) /\ i <= Len(s)
  BY <1>1
<1>4. \A i \in 1..Len(t) : /\ Len(s) + i \in 1..(Len(s) + Len(t)) /\ ~(Len(s) + i <= Len(s))
                           /\ (Len(s) + i) - Len(s) = i
  BY <1>1
<1> QED
  BY <1>1, <1>2, <1>3, <1>4 DEF IsConcat

\* The same for templates
LEMMA TokenConcat ==
    /\ \A s, t \in Seq(Token) : s \o t \in Seq(Token) /\ IsConcat(s \o t, s, t)
    /\ \A s, t, u \in Seq(Token) : Associate(s, t, u)
BY ConcatAt, Associative

\* What a field puts where
LEMMA FieldAt ==
    ASSUME NEW k \in Nat, NEW text \in Seq(Token)
    PROVE  /\ Field(k, text) \in Seq(Token) /\ Len(Field(k, text)) = Len(text) + 4
           /\ Field(k, text)[1] = Opens
           /\ \A i \in 1..Len(text) : Field(k, text)[i + 3] = text[i]
           /\ Field(k, text)[Len(text) + 4] = Closes
           /\ Len(text) \in Nat
<1>0. \A s, t \in Seq(Token) : s \o t \in Seq(Token) /\ IsConcat(s \o t, s, t)
  BY ConcatAt, Zenon
<1>1. Len(text) \in Nat
  BY LenProperties
<1>2. Opens \in Token /\ Colon \in Token /\ Closes \in Token /\ k \in Token
  BY MarkTypes, Zenon
<1>3. PICK open : open = <<Opens, k, Colon>>
  OBVIOUS
<1>4. PICK close : close = <<Closes>>
  OBVIOUS
<1>5. open \in Seq(Token) /\ Len(open) = 3 /\ open[1] = Opens
  BY <1>2, <1>3
<1>6. close \in Seq(Token) /\ Len(close) = 1 /\ close[1] = Closes
  BY <1>2, <1>4
<1>7. PICK o : o = open \o text
  OBVIOUS
<1>15. /\ o \in Seq(Token) /\ Len(o) = Len(open) + Len(text)
       /\ \A i \in 1..Len(open) : o[i] = open[i]
       /\ \A i \in 1..Len(text) : o[Len(open) + i] = text[i]
  BY <1>0, <1>5, <1>7, Zenon DEF IsConcat
<1>8. /\ o \in Seq(Token) /\ Len(o) = 3 + Len(text) /\ o[1] = Opens
      /\ \A i \in 1..Len(text) : o[3 + i] = text[i]
  BY ONLY <1>15, <1>5
<1>9. PICK g : g = o \o close
  OBVIOUS
<1>16. /\ g \in Seq(Token) /\ Len(g) = Len(o) + Len(close)
       /\ \A i \in 1..Len(o) : g[i] = o[i]
       /\ \A i \in 1..Len(close) : g[Len(o) + i] = close[i]
  BY <1>0, <1>6, <1>8, <1>9, Zenon DEF IsConcat
<1>10. /\ g \in Seq(Token) /\ Len(g) = (3 + Len(text)) + 1 /\ g[(3 + Len(text)) + 1] = Closes
       /\ \A i \in 1..(3 + Len(text)) : g[i] = o[i]
  BY ONLY <1>1, <1>6, <1>8, <1>16
<1>11. g[1] = Opens
  BY <1>1, <1>8, <1>10
<1>12. ASSUME NEW i \in 1..Len(text) PROVE g[i + 3] = text[i]
  <2>1. i + 3 = 3 + i /\ 3 + i \in 1..(3 + Len(text))
    BY <1>1
  <2> QED
    BY <2>1, <1>8, <1>10
<1>13. (3 + Len(text)) + 1 = Len(text) + 4
  BY <1>1
<1>14. Field(k, text) = g
  BY <1>3, <1>4, <1>7, <1>9, FieldIs
<1> QED
  BY <1>1, <1>10, <1>11, <1>12, <1>13, <1>14

\* A piece of a text
LEMMA Piece ==
    ASSUME NEW S, NEW str \in Seq(S), NEW a \in Nat, NEW b \in Nat, a <= b, b <= Len(str)
    PROVE  /\ SubSeq(str, a + 1, b) \in Seq(S) /\ Len(SubSeq(str, a + 1, b)) = b - a
           /\ \A i \in 1..(b - a) : SubSeq(str, a + 1, b)[i] = str[a + i]
<1>1. Len(str) \in Nat /\ \A i \in 1..Len(str) : str[i] \in S
  BY LenProperties, ElementOfSeq
<1>2. a + 1 \in Int /\ b \in Int /\ \A i \in (a + 1)..b : str[i] \in S
  BY <1>1
<1>3. /\ SubSeq(str, a + 1, b) \in Seq(S)
      /\ Len(SubSeq(str, a + 1, b)) = IF a + 1 <= b THEN b - (a + 1) + 1 ELSE 0
      /\ \A i \in 1..(b - (a + 1) + 1) : SubSeq(str, a + 1, b)[i] = str[a + 1 + i - 1]
  BY <1>2, SubSeqProperties
<1>4. b - (a + 1) + 1 = b - a /\ (a + 1 <= b \/ b - a = 0) /\ \A i \in Int : a + 1 + i - 1 = a + i
  OBVIOUS
<1> QED
  BY <1>3, <1>4

\* Where a text and a field are in a template, d places behind where they are in the text
StepAt(g, str, a, b, c, d) ==
    /\ \A i \in (a + 1)..b : g[i + d] = str[i]
    /\ g[b + d + 1] = Opens
    /\ \A i \in (b + 1)..c : g[i + d + 3] = str[i]
    /\ g[c + d + 4] = Closes

IsStep(g, f, str, a, b, c, d) ==
    /\ g \in Seq(Token) /\ Len(g) = c + d + 4
    /\ \A i \in 1..Len(f) : g[i] = f[i]
    /\ StepAt(g, str, a, b, c, d)

\* What one more field, with the text in front of it, adds to a template
LEMMA TemplateStep ==
    ASSUME NEW str \in Seq(Token), NEW a \in Nat, NEW b \in Nat, NEW c \in Nat,
           a <= b, b <= c, c <= Len(str),
           NEW f \in Seq(Token), NEW d \in Nat, Len(f) = a + d, NEW k \in Nat
    PROVE  IsStep(With(f, str, a, b, c, k), f, str, a, b, c, d)
<1> PICK g : g = With(f, str, a, b, c, k)
  OBVIOUS
<1>0. \A s, t \in Seq(Token) : s \o t \in Seq(Token) /\ IsConcat(s \o t, s, t)
  BY ConcatAt, Zenon
<1>1. Len(str) \in Nat /\ b <= Len(str)
  BY LenProperties
<1>2. PICK s : s = SubSeq(str, a + 1, b)
  OBVIOUS
<1>3. PICK t : t = SubSeq(str, b + 1, c)
  OBVIOUS
<1>4. s \in Seq(Token) /\ Len(s) = b - a /\ \A i \in 1..(b - a) : s[i] = str[a + i]
  BY <1>1, <1>2, Piece
<1>5. t \in Seq(Token) /\ Len(t) = c - b /\ \A i \in 1..(c - b) : t[i] = str[b + i]
  BY <1>1, <1>3, Piece
<1>6. PICK fld : fld = Field(k, t)
  OBVIOUS
<1>7. /\ fld \in Seq(Token) /\ Len(fld) = Len(t) + 4 /\ fld[1] = Opens
      /\ \A i \in 1..Len(t) : fld[i + 3] = t[i]
      /\ fld[Len(t) + 4] = Closes
  BY <1>5, <1>6, FieldAt
<1>8. PICK h : h = f \o s
  OBVIOUS
<1>9. /\ h \in Seq(Token) /\ Len(h) = Len(f) + Len(s)
      /\ \A i \in 1..Len(f) : h[i] = f[i]
      /\ \A i \in 1..Len(s) : h[Len(f) + i] = s[i]
  BY <1>0, <1>4, <1>8, Zenon DEF IsConcat
<1>10. Len(h) = b + d
  BY <1>4, <1>9
<1>11. g = h \o fld
  BY <1>2, <1>3, <1>6, <1>8, Zenon DEF With
<1>12. /\ g \in Seq(Token) /\ Len(g) = Len(h) + Len(fld)
       /\ \A i \in 1..Len(h) : g[i] = h[i]
       /\ \A i \in 1..Len(fld) : g[Len(h) + i] = fld[i]
  BY ONLY <1>0, <1>7, <1>9, <1>11, Zenon DEF IsConcat
<1>13. Len(fld) = c - b + 4 /\ Len(g) = c + d + 4
  <2>1. /\ Len(t) = c - b /\ Len(fld) = Len(t) + 4
        /\ Len(h) = b + d /\ Len(g) = Len(h) + Len(fld)
    BY <1>5, <1>7, <1>10, <1>12
  <2>2. b \in Nat /\ c \in Nat /\ d \in Nat
    OBVIOUS
  <2> QED
    BY ONLY <2>1, <2>2
<1>14. ASSUME NEW i \in 1..Len(f) PROVE g[i] = f[i]
  <2>1. i \in 1..Len(h)
    BY <1>10
  <2> QED
    BY <2>1, <1>9, <1>12
<1>15. ASSUME NEW i \in (a + 1)..b PROVE g[i + d] = str[i]
  <2>1. i - a \in 1..(b - a) /\ a + (i - a) = i /\ i + d = (a + d) + (i - a) /\ i + d \in 1..(b + d)
    OBVIOUS
  <2>2. s[i - a] = str[i] /\ h[i + d] = s[i - a]
    BY <2>1, <1>4, <1>9
  <2> QED
    BY <2>1, <2>2, <1>10, <1>12
<1>16. g[b + d + 1] = Opens
  <2>1. 1 \in 1..Len(fld)
    BY <1>13
  <2> QED
    BY <2>1, <1>7, <1>10, <1>12
<1>17. ASSUME NEW i \in (b + 1)..c PROVE g[i + d + 3] = str[i]
  <2>1. i - b \in 1..(c - b) /\ b + (i - b) = i /\ i + d + 3 = (b + d) + ((i - b) + 3)
        /\ (i - b) + 3 \in 1..(c - b + 4)
    OBVIOUS
  <2>2. t[i - b] = str[i] /\ fld[(i - b) + 3] = t[i - b]
    BY <2>1, <1>5, <1>7
  <2> QED
    BY <2>1, <2>2, <1>10, <1>12, <1>13
<1>18. g[c + d + 4] = Closes
  <2>1. c + d + 4 = (b + d) + (c - b + 4) /\ c - b + 4 \in 1..(c - b + 4)
    OBVIOUS
  <2> QED
    BY <2>1, <1>5, <1>7, <1>10, <1>12, <1>13
<1> QED
  <2>1. IsStep(g, f, str, a, b, c, d)
    BY ONLY <1>12, <1>13, <1>14, <1>15, <1>16, <1>17, <1>18 DEF StepAt, IsStep
  <2> QED
    BY <2>1

\* A field stays where it is when something is put behind it.
LEMMA StepStays ==
    ASSUME NEW str, NEW a \in Nat, NEW b \in Nat, NEW c \in Nat, a <= b, b <= c,
           NEW d \in Nat, NEW f, NEW n \in Nat, c + d + 4 <= n, StepAt(f, str, a, b, c, d),
           NEW g, \A i \in 1..n : g[i] = f[i]
    PROVE  StepAt(g, str, a, b, c, d)
<1>1. ASSUME NEW i \in (a + 1)..b PROVE g[i + d] = str[i]
  <2>1. i + d \in 1..n
    OBVIOUS
  <2> QED
    BY <2>1 DEF StepAt
<1>2. g[b + d + 1] = Opens
  <2>1. b + d + 1 \in 1..n
    OBVIOUS
  <2> QED
    BY <2>1 DEF StepAt
<1>3. ASSUME NEW i \in (b + 1)..c PROVE g[i + d + 3] = str[i]
  <2>1. i + d + 3 \in 1..n
    OBVIOUS
  <2> QED
    BY <2>1 DEF StepAt
<1>4. g[c + d + 4] = Closes
  <2>1. c + d + 4 \in 1..n
    OBVIOUS
  <2> QED
    BY <2>1 DEF StepAt
<1> QED
  BY ONLY <1>1, <1>2, <1>3, <1>4 DEF StepAt

\* g has the first k fields where they belong.
Fields(g, str, m, k) ==
    \A j \in 1..k : StepAt(g, str, From(m, j - 1), m[2 * j - 1], m[2 * j], 4 * (j - 1))

Partial(g, str, m, k) ==
    /\ g \in Seq(Token) /\ Len(g) = From(m, k) + 4 * k
    /\ From(m, k) \in Nat /\ From(m, k) <= Len(str)
    /\ Fields(g, str, m, k)

\* So do all fields of a template.
LEMMA FieldsStay ==
    ASSUME NEW str \in Seq(Token), NEW n \in Nat, NEW m, Cuts(m, n, Len(str)),
           NEW k \in Nat, k <= n, NEW f, Fields(f, str, m, k),
           \A j \in 1..k : m[2 * j] <= From(m, k),
           NEW g, \A i \in 1..(From(m, k) + 4 * k) : g[i] = f[i], From(m, k) \in Nat
    PROVE  Fields(g, str, m, k)
<1>1. ASSUME NEW j \in 1..k
      PROVE  StepAt(g, str, From(m, j - 1), m[2 * j - 1], m[2 * j], 4 * (j - 1))
  <2>1. j \in 1..n
    OBVIOUS
  <2>2. /\ From(m, j - 1) \in Nat /\ m[2 * j - 1] \in Nat /\ m[2 * j] \in Nat
        /\ From(m, j - 1) <= m[2 * j - 1] /\ m[2 * j - 1] <= m[2 * j]
    BY <2>1, Zenon DEF Cuts
  <2>3. StepAt(f, str, From(m, j - 1), m[2 * j - 1], m[2 * j], 4 * (j - 1))
    BY Zenon DEF Fields
  <2>4. m[2 * j] <= From(m, k)
    OBVIOUS
  <2>5. PICK a \in Nat, b \in Nat, c \in Nat : a = From(m, j - 1) /\ b = m[2 * j - 1] /\ c = m[2 * j]
    BY <2>2, Zenon
  <2>6. PICK l \in Nat : l = From(m, k)
    OBVIOUS
  <2>7. 4 * (j - 1) \in Nat /\ c + 4 * (j - 1) + 4 <= l + 4 * k /\ l + 4 * k \in Nat
    BY ONLY <2>4, <2>5, <2>6, k \in Nat, j \in 1..k
  <2>8. a <= b /\ b <= c /\ StepAt(f, str, a, b, c, 4 * (j - 1))
    BY <2>2, <2>3, <2>5
  <2>9. \A i \in 1..(l + 4 * k) : g[i] = f[i]
    BY <2>6
  <2>10. StepAt(g, str, a, b, c, 4 * (j - 1))
    BY ONLY <2>7, <2>8, <2>9, StepStays, a \in Nat, b \in Nat, c \in Nat
  <2> QED
    BY <2>5, <2>10
<1> QED
  BY <1>1 DEF Fields

\* The marks are in their order, and so are any two of them.
LEMMA CutsOrdered ==
    ASSUME NEW n \in Nat, NEW m, NEW l \in Nat, Cuts(m, n, l)
    PROVE  \A k \in 0..n : /\ From(m, k) \in Nat /\ From(m, k) <= l
                           /\ \A j \in 1..k : m[2 * j] <= From(m, k)
<1> DEFINE P(k) == /\ From(m, k) \in Nat /\ From(m, k) <= l
                   /\ \A j \in 1..k : m[2 * j] <= From(m, k)
           T == {k \in Nat : k <= n => P(k)}
<1>1. P(0)
  BY DEF From
<1>2. ASSUME NEW k \in Nat, k + 1 <= n, P(k) PROVE P(k + 1)
  <2>1. PICK h \in 1..n : h = k + 1
    BY <1>2
  <2>2. /\ m[2 * h] \in Nat /\ From(m, h - 1) <= m[2 * h - 1] /\ m[2 * h - 1] <= m[2 * h]
        /\ m[2 * h - 1] \in Nat /\ m[2 * h] <= l
    BY Zenon DEF Cuts
  <2>3. h - 1 = k /\ h # 0
    BY ONLY <2>1, k \in Nat
  <2>4. From(m, h) = m[2 * h]
    BY <2>3, Zenon DEF From
  <2>5. From(m, k) <= From(m, h)
    BY ONLY <2>2, <2>3, <2>4, <1>2
  <2>6. ASSUME NEW j \in 1..h PROVE m[2 * j] <= From(m, h)
    <3>1. CASE j = h
      BY <3>1, <2>2, <2>4
    <3>2. CASE j # h
      <4>1. j \in 1..k
        BY ONLY <3>2, <2>3, j \in 1..h, h \in 1..n, n \in Nat, k \in Nat
      <4>2. m[2 * j] <= From(m, k)
        BY <4>1, <1>2
      <4>3. m[2 * j] \in Nat
        <5>1. j \in 1..n
          BY ONLY j \in 1..h, h \in 1..n, n \in Nat
        <5> QED
          BY <5>1, Zenon DEF Cuts
      <4> QED
        BY ONLY <4>2, <4>3, <2>5, <2>4, <2>2, <1>2
    <3> QED
      BY <3>1, <3>2
  <2>7. From(m, h) \in Nat /\ From(m, h) <= l
    BY <2>2, <2>4
  <2> QED
    BY <2>1, <2>6, <2>7
<1> HIDE DEF P
<1>3. 0 \in T
  BY <1>1
<1>4. \A k \in Nat : k \in T => k + 1 \in T
  BY <1>2
<1> HIDE DEF T
<1>5. Nat \subseteq T
  BY <1>3, <1>4, Induct
<1>6. \A k \in 0..n : P(k)
  BY <1>5 DEF T
<1> QED
  BY <1>6 DEF P

\* What a template is up to the end of its k-th field
LEMMA TemplatePartial ==
    ASSUME NEW str \in Seq(Token), NEW n \in Nat, NEW m, Cuts(m, n, Len(str)),
           NEW f, Templates(f, str, m, n)
    PROVE  \A k \in 0..n : Partial(f[k], str, m, k)
<1> DEFINE T == {k \in Nat : k <= n => Partial(f[k], str, m, k)}
<1>0. Len(str) \in Nat
  BY LenProperties
<1>1. Partial(f[0], str, m, 0)
  BY <1>0, EmptySeq DEF Templates, From, Partial, Fields
<1>2. ASSUME NEW k \in Nat, k + 1 <= n, Partial(f[k], str, m, k) PROVE Partial(f[k + 1], str, m, k + 1)
  <2>1. PICK h \in 1..n : h = k + 1
    BY <1>2
  <2>2. h - 1 = k /\ h # 0 /\ h \in Nat
    BY ONLY <2>1, k \in Nat, n \in Nat
  <2>3. /\ From(m, k) \in Nat /\ m[2 * h - 1] \in Nat /\ m[2 * h] \in Nat
        /\ From(m, k) <= m[2 * h - 1] /\ m[2 * h - 1] <= m[2 * h] /\ m[2 * h] <= Len(str)
    BY <2>2, Zenon DEF Cuts
  <2>4. PICK a \in Nat, b \in Nat, c \in Nat : a = From(m, k) /\ b = m[2 * h - 1] /\ c = m[2 * h]
    BY <2>3, Zenon
  <2>5. f[h] = With(f[k], str, a, b, c, h)
    BY <2>2, <2>4, Zenon DEF Templates
  <2>6. PICK d \in Nat : d = 4 * k
    OBVIOUS
  <2>7. PICK g \in Seq(Token) : g = f[k]
    BY <1>2, Zenon DEF Partial
  <2>8. Len(g) = a + d /\ a <= b /\ b <= c /\ c <= Len(str)
    BY <1>2, <2>3, <2>4, <2>6, <2>7 DEF Partial
  <2>9. PICK x : x = f[h]
    OBVIOUS
  <2>10. /\ x \in Seq(Token) /\ Len(x) = c + d + 4
         /\ \A i \in 1..Len(g) : x[i] = g[i]
         /\ StepAt(x, str, a, b, c, d)
    <3>1. x = With(g, str, a, b, c, h)
      BY <2>5, <2>7, <2>9, Zenon
    <3>2. h \in Nat
      BY <2>2
    <3>3. IsStep(With(g, str, a, b, c, h), g, str, a, b, c, d)
      BY ONLY <3>2, <2>8, TemplateStep, str \in Seq(Token), a \in Nat, b \in Nat, c \in Nat,
              d \in Nat, g \in Seq(Token)
    <3> QED
      BY ONLY <3>1, <3>3, Zenon DEF IsStep
  <2>11. From(m, h) = c
    BY <2>2, <2>4, Zenon DEF From
  <2>12. Fields(x, str, m, k)
    <3>1. \A j \in 1..k : m[2 * j] <= From(m, k)
      <4>1. k \in 0..n
        BY <2>2
      <4> QED
        BY <1>0, <4>1, CutsOrdered
    <3>2. \A i \in 1..(From(m, k) + 4 * k) : x[i] = f[k][i]
      BY <2>4, <2>6, <2>7, <2>8, <2>10
    <3>3. Fields(f[k], str, m, k) /\ k <= n
      BY <1>2, <2>2 DEF Partial
    <3> QED
      BY <3>1, <3>2, <3>3, <2>3, FieldsStay
  <2>13. Fields(x, str, m, h)
    <3> SUFFICES ASSUME NEW j \in 1..h
                 PROVE  StepAt(x, str, From(m, j - 1), m[2 * j - 1], m[2 * j], 4 * (j - 1))
      BY Zenon DEF Fields
    <3>1. CASE j = h
      BY <3>1, <2>2, <2>4, <2>6, <2>10
    <3>2. CASE j # h
      <4>1. j \in 1..k
        BY ONLY <3>2, <2>2, j \in 1..h, k \in Nat
      <4> QED
        BY <4>1, <2>12, Zenon DEF Fields
    <3> QED
      BY <3>1, <3>2
  <2>14. Len(x) = From(m, h) + 4 * h
    BY ONLY <2>1, <2>6, <2>10, <2>11, c \in Nat, k \in Nat
  <2>15. Partial(x, str, m, h)
    BY <2>8, <2>10, <2>11, <2>13, <2>14 DEF Partial
  <2> QED
    BY <2>1, <2>9, <2>15
<1>3. 0 \in T
  BY <1>1
<1>4. \A k \in Nat : k \in T => k + 1 \in T
  BY <1>2
<1> HIDE DEF T
<1>5. Nat \subseteq T
  BY <1>3, <1>4, Induct
<1> QED
  BY <1>5 DEF T

-----------------------------------------------------------------------------
\* A whole template: its fields, the rest of the text and the end
Whole(f, str, m, n) == f[n] \o SubSeq(str, From(m, n) + 1, Len(str)) \o <<Ends>>

IsWhole(g, str, m, n) ==
    /\ g \in Seq(Token) /\ Len(g) = Len(str) + 4 * n + 1
    /\ Fields(g, str, m, n)
    /\ \A i \in (From(m, n) + 1)..Len(str) : g[i + 4 * n] = str[i]

\* A template of ordered cuts has every character of the text at a known place.
LEMMA WholeIs ==
    ASSUME NEW str \in Seq(Token), NEW n \in Nat, NEW m, Cuts(m, n, Len(str)),
           NEW f, Templates(f, str, m, n)
    PROVE  IsWhole(Whole(f, str, m, n), str, m, n)
<1>1. Len(str) \in Nat
  BY LenProperties
<1>2. Partial(f[n], str, m, n)
  BY TemplatePartial
<1>3. PICK a \in Nat : a = From(m, n)
  BY <1>2, Zenon DEF Partial
<1>4. PICK g \in Seq(Token) : g = f[n]
  BY <1>2, Zenon DEF Partial
<1>5. Len(g) = a + 4 * n /\ a <= Len(str) /\ Fields(g, str, m, n)
  BY <1>2, <1>3, <1>4, Zenon DEF Partial
<1>6. PICK s : s = SubSeq(str, a + 1, Len(str))
  OBVIOUS
<1>7. s \in Seq(Token) /\ Len(s) = Len(str) - a /\ \A i \in 1..(Len(str) - a) : s[i] = str[a + i]
  <2>1. /\ SubSeq(str, a + 1, Len(str)) \in Seq(Token)
        /\ Len(SubSeq(str, a + 1, Len(str))) = Len(str) - a
        /\ \A i \in 1..(Len(str) - a) : SubSeq(str, a + 1, Len(str))[i] = str[a + i]
    BY <1>1, <1>5, Piece
  <2> QED
    BY <2>1, <1>6, Zenon
<1>8. PICK h : h = g \o s
  OBVIOUS
<1>9. /\ h \in Seq(Token) /\ Len(h) = Len(g) + Len(s)
      /\ \A i \in 1..Len(g) : h[i] = g[i]
      /\ \A i \in 1..Len(s) : h[Len(g) + i] = s[i]
  <2>1. g \o s \in Seq(Token) /\ IsConcat(g \o s, g, s)
    BY <1>7, TokenConcat, Zenon
  <2> QED
    BY <2>1, <1>8, Zenon DEF IsConcat
<1>10. PICK x : x = <<Ends>>
  OBVIOUS
<1>11. x \in Seq(Token) /\ Len(x) = 1
  BY <1>10, MarkTypes
<1>12. PICK w : w = h \o x
  OBVIOUS
<1>13. /\ w \in Seq(Token) /\ Len(w) = Len(h) + Len(x)
       /\ \A i \in 1..Len(h) : w[i] = h[i]
  BY <1>9, <1>11, <1>12, TokenConcat, Zenon DEF IsConcat
<1>14. Len(w) = Len(str) + 4 * n + 1 /\ Len(h) = Len(str) + 4 * n
  BY ONLY <1>1, <1>5, <1>7, <1>9, <1>11, <1>13, a \in Nat, n \in Nat
<1>15. \A i \in 1..(a + 4 * n) : w[i] = g[i]
  BY ONLY <1>1, <1>5, <1>9, <1>13, <1>14, a \in Nat, n \in Nat
<1>16. Fields(w, str, m, n)
  <2>1. \A j \in 1..n : m[2 * j] <= From(m, n)
    BY <1>1, CutsOrdered
  <2>2. \A i \in 1..(From(m, n) + 4 * n) : w[i] = g[i]
    BY <1>3, <1>15
  <2>3. n <= n /\ From(m, n) \in Nat
    BY <1>3
  <2> QED
    BY <1>5, <2>1, <2>2, <2>3, FieldsStay
<1>17. ASSUME NEW i \in (a + 1)..Len(str) PROVE w[i + 4 * n] = str[i]
  <2>1. i - a \in 1..(Len(str) - a) /\ a + (i - a) = i /\ (a + 4 * n) + (i - a) = i + 4 * n
        /\ i + 4 * n \in 1..(Len(str) + 4 * n)
    BY ONLY <1>1, <1>5, a \in Nat, n \in Nat, i \in (a + 1)..Len(str)
  <2>2. s[i - a] = str[i]
    BY ONLY <2>1, <1>7
  <2>3. h[i + 4 * n] = s[i - a]
    BY ONLY <2>1, <1>5, <1>7, <1>9
  <2>4. w[i + 4 * n] = h[i + 4 * n]
    BY ONLY <2>1, <1>13, <1>14
  <2> QED
    BY ONLY <2>2, <2>3, <2>4
<1>18. Whole(f, str, m, n) = w
  BY <1>3, <1>4, <1>6, <1>8, <1>10, <1>12, Zenon DEF Whole
<1>19. IsWhole(w, str, m, n)
  BY <1>3, <1>13, <1>14, <1>16, <1>17 DEF IsWhole
<1> QED
  BY <1>18, <1>19

\* Later marks are not less late.
Behind(m, p, n) ==
    /\ \A k \in 1..n : p[2 * k - 1] <= m[2 * k - 1]
    /\ \A k \in 1..n : m[2 * k - 1] - p[2 * k - 1] <= m[2 * k] - p[2 * k]
    /\ \A k \in 1..n : k < n => m[2 * k] - p[2 * k] <= m[2 * k + 1] - p[2 * k + 1]

\* One mark of a field that is too late, the earlier ones being right, shows.
LEMMA MarkShows ==
    ASSUME NEW str \in Seq(Character), NEW n \in Nat, NEW m, NEW p,
           Cuts(m, n, Len(str)), Cuts(p, n, Len(str)), NEW g,
           Fields(g, str, m, n), Fields(g, str, p, n),
           NEW k \in 1..n, p[2 * k - 1] < m[2 * k - 1],
           \A j \in 1..n : j < k => p[2 * j - 1] = m[2 * j - 1]
    PROVE  FALSE
<1>1. Len(str) \in Nat /\ \A i \in 1..Len(str) : str[i] \in Character
  BY LenProperties, ElementOfSeq
<1>2. /\ From(m, k - 1) \in Nat /\ m[2 * k - 1] \in Nat /\ m[2 * k] \in Nat
      /\ m[2 * k - 1] <= m[2 * k] /\ m[2 * k] <= Len(str)
  BY Zenon DEF Cuts
<1>3. From(p, k - 1) \in Nat /\ p[2 * k - 1] \in Nat /\ From(p, k - 1) <= p[2 * k - 1]
  BY Zenon DEF Cuts
<1>4. StepAt(g, str, From(m, k - 1), m[2 * k - 1], m[2 * k], 4 * (k - 1))
  BY Zenon DEF Fields
<1>5. StepAt(g, str, From(p, k - 1), p[2 * k - 1], p[2 * k], 4 * (k - 1))
  BY Zenon DEF Fields
<1>6. PICK q \in Nat, e \in Nat : q = p[2 * k - 1] /\ e = m[2 * k - 1]
  BY <1>2, <1>3, Zenon
<1>7. q < e /\ e <= Len(str)
  BY ONLY <1>1, <1>2, <1>6, p[2 * k - 1] < m[2 * k - 1]
<1>8. g[q + 4 * (k - 1) + 1] = Opens
  BY <1>5, <1>6, Zenon DEF StepAt
<1>9. CASE From(m, k - 1) <= q
  <2>1. q + 1 \in (From(m, k - 1) + 1)..e /\ q + 1 \in 1..Len(str)
        /\ (q + 1) + 4 * (k - 1) = q + 4 * (k - 1) + 1
    BY ONLY <1>1, <1>2, <1>7, <1>9, q \in Nat, e \in Nat, k \in 1..n, n \in Nat
  <2>2. \A i \in (From(m, k - 1) + 1)..e : g[i + 4 * (k - 1)] = str[i]
    BY <1>4, <1>6, Zenon DEF StepAt
  <2>3. g[(q + 1) + 4 * (k - 1)] = str[q + 1]
    BY <2>1, <2>2, Zenon
  <2>4. str[q + 1] \in Character
    BY <1>1, <2>1, Zenon
  <2> QED
    BY <1>8, <2>1, <2>3, <2>4, MarkTypes
<1>10. CASE q < From(m, k - 1)
  <2>1. k # 1
    BY <1>10 DEF From
  <2>2. PICK j \in 1..n : j = k - 1
    BY <2>1
  <2>3. j < k /\ j # 0 /\ j - 1 = k - 2
    BY ONLY <2>2, n \in Nat, k \in 1..n
  <2>4. p[2 * j - 1] = m[2 * j - 1] /\ From(m, j) = m[2 * j] /\ From(p, j) = p[2 * j]
    BY <2>3 DEF From
  <2>5. /\ m[2 * j - 1] \in Nat /\ m[2 * j] \in Nat
        /\ m[2 * j - 1] <= m[2 * j] /\ m[2 * j] <= Len(str)
    BY Zenon DEF Cuts
  <2>6. p[2 * j - 1] \in Nat /\ p[2 * j] \in Nat /\ p[2 * j - 1] <= p[2 * j]
    BY Zenon DEF Cuts
  <2>7. StepAt(g, str, From(m, j - 1), m[2 * j - 1], m[2 * j], 4 * (j - 1))
    BY Zenon DEF Fields
  <2>8. PICK b \in Nat, c \in Nat : b = m[2 * j - 1] /\ c = m[2 * j]
    BY <2>5, Zenon
  <2>9. b <= q /\ q < c /\ c <= Len(str)
    BY ONLY <1>3, <1>6, <1>10, <2>2, <2>4, <2>5, <2>6, <2>8
  <2>10. 4 * (k - 1) = 4 * (j - 1) + 4 /\ 4 * (j - 1) \in Nat
    BY ONLY <2>2, n \in Nat, k \in 1..n, j \in 1..n
  <2>11. PICK d \in Nat : d = 4 * (j - 1)
    BY <2>10
  <2>12. g[q + (d + 4) + 1] = Opens
    BY ONLY <1>8, <2>10, <2>11
  <2>13. (\A i \in (b + 1)..c : g[i + d + 3] = str[i]) /\ g[c + d + 4] = Closes
    BY <2>7, <2>8, <2>11, Zenon DEF StepAt
  <2>14. CASE q + 1 = c
    <3>1. q + (d + 4) + 1 = c + d + 4
      BY ONLY <2>14, q \in Nat, c \in Nat, d \in Nat
    <3> QED
      BY <3>1, <2>12, <2>13, MarkTypes
  <2>15. CASE q + 1 # c
    <3>1. q + 2 \in (b + 1)..c /\ q + 2 \in 1..Len(str) /\ q + (d + 4) + 1 = (q + 2) + d + 3
      BY ONLY <1>1, <2>9, <2>15, q \in Nat, b \in Nat, c \in Nat, d \in Nat
    <3>2. g[(q + 2) + d + 3] = str[q + 2]
      BY <3>1, <2>13, Zenon
    <3>3. str[q + 2] \in Character
      BY <3>1, <1>1, Zenon
    <3> QED
      BY <3>1, <3>2, <3>3, <2>12, MarkTypes
  <2> QED
    BY <2>14, <2>15
<1> QED
  BY <1>2, <1>9, <1>10

\* Marks that are too late leave the template as it is only if the last one is
\* Fields start where they are meant to; the last one may end behind braces.
Shows(str, m, p, n) ==
    /\ \A k \in 1..n : p[2 * k - 1] = m[2 * k - 1]
    /\ n > 0 => \A i \in (p[2 * n] + 1)..m[2 * n] : str[i] = Closes

\* the only one, and moves a brace over braces.
LEMMA SameOnlyIf ==
    ASSUME NEW str \in Seq(Character), NEW n \in Nat, NEW m, NEW p,
           Cuts(m, n, Len(str)), Cuts(p, n, Len(str)), Behind(m, p, n), NEW g,
           IsWhole(g, str, m, n), IsWhole(g, str, p, n)
    PROVE  Shows(str, m, p, n)
<1>1. Fields(g, str, m, n) /\ Fields(g, str, p, n)
  BY Zenon DEF IsWhole
<1>2. \A k \in 1..n : p[2 * k - 1] = m[2 * k - 1]
  <2> DEFINE L == {k \in 1..n : p[2 * k - 1] # m[2 * k - 1]}
  <2> SUFFICES ASSUME L # {} PROVE FALSE
    OBVIOUS
  <2>1. L \subseteq Nat
    OBVIOUS
  <2>2. PICK k \in L : \A j \in L : k <= j
    BY <2>1, Least, Zenon
  <2>3. k \in 1..n /\ p[2 * k - 1] # m[2 * k - 1]
    OBVIOUS
  <2>4. \A j \in 1..n : j < k => p[2 * j - 1] = m[2 * j - 1]
    <3> SUFFICES ASSUME NEW j \in 1..n, j < k, p[2 * j - 1] # m[2 * j - 1] PROVE FALSE
      BY Zenon
    <3>1. k <= j
      BY <2>2, Zenon
    <3> QED
      BY ONLY <3>1, <2>3, j \in 1..n, j < k, n \in Nat
  <2> HIDE DEF L
  <2>5. p[2 * k - 1] \in Nat /\ m[2 * k - 1] \in Nat
    BY <2>3, Zenon DEF Cuts
  <2>6. p[2 * k - 1] <= m[2 * k - 1]
    BY <2>3, Zenon DEF Behind
  <2>7. p[2 * k - 1] < m[2 * k - 1]
    BY ONLY <2>3, <2>5, <2>6
  <2> QED
    BY ONLY <1>1, <2>3, <2>4, <2>7, MarkShows, str \in Seq(Character), n \in Nat,
            Cuts(m, n, Len(str)), Cuts(p, n, Len(str))
<1>3. ASSUME n > 0, NEW i \in (p[2 * n] + 1)..m[2 * n] PROVE str[i] = Closes
  <2>1. n \in 1..n
    BY <1>3
  <2>2. /\ m[2 * n - 1] \in Nat /\ m[2 * n] \in Nat
        /\ m[2 * n - 1] <= m[2 * n] /\ m[2 * n] <= Len(str)
    BY <2>1, Zenon DEF Cuts
  <2>3. p[2 * n - 1] \in Nat /\ p[2 * n] \in Nat /\ p[2 * n - 1] <= p[2 * n]
    BY <2>1, Zenon DEF Cuts
  <2>4. PICK b \in Nat, c \in Nat, q \in Nat : b = m[2 * n - 1] /\ c = m[2 * n] /\ q = p[2 * n]
    BY <2>2, <2>3, Zenon
  <2>5. b <= q /\ c <= Len(str)
    BY <1>2, <2>1, <2>2, <2>3, <2>4
  <2>6. StepAt(g, str, From(m, n - 1), m[2 * n - 1], m[2 * n], 4 * (n - 1))
    BY <1>1, <2>1, Zenon DEF Fields
  <2>7. StepAt(g, str, From(p, n - 1), p[2 * n - 1], p[2 * n], 4 * (n - 1))
    BY <1>1, <2>1, Zenon DEF Fields
  <2>8. 4 * n = 4 * (n - 1) + 4 /\ 4 * (n - 1) \in Nat
    BY <1>3
  <2>9. PICK d \in Nat : d = 4 * (n - 1)
    BY <2>8
  <2>10. \A j \in (b + 1)..c : g[j + d + 3] = str[j]
    BY <2>4, <2>6, <2>9, Zenon DEF StepAt
  <2>11. g[q + d + 4] = Closes
    BY <2>4, <2>7, <2>9, Zenon DEF StepAt
  <2>12. \A j \in (q + 1)..Len(str) : g[j + (d + 4)] = str[j]
    <3>1. \A j \in (From(p, n) + 1)..Len(str) : g[j + 4 * n] = str[j]
      BY Zenon DEF IsWhole
    <3>2. From(p, n) = q
      BY <1>3, <2>4 DEF From
    <3> QED
      BY <3>1, <3>2, <2>8, <2>9
  <2> DEFINE T == {t \in Nat : q + 1 + t <= c => str[q + 1 + t] = Closes}
  <2>13. 0 \in T
    <3> SUFFICES ASSUME q + 1 <= c PROVE str[q + 1] = Closes
      OBVIOUS
    <3>1. q + 1 \in (b + 1)..c /\ (q + 1) + d + 3 = q + d + 4
      BY ONLY <2>5, q + 1 <= c, b \in Nat, c \in Nat, q \in Nat, d \in Nat
    <3> QED
      BY <3>1, <2>10, <2>11
  <2>14. ASSUME NEW t \in Nat, t \in T PROVE t + 1 \in T
    <3> SUFFICES ASSUME q + 1 + (t + 1) <= c PROVE str[q + 1 + (t + 1)] = Closes
      OBVIOUS
    <3>1. /\ q + 1 + (t + 1) \in (b + 1)..c /\ (q + 1 + (t + 1)) + d + 3 = (q + 1 + t) + (d + 4)
          /\ q + 1 + t \in (q + 1)..Len(str) /\ q + 1 + t <= c
      <4>1. Len(str) \in Nat
        BY LenProperties
      <4> QED
        BY ONLY <4>1, <2>5, q + 1 + (t + 1) <= c, b \in Nat, c \in Nat, q \in Nat, d \in Nat, t \in Nat
    <3>2. str[q + 1 + t] = Closes
      BY <2>14, <3>1
    <3>3. g[(q + 1 + t) + (d + 4)] = str[q + 1 + t]
      BY <2>12, <3>1, Zenon
    <3>4. g[(q + 1 + (t + 1)) + d + 3] = str[q + 1 + (t + 1)]
      BY <2>10, <3>1, Zenon
    <3> QED
      BY ONLY <3>1, <3>2, <3>3, <3>4
  <2>15. Nat \subseteq T
    <3> HIDE DEF T
    <3> QED
      BY <2>13, <2>14, Induct
  <2>16. PICK t \in Nat : i = q + 1 + t /\ q + 1 + t <= c
    <3>1. i - (q + 1) \in Nat /\ i = q + 1 + (i - (q + 1)) /\ i <= c
      BY <2>4
    <3> QED
      BY <3>1
  <2> QED
    BY <2>15, <2>16
<1>99. /\ \A k \in 1..n : p[2 * k - 1] = m[2 * k - 1]
       /\ n > 0 => \A i \in (p[2 * n] + 1)..m[2 * n] : str[i] = Closes
  BY <1>2, <1>3
<1> QED
  BY <1>99, Zenon DEF Shows

\* A piece in two pieces
LEMMA PieceSplit ==
    ASSUME NEW S, NEW str \in Seq(S), NEW a \in Nat, NEW b \in Nat, NEW c \in Nat,
           a <= b, b <= c, c <= Len(str)
    PROVE  SubSeq(str, a + 1, c) = SubSeq(str, a + 1, b) \o SubSeq(str, b + 1, c)
<1>0. Len(str) \in Nat /\ a <= c /\ b <= Len(str)
  BY LenProperties
<1>1. PICK s : s = SubSeq(str, a + 1, b)
  OBVIOUS
<1>2. PICK t : t = SubSeq(str, b + 1, c)
  OBVIOUS
<1>3. PICK w : w = SubSeq(str, a + 1, c)
  OBVIOUS
<1>4. s \in Seq(S) /\ Len(s) = b - a /\ \A i \in 1..(b - a) : s[i] = str[a + i]
  BY <1>0, <1>1, Piece
<1>5. t \in Seq(S) /\ Len(t) = c - b /\ \A i \in 1..(c - b) : t[i] = str[b + i]
  BY <1>0, <1>2, Piece
<1>6. w \in Seq(S) /\ Len(w) = c - a /\ \A i \in 1..(c - a) : w[i] = str[a + i]
  BY <1>0, <1>3, Piece
<1>7. /\ s \o t \in Seq(S) /\ Len(s \o t) = Len(s) + Len(t)
      /\ \A i \in 1..Len(s) : (s \o t)[i] = s[i]
      /\ \A i \in 1..Len(t) : (s \o t)[Len(s) + i] = t[i]
  <2>1. \A y, z \in Seq(S) : y \o z \in Seq(S) /\ IsConcat(y \o z, y, z)
    BY ConcatAt
  <2>2. s \o t \in Seq(S) /\ IsConcat(s \o t, s, t)
    BY <1>4, <1>5, <2>1, Zenon
  <2> QED
    BY <2>2, Zenon DEF IsConcat
<1>8. Len(s \o t) = Len(w)
  BY ONLY <1>4, <1>5, <1>6, <1>7, a \in Nat, b \in Nat, c \in Nat
<1>9. ASSUME NEW i \in 1..Len(w) PROVE w[i] = (s \o t)[i]
  <2>1. i \in 1..(c - a)
    BY <1>6
  <2>2. CASE i <= b - a
    <3>1. i \in 1..(b - a)
      BY ONLY <2>1, <2>2, a \in Nat, b \in Nat, c \in Nat
    <3> QED
      BY <2>1, <3>1, <1>4, <1>6, <1>7
  <2>3. CASE i > b - a
    <3>1. PICK j \in 1..(c - b) : i = (b - a) + j /\ a + i = b + j
      <4>1. i - (b - a) \in 1..(c - b) /\ i = (b - a) + (i - (b - a)) /\ a + i = b + (i - (b - a))
        BY ONLY <2>1, <2>3, a \in Nat, b \in Nat, c \in Nat
      <4> QED
        BY <4>1
    <3>2. (s \o t)[(b - a) + j] = t[j] /\ t[j] = str[b + j]
      BY ONLY <1>4, <1>5, <1>7, j \in 1..(c - b)
    <3>3. w[i] = str[a + i]
      BY <2>1, <1>6
    <3> QED
      BY ONLY <3>1, <3>2, <3>3
  <2> QED
    <3>1. i <= b - a \/ i > b - a
      BY ONLY <2>1, a \in Nat, b \in Nat, c \in Nat
    <3> QED
      BY <3>1, <2>2, <2>3, Zenon
<1>10. w = s \o t
  BY ONLY <1>6, <1>7, <1>8, <1>9, SeqEqual
<1> QED
  BY <1>1, <1>2, <1>3, <1>10

\* A brace moved over braces
LEMMA MoveBrace ==
    ASSUME NEW S, NEW e \in S, NEW s \in Seq(S), \A i \in 1..Len(s) : s[i] = e
    PROVE  s \o <<e>> = <<e>> \o s
<1>1. PICK x : x = <<e>>
  OBVIOUS
<1>2. x \in Seq(S) /\ Len(x) = 1 /\ x[1] = e
  BY <1>1
<1>3. /\ s \o x \in Seq(S) /\ Len(s \o x) = Len(s) + Len(x)
      /\ \A i \in 1..Len(s) : (s \o x)[i] = s[i]
      /\ \A i \in 1..Len(x) : (s \o x)[Len(s) + i] = x[i]
      /\ Len(s) \in Nat
  <2>1. \A y, z \in Seq(S) : y \o z \in Seq(S) /\ IsConcat(y \o z, y, z)
    BY ConcatAt
  <2>2. s \o x \in Seq(S) /\ IsConcat(s \o x, s, x)
    BY <1>2, <2>1, Zenon
  <2> QED
    BY <2>2, Zenon DEF IsConcat
<1>4. /\ x \o s \in Seq(S) /\ Len(x \o s) = Len(x) + Len(s)
      /\ \A i \in 1..Len(x) : (x \o s)[i] = x[i]
      /\ \A i \in 1..Len(s) : (x \o s)[Len(x) + i] = s[i]
  <2>1. \A y, z \in Seq(S) : y \o z \in Seq(S) /\ IsConcat(y \o z, y, z)
    BY ConcatAt
  <2>2. x \o s \in Seq(S) /\ IsConcat(x \o s, x, s)
    BY <1>2, <2>1, Zenon
  <2> QED
    BY <2>2, Zenon DEF IsConcat
<1>5. ASSUME NEW i \in 1..(Len(s) + 1) PROVE (s \o x)[i] = e /\ (x \o s)[i] = e
  <2>1. (s \o x)[i] = e
    <3>1. CASE i \in 1..Len(s)
      BY <3>1, <1>3
    <3>2. CASE i = Len(s) + 1
      BY <3>2, <1>2, <1>3
    <3>3. i \in 1..Len(s) \/ i = Len(s) + 1
      BY ONLY <1>3, i \in 1..(Len(s) + 1)
    <3> QED
      BY <3>1, <3>2, <3>3, Zenon
  <2>2. (x \o s)[i] = e
    <3>1. CASE i = 1
      BY <3>1, <1>2, <1>4
    <3>2. CASE i # 1
      <4>1. i - 1 \in 1..Len(s) /\ 1 + (i - 1) = i
        BY <3>2, <1>3
      <4>2. (x \o s)[1 + (i - 1)] = s[i - 1] /\ s[i - 1] = e
        BY ONLY <4>1, <1>2, <1>4, \A j \in 1..Len(s) : s[j] = e
      <4> QED
        BY ONLY <4>1, <4>2
    <3> QED
      BY <3>1, <3>2
  <2> QED
    BY <2>1, <2>2
<1>6. Len(s \o x) = Len(s) + 1 /\ Len(x \o s) = Len(s) + 1
  BY ONLY <1>2, <1>3, <1>4
<1>7. s \o x = x \o s
  BY ONLY <1>3, <1>4, <1>5, <1>6, SeqEqual
<1> QED
  BY <1>1, <1>7

MovedOver(x, o, s, w, r, u) ==
    (x \o ((o \o (s \o w)) \o r)) \o u = (x \o ((o \o s) \o r)) \o (w \o u)

\* An end that is put behind characters which are such ends moves nothing.
LEMMA MoveOver ==
    ASSUME NEW x \in Seq(Token), NEW o \in Seq(Token), NEW s \in Seq(Token),
           NEW w \in Seq(Token), NEW r \in Seq(Token), NEW u \in Seq(Token), w \o r = r \o w
    PROVE  MovedOver(x, o, s, w, r, u)
<1>1. PICK t \in Seq(Token) : t = o \o s
  BY TokenConcat, Zenon
<1>2. PICK v \in Seq(Token) : v = t \o r
  BY TokenConcat, Zenon
<1>3. PICK z \in Seq(Token) : z = x \o v
  BY TokenConcat, Zenon
<1>4. Associate(o, s, w)
  BY TokenConcat, Zenon
<1>5. Associate(t, w, r)
  BY TokenConcat, Zenon
<1>6. Associate(t, r, w)
  BY TokenConcat, Zenon
<1>7. Associate(x, v, w)
  BY TokenConcat, Zenon
<1>8. Associate(z, w, u)
  BY TokenConcat, Zenon
<1>9. (o \o (s \o w)) \o r = v \o w
  <2>1. (o \o (s \o w)) \o r = (t \o w) \o r
    BY ONLY <1>1, <1>4, Zenon DEF Associate
  <2>2. (t \o w) \o r = t \o (r \o w)
    BY <1>5, Zenon DEF Associate
  <2> QED
    BY ONLY <2>1, <2>2, <1>2, <1>6, Zenon DEF Associate
<1>10. (x \o (v \o w)) \o u = (z \o w) \o u
  BY ONLY <1>3, <1>7, Zenon DEF Associate
<1>11. (z \o w) \o u = z \o (w \o u)
  BY ONLY <1>8, Zenon DEF Associate
<1>12. z = x \o ((o \o s) \o r)
  BY ONLY <1>1, <1>2, <1>3, Zenon
<1> QED
  BY ONLY <1>9, <1>10, <1>11, <1>12, Zenon DEF MovedOver

\* Templates of the same marks are the same.
LEMMA SameTemplates ==
    ASSUME NEW str, NEW n \in Nat, NEW m, NEW p, NEW f, NEW g,
           Templates(f, str, m, n), Templates(g, str, p, n), NEW l \in 0..n,
           \A k \in 1..l : p[2 * k - 1] = m[2 * k - 1] /\ p[2 * k] = m[2 * k]
    PROVE  f[l] = g[l]
<1> DEFINE T == {k \in Nat : k <= l => f[k] = g[k]}
<1>1. 0 \in T
  BY DEF Templates
<1>2. ASSUME NEW k \in Nat, k \in T PROVE k + 1 \in T
  <2> SUFFICES ASSUME k + 1 <= l PROVE f[k + 1] = g[k + 1]
    OBVIOUS
  <2>1. PICK h \in 1..n : h = k + 1
    BY ONLY k + 1 <= l, l \in 0..n, k \in Nat, n \in Nat
  <2>2. h - 1 = k /\ h \in 1..l /\ k <= l
    BY ONLY <2>1, k + 1 <= l, k \in Nat, l \in 0..n, n \in Nat
  <2>3. f[k] = g[k]
    BY <1>2, <2>2
  <2>4. f[h] = With(f[k], str, From(m, k), m[2 * h - 1], m[2 * h], h)
    BY <2>2, Zenon DEF Templates
  <2>5. g[h] = With(g[k], str, From(p, k), p[2 * h - 1], p[2 * h], h)
    BY <2>2, Zenon DEF Templates
  <2>6. p[2 * h - 1] = m[2 * h - 1] /\ p[2 * h] = m[2 * h]
    BY <2>2, Zenon
  <2>7. From(m, k) = From(p, k)
    <3>1. CASE k = 0
      BY <3>1 DEF From
    <3>2. CASE k # 0
      <4>1. k \in 1..l
        BY ONLY <3>2, <2>2, k \in Nat, l \in 0..n, n \in Nat
      <4> QED
        BY <3>2, <4>1, Zenon DEF From
    <3> QED
      BY <3>1, <3>2
  <2>8. f[h] = g[h]
    BY ONLY <2>3, <2>4, <2>5, <2>6, <2>7, Zenon
  <2> QED
    BY <2>1, <2>8
<1>3. Nat \subseteq T
  <2> HIDE DEF T
  <2> QED
    BY <1>1, <1>2, Induct
<1> QED
  BY <1>3

\* Cuts that differ in the last end only, by closing braces, give one template.
LEMMA SameIf ==
    ASSUME NEW str \in Seq(Token), NEW n \in Nat \ {0}, NEW m, NEW p,
           Cuts(m, n, Len(str)), Cuts(p, n, Len(str)),
           NEW f, NEW g, Templates(f, str, m, n), Templates(g, str, p, n),
           \A k \in 1..n : p[2 * k - 1] = m[2 * k - 1],
           \A k \in 1..n : k < n => p[2 * k] = m[2 * k],
           p[2 * n] <= m[2 * n],
           \A i \in (p[2 * n] + 1)..m[2 * n] : str[i] = Closes
    PROVE  Whole(f, str, m, n) = Whole(g, str, p, n)
<1>0. Len(str) \in Nat
  BY LenProperties
<1>1. PICK l \in 0..n : l = n - 1
  OBVIOUS
<1>2. l + 1 = n /\ n \in 1..n /\ n # 0 /\ n \in Nat
  BY <1>1
<1>3. f[l] = g[l]
  <2>1. \A k \in 1..l : p[2 * k - 1] = m[2 * k - 1] /\ p[2 * k] = m[2 * k]
    <3> TAKE k \in 1..l
    <3>1. k \in 1..n /\ k < n
      BY <1>2
    <3> QED
      BY <3>1, Zenon
  <2> QED
    BY ONLY <2>1, <1>2, Templates(f, str, m, n), Templates(g, str, p, n), l \in 0..n, SameTemplates
<1>4. /\ From(m, n - 1) \in Nat /\ m[2 * n - 1] \in Nat /\ m[2 * n] \in Nat
      /\ From(m, n - 1) <= m[2 * n - 1] /\ m[2 * n - 1] <= m[2 * n] /\ m[2 * n] <= Len(str)
  BY <1>2, Zenon DEF Cuts
<1>5. p[2 * n - 1] \in Nat /\ p[2 * n] \in Nat /\ p[2 * n - 1] <= p[2 * n]
  BY <1>2, Zenon DEF Cuts
<1>6. p[2 * n - 1] = m[2 * n - 1] /\ From(p, n - 1) = From(m, n - 1)
  <2>1. CASE n - 1 = 0
    BY <2>1, <1>2, Zenon DEF From
  <2>2. CASE n - 1 # 0
    <3>1. n - 1 \in 1..n /\ n - 1 < n
      BY <2>2
    <3> QED
      BY <2>2, <3>1, <1>2, Zenon DEF From
  <2> QED
    BY <2>1, <2>2
<1>7. PICK a \in Nat, b \in Nat, q \in Nat, c \in Nat :
         a = From(m, n - 1) /\ b = m[2 * n - 1] /\ q = p[2 * n] /\ c = m[2 * n]
  BY <1>4, <1>5, Zenon
<1>8. a <= b /\ b <= q /\ q <= c /\ c <= Len(str) /\ b <= c /\ q <= Len(str)
  BY <1>0, <1>4, <1>5, <1>6, <1>7
<1>9. PICK x : x = f[l] \o SubSeq(str, a + 1, b)
  OBVIOUS
<1>10. x \in Seq(Token)
  <2>1. Partial(f[l], str, m, l)
    BY <1>2, TemplatePartial
  <2>2. f[l] \in Seq(Token)
    BY <2>1, Zenon DEF Partial
  <2>3. SubSeq(str, a + 1, b) \in Seq(Token)
    BY <1>0, <1>8, Piece
  <2> QED
    BY <2>2, <2>3, <1>9, ConcatProperties
<1>11. PICK s \in Seq(Token) : s = SubSeq(str, b + 1, q)
  BY <1>8, Piece
<1>12. PICK w \in Seq(Token) : w = SubSeq(str, q + 1, c) /\ \A i \in 1..Len(w) : w[i] = Closes
  <2>1. /\ SubSeq(str, q + 1, c) \in Seq(Token) /\ Len(SubSeq(str, q + 1, c)) = c - q
        /\ \A i \in 1..(c - q) : SubSeq(str, q + 1, c)[i] = str[q + i]
    BY <1>8, Piece
  <2>2. \A i \in 1..(c - q) : str[q + i] = Closes
    <3> TAKE i \in 1..(c - q)
    <3>1. q + i \in (q + 1)..c
      OBVIOUS
    <3> QED
      BY <3>1, <1>7
  <2> QED
    BY <2>1, <2>2, Zenon
<1>13. PICK u \in Seq(Token) : u = SubSeq(str, c + 1, Len(str))
  <2>1. Len(str) <= Len(str) /\ c <= Len(str)
    BY <1>0, <1>8
  <2>2. SubSeq(str, c + 1, Len(str)) \in Seq(Token)
    BY ONLY <2>1, <1>0, Piece, str \in Seq(Token), c \in Nat
  <2> QED
    BY <2>2, Zenon
<1>14. SubSeq(str, b + 1, c) = s \o w
  <2>1. b <= q /\ q <= c /\ c <= Len(str)
    BY <1>8
  <2>2. SubSeq(str, b + 1, c) = SubSeq(str, b + 1, q) \o SubSeq(str, q + 1, c)
    BY ONLY <2>1, PieceSplit, str \in Seq(Token), b \in Nat, q \in Nat, c \in Nat
  <2> QED
    BY <2>2, <1>11, <1>12, Zenon
<1>15. SubSeq(str, q + 1, Len(str)) = w \o u
  <2>1. Len(str) <= Len(str)
    BY <1>0
  <2>2. SubSeq(str, q + 1, Len(str)) = SubSeq(str, q + 1, c) \o SubSeq(str, c + 1, Len(str))
    <3>1. PICK l0 \in Nat : l0 = Len(str)
      BY <1>0, Zenon
    <3>2. q <= c /\ c <= l0 /\ l0 <= Len(str)
      BY <3>1, <1>8, <2>1, Zenon
    <3>3. SubSeq(str, q + 1, l0) = SubSeq(str, q + 1, c) \o SubSeq(str, c + 1, l0)
      BY ONLY <3>2, PieceSplit, str \in Seq(Token), q \in Nat, c \in Nat, l0 \in Nat
    <3> QED
      BY <3>1, <3>3, Zenon
  <2> QED
    BY <2>2, <1>12, <1>13, Zenon
<1>16. PICK o \in Seq(Token) : o = <<Opens, n, Colon>>
  <2>1. Opens \in Token /\ Colon \in Token /\ n \in Token
    BY <1>2, MarkTypes, Zenon
  <2>2. <<Opens, n, Colon>> \in Seq(Token)
    BY ONLY <2>1
  <2> QED
    BY <2>2, Zenon
<1>26. <<Ends>> \in Seq(Token) /\ <<Closes>> \in Seq(Token) /\ Closes \in Token
  BY MarkTypes
<1>17. PICK e \in Seq(Token) : e = <<Ends>>
  BY <1>26, Zenon
<1>18. PICK r \in Seq(Token) : r = <<Closes>>
  BY <1>26, Zenon
<1>19. f[n] = x \o ((o \o (s \o w)) \o r)
  <2>1. f[n] = With(f[n - 1], str, From(m, n - 1), m[2 * n - 1], m[2 * n], n)
    BY <1>2, Zenon DEF Templates
  <2>2. f[n] = With(f[l], str, a, b, c, n)
    BY <2>1, <1>1, <1>7
  <2>3. f[n] = x \o Field(n, SubSeq(str, b + 1, c))
    BY <2>2, <1>9, Zenon DEF With
  <2>4. Field(n, SubSeq(str, b + 1, c)) = (o \o SubSeq(str, b + 1, c)) \o r
    BY <1>16, <1>18, FieldIs, Zenon
  <2> QED
    BY <2>3, <2>4, <1>14, Zenon
<1>20. g[n] = x \o ((o \o s) \o r)
  <2>1. g[n] = With(g[n - 1], str, From(p, n - 1), p[2 * n - 1], p[2 * n], n)
    BY <1>2, Zenon DEF Templates
  <2>2. g[n] = With(f[l], str, a, b, q, n)
    BY <2>1, <1>1, <1>3, <1>6, <1>7
  <2>3. g[n] = x \o Field(n, s)
    BY <2>2, <1>9, <1>11, Zenon DEF With
  <2>4. Field(n, s) = (o \o s) \o r
    BY <1>16, <1>18, FieldIs, Zenon
  <2> QED
    BY <2>3, <2>4, Zenon
<1>21. Whole(f, str, m, n) = ((x \o ((o \o (s \o w)) \o r)) \o u) \o e
  BY <1>2, <1>7, <1>13, <1>17, <1>19, Zenon DEF Whole, From
<1>22. Whole(g, str, p, n) = ((x \o ((o \o s) \o r)) \o (w \o u)) \o e
  BY <1>2, <1>7, <1>15, <1>17, <1>20, Zenon DEF Whole, From
<1>23. w \o r = r \o w
  BY <1>12, <1>18, <1>26, MoveBrace
<1>25. MovedOver(x, o, s, w, r, u)
  BY ONLY <1>10, <1>23, MoveOver, s \in Seq(Token), w \in Seq(Token), u \in Seq(Token),
          o \in Seq(Token), r \in Seq(Token)
<1> QED
  BY <1>21, <1>22, <1>25, Zenon DEF MovedOver

-----------------------------------------------------------------------------
(***************************************************************************)
(* Fields and their numbers.                                               *)
(***************************************************************************)
\* The number of the last field up to i
Ordinal(rest, i) == Cardinality({j \in 1..i : IsField(rest[j])})

\* Fields are numbered one after the other.
LEMMA NumberStep ==
    ASSUME NEW rest
    PROVE  /\ Ordinal(rest, 0) = 0
           /\ \A i \in Nat : Ordinal(rest, i) \in Nat
           /\ \A i \in Nat : Ordinal(rest, i + 1) = IF IsField(rest[i + 1]) THEN Ordinal(rest, i) + 1
                                                   ELSE Ordinal(rest, i)
<1> DEFINE N(i) == {j \in 1..i : IsField(rest[j])}
<1>1. N(0) = {}
  OBVIOUS
<1>2. ASSUME NEW i \in Nat PROVE IsFiniteSet(N(i))
  <2>1. IsFiniteSet(1..i) /\ N(i) \subseteq 1..i
    BY FS_Interval
  <2> QED
    BY <2>1, FS_Subset
<1>3. ASSUME NEW i \in Nat
      PROVE  Ordinal(rest, i + 1) = IF IsField(rest[i + 1]) THEN Ordinal(rest, i) + 1 ELSE Ordinal(rest, i)
  <2>1. CASE IsField(rest[i + 1])
    <3>1. N(i + 1) = N(i) \cup {i + 1} /\ (i + 1) \notin N(i)
      BY <2>1
    <3>2. Cardinality(N(i) \cup {i + 1}) = Cardinality(N(i)) + 1
      BY <1>2, <3>1, FS_AddElement
    <3> QED
      BY <2>1, <3>1, <3>2 DEF Ordinal
  <2>2. CASE ~IsField(rest[i + 1])
    <3>1. N(i + 1) = N(i)
      BY <2>2
    <3> QED
      BY <2>2, <3>1 DEF Ordinal
  <2> QED
    BY <2>1, <2>2
<1>4. \A i \in Nat : Ordinal(rest, i) \in Nat
  BY <1>2, FS_CardinalityType DEF Ordinal
<1>5. Ordinal(rest, 0) = 0
  BY <1>1, FS_EmptySet DEF Ordinal
<1> QED
  BY <1>3, <1>4, <1>5

\* Later is not less.
LEMMA NumberGrows ==
    ASSUME NEW rest, NEW i \in Nat, NEW j \in Nat, i <= j
    PROVE  Ordinal(rest, i) <= Ordinal(rest, j)
<1> DEFINE T == {d \in Nat : Ordinal(rest, i) <= Ordinal(rest, i + d)}
<1>1. 0 \in T
  <2>1. i + 0 = i
    OBVIOUS
  <2>2. Ordinal(rest, i) \in Nat
    BY NumberStep
  <2>3. Ordinal(rest, i) <= Ordinal(rest, i + 0)
    BY ONLY <2>1, <2>2
  <2> QED
    BY <2>3
<1>2. ASSUME NEW d \in Nat, d \in T PROVE d + 1 \in T
  <2>1. PICK k \in Nat : k = i + d
    OBVIOUS
  <2>2. Ordinal(rest, k + 1) = Ordinal(rest, k) + 1 \/ Ordinal(rest, k + 1) = Ordinal(rest, k)
    BY NumberStep
  <2>3. Ordinal(rest, k) \in Nat /\ Ordinal(rest, i) \in Nat
    BY NumberStep
  <2>4. Ordinal(rest, i) <= Ordinal(rest, k)
    BY <1>2, <2>1
  <2>5. Ordinal(rest, i) <= Ordinal(rest, k + 1)
    BY ONLY <2>2, <2>3, <2>4
  <2>6. i + (d + 1) = k + 1
    BY ONLY <2>1, i \in Nat, d \in Nat
  <2> QED
    BY <2>5, <2>6
<1>3. Nat \subseteq T
  <2> HIDE DEF T
  <2> QED
    BY <1>1, <1>2, Induct
<1>4. PICK d \in Nat : j = i + d
  <2>1. j - i \in Nat /\ j = i + (j - i)
    OBVIOUS
  <2> QED
    BY <2>1
<1> QED
  BY <1>3, <1>4

\* Each number has its field; a field with a lower number comes before it.
LEMMA PlaceExists ==
    ASSUME NEW rest, NEW l \in Nat, NEW k \in 1..Ordinal(rest, l)
    PROVE  \E r \in 1..l : IsField(rest[r]) /\ Ordinal(rest, r) = k
<1> DEFINE T == {i \in Nat : \A h \in 1..Ordinal(rest, i) :
                    \E r \in 1..i : IsField(rest[r]) /\ Ordinal(rest, r) = h}
<1>1. 0 \in T
  BY NumberStep
<1>2. ASSUME NEW i \in Nat, i \in T PROVE i + 1 \in T
  <2> SUFFICES ASSUME NEW h \in 1..Ordinal(rest, i + 1)
               PROVE  \E r \in 1..(i + 1) : IsField(rest[r]) /\ Ordinal(rest, r) = h
    OBVIOUS
  <2>1. Ordinal(rest, i) \in Nat /\ Ordinal(rest, i + 1) \in Nat
    <3>1. i + 1 \in Nat
      OBVIOUS
    <3> QED
      BY <3>1, NumberStep, Zenon
  <2>2. CASE h \in 1..Ordinal(rest, i)
    <3>1. PICK r \in 1..i : IsField(rest[r]) /\ Ordinal(rest, r) = h
      BY <1>2, <2>2
    <3>2. r \in 1..(i + 1)
      OBVIOUS
    <3> QED
      BY <3>1, <3>2
  <2>3. CASE h \notin 1..Ordinal(rest, i)
    <3>1. Ordinal(rest, i + 1) = IF IsField(rest[i + 1]) THEN Ordinal(rest, i) + 1 ELSE Ordinal(rest, i)
      BY NumberStep
    <3>2. IsField(rest[i + 1])
      BY ONLY <3>1, <2>1, <2>3, h \in 1..Ordinal(rest, i + 1)
    <3>3. Ordinal(rest, i + 1) = Ordinal(rest, i) + 1
      BY <3>1, <3>2
    <3>4. h = Ordinal(rest, i + 1)
      BY ONLY <3>3, <2>1, <2>3, h \in 1..Ordinal(rest, i + 1)
    <3>5. i + 1 \in 1..(i + 1)
      OBVIOUS
    <3> QED
      BY <3>2, <3>4, <3>5
  <2> QED
    BY <2>2, <2>3
<1>3. Nat \subseteq T
  <2> HIDE DEF T
  <2> QED
    BY <1>1, <1>2, Induct
<1> QED
  BY <1>3

\* No two fields have the same number.
LEMMA FieldNumbers ==
    ASSUME NEW rest, NEW r \in Nat \ {0}, IsField(rest[r])
    PROVE  /\ Ordinal(rest, r) = Ordinal(rest, r - 1) + 1 /\ Ordinal(rest, r - 1) \in Nat
           /\ Ordinal(rest, r) \in Nat
           /\ \A q \in Nat : Ordinal(rest, q) < Ordinal(rest, r) <=> q < r
<1>1. PICK h \in Nat : r = h + 1 /\ h = r - 1
  <2>1. r - 1 \in Nat /\ r = (r - 1) + 1
    OBVIOUS
  <2> QED
    BY <2>1
<1>2. /\ Ordinal(rest, h + 1) = Ordinal(rest, h) + 1 /\ Ordinal(rest, h) \in Nat
      /\ Ordinal(rest, h + 1) \in Nat
  BY <1>1, NumberStep
<1>3. ASSUME NEW q \in Nat PROVE Ordinal(rest, q) < Ordinal(rest, h + 1) <=> q < h + 1
  <2>1. Ordinal(rest, q) \in Nat
    BY NumberStep
  <2>2. CASE q < h + 1
    <3>1. q <= h
      BY ONLY <2>2, q \in Nat, h \in Nat
    <3>2. Ordinal(rest, q) <= Ordinal(rest, h)
      BY <3>1, NumberGrows
    <3> QED
      BY ONLY <3>2, <2>1, <2>2, <1>2
  <2>3. CASE ~(q < h + 1)
    <3>1. h + 1 <= q /\ h + 1 \in Nat
      BY ONLY <2>3, q \in Nat, h \in Nat
    <3>2. Ordinal(rest, h + 1) <= Ordinal(rest, q)
      BY <3>1, NumberGrows
    <3> QED
      BY ONLY <3>2, <2>1, <2>3, <1>2
  <2> QED
    BY <2>2, <2>3
<1> QED
  BY <1>1, <1>2, <1>3

\* m has the sizes at the two ends of each field.
MarksOf(m, rest, l, size) ==
    \A r \in 1..l : IsField(rest[r]) =>
        m[2 * Ordinal(rest, r) - 1] = size[r - 1] /\ m[2 * Ordinal(rest, r)] = size[r]

\* For any sizes of the texts there is such an m.
LEMMA MarksExist ==
    ASSUME NEW rest, NEW l \in Nat, NEW size
    PROVE  \E m : MarksOf(m, rest, l, size)
<1> DEFINE At(i, r, v) == /\ IsField(rest[r])
                          /\ \/ i = 2 * Ordinal(rest, r) - 1 /\ v = size[r - 1]
                             \/ i = 2 * Ordinal(rest, r) /\ v = size[r]
           m == [i \in Nat |-> CHOOSE v : \E r \in 1..l : At(i, r, v)]
<1>1. ASSUME NEW r \in 1..l, NEW q \in 1..l, NEW i, NEW v, NEW w, At(i, r, v), At(i, q, w)
      PROVE  v = w
  <2>1. r \in Nat \ {0} /\ q \in Nat \ {0}
    OBVIOUS
  <2>2. Ordinal(rest, r) \in Nat /\ Ordinal(rest, q) \in Nat
    BY <2>1, NumberStep
  <2>3. /\ Ordinal(rest, q) < Ordinal(rest, r) <=> q < r
        /\ Ordinal(rest, r) < Ordinal(rest, q) <=> r < q
    BY <1>1, <2>1, FieldNumbers
  <2>4. \/ i = 2 * Ordinal(rest, r) - 1 /\ v = size[r - 1]
        \/ i = 2 * Ordinal(rest, r) /\ v = size[r]
    BY <1>1
  <2>5. \/ i = 2 * Ordinal(rest, q) - 1 /\ w = size[q - 1]
        \/ i = 2 * Ordinal(rest, q) /\ w = size[q]
    BY <1>1
  <2>6. Ordinal(rest, r) = Ordinal(rest, q)
    BY ONLY <2>2, <2>4, <2>5
  <2>7. r = q
    BY ONLY <2>1, <2>2, <2>3, <2>6
  <2> QED
    BY ONLY <2>2, <2>4, <2>5, <2>7
<1>2. ASSUME NEW r \in 1..l, NEW i \in Nat, NEW v, At(i, r, v) PROVE m[i] = v
  <2> HIDE DEF At
  <2>1. m[i] = CHOOSE w : \E q \in 1..l : At(i, q, w)
    OBVIOUS
  <2>2. \E w : \E q \in 1..l : At(i, q, w)
    BY <1>2
  <2>3. \E q \in 1..l : At(i, q, m[i])
    BY <2>1, <2>2, Zenon
  <2> HIDE DEF m
  <2> QED
    BY <1>1, <1>2, <2>3, Zenon
<1>3. ASSUME NEW r \in 1..l, IsField(rest[r])
      PROVE  m[2 * Ordinal(rest, r) - 1] = size[r - 1] /\ m[2 * Ordinal(rest, r)] = size[r]
  <2>1. r \in Nat \ {0}
    OBVIOUS
  <2>2. Ordinal(rest, r) \in Nat /\ Ordinal(rest, r) = Ordinal(rest, r - 1) + 1 /\ Ordinal(rest, r - 1) \in Nat
    BY <1>3, <2>1, FieldNumbers
  <2>3. 2 * Ordinal(rest, r) - 1 \in Nat /\ 2 * Ordinal(rest, r) \in Nat
    BY ONLY <2>2
  <2>4. At(2 * Ordinal(rest, r) - 1, r, size[r - 1]) /\ At(2 * Ordinal(rest, r), r, size[r])
    BY <1>3
  <2> HIDE DEF At, m
  <2> QED
    BY <1>2, <2>3, <2>4
<1>4. MarksOf(m, rest, l, size)
  <2> HIDE DEF m
  <2> QED
    BY <1>3 DEF MarksOf
<1> QED
  BY <1>4

\* Where sizes grow, their marks are in order.
LEMMA MarksCut ==
    ASSUME NEW rest, NEW l \in Nat, NEW size, NEW m, MarksOf(m, rest, l, size),
           \A i \in 0..l : size[i] \in Nat, \A i, j \in 0..l : i <= j => size[i] <= size[j],
           NEW k \in 1..Ordinal(rest, l)
    PROVE  /\ From(m, k - 1) \in Nat /\ m[2 * k - 1] \in Nat /\ m[2 * k] \in Nat
           /\ From(m, k - 1) <= m[2 * k - 1] /\ m[2 * k - 1] <= m[2 * k] /\ m[2 * k] <= size[l]
<1>0. Ordinal(rest, l) \in Nat
  BY NumberStep
<1>1. PICK r \in 1..l : IsField(rest[r]) /\ Ordinal(rest, r) = k
  BY PlaceExists
<1>2. m[2 * k - 1] = size[r - 1] /\ m[2 * k] = size[r]
  BY <1>1 DEF MarksOf
<1>3. r - 1 \in 0..l /\ r \in 0..l /\ l \in 0..l /\ r - 1 <= r /\ r <= l
  OBVIOUS
<1>4. /\ size[r - 1] \in Nat /\ size[r] \in Nat /\ size[r - 1] <= size[r] /\ size[r] <= size[l]
  BY <1>3
<1>5. From(m, k - 1) \in Nat /\ From(m, k - 1) <= m[2 * k - 1]
  <2>1. CASE k = 1
    BY <2>1, <1>2, <1>4 DEF From
  <2>2. CASE k # 1
    <3>1. k - 1 \in 1..Ordinal(rest, l) /\ k - 1 # 0 /\ k - 1 < k
      BY ONLY <2>2, <1>0, k \in 1..Ordinal(rest, l)
    <3>2. PICK q \in 1..l : IsField(rest[q]) /\ Ordinal(rest, q) = k - 1
      BY <3>1, PlaceExists
    <3>3. m[2 * (k - 1)] = size[q]
      BY <3>2 DEF MarksOf
    <3>4. q < r
      <4>1. Ordinal(rest, q) < Ordinal(rest, r)
        BY <3>1, <3>2, <1>1
      <4>2. q \in Nat /\ r \in Nat \ {0}
        OBVIOUS
      <4> QED
        BY <4>1, <4>2, <1>1, FieldNumbers
    <3>5. q \in 0..l /\ q <= r - 1
      BY <3>4
    <3>6. size[q] \in Nat /\ size[q] <= size[r - 1]
      BY <3>5, <1>3
    <3> QED
      BY <3>1, <3>3, <3>6, <1>2 DEF From
  <2> QED
    BY <2>1, <2>2
<1> QED
  BY <1>2, <1>4, <1>5

-----------------------------------------------------------------------------
(***************************************************************************)
(* Beginnings and ends of what is joined.                                  *)
(***************************************************************************)
\* The sequences so far are joined to a sequence, the last one to all of them.
LEMMA JoinedTypes ==
    ASSUME NEW S, NEW seqs \in Seq(Seq(S))
    PROVE  /\ Len(seqs) \in Nat /\ \A i \in 1..Len(seqs) : seqs[i] \in Seq(S)
           /\ Joined(seqs)[0] = <<>>
           /\ \A i \in 1..Len(seqs) : Joined(seqs)[i] = Joined(seqs)[i - 1] \o seqs[i]
           /\ \A i \in 0..Len(seqs) : Joined(seqs)[i] \in Seq(S)
           /\ FlattenSeq(seqs) = Joined(seqs)[Len(seqs)]
<1>1. Len(seqs) \in Nat /\ \A i \in 1..Len(seqs) : seqs[i] \in Seq(S)
  BY LenProperties, ElementOfSeq
<1> QED
  BY <1>1, JoinedIs DEF Joins

\* The first n of some sequences, joined
LEMMA JoinedPrefix ==
    ASSUME NEW S, NEW seqs \in Seq(Seq(S)), NEW n \in 0..Len(seqs)
    PROVE  FlattenSeq(SubSeq(seqs, 1, n)) = Joined(seqs)[n]
<1>0. Len(seqs) \in Nat
  BY LenProperties
<1>1. PICK part : part = SubSeq(seqs, 1, n)
  OBVIOUS
<1>2. /\ part \in Seq(Seq(S)) /\ Len(part) = n
      /\ \A i \in 1..n : part[i] = seqs[i]
  <2>1. /\ SubSeq(seqs, 0 + 1, n) \in Seq(Seq(S)) /\ Len(SubSeq(seqs, 0 + 1, n)) = n - 0
        /\ \A i \in 1..(n - 0) : SubSeq(seqs, 0 + 1, n)[i] = seqs[0 + i]
    <3>1. 0 \in Nat /\ n \in Nat /\ 0 <= n /\ n <= Len(seqs)
      BY <1>0
    <3> QED
      BY ONLY <3>1, seqs \in Seq(Seq(S)), Piece
  <2>2. 0 + 1 = 1 /\ n - 0 = n /\ \A i \in 1..n : 0 + i = i
    BY <1>0
  <2> QED
    BY <2>1, <2>2, <1>1
<1>3. PICK f : f = Joined(part)
  OBVIOUS
<1>4. PICK g : g = Joined(seqs)
  OBVIOUS
<1>5. /\ f[0] = <<>> /\ \A i \in 1..n : f[i] = f[i - 1] \o part[i]
      /\ FlattenSeq(part) = f[n]
  BY <1>2, <1>3, JoinedTypes
<1>6. g[0] = <<>> /\ \A i \in 1..Len(seqs) : g[i] = g[i - 1] \o seqs[i]
  BY <1>4, JoinedTypes
<1>7. Same(f, g, 0, n)
  <2>1. \A i \in 1..n : i \in 1..Len(seqs)
    BY <1>0
  <2>2. Steps(f, part, n)
    BY <1>5, Zenon DEF Steps
  <2>3. Steps(g, seqs, n)
    BY <1>6, <2>1, Zenon DEF Steps
  <2>4. Same(part, seqs, 1, n)
    BY <1>2, Zenon DEF Same
  <2>5. f[0] = g[0]
    BY <1>5, <1>6
  <2>6. n \in Nat
    BY <1>0
  <2> QED
    BY <2>2, <2>3, <2>4, <2>5, <2>6, SameJoin
<1>8. f[n] = g[n]
  BY <1>0, <1>7 DEF Same
<1> QED
  BY <1>1, <1>4, <1>5, <1>8

\* All of them are the first n joined, with the others joined behind.
LEMMA JoinedSuffix ==
    ASSUME NEW S, NEW seqs \in Seq(Seq(S)), NEW n \in 0..Len(seqs)
    PROVE  /\ FlattenSeq(SubSeq(seqs, n + 1, Len(seqs))) \in Seq(S)
           /\ Joined(seqs)[Len(seqs)] = Joined(seqs)[n] \o FlattenSeq(SubSeq(seqs, n + 1, Len(seqs)))
<1>0. PICK l \in Nat : l = Len(seqs)
  BY LenProperties
<1>1. PICK part : part = SubSeq(seqs, n + 1, l)
  OBVIOUS
<1>2. /\ part \in Seq(Seq(S)) /\ Len(part) = l - n
      /\ \A i \in 1..(l - n) : part[i] = seqs[n + i]
  <2>1. n \in Nat /\ n <= l /\ l <= Len(seqs)
    BY <1>0
  <2>2. /\ SubSeq(seqs, n + 1, l) \in Seq(Seq(S)) /\ Len(SubSeq(seqs, n + 1, l)) = l - n
        /\ \A i \in 1..(l - n) : SubSeq(seqs, n + 1, l)[i] = seqs[n + i]
    BY ONLY <2>1, l \in Nat, seqs \in Seq(Seq(S)), Piece
  <2> QED
    BY <2>2, <1>1, Zenon
<1>3. PICK f : f = Joined(part)
  OBVIOUS
<1>4. PICK g : g = Joined(seqs)
  OBVIOUS
<1>5. PICK d \in Nat : d = l - n
  <2>1. l - n \in Nat
    BY <1>0
  <2> QED
    BY <2>1
<1>6. /\ f[0] = <<>> /\ \A i \in 1..d : f[i] = f[i - 1] \o part[i]
      /\ \A i \in 1..d : part[i] \in Seq(S)
      /\ \A i \in 0..d : f[i] \in Seq(S)
      /\ FlattenSeq(part) = f[d]
  BY <1>2, <1>3, <1>5, JoinedTypes
<1>7. /\ \A i \in 1..l : g[i] = g[i - 1] \o seqs[i]
      /\ \A i \in 0..l : g[i] \in Seq(S)
  BY <1>0, <1>4, JoinedTypes
<1> DEFINE h == [i \in 0..d |-> g[n + i]]
<1>8. h[0] = g[n] /\ h[0] \in Seq(S)
  <2>1. h[0] = g[n + 0] /\ n + 0 = n /\ n \in 0..l
    BY <1>0
  <2> QED
    BY <2>1, <1>7
<1>9. ASSUME NEW i \in 1..d PROVE h[i] = h[i - 1] \o part[i]
  <2>1. n + i \in 1..l /\ (n + i) - 1 = n + (i - 1) /\ i \in 0..d /\ i - 1 \in 0..d
    BY <1>0, <1>5
  <2>2. g[n + i] = g[(n + i) - 1] \o seqs[n + i]
    BY <2>1, <1>7, Zenon
  <2>3. part[i] = seqs[n + i]
    BY <1>2, <1>5
  <2>4. h[i] = g[n + i] /\ h[i - 1] = g[n + (i - 1)]
    BY <2>1
  <2> QED
    BY ONLY <2>1, <2>2, <2>3, <2>4
<1>10. h[d] = g[l]
  <2>1. n + d = l /\ d \in 0..d
    BY <1>0, <1>5
  <2> QED
    BY <2>1
<1> HIDE DEF h
<1>13. f[d] \in Seq(S) /\ h[d] = h[0] \o f[d]
  <2>1. AllSeqs(part, S, d)
    BY <1>6, Zenon DEF AllSeqs
  <2>2. Steps(f, part, d)
    BY <1>6, Zenon DEF Steps
  <2>3. Steps(h, part, d)
    BY <1>9, Zenon DEF Steps
  <2>4. f[0] = <<>>
    BY <1>6
  <2> QED
    <3>1. h[0] \in Seq(S)
      BY <1>8
    <3> QED
      <4>1. Follows(h[d], h[0], f[d], S)
        BY <3>1, <2>1, <2>2, <2>3, <2>4, JoinFrom
      <4> QED
        BY <4>1, Zenon DEF Follows
<1> QED
  BY <1>0, <1>1, <1>4, <1>6, <1>8, <1>10, <1>13

Grows(s, w, S) == \E t \in Seq(S) : w = s \o t

\* What is joined grows.
LEMMA JoinedGrows ==
    ASSUME NEW S, NEW seqs \in Seq(Seq(S)), NEW i \in 0..Len(seqs), NEW j \in 0..Len(seqs), i <= j
    PROVE  Grows(Joined(seqs)[i], Joined(seqs)[j], S)
<1>0. Len(seqs) \in Nat
  BY LenProperties
<1>1. PICK g : g = Joined(seqs)
  OBVIOUS
<1>2. /\ \A k \in 1..Len(seqs) : g[k] = g[k - 1] \o seqs[k]
      /\ \A k \in 1..Len(seqs) : seqs[k] \in Seq(S)
      /\ \A k \in 0..Len(seqs) : g[k] \in Seq(S)
  BY <1>1, JoinedTypes
<1>3. g[i] \in Seq(S)
  BY <1>2
<1> DEFINE P(d) == \E t \in Seq(S) : g[i + d] = g[i] \o t
           T == {d \in Nat : i + d <= Len(seqs) => P(d)}
<1>4. P(0)
  <2>1. i + 0 = i
    BY <1>0
  <2>2. g[i] = g[i] \o <<>> /\ <<>> \in Seq(S)
    BY <1>3, ConcatEmptySeq, EmptySeq
  <2> QED
    BY <2>1, <2>2
<1>5. ASSUME NEW d \in Nat, i + (d + 1) <= Len(seqs), P(d) PROVE P(d + 1)
  <2>1. PICK k \in 1..Len(seqs) : k = i + (d + 1) /\ k - 1 = i + d
    <3>1. i + (d + 1) \in 1..Len(seqs) /\ (i + (d + 1)) - 1 = i + d
      BY ONLY <1>0, <1>5, i \in 0..Len(seqs), d \in Nat
    <3> QED
      BY <3>1
  <2>2. PICK t \in Seq(S) : g[i + d] = g[i] \o t
    BY <1>5
  <2>3. g[k] = (g[i] \o t) \o seqs[k] /\ seqs[k] \in Seq(S)
    BY <1>2, <2>1, <2>2
  <2>4. Associate(g[i], t, seqs[k])
    BY <1>3, <2>3, Associative, Zenon
  <2>6. t \o seqs[k] \in Seq(S)
    BY <2>3, ConcatProperties
  <2>5. g[k] = g[i] \o (t \o seqs[k]) /\ t \o seqs[k] \in Seq(S)
    BY ONLY <2>3, <2>4, <2>6 DEF Associate
  <2> QED
    BY <2>1, <2>5
<1> HIDE DEF P
<1>6. 0 \in T
  BY <1>4
<1>7. ASSUME NEW d \in Nat, d \in T PROVE d + 1 \in T
  <2>1. i + (d + 1) <= Len(seqs) => i + d <= Len(seqs)
    BY <1>0
  <2> QED
    BY <2>1, <1>5, <1>7
<1>8. Nat \subseteq T
  <2> HIDE DEF T
  <2> QED
    BY <1>6, <1>7, Induct
<1>9. PICK d \in Nat : j = i + d
  <2>1. j - i \in Nat /\ j = i + (j - i)
    BY <1>0
  <2> QED
    BY <2>1
<1>10. i + d <= Len(seqs)
  BY <1>0, <1>9
<1>11. P(d)
  BY <1>8, <1>10
<1> QED
  BY <1>1, <1>9, <1>11, Zenon DEF P, Grows

\* Both lengths grow, the one in bytes more.
LEMMA LengthsGrow ==
    ASSUME NEW S, NEW s \in Seq(S), NEW t \in Seq(S), NEW w, w = s \o t
    PROVE  /\ Len(s) \in Nat /\ Len(w) \in Nat /\ Bytes(s) \in Nat /\ Bytes(w) \in Nat
           /\ Len(w) = Len(s) + Len(t) /\ Excess(w) = Excess(s) + Excess(t)
           /\ Excess(s) \in Nat /\ Excess(t) \in Nat /\ Excess(w) \in Nat
           /\ Len(s) <= Len(w) /\ Bytes(s) <= Bytes(w)
           /\ Bytes(s) - Len(s) <= Bytes(w) - Len(w)
<1>1. w \in Seq(S) /\ Len(w) = Len(s) + Len(t)
  BY ConcatProperties
<1>2. /\ Excess(s) \in Nat /\ Bytes(s) = Len(s) + Excess(s) /\ Len(s) \in Nat
  BY ExcessType
<1>3. /\ Excess(t) \in Nat /\ Len(t) \in Nat
  BY ExcessType
<1>4. /\ Excess(w) \in Nat /\ Bytes(w) = Len(w) + Excess(w) /\ Len(w) \in Nat
  BY <1>1, ExcessType
<1>5. Excess(w) = Excess(s) + Excess(t)
  BY ExcessConcat
<1> QED
  BY ONLY <1>1, <1>2, <1>3, <1>4, <1>5

-----------------------------------------------------------------------------
(***************************************************************************)
(* What chunks add.                                                        *)
(***************************************************************************)
\* What a chunk shows and inserts is a text.
LEMMA ShownType ==
    ASSUME NEW chunk \in Chunk
    PROVE  /\ Shown(chunk) \in Seq(Character) /\ Inserted(chunk) \in Seq(Character)
           /\ IsField(chunk) => Inserted(chunk) = chunk.text
           /\ chunk.text \in Seq(Character)
<1>1. chunk.text \in Seq(Character)
  BY DEF Chunk
<1>2. \A S : \A a, b \in S : <<a, b>> \in Seq(S)
  OBVIOUS
<1>3. <<>> \in Seq(Character)
  BY EmptySeq
<1>4. "," \in Character /\ " " \in Character
  BY CharacterAssumption, Zenon
<1>5. <<",", " ">> \in Seq(Character)
  BY <1>2, <1>4, Zenon
<1>6. Shown(chunk) = chunk.text \/ Shown(chunk) = <<",", " ">> \/ Shown(chunk) = <<>>
  <2>4. "punctuation" \notin Texts
    BY Zenon DEF Texts
  <2>1. CASE chunk.kind \in Texts
    <3>1. chunk.kind # "punctuation"
      BY <2>1, <2>4
    <3> QED
      BY <2>1, <3>1, Zenon DEF Shown
  <2>2. CASE chunk.kind \notin Texts /\ chunk.kind = "punctuation"
    BY <2>2, Zenon DEF Shown
  <2>3. CASE chunk.kind \notin Texts /\ chunk.kind # "punctuation"
    BY <2>3, Zenon DEF Shown
  <2> QED
    BY <2>1, <2>2, <2>3, Zenon
<1>7. Shown(chunk) \in Seq(Character)
  BY <1>1, <1>3, <1>5, <1>6, Zenon
<1>8. Inserted(chunk) \in Seq(Character)
  BY <1>3, <1>7, Zenon DEF Inserted
<1>9. ASSUME IsField(chunk) PROVE Inserted(chunk) = chunk.text
  <2>1. chunk.kind \in Texts /\ chunk.kind # "informative" /\ chunk.kind # "punctuation"
    BY <1>9, Zenon DEF IsField, Texts
  <2>2. Shown(chunk) = chunk.text
    BY <2>1, Zenon DEF Shown
  <2> QED
    BY <2>1, <2>2, Zenon DEF Inserted
<1> QED
  BY <1>1, <1>7, <1>8, <1>9, Zenon

ShownSeq(chunks) == [i \in 1..Len(chunks) |-> Shown(chunks[i])]
InsertedSeq(chunks) == [i \in 1..Len(chunks) |-> Inserted(chunks[i])]

\* What chunks show and insert are sequences of texts.
LEMMA SeqsTypes ==
    ASSUME NEW chunks \in Seq(Chunk)
    PROVE  /\ Len(chunks) \in Nat
           /\ ShownSeq(chunks) \in Seq(Seq(Character)) /\ Len(ShownSeq(chunks)) = Len(chunks)
           /\ InsertedSeq(chunks) \in Seq(Seq(Character)) /\ Len(InsertedSeq(chunks)) = Len(chunks)
           /\ \A i \in 1..Len(chunks) : /\ chunks[i] \in Chunk
                                        /\ ShownSeq(chunks)[i] = Shown(chunks[i])
                                        /\ InsertedSeq(chunks)[i] = Inserted(chunks[i])
           /\ AllOf(chunks, Shown) = FlattenSeq(ShownSeq(chunks))
           /\ AllOf(chunks, Inserted) = FlattenSeq(InsertedSeq(chunks))
<1>1. Len(chunks) \in Nat /\ \A i \in 1..Len(chunks) : chunks[i] \in Chunk
  BY LenProperties, ElementOfSeq
<1>2. \A i \in 1..Len(chunks) : /\ Shown(chunks[i]) \in Seq(Character)
                                /\ Inserted(chunks[i]) \in Seq(Character)
  BY <1>1, ShownType
<1>3. ShownSeq(chunks) \in Seq(Seq(Character)) /\ Len(ShownSeq(chunks)) = Len(chunks)
  BY <1>1, <1>2 DEF ShownSeq
<1>4. InsertedSeq(chunks) \in Seq(Seq(Character)) /\ Len(InsertedSeq(chunks)) = Len(chunks)
  BY <1>1, <1>2 DEF InsertedSeq
<1>5. /\ AllOf(chunks, Shown) = FlattenSeq(ShownSeq(chunks))
      /\ AllOf(chunks, Inserted) = FlattenSeq(InsertedSeq(chunks))
  BY Zenon DEF AllOf, ShownSeq, InsertedSeq
<1>6. \A i \in 1..Len(chunks) : /\ ShownSeq(chunks)[i] = Shown(chunks[i])
                                /\ InsertedSeq(chunks)[i] = Inserted(chunks[i])
  BY DEF ShownSeq, InsertedSeq
<1> QED
  BY <1>1, <1>3, <1>4, <1>5, <1>6

\* A piece of the chunks adds the piece of what they add.
LEMMA SeqsOfPiece ==
    ASSUME NEW chunks \in Seq(Chunk), NEW a \in Nat, NEW b \in Nat, a <= b, b <= Len(chunks)
    PROVE  /\ SubSeq(chunks, a + 1, b) \in Seq(Chunk)
           /\ ShownSeq(SubSeq(chunks, a + 1, b)) = SubSeq(ShownSeq(chunks), a + 1, b)
           /\ InsertedSeq(SubSeq(chunks, a + 1, b)) = SubSeq(InsertedSeq(chunks), a + 1, b)
<1>1. PICK part : part = SubSeq(chunks, a + 1, b)
  OBVIOUS
<1>2. part \in Seq(Chunk) /\ Len(part) = b - a /\ \A i \in 1..(b - a) : part[i] = chunks[a + i]
  BY <1>1, Piece
<1>3. PICK s \in Seq(Seq(Character)) : s = ShownSeq(chunks)
  BY SeqsTypes, Zenon
<1>4. Len(s) = Len(chunks) /\ \A i \in 1..Len(chunks) : s[i] = Shown(chunks[i])
  BY <1>3, SeqsTypes
<1>5. PICK t \in Seq(Seq(Character)) : t = InsertedSeq(chunks)
  BY SeqsTypes, Zenon
<1>6. Len(t) = Len(chunks) /\ \A i \in 1..Len(chunks) : t[i] = Inserted(chunks[i])
  BY <1>5, SeqsTypes
<1>7. /\ SubSeq(s, a + 1, b) \in Seq(Seq(Character)) /\ Len(SubSeq(s, a + 1, b)) = b - a
      /\ \A i \in 1..(b - a) : SubSeq(s, a + 1, b)[i] = s[a + i]
  BY <1>4, Piece
<1>8. /\ SubSeq(t, a + 1, b) \in Seq(Seq(Character)) /\ Len(SubSeq(t, a + 1, b)) = b - a
      /\ \A i \in 1..(b - a) : SubSeq(t, a + 1, b)[i] = t[a + i]
  BY <1>6, Piece
<1>9. /\ ShownSeq(part) \in Seq(Seq(Character)) /\ Len(ShownSeq(part)) = b - a
      /\ InsertedSeq(part) \in Seq(Seq(Character)) /\ Len(InsertedSeq(part)) = b - a
      /\ \A i \in 1..(b - a) : ShownSeq(part)[i] = Shown(part[i]) /\ InsertedSeq(part)[i] = Inserted(part[i])
  BY <1>2, SeqsTypes
<1>10. Len(chunks) \in Nat
  BY LenProperties
<1>11. \A i \in 1..(b - a) : a + i \in 1..Len(chunks)
  BY <1>10
<1>12. \A i \in 1..(b - a) : ShownSeq(part)[i] = SubSeq(s, a + 1, b)[i]
  BY ONLY <1>2, <1>4, <1>7, <1>9, <1>11
<1>13. \A i \in 1..(b - a) : InsertedSeq(part)[i] = SubSeq(t, a + 1, b)[i]
  BY ONLY <1>2, <1>6, <1>8, <1>9, <1>11
<1>14. ShownSeq(part) = SubSeq(s, a + 1, b)
  BY ONLY <1>7, <1>9, <1>12, SeqEqual
<1>15. InsertedSeq(part) = SubSeq(t, a + 1, b)
  BY ONLY <1>8, <1>9, <1>13, SeqEqual
<1> QED
  BY <1>1, <1>2, <1>3, <1>5, <1>14, <1>15

-----------------------------------------------------------------------------
(***************************************************************************)
(* The loop of Irony::candidates.                                          *)
(***************************************************************************)
Loops(c, chunks, n, prefix, insensitive) ==
    /\ c[0] = NewCandidate
    /\ \A i \in 1..n : c[i] = Turn(c[i - 1], chunks[i], prefix, insensitive)

IsLoop(c, chunks, n, prefix, ins) ==
    c = [i \in 0..n |-> IF i = 0 THEN NewCandidate ELSE Turn(c[i - 1], chunks[i], prefix, ins)]

\* The function of the loop over the chunks exists.
LEMMA LoopExists ==
    ASSUME NEW chunks, NEW n \in Nat, NEW prefix, NEW ins
    PROVE  \E c : IsLoop(c, chunks, n, prefix, ins)
<1> DEFINE Successor(f, i) == IF i = 0 THEN NewCandidate ELSE Turn(f[i - 1], chunks[i], prefix, ins)
           T == {k \in Nat : \E f : \A i \in 0..k : f[i] = Successor(f, i)}
<1>1. 0 \in T
  <2> DEFINE f == [i \in 0..0 |-> NewCandidate]
  <2>1. \A i \in 0..0 : f[i] = Successor(f, i)
    OBVIOUS
  <2> HIDE DEF f, Successor
  <2> QED
    BY <2>1
<1>2. ASSUME NEW k \in Nat, k \in T PROVE k + 1 \in T
  <2>1. PICK f : \A i \in 0..k : f[i] = Successor(f, i)
    BY <1>2, Zenon
  <2> DEFINE g == [i \in 0..(k + 1) |-> IF i <= k THEN f[i] ELSE Successor(f, i)]
  <2>2. ASSUME NEW i \in 0..(k + 1) PROVE g[i] = Successor(g, i)
    <3>1. i # 0 => i - 1 \in 0..(k + 1) /\ i - 1 <= k /\ g[i - 1] = f[i - 1]
      OBVIOUS
    <3>2. g[i] = Successor(f, i)
      <4> HIDE DEF Successor
      <4> QED
        BY <2>1
    <3> HIDE DEF g
    <3> QED
      BY <3>1, <3>2
  <2> HIDE DEF g, Successor
  <2>3. \E h : \A i \in 0..(k + 1) : h[i] = Successor(h, i)
    BY <2>2
  <2>4. k + 1 \in Nat
    OBVIOUS
  <2> QED
    BY <2>3, <2>4, Zenon DEF T
<1>3. n \in T
  <2> HIDE DEF T
  <2> QED
    BY <1>1, <1>2, Induct
<1>4. PICK f : \A i \in 0..n : f[i] = Successor(f, i)
  BY <1>3
<1> DEFINE g == [i \in 0..n |-> f[i]]
<1>5. \A i \in 0..n : g[i] = Successor(g, i)
  <2> SUFFICES ASSUME NEW i \in 0..n PROVE g[i] = Successor(g, i)
    OBVIOUS
  <2>1. i # 0 => i - 1 \in 0..n /\ g[i - 1] = f[i - 1]
    OBVIOUS
  <2>2. g[i] = Successor(f, i)
    BY <1>4
  <2> HIDE DEF g
  <2> QED
    BY <2>1, <2>2
<1>6. g = [i \in 0..n |-> g[i]]
  OBVIOUS
<1> HIDE DEF g
<1>7. g = [i \in 0..n |-> IF i = 0 THEN NewCandidate ELSE Turn(g[i - 1], chunks[i], prefix, ins)]
  BY <1>5, <1>6
<1> QED
  BY <1>7, Zenon DEF IsLoop

\* A candidate is the last value of such a loop.
LEMMA CandidateLoops ==
    ASSUME NEW string, Len(string.chunks) \in Nat, NEW prefix, NEW style
    PROVE  \E c : /\ Loops(c, string.chunks, Len(string.chunks), prefix, CaseInsensitive(prefix, style))
                  /\ CandidateOf(string, prefix, style) = c[Len(string.chunks)]
<1>1. PICK n \in Nat : n = Len(string.chunks)
  OBVIOUS
<1>2. PICK chunks : chunks = string.chunks
  OBVIOUS
<1>3. PICK ins : ins = CaseInsensitive(prefix, style)
  OBVIOUS
<1> DEFINE g == CHOOSE c : c = [i \in 0..n |-> IF i = 0 THEN NewCandidate
                                               ELSE Turn(c[i - 1], chunks[i], prefix, ins)]
<1>4. g = [i \in 0..n |-> IF i = 0 THEN NewCandidate ELSE Turn(g[i - 1], chunks[i], prefix, ins)]
  <2>1. \E c : IsLoop(c, chunks, n, prefix, ins)
    BY LoopExists, Zenon
  <2>2. \E c : c = [i \in 0..n |-> IF i = 0 THEN NewCandidate ELSE Turn(c[i - 1], chunks[i], prefix, ins)]
    BY <2>1, Zenon DEF IsLoop
  <2> QED
    BY <2>2, Zenon
<1>5. CandidateOf(string, prefix, style) = g[n]
  BY <1>1, <1>2, <1>3, Zenon DEF CandidateOf
<1> HIDE DEF g
<1>6. g[0] = NewCandidate /\ \A i \in 1..n : g[i] = Turn(g[i - 1], chunks[i], prefix, ins)
  BY <1>4
<1>7. Loops(g, chunks, n, prefix, ins)
  BY <1>6, Zenon DEF Loops
<1> QED
  BY <1>1, <1>2, <1>3, <1>5, <1>7

Candidate ==
    [typed : Seq(Character), hasTyped : BOOLEAN, miss : BOOLEAN, prototype : Seq(Character),
     annotation : Nat, post : Seq(Character), marks : Seq(Nat)]

\* A text has a number of bytes.
LEMMA BytesType == \A text \in Seq(Character) : Bytes(text) \in Nat
<1> TAKE text \in Seq(Character)
<1>1. Excess(text) \in Nat /\ Len(text) \in Nat /\ Bytes(text) = Len(text) + Excess(text)
  BY ExcessType
<1> QED
  BY ONLY <1>1

\* The loop starts with a candidate.
LEMMA NewCandidateType ==
    /\ NewCandidate \in Candidate /\ ~NewCandidate.hasTyped /\ ~NewCandidate.miss
    /\ NewCandidate.prototype = <<>> /\ NewCandidate.post = <<>> /\ NewCandidate.marks = <<>>
<1>1. \A S : <<>> \in Seq(S)
  BY EmptySeq
<1> QED
  BY <1>1 DEF NewCandidate, Candidate

\* A turn in front of the typed text
UnnamedTurn(d, cand, chunk) ==
    /\ d \in Candidate /\ ~d.miss /\ ~d.hasTyped
    /\ d.prototype = cand.prototype \o Shown(chunk)
    /\ d.post = cand.post /\ d.marks = cand.marks

\* A chunk before the typed text is only shown.
LEMMA TurnBefore ==
    ASSUME NEW cand \in Candidate, NEW chunk \in Chunk, NEW prefix, NEW ins,
           ~cand.miss, ~cand.hasTyped, chunk.kind # "typed", NEW d, d = Turn(cand, chunk, prefix, ins)
    PROVE  UnnamedTurn(d, cand, chunk)
<1>1. cand.prototype \in Seq(Character) /\ Shown(chunk) \in Seq(Character)
  BY ShownType DEF Candidate
<1>2. cand.prototype \o Shown(chunk) \in Seq(Character)
  BY <1>1, ConcatProperties
<1>3. PICK s \in Seq(Character) : s = cand.prototype \o Shown(chunk)
  BY <1>2
<1>4. d = [cand EXCEPT !.prototype = s]
  BY <1>3 DEF Turn, TypedText, PostCompletion, Candidate
<1>99. /\ d \in Candidate /\ ~d.miss /\ ~d.hasTyped
       /\ d.prototype = cand.prototype \o Shown(chunk)
       /\ d.post = cand.post /\ d.marks = cand.marks
  BY <1>3, <1>4 DEF Candidate
<1> QED
  BY <1>99, Zenon DEF UnnamedTurn

\* The turn of the typed text
NamingTurn(d, cand, chunk) ==
    /\ d \in Candidate /\ d.hasTyped
    /\ d.prototype = cand.prototype \o Shown(chunk) /\ d.annotation = Bytes(d.prototype)
    /\ d.post = cand.post /\ d.marks = cand.marks

\* The typed text is shown, and ends where the annotation starts.
LEMMA TurnTyped ==
    ASSUME NEW cand \in Candidate, NEW chunk \in Chunk, NEW prefix, NEW ins,
           ~cand.miss, ~cand.hasTyped, chunk.kind = "typed", NEW d, d = Turn(cand, chunk, prefix, ins)
    PROVE  NamingTurn(d, cand, chunk)
<1>1. cand.prototype \in Seq(Character) /\ Shown(chunk) \in Seq(Character) /\ chunk.text \in Seq(Character)
  BY ShownType DEF Candidate
<1>2. cand.prototype \o Shown(chunk) \in Seq(Character)
  BY <1>1, ConcatProperties
<1>3. PICK s \in Seq(Character) : s = cand.prototype \o Shown(chunk)
  BY <1>2
<1>4. PICK b \in Nat : b = Bytes(s)
  BY BytesType
<1>5. PICK miss \in BOOLEAN : miss = ~StartsWith(chunk.text, prefix, ins)
  OBVIOUS
<1>6. PICK c \in Candidate : c = [cand EXCEPT !.prototype = s]
  BY DEF Candidate
<1>7. ~c.hasTyped /\ ~c.miss /\ c.prototype = s /\ c.post = cand.post /\ c.marks = cand.marks
  BY <1>6 DEF Candidate
<1>8. d = [c EXCEPT !.typed = chunk.text, !.miss = miss, !.annotation = b, !.hasTyped = TRUE]
  BY <1>3, <1>4, <1>5, <1>6, <1>7 DEF Turn, TypedText, PostCompletion
<1>9. d \in Candidate
  BY <1>1, <1>8 DEF Candidate
<1>10. d.hasTyped /\ d.prototype = c.prototype /\ d.annotation = b /\ d.post = c.post /\ d.marks = c.marks
  BY <1>8 DEF Candidate
<1>99. /\ d \in Candidate /\ d.hasTyped
       /\ d.prototype = cand.prototype \o Shown(chunk) /\ d.annotation = Bytes(d.prototype)
       /\ d.post = cand.post /\ d.marks = cand.marks
  BY <1>3, <1>4, <1>7, <1>9, <1>10
<1> QED
  BY <1>99, Zenon DEF NamingTurn

\* A turn behind it
NamedTurn(d, cand, chunk) ==
    /\ d \in Candidate /\ ~d.miss /\ d.hasTyped
    /\ d.prototype = cand.prototype \o Shown(chunk) /\ d.annotation = cand.annotation
    /\ d.post = cand.post \o Inserted(chunk)
    /\ d.marks = IF IsField(chunk) THEN cand.marks \o <<Bytes(cand.post), Bytes(d.post)>>
                 ELSE cand.marks

\* A chunk behind it is inserted too; a field leaves its marks.
LEMMA TurnAfter ==
    ASSUME NEW cand \in Candidate, NEW chunk \in Chunk, NEW prefix, NEW ins,
           ~cand.miss, cand.hasTyped, NEW d, d = Turn(cand, chunk, prefix, ins)
    PROVE  NamedTurn(d, cand, chunk)
<1>1. /\ cand.prototype \in Seq(Character) /\ cand.post \in Seq(Character) /\ cand.marks \in Seq(Nat)
      /\ Shown(chunk) \in Seq(Character) /\ Inserted(chunk) \in Seq(Character)
  BY ShownType DEF Candidate
<1>2. /\ cand.prototype \o Shown(chunk) \in Seq(Character)
      /\ cand.post \o Inserted(chunk) \in Seq(Character)
  BY <1>1, ConcatProperties
<1>3. PICK s \in Seq(Character) : s = cand.prototype \o Shown(chunk)
  BY <1>2
<1>4. PICK p \in Seq(Character) : p = cand.post \o Inserted(chunk)
  BY <1>2
<1>5. Bytes(cand.post) \in Nat /\ Bytes(p) \in Nat
  BY <1>1, BytesType
<1>6. \A x, y \in Nat : <<x, y>> \in Seq(Nat)
  OBVIOUS
<1>7. <<Bytes(cand.post), Bytes(p)>> \in Seq(Nat)
  BY <1>5, <1>6, Zenon
<1>8. cand.marks \o <<Bytes(cand.post), Bytes(p)>> \in Seq(Nat)
  BY <1>1, <1>7, ConcatProperties
<1>9. PICK m \in Seq(Nat) : m = IF IsField(chunk) THEN cand.marks \o <<Bytes(cand.post), Bytes(p)>>
                                ELSE cand.marks
  BY <1>1, <1>8
<1>10. PICK c \in Candidate : c = [cand EXCEPT !.prototype = s]
  BY DEF Candidate
<1>11. c.hasTyped /\ ~c.miss /\ c.prototype = s /\ c.post = cand.post /\ c.marks = cand.marks
  BY <1>10 DEF Candidate
<1>12. d = [c EXCEPT !.post = p, !.marks = m]
  <2>1. PostCompletion(c, chunk) = [c EXCEPT !.post = p, !.marks = m]
    BY <1>4, <1>9, <1>11, Zenon DEF PostCompletion
  <2>2. [c EXCEPT !.post = p, !.marks = m].hasTyped
    BY <1>11 DEF Candidate
  <2>3. TypedText(PostCompletion(c, chunk), chunk, prefix, ins) = PostCompletion(c, chunk)
    BY <2>1, <2>2, Zenon DEF TypedText
  <2>4. d = TypedText(PostCompletion(c, chunk), chunk, prefix, ins)
    BY <1>3, <1>10, Zenon DEF Turn
  <2> QED
    BY <2>1, <2>3, <2>4
<1>13. /\ d \in Candidate /\ d.hasTyped /\ ~d.miss /\ d.prototype = s /\ d.annotation = c.annotation
       /\ d.post = p /\ d.marks = m
  BY <1>11, <1>12 DEF Candidate
<1>14. c.annotation = cand.annotation
  BY <1>10 DEF Candidate
<1>99. /\ d \in Candidate /\ ~d.miss /\ d.hasTyped
       /\ d.prototype = cand.prototype \o Shown(chunk) /\ d.annotation = cand.annotation
       /\ d.post = cand.post \o Inserted(chunk)
       /\ d.marks = IF IsField(chunk) THEN cand.marks \o <<Bytes(cand.post), Bytes(d.post)>>
                    ELSE cand.marks
  BY <1>3, <1>4, <1>9, <1>13, <1>14
<1> QED
  BY <1>99, Zenon DEF NamedTurn

\* A loop that was left does nothing.
LEMMA TurnMiss ==
    ASSUME NEW cand, NEW chunk, NEW prefix, NEW ins, cand.miss
    PROVE  Turn(cand, chunk, prefix, ins) = cand
BY DEF Turn

-----------------------------------------------------------------------------
AllMarks(m, rest, k, size) == Len(m) = 2 * Ordinal(rest, k) /\ MarksOf(m, rest, k, size)
MoreMarks(w, m, rest, k, size) ==
    w = IF IsField(rest[k + 1]) THEN m \o <<size[k], size[k + 1]>> ELSE m

\* The marks of a field are appended where its number says.
LEMMA MarksStep ==
    ASSUME NEW rest, NEW k \in Nat, NEW size, size[k] \in Nat, size[k + 1] \in Nat,
           NEW marks \in Seq(Nat), AllMarks(marks, rest, k, size),
           NEW w, MoreMarks(w, marks, rest, k, size)
    PROVE  AllMarks(w, rest, k + 1, size)
<1>91. /\ Len(marks) = 2 * Ordinal(rest, k) /\ MarksOf(marks, rest, k, size)
      /\ w = IF IsField(rest[k + 1]) THEN marks \o <<size[k], size[k + 1]>> ELSE marks
  BY Zenon DEF AllMarks, MoreMarks
<1>1. PICK h \in Nat : h = Ordinal(rest, k)
  BY NumberStep
<1>2. Ordinal(rest, k + 1) = IF IsField(rest[k + 1]) THEN h + 1 ELSE h
  BY <1>1, NumberStep
<1>3. CASE ~IsField(rest[k + 1])
  <2>1. w = marks /\ Ordinal(rest, k + 1) = h
    BY <1>2, <1>3, <1>91
  <2>2. \A r \in 1..(k + 1) : IsField(rest[r]) => r \in 1..k
    BY <1>3
  <2>3. MarksOf(w, rest, k + 1, size)
    BY <2>1, <2>2, <1>91, Zenon DEF MarksOf
  <2> QED
    BY <1>1, <1>91, <2>1, <2>3 DEF AllMarks
<1>4. CASE IsField(rest[k + 1])
  <2>1. PICK two \in Seq(Nat) : two = <<size[k], size[k + 1]>>
    <3>1. \A x, y \in Nat : <<x, y>> \in Seq(Nat)
      OBVIOUS
    <3>2. <<size[k], size[k + 1]>> \in Seq(Nat)
      BY <3>1, Zenon
    <3> QED
      BY <3>2, Zenon
  <2>2. Len(two) = 2 /\ two[1] = size[k] /\ two[2] = size[k + 1]
    BY <2>1
  <2>3. w = marks \o two
    BY <1>4, <1>91, <2>1
  <2>4. /\ Len(w) = 2 * h + 2
        /\ \A i \in 1..(2 * h) : w[i] = marks[i]
        /\ w[2 * h + 1] = size[k] /\ w[2 * h + 2] = size[k + 1]
    <3>1. IsConcat(w, marks, two)
      BY <2>3, ConcatAt, Zenon
    <3>2. /\ Len(w) = Len(marks) + 2
          /\ \A i \in 1..Len(marks) : w[i] = marks[i]
          /\ \A i \in 1..2 : w[i + Len(marks)] = two[i]
      BY <3>1, <2>2 DEF IsConcat
    <3>3. 1 + 2 * h = 2 * h + 1 /\ 2 + 2 * h = 2 * h + 2 /\ Len(marks) = 2 * h
      BY <1>1, <1>91
    <3>4. w[1 + Len(marks)] = two[1] /\ w[2 + Len(marks)] = two[2]
      BY <3>2
    <3> QED
      BY <3>2, <3>3, <3>4, <2>2
  <2>5. Ordinal(rest, k + 1) = h + 1
    BY <1>2, <1>4
  <2>6. ASSUME NEW r \in 1..(k + 1), IsField(rest[r])
        PROVE  w[2 * Ordinal(rest, r) - 1] = size[r - 1] /\ w[2 * Ordinal(rest, r)] = size[r]
    <3>1. CASE r = k + 1
      <4>0. Ordinal(rest, r) = h + 1
        BY <3>1, <2>5
      <4>1. 2 * Ordinal(rest, r) - 1 = 2 * h + 1 /\ 2 * Ordinal(rest, r) = 2 * h + 2
        <5>1. 2 * (h + 1) - 1 = 2 * h + 1 /\ 2 * (h + 1) = 2 * h + 2
          OBVIOUS
        <5> QED
          BY ONLY <4>0, <5>1
      <4>2. r - 1 = k
        BY <3>1
      <4> QED
        BY <4>1, <4>2, <2>4, <3>1
    <3>2. CASE r # k + 1
      <4>1. r \in 1..k /\ r \in Nat \ {0}
        BY <3>2
      <4>2. PICK q \in Nat : q = Ordinal(rest, r) /\ q >= 1
        <5>1. Ordinal(rest, r) \in Nat /\ Ordinal(rest, r) = Ordinal(rest, r - 1) + 1
              /\ Ordinal(rest, r - 1) \in Nat
          BY <2>6, <4>1, FieldNumbers, Zenon
        <5> QED
          BY <5>1
      <4>3. q <= h
        BY <4>1, <4>2, <1>1, NumberGrows
      <4>4. 2 * q - 1 \in 1..(2 * h) /\ 2 * q \in 1..(2 * h)
        BY ONLY <4>2, <4>3, h \in Nat
      <4>5. marks[2 * q - 1] = size[r - 1] /\ marks[2 * q] = size[r]
        BY <2>6, <4>1, <4>2, <1>91 DEF MarksOf
      <4> QED
        BY <4>2, <4>4, <4>5, <2>4
    <3> QED
      BY <3>1, <3>2
  <2>7. MarksOf(w, rest, k + 1, size)
    BY <2>6 DEF MarksOf
  <2>8. Len(w) = 2 * Ordinal(rest, k + 1)
    BY ONLY <2>4, <2>5, h \in Nat
  <2> QED
    BY <2>7, <2>8, Zenon DEF AllMarks
<1> QED
  BY <1>3, <1>4

\* What the loop has made before there is a typed text
Nameless(d, shown) ==
    /\ d \in Candidate /\ ~d.miss /\ ~d.hasTyped
    /\ d.prototype = shown /\ d.post = <<>> /\ d.marks = <<>>

\* The loop up to the typed text
LEMMA LoopBefore ==
    ASSUME NEW chunks \in Seq(Chunk), NEW n \in 0..Len(chunks),
           \A i \in 1..n : chunks[i].kind # "typed",
           NEW c, NEW prefix, NEW ins, Loops(c, chunks, Len(chunks), prefix, ins)
    PROVE  Nameless(c[n], Joined(ShownSeq(chunks))[n])
<1>0. Len(chunks) \in Nat
  BY LenProperties
<1>1. PICK J : J = Joined(ShownSeq(chunks))
  OBVIOUS
<1>2. J[0] = <<>> /\ \A i \in 1..Len(chunks) : J[i] = J[i - 1] \o Shown(chunks[i]) /\ chunks[i] \in Chunk
  <2>1. ShownSeq(chunks) \in Seq(Seq(Character)) /\ Len(ShownSeq(chunks)) = Len(chunks)
    BY SeqsTypes
  <2>2. J[0] = <<>> /\ \A i \in 1..Len(chunks) : J[i] = J[i - 1] \o ShownSeq(chunks)[i]
    BY <1>1, <2>1, JoinedTypes
  <2> QED
    BY <2>2, SeqsTypes
<1> DEFINE P(i) == Nameless(c[i], J[i])
           T == {i \in Nat : i <= n => P(i)}
<1>3. P(0)
  <2>1. c[0] = NewCandidate
    BY Zenon DEF Loops
  <2> QED
    BY <1>2, <2>1, NewCandidateType DEF Nameless
<1>4. ASSUME NEW i \in Nat, i + 1 <= n, P(i) PROVE P(i + 1)
  <2>1. PICK k \in 1..Len(chunks) : k = i + 1 /\ k - 1 = i /\ k \in 1..n
    <3>1. i + 1 \in 1..Len(chunks) /\ (i + 1) - 1 = i /\ i + 1 \in 1..n
      BY <1>0, <1>4
    <3> QED
      BY <3>1
  <2>2. c[k] = Turn(c[i], chunks[k], prefix, ins)
    BY <2>1, Zenon DEF Loops
  <2>3. chunks[k].kind # "typed" /\ chunks[k] \in Chunk
    BY <2>1, <1>2
  <2>4. J[k] = J[i] \o Shown(chunks[k])
    BY <2>1, <1>2
  <2>5. c[i] \in Candidate /\ ~c[i].miss /\ ~c[i].hasTyped
    BY <1>4, Zenon DEF Nameless
  <2>6a. UnnamedTurn(c[k], c[i], chunks[k])
    BY <2>2, <2>3, <2>5, TurnBefore, Zenon
  <2>6. /\ c[k] \in Candidate /\ ~c[k].miss /\ ~c[k].hasTyped
        /\ c[k].prototype = c[i].prototype \o Shown(chunks[k])
        /\ c[k].post = c[i].post /\ c[k].marks = c[i].marks
    BY <2>6a, Zenon DEF UnnamedTurn
  <2>7. c[i].prototype = J[i] /\ c[i].post = <<>> /\ c[i].marks = <<>>
    BY <1>4, Zenon DEF Nameless
  <2> QED
    BY ONLY <2>1, <2>4, <2>6, <2>7 DEF Nameless
<1> HIDE DEF P
<1>5. 0 \in T
  BY <1>3
<1>6. ASSUME NEW i \in Nat, i \in T PROVE i + 1 \in T
  <2>1. i + 1 <= n => i <= n
    BY <1>0
  <2> QED
    BY <2>1, <1>4, <1>6
<1>7. Nat \subseteq T
  <2> HIDE DEF T
  <2> QED
    BY <1>5, <1>6, Induct
<1>8. P(n)
  BY <1>0, <1>7
<1> QED
  BY <1>1, <1>8 DEF P

Sizes(rest) == [j \in 0..Len(rest) |-> Bytes(Joined(InsertedSeq(rest))[j])]

\* What it has made k chunks behind it
Named(d, start, shown, rest, k) ==
    /\ d \in Candidate /\ d.hasTyped
    /\ d.annotation = Bytes(start) /\ d.prototype = shown
    /\ d.post = Joined(InsertedSeq(rest))[k]
    /\ Len(d.marks) = 2 * Ordinal(rest, k) /\ MarksOf(d.marks, rest, k, Sizes(rest))

\* The loop behind the typed text
LEMMA LoopBehind ==
    ASSUME NEW chunks \in Seq(Chunk), NEW t \in 1..Len(chunks),
           \A i \in 1..(t - 1) : chunks[i].kind # "typed", chunks[t].kind = "typed",
           NEW c, NEW prefix, NEW ins, Loops(c, chunks, Len(chunks), prefix, ins),
           NEW rest, rest = SubSeq(chunks, t + 1, Len(chunks)),
           NEW n \in 0..(Len(chunks) - t)
    PROVE  c[t + n].miss \/ Named(c[t + n], Joined(ShownSeq(chunks))[t],
                                  Joined(ShownSeq(chunks))[t + n], rest, n)
<1>0. Len(chunks) \in Nat /\ t - 1 \in 0..Len(chunks) /\ t \in Nat /\ t <= Len(chunks)
  BY LenProperties
<1>1. PICK J : J = Joined(ShownSeq(chunks))
  OBVIOUS
<1>2. \A i \in 1..Len(chunks) : J[i] = J[i - 1] \o Shown(chunks[i]) /\ chunks[i] \in Chunk
  <2>1. ShownSeq(chunks) \in Seq(Seq(Character)) /\ Len(ShownSeq(chunks)) = Len(chunks)
    BY SeqsTypes
  <2>2. \A i \in 1..Len(chunks) : J[i] = J[i - 1] \o ShownSeq(chunks)[i]
    BY <1>1, <2>1, JoinedTypes
  <2> QED
    BY <2>2, SeqsTypes
<1>3. PICK l \in Nat : l = Len(chunks) - t
  <2>1. Len(chunks) - t \in Nat
    BY ONLY <1>0
  <2> QED
    BY <2>1
<1>4. rest \in Seq(Chunk) /\ Len(rest) = l /\ \A i \in 1..l : rest[i] = chunks[t + i]
  BY <1>0, <1>3, Piece
<1>5. PICK Y : Y = Joined(InsertedSeq(rest))
  OBVIOUS
<1>6. /\ Y[0] = <<>> /\ \A i \in 1..l : Y[i] = Y[i - 1] \o Inserted(rest[i])
      /\ \A i \in 0..l : Y[i] \in Seq(Character)
  <2>1. InsertedSeq(rest) \in Seq(Seq(Character)) /\ Len(InsertedSeq(rest)) = l
    BY <1>4, SeqsTypes
  <2>2. /\ Y[0] = <<>> /\ \A i \in 1..l : Y[i] = Y[i - 1] \o InsertedSeq(rest)[i]
        /\ \A i \in 0..l : Y[i] \in Seq(Character)
    BY <1>5, <2>1, JoinedTypes
  <2>3. \A i \in 1..l : InsertedSeq(rest)[i] = Inserted(rest[i])
    BY <1>4, SeqsTypes
  <2> QED
    BY <2>2, <2>3
<1>7. PICK size : size = Sizes(rest)
  OBVIOUS
<1>8. \A i \in 0..l : size[i] = Bytes(Y[i]) /\ size[i] \in Nat
  <2>1. \A i \in 0..l : size[i] = Bytes(Y[i])
    BY <1>4, <1>5, <1>7 DEF Sizes
  <2> QED
    BY <2>1, <1>6, BytesType
<1> DEFINE P(i) == c[t + i].miss \/ Named(c[t + i], J[t], J[t + i], rest, i)
           T == {i \in Nat : i <= l => P(i)}
<1>9. P(0)
  <2>1. Nameless(c[t - 1], J[t - 1])
    BY <1>0, <1>1, LoopBefore
  <2>2. c[t] = Turn(c[t - 1], chunks[t], prefix, ins) /\ chunks[t] \in Chunk
    BY <1>2 DEF Loops
  <2>3. c[t - 1] \in Candidate /\ ~c[t - 1].miss /\ ~c[t - 1].hasTyped
    BY <2>1, Zenon DEF Nameless
  <2>4a. NamingTurn(c[t], c[t - 1], chunks[t])
    BY <2>2, <2>3, TurnTyped, Zenon
  <2>4. /\ c[t] \in Candidate /\ c[t].hasTyped
        /\ c[t].prototype = c[t - 1].prototype \o Shown(chunks[t])
        /\ c[t].annotation = Bytes(c[t].prototype)
        /\ c[t].post = c[t - 1].post /\ c[t].marks = c[t - 1].marks
    BY <2>4a, Zenon DEF NamingTurn
  <2>5. c[t - 1].prototype = J[t - 1] /\ c[t - 1].post = <<>> /\ c[t - 1].marks = <<>>
    BY <2>1, Zenon DEF Nameless
  <2>6. J[t] = J[t - 1] \o Shown(chunks[t])
    BY <1>2
  <2>7. Len(c[t].marks) = 2 * Ordinal(rest, 0)
    <3>1. Ordinal(rest, 0) = 0 /\ Len(<<>>) = 0
      BY NumberStep
    <3> QED
      BY <2>4, <2>5, <3>1
  <2>8. MarksOf(c[t].marks, rest, 0, size)
    BY DEF MarksOf
  <2>9. c[t].post = Y[0] /\ c[t].prototype = J[t]
    BY <2>4, <2>5, <2>6, <1>6
  <2>10. Named(c[t], J[t], J[t], rest, 0)
    BY ONLY <2>4, <2>7, <2>8, <2>9, <1>5, <1>7 DEF Named
  <2>11. t + 0 = t
    BY <1>0
  <2> QED
    BY <2>10, <2>11
<1>10. ASSUME NEW i \in Nat, i + 1 <= l, P(i) PROVE P(i + 1)
  <2>1. PICK k \in 1..Len(chunks) : k = t + (i + 1) /\ k - 1 = t + i
    <3>1. t + (i + 1) \in 1..Len(chunks) /\ (t + (i + 1)) - 1 = t + i
      BY ONLY <1>0, <1>3, <1>10
    <3> QED
      BY <3>1
  <2>2. PICK h \in 1..l : h = i + 1 /\ h - 1 = i
    <3>1. i + 1 \in 1..l /\ (i + 1) - 1 = i
      BY <1>10
    <3> QED
      BY <3>1
  <2>3. c[k] = Turn(c[t + i], chunks[k], prefix, ins)
    BY <2>1, Zenon DEF Loops
  <2>4. CASE c[t + i].miss
    <3>1. c[k] = c[t + i]
      BY <2>3, <2>4, TurnMiss
    <3> QED
      BY <2>1, <2>4, <3>1
  <2>5. CASE ~c[t + i].miss
    <3>1. Named(c[t + i], J[t], J[t + i], rest, i)
      BY <2>5, <1>10
    <3>2. PICK d : d = c[t + i]
      OBVIOUS
    <3>3. /\ d \in Candidate /\ d.hasTyped /\ d.annotation = Bytes(J[t]) /\ d.prototype = J[t + i]
          /\ d.post = Y[i] /\ Len(d.marks) = 2 * Ordinal(rest, i) /\ MarksOf(d.marks, rest, i, size)
      BY <3>1, <3>2, <1>5, <1>7, Zenon DEF Named
    <3>4. chunks[k] \in Chunk /\ rest[h] = chunks[k] /\ J[k] = J[t + i] \o Shown(chunks[k])
      BY <2>1, <2>2, <1>2, <1>4
    <3>5. ~d.miss /\ c[k] = Turn(d, chunks[k], prefix, ins)
      BY <2>3, <2>5, <3>2
    <3>6. PICK e : e = c[k]
      OBVIOUS
    <3>7a. NamedTurn(e, d, chunks[k])
      BY <3>3, <3>4, <3>5, <3>6, TurnAfter, Zenon
    <3>7. /\ e \in Candidate /\ ~e.miss /\ e.hasTyped
          /\ e.prototype = d.prototype \o Shown(chunks[k]) /\ e.annotation = d.annotation
          /\ e.post = d.post \o Inserted(chunks[k])
          /\ e.marks = IF IsField(chunks[k]) THEN d.marks \o <<Bytes(d.post), Bytes(e.post)>>
                       ELSE d.marks
      BY <3>7a, Zenon DEF NamedTurn
    <3>8. e.post = Y[h] /\ e.prototype = J[k]
      <4>1. Y[h] = Y[i] \o Inserted(rest[h])
        BY <1>6, <2>2
      <4> QED
        BY ONLY <4>1, <3>3, <3>4, <3>7
    <3>9. i \in 0..l /\ h \in 0..l
      BY <2>2
    <3>10. size[i] = Bytes(d.post) /\ size[h] = Bytes(e.post) /\ size[i] \in Nat /\ size[h] \in Nat
      BY <3>9, <3>3, <3>8, <1>8
    <3>11. e.marks = IF IsField(rest[i + 1]) THEN d.marks \o <<size[i], size[i + 1]>> ELSE d.marks
      BY ONLY <3>4, <3>7, <3>10, <2>2
    <3>12. Len(e.marks) = 2 * Ordinal(rest, i + 1) /\ MarksOf(e.marks, rest, i + 1, size)
      <4>1. d.marks \in Seq(Nat)
        BY <3>3 DEF Candidate
      <4>2. size[i] \in Nat /\ size[i + 1] \in Nat
        BY <3>10, <2>2
      <4>3. PICK m \in Seq(Nat) : m = d.marks
        BY <4>1
      <4>4. PICK w : w = e.marks
        OBVIOUS
      <4>5. MoreMarks(w, m, rest, i, size)
        BY <4>3, <4>4, <3>11, Zenon DEF MoreMarks
      <4>6. AllMarks(m, rest, i, size)
        BY <4>3, <3>3, Zenon DEF AllMarks
      <4>7. AllMarks(w, rest, i + 1, size)
        BY <4>2, <4>5, <4>6, MarksStep, Zenon
      <4> QED
        BY <4>4, <4>7, Zenon DEF AllMarks
    <3>13. e.annotation = Bytes(J[t])
      BY <3>3, <3>7
    <3>14. Named(e, J[t], J[k], rest, i + 1)
      BY ONLY <3>7, <3>8, <3>12, <3>13, <2>2, <1>5, <1>7 DEF Named
    <3> QED
      BY <2>1, <3>6, <3>14
  <2> QED
    BY <2>4, <2>5
<1> HIDE DEF P
<1>11. 0 \in T
  BY <1>9
<1>12. ASSUME NEW i \in Nat, i \in T PROVE i + 1 \in T
  BY <1>10, <1>12
<1>13. Nat \subseteq T
  <2> HIDE DEF T
  <2> QED
    BY <1>11, <1>12, Induct
<1>14. P(n)
  BY <1>3, <1>13
<1> QED
  BY <1>1, <1>14 DEF P

-----------------------------------------------------------------------------
(***************************************************************************)
(* The template that the client makes.                                     *)
(***************************************************************************)
IsTemplate(f, str, m, n) ==
    f = [k \in 0..n |-> IF k = 0 THEN <<>>
                        ELSE With(f[k - 1], str, From(m, k - 1), m[2 * k - 1], m[2 * k], k)]

\* The function that makes a template field by field exists.
LEMMA TemplateExists ==
    ASSUME NEW str, NEW m, NEW n \in Nat
    PROVE  \E f : IsTemplate(f, str, m, n)
<1> DEFINE Successor(f, k) == IF k = 0 THEN <<>>
                         ELSE With(f[k - 1], str, From(m, k - 1), m[2 * k - 1], m[2 * k], k)
           T == {k \in Nat : \E f : \A i \in 0..k : f[i] = Successor(f, i)}
<1>1. 0 \in T
  <2> DEFINE f == [i \in 0..0 |-> <<>>]
  <2>1. \A i \in 0..0 : f[i] = Successor(f, i)
    OBVIOUS
  <2> HIDE DEF f, Successor
  <2> QED
    BY <2>1
<1>2. ASSUME NEW k \in Nat, k \in T PROVE k + 1 \in T
  <2>1. PICK f : \A i \in 0..k : f[i] = Successor(f, i)
    BY <1>2, Zenon
  <2> DEFINE g == [i \in 0..(k + 1) |-> IF i <= k THEN f[i] ELSE Successor(f, i)]
  <2>2. ASSUME NEW i \in 0..(k + 1) PROVE g[i] = Successor(g, i)
    <3>1. i # 0 => i - 1 \in 0..(k + 1) /\ i - 1 <= k /\ g[i - 1] = f[i - 1]
      OBVIOUS
    <3>2. g[i] = Successor(f, i)
      <4> HIDE DEF Successor
      <4> QED
        BY <2>1
    <3> HIDE DEF g
    <3> QED
      BY <3>1, <3>2
  <2> HIDE DEF g, Successor
  <2>3. \E h : \A i \in 0..(k + 1) : h[i] = Successor(h, i)
    BY <2>2
  <2>4. k + 1 \in Nat
    OBVIOUS
  <2> QED
    BY <2>3, <2>4, Zenon DEF T
<1>3. n \in T
  <2> HIDE DEF T
  <2> QED
    BY <1>1, <1>2, Induct
<1>4. PICK f : \A i \in 0..n : f[i] = Successor(f, i)
  BY <1>3
<1> DEFINE g == [i \in 0..n |-> f[i]]
<1>5. \A i \in 0..n : g[i] = Successor(g, i)
  <2> SUFFICES ASSUME NEW i \in 0..n PROVE g[i] = Successor(g, i)
    OBVIOUS
  <2>1. i # 0 => i - 1 \in 0..n /\ g[i - 1] = f[i - 1]
    OBVIOUS
  <2>2. g[i] = Successor(f, i)
    BY <1>4
  <2> HIDE DEF g
  <2> QED
    BY <2>1, <2>2
<1>6. g = [i \in 0..n |-> g[i]]
  OBVIOUS
<1> HIDE DEF g
<1>7. IsTemplate(g, str, m, n)
  BY <1>5, <1>6 DEF IsTemplate
<1> QED
  BY <1>7, Zenon

\* It makes templates.
LEMMA TemplateIs ==
    ASSUME NEW str, NEW m, NEW n \in Nat, NEW f, IsTemplate(f, str, m, n)
    PROVE  Templates(f, str, m, n)
BY DEF IsTemplate, Templates

\* One that cannot be cut is signalled.
Fails(str, marks) ==
    LET cuts == <<0>> \o marks \o <<Len(str)>>
    IN  \E i \in 2..Len(cuts) : cuts[i - 1] > cuts[i]

\* What irony-completion--post-complete-yas-snippet returns
LEMMA SnippetIs ==
    ASSUME NEW str, NEW marks, NEW n \in Nat, Len(marks) = 2 * n
    PROVE  \E f : /\ Templates(f, str, marks, n)
                  /\ Snippet(str, marks) = IF Fails(str, marks) THEN ArgsOutOfRange
                                           ELSE Whole(f, str, marks, n)
<1> DEFINE h == Len(marks) \div 2
           g == CHOOSE f : f = [k \in 0..h |-> IF k = 0 THEN <<>>
                    ELSE With(f[k - 1], str, From(marks, k - 1), marks[2 * k - 1], marks[2 * k], k)]
<1>1. Snippet(str, marks) = IF Fails(str, marks) THEN ArgsOutOfRange
                            ELSE g[h] \o SubSeq(str, From(marks, h) + 1, Len(str)) \o <<Ends>>
  BY Zenon DEF Snippet, Fails, With, From, Ends
<1>2. h = n
  OBVIOUS
<1> HIDE DEF h
<1>3. \E f : IsTemplate(f, str, marks, h)
  BY <1>2, TemplateExists, Zenon
<1>4. \E f : f = [k \in 0..h |-> IF k = 0 THEN <<>>
                    ELSE With(f[k - 1], str, From(marks, k - 1), marks[2 * k - 1], marks[2 * k], k)]
  BY <1>3, Zenon DEF IsTemplate
<1>5. g = [k \in 0..h |-> IF k = 0 THEN <<>>
                    ELSE With(g[k - 1], str, From(marks, k - 1), marks[2 * k - 1], marks[2 * k], k)]
  BY <1>4, Zenon
<1> HIDE DEF g
<1>6. IsTemplate(g, str, marks, h)
  BY <1>5, Zenon DEF IsTemplate
<1>7. IsTemplate(g, str, marks, n)
  BY <1>2, <1>6
<1> QED
  BY <1>1, <1>2, <1>7, TemplateIs, Zenon DEF Whole

\* As the marks are in their order, it is the last one that may be too far.
LEMMA FailsIs ==
    ASSUME NEW S, NEW str \in Seq(S), NEW marks \in Seq(Nat), NEW n \in Nat \ {0}, Len(marks) = 2 * n,
           NEW l, Cuts(marks, n, l)
    PROVE  Fails(str, marks) <=> marks[2 * n] > Len(str)
<1>0. \A x \in Nat : <<x>> \in Seq(Nat)
  OBVIOUS
<1>1. Len(str) \in Nat
  BY LenProperties
<1>2. PICK w : w = <<0>> \o marks \o <<Len(str)>>
  OBVIOUS
<1>3. Len(w) = 2 * n + 2 /\ w[1] = 0 /\ w[2 * n + 2] = Len(str) /\ \A i \in 1..(2 * n) : w[i + 1] = marks[i]
  <2>1. PICK z \in Seq(Nat) : z = <<0>>
    <3>1. 0 \in Nat
      OBVIOUS
    <3> QED
      BY <3>1, <1>0, Zenon
  <2>2. Len(z) = 1 /\ z[1] = 0
    BY <2>1
  <2>3. PICK e \in Seq(Nat) : e = <<Len(str)>>
    BY <1>0, <1>1, Zenon
  <2>4. Len(e) = 1 /\ e[1] = Len(str)
    BY <2>3
  <2>5. PICK v \in Seq(Nat) : v = z \o marks
    BY ConcatAt, Zenon
  <2>6. IsConcat(v, z, marks) /\ IsConcat(w, v, e)
    <3>1. w = v \o e
      BY <1>2, <2>1, <2>3, <2>5
    <3> QED
      BY <2>5, <3>1, ConcatAt, Zenon
  <2>7. Len(v) = 1 + 2 * n /\ v[1] = 0 /\ \A i \in 1..(2 * n) : v[1 + i] = marks[i]
    BY <2>2, <2>6 DEF IsConcat
  <2>8. /\ Len(w) = Len(v) + 1 /\ \A i \in 1..Len(v) : w[i] = v[i]
        /\ w[Len(v) + 1] = e[1]
    BY <2>4, <2>6 DEF IsConcat
  <2>9. 1 \in 1..Len(v) /\ (1 + 2 * n) + 1 = 2 * n + 2
    BY <2>7
  <2>10. \A i \in 1..(2 * n) : 1 + i \in 1..(1 + 2 * n) /\ 1 + i = i + 1
    OBVIOUS
  <2> QED
    BY ONLY <2>4, <2>7, <2>8, <2>9, <2>10
<1>4. ASSUME NEW j \in 2..(2 * n) PROVE marks[j - 1] <= marks[j]
  <2>1. PICK k \in 1..n : j = 2 * k \/ (j = 2 * k - 1 /\ k > 1)
    <3>1. PICK k \in Nat : j = 2 * k \/ j = 2 * k - 1
      <4>1. (j + 1) \div 2 \in Nat /\ (j = 2 * ((j + 1) \div 2) \/ j = 2 * ((j + 1) \div 2) - 1)
        BY ONLY j \in 2..(2 * n), n \in Nat
      <4> QED
        BY <4>1
    <3>2. k \in 1..n /\ (j = 2 * k \/ (j = 2 * k - 1 /\ k > 1))
      BY ONLY <3>1, j \in 2..(2 * n), n \in Nat
    <3> QED
      BY <3>2
  <2>2. /\ From(marks, k - 1) <= marks[2 * k - 1] /\ marks[2 * k - 1] <= marks[2 * k]
    BY DEF Cuts
  <2>3. CASE j = 2 * k
    BY <2>2, <2>3
  <2>4. CASE j = 2 * k - 1 /\ k > 1
    <3>1. From(marks, k - 1) = marks[2 * (k - 1)]
      BY <2>4 DEF From
    <3>2. 2 * (k - 1) = j - 1
      BY ONLY <2>4, k \in 1..n
    <3> QED
      BY <2>2, <2>4, <3>1, <3>2
  <2> QED
    BY <2>1, <2>3, <2>4
<1>5. marks[1] \in Nat /\ marks[2 * n] \in Nat
  <2>1. 1 \in 1..n /\ n \in 1..n /\ 2 * 1 - 1 = 1
    OBVIOUS
  <2> QED
    BY <2>1 DEF Cuts
<1>6. Fails(str, marks) <=> \E i \in 2..(2 * n + 2) : w[i - 1] > w[i]
  BY <1>2, <1>3, Zenon DEF Fails
<1>7. ASSUME NEW i \in 2..(2 * n + 2), w[i - 1] > w[i] PROVE marks[2 * n] > Len(str)
  <2>1. CASE i = 2
    <3>1. w[2 - 1] = 0 /\ w[1 + 1] = marks[1]
      BY <1>3
    <3> QED
      BY <1>5, <1>7, <2>1, <3>1
  <2>2. CASE i = 2 * n + 2
    <3>1. 2 * n \in 1..(2 * n) /\ (2 * n + 2) - 1 = 2 * n + 1
      OBVIOUS
    <3>2. w[2 * n + 1] = marks[2 * n]
      BY <1>3, <3>1
    <3> QED
      BY <1>3, <1>7, <2>2, <3>1, <3>2
  <2>3. CASE i # 2 /\ i # 2 * n + 2
    <3>1. PICK j \in 2..(2 * n) : i = j + 1 /\ i - 1 = (j - 1) + 1
      <4>1. i - 1 \in 2..(2 * n) /\ i = (i - 1) + 1 /\ i - 1 = ((i - 1) - 1) + 1
        BY <2>3
      <4> QED
        BY <4>1
    <3>2. w[(j - 1) + 1] = marks[j - 1] /\ w[j + 1] = marks[j]
      <4>1. j - 1 \in 1..(2 * n) /\ j \in 1..(2 * n)
        OBVIOUS
      <4> QED
        BY <1>3, <4>1
    <3>3. marks[j - 1] <= marks[j] /\ marks[j - 1] > marks[j]
      BY <1>4, <1>7, <3>1, <3>2
    <3>4. marks[j - 1] \in Nat /\ marks[j] \in Nat
      <4>1. j - 1 \in 1..Len(marks) /\ j \in 1..Len(marks)
        OBVIOUS
      <4> QED
        BY <4>1, ElementOfSeq
    <3> QED
      BY ONLY <3>3, <3>4
  <2> QED
    BY <2>1, <2>2, <2>3
<1>8. ASSUME marks[2 * n] > Len(str) PROVE \E i \in 2..(2 * n + 2) : w[i - 1] > w[i]
  <2>1. 2 * n \in 1..(2 * n) /\ (2 * n + 2) - 1 = 2 * n + 1 /\ 2 * n + 2 \in 2..(2 * n + 2)
    OBVIOUS
  <2>2. w[2 * n + 1] = marks[2 * n]
    BY <1>3, <2>1
  <2>3. w[(2 * n + 2) - 1] > w[2 * n + 2]
    BY <1>3, <1>8, <2>1, <2>2
  <2> QED
    BY <2>1, <2>3
<1> QED
  BY <1>6, <1>7, <1>8

-----------------------------------------------------------------------------
(***************************************************************************)
(* The template that is meant.                                             *)
(***************************************************************************)
\* Posts(rest)[i] is what the first i chunks insert.
Posts(rest) == Joined(InsertedSeq(rest))
Lengths(rest) == [j \in 0..Len(rest) |-> Len(Posts(rest)[j])]

IsMiddle(b, w, a, v) == SubSeq(w, Len(a) + 1, Len(v)) = b

\* What was joined between two texts is found between their lengths.
LEMMA MiddlePiece ==
    ASSUME NEW S, NEW a \in Seq(S), NEW b \in Seq(S), NEW v \in Seq(S), Follows(v, a, b, S),
           NEW w \in Seq(S), Grows(v, w, S)
    PROVE  IsMiddle(b, w, a, v)
<1>0. PICK c \in Seq(S) : w = v \o c
  BY Zenon DEF Grows
<1>1. /\ IsConcat(v, a, b) /\ IsConcat(w, v, c)
  BY <1>0, ConcatAt, Zenon DEF Follows
<1>2. /\ Len(a) \in Nat /\ Len(b) \in Nat /\ Len(v) = Len(a) + Len(b) /\ Len(v) \in Nat
      /\ Len(w) = Len(v) + Len(c) /\ Len(c) \in Nat
      /\ \A i \in 1..Len(b) : v[Len(a) + i] = b[i]
      /\ \A i \in 1..Len(v) : w[i] = v[i]
  BY <1>1 DEF IsConcat
<1>3. PICK s : s = SubSeq(w, Len(a) + 1, Len(v))
  OBVIOUS
<1>4. s \in Seq(S) /\ Len(s) = Len(v) - Len(a) /\ \A i \in 1..(Len(v) - Len(a)) : s[i] = w[Len(a) + i]
  <2>1. Len(a) <= Len(v) /\ Len(v) <= Len(w)
    BY ONLY <1>2
  <2> QED
    BY <1>2, <1>3, <2>1, Piece
<1>5. Len(v) - Len(a) = Len(b) /\ \A i \in 1..Len(b) : Len(a) + i \in 1..Len(v)
  BY ONLY <1>2
<1>6. \A i \in 1..Len(b) : s[i] = b[i]
  BY ONLY <1>2, <1>4, <1>5
<1>7. s = b
  BY ONLY <1>4, <1>5, <1>6, b \in Seq(S), SeqEqual
<1> QED
  BY <1>3, <1>7, Zenon DEF IsMiddle

\* The texts after each chunk, and all of them at the end
LEMMA PostsAre ==
    ASSUME NEW rest \in Seq(Chunk), NEW Y, Y = Posts(rest)
    PROVE  /\ Len(rest) \in Nat
           /\ Y[0] = <<>> /\ \A i \in 1..Len(rest) : Y[i] = Y[i - 1] \o Inserted(rest[i])
           /\ \A i \in 0..Len(rest) : Y[i] \in Seq(Character) /\ Len(Y[i]) \in Nat /\ Bytes(Y[i]) \in Nat
           /\ \A i \in 1..Len(rest) : rest[i] \in Chunk /\ Inserted(rest[i]) \in Seq(Character)
           /\ AllOf(rest, Inserted) = Y[Len(rest)]
<1>1. PICK seqs \in Seq(Seq(Character)) : seqs = InsertedSeq(rest)
  BY SeqsTypes, Zenon
<1>2. Len(seqs) = Len(rest) /\ \A i \in 1..Len(rest) : seqs[i] = Inserted(rest[i]) /\ rest[i] \in Chunk
  BY <1>1, SeqsTypes
<1>3. AllOf(rest, Inserted) = FlattenSeq(seqs)
  BY <1>1, SeqsTypes
<1>4. Y = Joined(seqs)
  BY <1>1 DEF Posts
<1>5. /\ Len(seqs) \in Nat /\ \A i \in 1..Len(seqs) : seqs[i] \in Seq(Character)
      /\ Y[0] = <<>> /\ \A i \in 1..Len(seqs) : Y[i] = Y[i - 1] \o seqs[i]
      /\ \A i \in 0..Len(seqs) : Y[i] \in Seq(Character)
      /\ FlattenSeq(seqs) = Y[Len(seqs)]
  BY <1>4, JoinedTypes
<1>6. \A i \in 0..Len(rest) : Len(Y[i]) \in Nat /\ Bytes(Y[i]) \in Nat
  BY <1>2, <1>5, BytesType, LenProperties
<1>7. \A i \in 1..Len(rest) : Y[i] = Y[i - 1] \o Inserted(rest[i])
  BY <1>2, <1>5
<1>8. \A i \in 1..Len(rest) : rest[i] \in Chunk /\ Inserted(rest[i]) \in Seq(Character)
  BY <1>2, <1>5
<1>9. AllOf(rest, Inserted) = Y[Len(rest)]
  BY <1>2, <1>3, <1>5
<1>10. Len(rest) \in Nat /\ \A i \in 0..Len(rest) : Y[i] \in Seq(Character)
  BY <1>2, <1>5
<1>11. Y[0] = <<>>
  BY <1>5
<1> QED
  BY <1>6, <1>7, <1>8, <1>9, <1>10, <1>11

\* They grow, in bytes not less than in characters.
LEMMA PostsGrow ==
    ASSUME NEW rest \in Seq(Chunk), NEW Y, Y = Posts(rest),
           NEW i \in 0..Len(rest), NEW j \in 0..Len(rest), i <= j
    PROVE  /\ Len(Y[i]) <= Len(Y[j]) /\ Bytes(Y[i]) <= Bytes(Y[j])
           /\ Bytes(Y[i]) - Len(Y[i]) <= Bytes(Y[j]) - Len(Y[j])
           /\ Grows(Y[i], Y[j], Character)
<1>1. PICK seqs \in Seq(Seq(Character)) : seqs = InsertedSeq(rest)
  BY SeqsTypes, Zenon
<1>2. Len(seqs) = Len(rest) /\ Y = Joined(seqs)
  BY <1>1, SeqsTypes DEF Posts
<1>3. Grows(Y[i], Y[j], Character)
  <2>1. i \in 0..Len(seqs) /\ j \in 0..Len(seqs)
    BY <1>2
  <2>2. Grows(Joined(seqs)[i], Joined(seqs)[j], Character)
    BY <2>1, JoinedGrows, Zenon
  <2> QED
    BY <2>2, <1>2
<1>5. PICK t \in Seq(Character) : Y[j] = Y[i] \o t
  BY <1>3, Zenon DEF Grows
<1>4. Y[i] \in Seq(Character)
  BY PostsAre
<1> QED
  BY <1>3, <1>4, <1>5, LengthsGrow

\* Between two of them is what the chunk inserts.
LEMMA PostsPiece ==
    ASSUME NEW rest \in Seq(Chunk), NEW Y, Y = Posts(rest), NEW i \in 1..Len(rest)
    PROVE  SubSeq(Y[Len(rest)], Len(Y[i - 1]) + 1, Len(Y[i])) = Inserted(rest[i])
<1>1. /\ Len(rest) \in Nat
      /\ Y[i] = Y[i - 1] \o Inserted(rest[i]) /\ Inserted(rest[i]) \in Seq(Character)
      /\ \A j \in 0..Len(rest) : Y[j] \in Seq(Character)
  BY PostsAre
<1>2. i \in 0..Len(rest) /\ i - 1 \in 0..Len(rest) /\ Len(rest) \in 0..Len(rest) /\ i <= Len(rest)
  BY <1>1
<1>3. Grows(Y[i], Y[Len(rest)], Character)
  BY <1>2, PostsGrow
<1>4. Y[i - 1] \in Seq(Character) /\ Y[i] \in Seq(Character) /\ Y[Len(rest)] \in Seq(Character)
  BY <1>1, <1>2
<1>5. Follows(Y[i], Y[i - 1], Inserted(rest[i]), Character)
  BY <1>1, Zenon DEF Follows
<1>6. IsMiddle(Inserted(rest[i]), Y[Len(rest)], Y[i - 1], Y[i])
  BY <1>1, <1>3, <1>4, <1>5, MiddlePiece, Zenon
<1> QED
  BY <1>6, Zenon DEF IsMiddle

\* Marks with the lengths or the sizes of the texts are in their order.
LEMMA LengthsCut ==
    ASSUME NEW rest \in Seq(Chunk), NEW Y, Y = Posts(rest), NEW p, NEW m,
           MarksOf(p, rest, Len(rest), Lengths(rest)), MarksOf(m, rest, Len(rest), Sizes(rest))
    PROVE  /\ Cuts(p, Ordinal(rest, Len(rest)), Len(Y[Len(rest)]))
           /\ Cuts(m, Ordinal(rest, Len(rest)), Bytes(Y[Len(rest)]))
<1>1. PICK l \in Nat : l = Len(rest)
  BY PostsAre, Zenon
<1>2. PICK a : a = Lengths(rest)
  OBVIOUS
<1>3. PICK b : b = Sizes(rest)
  OBVIOUS
<1>4. \A i \in 0..l : a[i] = Len(Y[i]) /\ b[i] = Bytes(Y[i]) /\ a[i] \in Nat /\ b[i] \in Nat
  <2>1. \A i \in 0..l : a[i] = Len(Y[i]) /\ b[i] = Bytes(Y[i])
    BY <1>1, <1>2, <1>3 DEF Lengths, Sizes, Posts
  <2>2. \A i \in 0..l : Len(Y[i]) \in Nat /\ Bytes(Y[i]) \in Nat
    BY <1>1, PostsAre
  <2> QED
    BY <2>1, <2>2
<1>5. \A i, j \in 0..l : i <= j => a[i] <= a[j] /\ b[i] <= b[j]
  <2> TAKE i, j \in 0..l
  <2> HAVE i <= j
  <2>1. Len(Y[i]) <= Len(Y[j]) /\ Bytes(Y[i]) <= Bytes(Y[j])
    BY <1>1, PostsGrow
  <2> QED
    BY <1>4, <2>1
<1>6. l \in 0..l
  OBVIOUS
<1>7. Cuts(p, Ordinal(rest, l), a[l])
  <2> SUFFICES ASSUME NEW k \in 1..Ordinal(rest, l)
               PROVE  /\ From(p, k - 1) \in Nat /\ p[2 * k - 1] \in Nat /\ p[2 * k] \in Nat
                      /\ From(p, k - 1) <= p[2 * k - 1] /\ p[2 * k - 1] <= p[2 * k] /\ p[2 * k] <= a[l]
    BY Zenon DEF Cuts
  <2>1. MarksOf(p, rest, l, a) /\ (\A i \in 0..l : a[i] \in Nat) /\ \A i, j \in 0..l : i <= j => a[i] <= a[j]
    BY <1>1, <1>2, <1>4, <1>5
  <2> QED
    BY <2>1, MarksCut
<1>8. Cuts(m, Ordinal(rest, l), b[l])
  <2> SUFFICES ASSUME NEW k \in 1..Ordinal(rest, l)
               PROVE  /\ From(m, k - 1) \in Nat /\ m[2 * k - 1] \in Nat /\ m[2 * k] \in Nat
                      /\ From(m, k - 1) <= m[2 * k - 1] /\ m[2 * k - 1] <= m[2 * k] /\ m[2 * k] <= b[l]
    BY Zenon DEF Cuts
  <2>1. MarksOf(m, rest, l, b) /\ (\A i \in 0..l : b[i] \in Nat) /\ \A i, j \in 0..l : i <= j => b[i] <= b[j]
    BY <1>1, <1>3, <1>4, <1>5
  <2> QED
    BY <2>1, MarksCut
<1> QED
  BY <1>1, <1>4, <1>6, <1>7, <1>8

\* The last field up to i ends before what comes behind i.
LEMMA FromBefore ==
    ASSUME NEW rest \in Seq(Chunk), NEW Y, Y = Posts(rest), NEW p,
           MarksOf(p, rest, Len(rest), Lengths(rest)), NEW i \in 0..Len(rest)
    PROVE  From(p, Ordinal(rest, i)) \in Nat /\ From(p, Ordinal(rest, i)) <= Len(Y[i])
<1>1. Len(rest) \in Nat /\ Len(Y[i]) \in Nat
  BY PostsAre
<1>2. Ordinal(rest, i) \in Nat
  BY <1>1, NumberStep
<1>3. CASE Ordinal(rest, i) = 0
  BY <1>1, <1>3 DEF From
<1>4. CASE Ordinal(rest, i) # 0
  <2>1. Ordinal(rest, i) \in 1..Ordinal(rest, i) /\ i \in Nat
    BY <1>1, <1>2, <1>4
  <2>2. PICK q \in 1..i : IsField(rest[q]) /\ Ordinal(rest, q) = Ordinal(rest, i)
    BY <2>1, PlaceExists
  <2>3. q \in 1..Len(rest) /\ q \in 0..Len(rest) /\ q <= i
    BY <1>1
  <2>4. p[2 * Ordinal(rest, q)] = Lengths(rest)[q]
    BY <2>2, <2>3 DEF MarksOf
  <2>5. Lengths(rest)[q] = Len(Y[q]) /\ Len(Y[q]) \in Nat
    BY <2>3, PostsAre DEF Lengths
  <2>6. Len(Y[q]) <= Len(Y[i])
    BY <2>3, PostsGrow
  <2> QED
    BY <1>4, <2>2, <2>4, <2>5, <2>6 DEF From
<1> QED
  BY <1>3, <1>4

-----------------------------------------------------------------------------
MeantSeq(rest) ==
    [i \in 1..Len(rest) |-> IF IsField(rest[i]) THEN Field(Ordinal(rest, i), rest[i].text)
                            ELSE Inserted(rest[i])]

\* The pieces of the template that is meant are texts and fields.
LEMMA MeantTypes ==
    ASSUME NEW rest \in Seq(Chunk)
    PROVE  MeantSeq(rest) \in Seq(Seq(Token)) /\ Len(MeantSeq(rest)) = Len(rest)
<1>1. Len(rest) \in Nat /\ \A i \in 1..Len(rest) : rest[i] \in Chunk
  BY LenProperties, ElementOfSeq
<1>2. Seq(Character) \subseteq Seq(Token)
  <2>1. Character \subseteq Token
    BY MarkTypes
  <2> QED
    BY <2>1
<1>3. ASSUME NEW i \in 1..Len(rest)
      PROVE  (IF IsField(rest[i]) THEN Field(Ordinal(rest, i), rest[i].text) ELSE Inserted(rest[i]))
             \in Seq(Token)
  <2>1. rest[i].text \in Seq(Token) /\ Inserted(rest[i]) \in Seq(Token)
    BY <1>1, <1>2, ShownType
  <2>2. i \in Nat
    OBVIOUS
  <2>3. Ordinal(rest, i) \in Nat
    BY <2>2, NumberStep
  <2>4. Field(Ordinal(rest, i), rest[i].text) \in Seq(Token)
    BY <2>1, <2>3, FieldAt
  <2> QED
    BY <2>1, <2>4
<1> QED
  BY <1>1, <1>3 DEF MeantSeq

\* The template that is meant is that of the text cut at its lengths.
LEMMA MeantIs ==
    ASSUME NEW rest \in Seq(Chunk), NEW p, MarksOf(p, rest, Len(rest), Lengths(rest)),
           NEW n, n = Ordinal(rest, Len(rest)), NEW post, post = Posts(rest)[Len(rest)],
           NEW f, Templates(f, post, p, n)
    PROVE  FlattenSeq(MeantSeq(rest)) \o <<Ends>> = Whole(f, post, p, n)
<1>1. PICK l \in Nat : l = Len(rest)
  BY PostsAre, Zenon
<1>2. PICK Y : Y = Posts(rest)
  OBVIOUS
<1>3. PICK Z : Z = MeantSeq(rest)
  OBVIOUS
<1>4. PICK Q : Q = Joined(Z)
  OBVIOUS
<1>5. /\ Z \in Seq(Seq(Token)) /\ Len(Z) = l
      /\ \A i \in 1..l : Z[i] = IF IsField(rest[i]) THEN Field(Ordinal(rest, i), rest[i].text)
                                ELSE Inserted(rest[i])
  BY <1>1, <1>3, MeantTypes DEF MeantSeq
<1>6. /\ Q[0] = <<>> /\ \A i \in 1..l : Q[i] = Q[i - 1] \o Z[i]
      /\ \A i \in 0..l : Q[i] \in Seq(Token)
      /\ FlattenSeq(Z) = Q[l]
  BY <1>4, <1>5, JoinedTypes
<1>7. Cuts(p, n, Len(post))
  <2>1. PICK m : MarksOf(m, rest, Len(rest), Sizes(rest))
    BY <1>1, MarksExist, Zenon
  <2> QED
    BY <2>1, LengthsCut
<1>8. post \in Seq(Character) /\ post \in Seq(Token) /\ n \in Nat
  <2>1. post \in Seq(Character)
    <3>1. Len(rest) \in 0..Len(rest)
      BY <1>1
    <3>2. Posts(rest)[Len(rest)] \in Seq(Character)
      BY <3>1, PostsAre
    <3> QED
      BY <3>2
  <2>2. Character \subseteq Token
    BY MarkTypes
  <2>3. n \in Nat
    BY <1>1, NumberStep
  <2> QED
    BY <2>1, <2>2, <2>3
<1>9. \A k \in 0..n : f[k] \in Seq(Token)
  BY <1>7, <1>8, TemplatePartial DEF Partial
<1>10. \A i \in 0..l : /\ Y[i] \in Seq(Character) /\ Len(Y[i]) \in Nat
                       /\ Len(Y[i]) <= Len(post)
  <2> TAKE i \in 0..l
  <2>1. l \in 0..l /\ i <= l
    OBVIOUS
  <2> QED
    BY <2>1, <1>1, <1>2, PostsAre, PostsGrow
<1> DEFINE P(i) == Q[i] = f[Ordinal(rest, i)] \o SubSeq(post, From(p, Ordinal(rest, i)) + 1, Len(Y[i]))
           T == {i \in Nat : i <= l => P(i)}
<1>11. P(0)
  <2>1. Ordinal(rest, 0) = 0 /\ From(p, 0) = 0 /\ f[0] = <<>>
    BY NumberStep, Zenon DEF From, Templates
  <2>2. Y[0] = <<>>
    BY <1>2, PostsAre
  <2>3. SubSeq(post, 0 + 1, Len(<<>>)) = <<>>
    BY <1>8
  <2>4. <<>> \o <<>> = <<>>
    OBVIOUS
  <2> QED
    BY <2>1, <2>2, <2>3, <2>4, <1>6
<1>12. ASSUME NEW i \in Nat, i + 1 <= l, P(i) PROVE P(i + 1)
  <2>1. PICK k \in 1..l : k = i + 1 /\ k - 1 = i
    <3>1. i + 1 \in 1..l /\ (i + 1) - 1 = i
      BY <1>12
    <3> QED
      BY <3>1
  <2>2. PICK h \in Nat : h = Ordinal(rest, i)
    BY NumberStep
  <2>3. Ordinal(rest, k) = IF IsField(rest[k]) THEN h + 1 ELSE h
    BY <2>1, <2>2, NumberStep
  <2>4. PICK a \in Nat : a = Len(Y[i]) /\ a <= Len(post)
    BY <1>10, <2>1
  <2>5. PICK b \in Nat : b = Len(Y[k]) /\ b <= Len(post)
    BY <1>10
  <2>6. a <= b /\ SubSeq(post, a + 1, b) = Inserted(rest[k])
    <3>1. i \in 0..Len(rest) /\ k \in 0..Len(rest) /\ i <= k /\ k \in 1..Len(rest)
      BY <1>1, <2>1
    <3>2. Len(Y[i]) <= Len(Y[k])
      BY <3>1, <1>2, PostsGrow
    <3>3. SubSeq(Y[Len(rest)], Len(Y[k - 1]) + 1, Len(Y[k])) = Inserted(rest[k])
      BY <3>1, <1>2, PostsPiece
    <3> QED
      BY <3>2, <3>3, <2>1, <2>4, <2>5, <1>2
  <2>7. PICK c \in Nat : c = From(p, h) /\ c <= a
    <3>1. i \in 0..Len(rest)
      BY <1>1, <2>1
    <3> QED
      BY <3>1, <1>2, <2>2, <2>4, FromBefore
  <2>8. h \in 0..n
    <3>1. i \in Nat /\ Len(rest) \in Nat /\ i <= Len(rest)
      BY <1>1, <2>1
    <3>2. Ordinal(rest, i) <= Ordinal(rest, Len(rest))
      BY <3>1, NumberGrows
    <3> QED
      BY <3>2, <2>2, <1>8
  <2>9. PICK s \in Seq(Token) : s = SubSeq(post, c + 1, a)
    <3>1. SubSeq(post, c + 1, a) \in Seq(Token)
      BY <2>4, <2>7, <1>8, Piece
    <3> QED
      BY <3>1
  <2>10. PICK x \in Seq(Token) : x = SubSeq(post, a + 1, b)
    <3>1. SubSeq(post, a + 1, b) \in Seq(Token)
      BY <2>5, <2>6, <1>8, Piece
    <3> QED
      BY <3>1
  <2>11. PICK g \in Seq(Token) : g = f[h]
    BY <1>9, <2>8
  <2>12. Q[i] = g \o s
    BY <1>12, <2>2, <2>4, <2>7, <2>9, <2>11
  <2>13. Q[k] = (g \o s) \o Z[k]
    BY <1>6, <2>1, <2>12
  <2>14. CASE ~IsField(rest[k])
    <3>1. Z[k] = x
      BY <1>5, <2>6, <2>10, <2>14
    <3>2. Associate(g, s, x)
      BY TokenConcat
    <3>3. SubSeq(post, c + 1, b) = s \o x
      <4>1. c <= a /\ a <= b /\ b <= Len(post)
        BY <2>5, <2>6, <2>7
      <4>2. SubSeq(post, c + 1, b) = SubSeq(post, c + 1, a) \o SubSeq(post, a + 1, b)
        BY ONLY <4>1, PieceSplit, <1>8, c \in Nat, a \in Nat, b \in Nat
      <4> QED
        BY <4>2, <2>9, <2>10
    <3>4. Q[k] = g \o SubSeq(post, c + 1, b)
      BY ONLY <2>13, <3>1, <3>2, <3>3 DEF Associate
    <3>5. Ordinal(rest, k) = h
      BY <2>3, <2>14
    <3> QED
      BY <3>4, <3>5, <2>1, <2>5, <2>7, <2>11
  <2>15. CASE IsField(rest[k])
    <3>1. Ordinal(rest, k) = h + 1
      BY <2>3, <2>15
    <3>2. Z[k] = Field(h + 1, x)
      <4>1. Inserted(rest[k]) = rest[k].text
        <5>1. rest[k] \in Chunk
          BY <1>1, PostsAre
        <5> QED
          BY <5>1, <2>15, ShownType
      <4> QED
        BY <4>1, <1>5, <2>6, <2>10, <2>15, <3>1
    <3>3. p[2 * (h + 1) - 1] = a /\ p[2 * (h + 1)] = b
      <4>1. p[2 * Ordinal(rest, k) - 1] = Lengths(rest)[k - 1] /\ p[2 * Ordinal(rest, k)] = Lengths(rest)[k]
        BY <1>1, <2>15 DEF MarksOf
      <4>2. Lengths(rest)[k - 1] = a /\ Lengths(rest)[k] = b
        <5>1. k - 1 \in 0..Len(rest) /\ k \in 0..Len(rest)
          BY <1>1
        <5>2. Lengths(rest)[k - 1] = Len(Y[k - 1]) /\ Lengths(rest)[k] = Len(Y[k])
          BY <5>1, <1>2 DEF Lengths
        <5> QED
          BY <5>2, <2>1, <2>4, <2>5
      <4> QED
        BY <4>1, <4>2, <3>1
    <3>4. h + 1 \in 0..n /\ h + 1 \in 1..n /\ (h + 1) - 1 = h /\ h + 1 # 0
      <4>1. k \in Nat /\ Len(rest) \in Nat /\ k <= Len(rest)
        BY <1>1
      <4>2. Ordinal(rest, k) <= Ordinal(rest, Len(rest))
        BY <4>1, NumberGrows
      <4>3. h + 1 <= n
        BY <4>2, <3>1
      <4> QED
        BY ONLY <4>3, h \in Nat, <1>8
    <3>5. f[h + 1] = With(f[(h + 1) - 1], post, From(p, (h + 1) - 1), p[2 * (h + 1) - 1], p[2 * (h + 1)], h + 1)
      BY <3>4, Zenon DEF Templates
    <3>6. f[h + 1] = With(g, post, c, a, b, h + 1)
      BY ONLY <3>3, <3>4, <3>5, <2>7, <2>11
    <3>7. f[h + 1] = (g \o s) \o Field(h + 1, x)
      BY <3>6, <2>9, <2>10, Zenon DEF With
    <3>8. Q[k] = f[h + 1]
      BY <2>13, <3>2, <3>7
    <3>9. SubSeq(post, From(p, h + 1) + 1, b) = <<>>
      <4>1. From(p, h + 1) = b
        BY <3>3, <3>4 DEF From
      <4>2. SubSeq(post, b + 1, b) = <<>>
        BY <2>5, <1>8
      <4> QED
        BY <4>1, <4>2
    <3>10. f[h + 1] \o <<>> = f[h + 1]
      BY <1>9, <3>4, ConcatEmptySeq
    <3>11. Q[k] = f[h + 1] \o SubSeq(post, From(p, h + 1) + 1, b)
      BY ONLY <3>8, <3>9, <3>10
    <3> QED
      BY <3>11, <3>1, <2>1, <2>5
  <2> QED
    BY <2>14, <2>15
<1> HIDE DEF P
<1>13. 0 \in T
  BY <1>11
<1>14. ASSUME NEW i \in Nat, i \in T PROVE i + 1 \in T
  BY <1>12, <1>14
<1>15. Nat \subseteq T
  <2> HIDE DEF T
  <2> QED
    BY <1>13, <1>14, Induct
<1>16. P(l)
  BY <1>15
<1>17. FlattenSeq(MeantSeq(rest)) = f[n] \o SubSeq(post, From(p, n) + 1, Len(post))
  BY <1>16, <1>1, <1>2, <1>3, <1>6 DEF P
<1> QED
  BY <1>17, Zenon DEF Whole

-----------------------------------------------------------------------------
(***************************************************************************)
(* The marks of the server and those that are meant.                       *)
(***************************************************************************)
MarksAt(p, m, k, a, b) ==
    /\ p[2 * k - 1] = Len(a) /\ p[2 * k] = Len(b)
    /\ m[2 * k - 1] = Bytes(a) /\ m[2 * k] = Bytes(b)

\* The marks of a field: those of the server, m, count bytes, those that are
\* meant, p, characters.
LEMMA MarkAt ==
    ASSUME NEW rest \in Seq(Chunk), NEW Y, Y = Posts(rest), NEW p, NEW m,
           MarksOf(p, rest, Len(rest), Lengths(rest)), MarksOf(m, rest, Len(rest), Sizes(rest)),
           NEW r \in 1..Len(rest), IsField(rest[r]), NEW k, k = Ordinal(rest, r)
    PROVE  MarksAt(p, m, k, Y[r - 1], Y[r])
<1>1. Len(rest) \in Nat
  BY PostsAre
<1>2. r - 1 \in 0..Len(rest) /\ r \in 0..Len(rest)
  BY <1>1
<1>3. /\ Lengths(rest)[r - 1] = Len(Y[r - 1]) /\ Lengths(rest)[r] = Len(Y[r])
      /\ Sizes(rest)[r - 1] = Bytes(Y[r - 1]) /\ Sizes(rest)[r] = Bytes(Y[r])
  BY <1>2 DEF Lengths, Sizes, Posts
<1>4. p[2 * k - 1] = Lengths(rest)[r - 1] /\ p[2 * k] = Lengths(rest)[r]
  BY DEF MarksOf
<1>5. m[2 * k - 1] = Sizes(rest)[r - 1] /\ m[2 * k] = Sizes(rest)[r]
  BY DEF MarksOf
<1> QED
  BY <1>3, <1>4, <1>5 DEF MarksAt

\* The marks of the server are nowhere in front of the places meant.
LEMMA MarksBehind ==
    ASSUME NEW rest \in Seq(Chunk), NEW p, NEW m, NEW n, n = Ordinal(rest, Len(rest)),
           MarksOf(p, rest, Len(rest), Lengths(rest)), MarksOf(m, rest, Len(rest), Sizes(rest))
    PROVE  Behind(m, p, n)
<1>1. PICK Y : Y = Posts(rest)
  OBVIOUS
<1>2. Len(rest) \in Nat /\ n \in Nat
  <2>1. Len(rest) \in Nat
    BY <1>1, PostsAre
  <2> QED
    BY <2>1, NumberStep
<1>3. ASSUME NEW k \in 1..n
      PROVE  /\ p[2 * k - 1] <= m[2 * k - 1]
             /\ m[2 * k - 1] - p[2 * k - 1] <= m[2 * k] - p[2 * k]
             /\ k < n => m[2 * k] - p[2 * k] <= m[2 * k + 1] - p[2 * k + 1]
  <2>1. PICK r \in 1..Len(rest) : IsField(rest[r]) /\ Ordinal(rest, r) = k
    BY <1>2, PlaceExists
  <2>2. /\ p[2 * k - 1] = Len(Y[r - 1]) /\ p[2 * k] = Len(Y[r])
        /\ m[2 * k - 1] = Bytes(Y[r - 1]) /\ m[2 * k] = Bytes(Y[r])
    <3>1. MarksAt(p, m, k, Y[r - 1], Y[r])
      BY <1>1, <2>1, MarkAt, Zenon
    <3> QED
      BY <3>1, Zenon DEF MarksAt
  <2>3. r - 1 \in 0..Len(rest) /\ r \in 0..Len(rest) /\ r - 1 <= r /\ 0 \in 0..Len(rest) /\ 0 <= r - 1
    BY <1>2
  <2>4. Bytes(Y[r - 1]) - Len(Y[r - 1]) <= Bytes(Y[r]) - Len(Y[r])
    BY <1>1, <2>3, PostsGrow
  <2>5. Len(Y[r - 1]) <= Bytes(Y[r - 1])
    <3>1. PICK y \in Seq(Character) : y = Y[r - 1]
      BY <1>1, <2>3, PostsAre
    <3>2. Bytes(y) = Len(y) + Excess(y) /\ Excess(y) \in Nat /\ Len(y) \in Nat
      BY ExcessType
    <3> QED
      BY <3>1, <3>2
  <2>6. ASSUME k < n PROVE m[2 * k] - p[2 * k] <= m[2 * k + 1] - p[2 * k + 1]
    <3>1. PICK j \in 1..n : j = k + 1
      BY <1>2, <2>6
    <3>2. PICK q \in 1..Len(rest) : IsField(rest[q]) /\ Ordinal(rest, q) = j
      BY <1>2, <3>1, PlaceExists
    <3>3. p[2 * j - 1] = Len(Y[q - 1]) /\ m[2 * j - 1] = Bytes(Y[q - 1])
      <4>1. MarksAt(p, m, j, Y[q - 1], Y[q])
        BY <1>1, <3>2, MarkAt, Zenon
      <4> QED
        BY <4>1, Zenon DEF MarksAt
    <3>4. 2 * j - 1 = 2 * k + 1
      BY <3>1
    <3>5. r < q
      <4>1. Ordinal(rest, r) < Ordinal(rest, q)
        BY <2>1, <3>1, <3>2
      <4>2. r \in Nat /\ q \in Nat \ {0}
        BY <1>2
      <4> QED
        BY <4>1, <4>2, <3>2, FieldNumbers
    <3>6. r <= q - 1 /\ q - 1 \in 0..Len(rest)
      BY <3>5, <1>2
    <3>7. Bytes(Y[r]) - Len(Y[r]) <= Bytes(Y[q - 1]) - Len(Y[q - 1])
      BY <1>1, <2>3, <3>6, PostsGrow
    <3> QED
      BY ONLY <2>2, <3>3, <3>4, <3>7
  <2> QED
    BY ONLY <2>2, <2>4, <2>5, <2>6
<1> QED
  BY <1>3 DEF Behind

Around(Y, rest, i, before, behind) ==
    /\ before = Y[i - 1] /\ Y[i - 1] \in Seq(Character)
    /\ Y[i] \in Seq(Character) /\ behind \in Seq(Character)
    /\ rest[i].text \in Seq(Character)
    /\ Y[i] = Y[i - 1] \o rest[i].text
    /\ Y[Len(rest)] = Y[i] \o behind

\* What is in front of a field, in it, and behind it.
LEMMA AroundField ==
    ASSUME NEW rest \in Seq(Chunk), NEW Y, Y = Posts(rest), NEW last \in 1..Len(rest), IsField(rest[last]),
           NEW before, before = AllOf(SubSeq(rest, 1, last - 1), Inserted),
           NEW behind, behind = AllOf(SubSeq(rest, last + 1, Len(rest)), Inserted)
    PROVE  Around(Y, rest, last, before, behind)
<1>1. Len(rest) \in Nat /\ \A i \in 0..Len(rest) : Y[i] \in Seq(Character)
  BY PostsAre
<1>2. last - 1 \in 0..Len(rest) /\ last \in 0..Len(rest)
  BY <1>1
<1>3. PICK seqs \in Seq(Seq(Character)) : seqs = InsertedSeq(rest)
  BY SeqsTypes, Zenon
<1>4. Len(seqs) = Len(rest) /\ Y = Joined(seqs)
  BY <1>3, SeqsTypes DEF Posts
<1>5. before = Y[last - 1]
  <2>1. PICK a \in Nat : a = last - 1 /\ a <= Len(rest)
    BY <1>1
  <2>2. SubSeq(rest, 0 + 1, a) \in Seq(Chunk) /\ InsertedSeq(SubSeq(rest, 0 + 1, a)) = SubSeq(seqs, 0 + 1, a)
    <3>1. 0 \in Nat /\ 0 <= a
      BY <2>1
    <3> QED
      BY <3>1, <2>1, <1>3, SeqsOfPiece
  <2>3. 0 + 1 = 1
    OBVIOUS
  <2>4. AllOf(SubSeq(rest, 1, a), Inserted) = FlattenSeq(SubSeq(seqs, 1, a))
    <3>1. PICK piece \in Seq(Chunk) : piece = SubSeq(rest, 1, a)
      BY <2>2, <2>3
    <3>2. AllOf(piece, Inserted) = FlattenSeq(InsertedSeq(piece))
      BY SeqsTypes
    <3>3. InsertedSeq(piece) = SubSeq(seqs, 1, a)
      BY <2>2, <2>3, <3>1
    <3> QED
      BY <3>1, <3>2, <3>3
  <2>5. FlattenSeq(SubSeq(seqs, 1, a)) = Joined(seqs)[a]
    <3>1. a \in 0..Len(seqs)
      BY <2>1, <1>4
    <3> QED
      BY <3>1, JoinedPrefix
  <2> QED
    BY <2>1, <2>4, <2>5, <1>4
<1>6. behind = FlattenSeq(SubSeq(seqs, last + 1, Len(rest)))
  <2>1. last \in Nat /\ last <= Len(rest) /\ Len(rest) \in Nat /\ Len(rest) <= Len(rest)
    BY <1>1
  <2>2. /\ SubSeq(rest, last + 1, Len(rest)) \in Seq(Chunk)
        /\ InsertedSeq(SubSeq(rest, last + 1, Len(rest))) = SubSeq(seqs, last + 1, Len(rest))
    BY <2>1, <1>3, SeqsOfPiece
  <2>3. PICK piece \in Seq(Chunk) : piece = SubSeq(rest, last + 1, Len(rest))
    BY <2>2
  <2>4. AllOf(piece, Inserted) = FlattenSeq(InsertedSeq(piece))
    BY SeqsTypes
  <2> QED
    BY <2>2, <2>3, <2>4
<1>7. behind \in Seq(Character) /\ Y[Len(rest)] = Y[last] \o behind
  <2>1. last \in 0..Len(seqs)
    BY <1>2, <1>4
  <2>2. /\ FlattenSeq(SubSeq(seqs, last + 1, Len(seqs))) \in Seq(Character)
        /\ Joined(seqs)[Len(seqs)] = Joined(seqs)[last] \o FlattenSeq(SubSeq(seqs, last + 1, Len(seqs)))
    BY <2>1, JoinedSuffix
  <2> QED
    BY <2>2, <1>4, <1>6
<1>8. Inserted(rest[last]) = rest[last].text /\ rest[last].text \in Seq(Character)
  <2>1. rest[last] \in Chunk
    BY PostsAre
  <2> QED
    BY <2>1, ShownType
<1>9. Y[last] = Y[last - 1] \o rest[last].text
  BY <1>8, PostsAre
<1> QED
  BY <1>1, <1>2, <1>5, <1>7, <1>8, <1>9 DEF Around

-----------------------------------------------------------------------------
(***************************************************************************)
(* When the cuts are right.                                                *)
(***************************************************************************)
\* What moves nothing that can be seen: MovesNothing, for these texts.
Unmoved(before, text, behind) ==
    /\ OneByteEach(before)
    /\ Bytes(text) - Len(text) <= Len(behind)
    /\ \A i \in 1..(Bytes(text) - Len(text)) : behind[i] = Closes

\* The template is the one that was meant exactly when nothing moves.
LEMMA SnippetRight ==
    ASSUME NEW rest \in Seq(Chunk), NEW n, n = Ordinal(rest, Len(rest)),
           NEW last \in 1..Len(rest), IsField(rest[last]), Ordinal(rest, last) = n,
           NEW before, before = AllOf(SubSeq(rest, 1, last - 1), Inserted),
           NEW behind, behind = AllOf(SubSeq(rest, last + 1, Len(rest)), Inserted),
           NEW post, post = Posts(rest)[Len(rest)],
           NEW m \in Seq(Nat), AllMarks(m, rest, Len(rest), Sizes(rest))
    PROVE  Snippet(post, m) = FlattenSeq(MeantSeq(rest)) \o <<Ends>>
           <=> Unmoved(before, rest[last].text, behind)
<1>1. PICK Y : Y = Posts(rest)
  OBVIOUS
<1>2. PICK text : text = rest[last].text
  OBVIOUS
<1>3. /\ before = Y[last - 1] /\ before \in Seq(Character) /\ Y[last] \in Seq(Character)
      /\ behind \in Seq(Character) /\ text \in Seq(Character)
      /\ Y[last] = before \o text /\ post = Y[last] \o behind
  <2>1. Around(Y, rest, last, before, behind)
    BY <1>1, AroundField, Zenon
  <2> QED
    BY <2>1, <1>1, <1>2 DEF Around
<1>4. PICK e \in Nat : e = Bytes(text) - Len(text) /\ e = Excess(text)
  <2>1. Bytes(text) = Len(text) + Excess(text) /\ Excess(text) \in Nat /\ Len(text) \in Nat
    BY <1>3, ExcessType
  <2>2. Excess(text) = Bytes(text) - Len(text)
    BY ONLY <2>1
  <2> QED
    BY <2>1, <2>2
<1>5. PICK x \in Nat : x = Excess(before) /\ (x = 0 <=> OneByteEach(before))
  BY <1>3, ExcessType
<1>6. /\ Len(before) \in Nat /\ Bytes(before) = Len(before) + x
      /\ Len(Y[last]) \in Nat /\ Bytes(Y[last]) = Len(Y[last]) + (x + e)
  <2>1. Excess(Y[last]) = x + e
    BY <1>3, <1>4, <1>5, ExcessConcat
  <2>2. Bytes(Y[last]) = Len(Y[last]) + Excess(Y[last]) /\ Len(Y[last]) \in Nat
    BY <1>3, ExcessType
  <2>3. Bytes(before) = Len(before) + Excess(before) /\ Len(before) \in Nat
    BY <1>3, ExcessType
  <2> QED
    BY <2>1, <2>2, <2>3, <1>5
<1>7. post \in Seq(Character) /\ Len(post) = Len(Y[last]) + Len(behind) /\ Len(behind) \in Nat
      /\ \A i \in 1..Len(behind) : post[Len(Y[last]) + i] = behind[i]
  <2>1. post \in Seq(Character) /\ IsConcat(post, Y[last], behind)
    BY <1>3, ConcatAt
  <2> QED
    BY <2>1 DEF IsConcat
<1>8. Len(rest) \in Nat
  BY <1>1, PostsAre
<1>9. n \in Nat \ {0} /\ n \in 1..n
  <2>1. last \in Nat \ {0}
    BY <1>8
  <2>2. Ordinal(rest, last) = Ordinal(rest, last - 1) + 1 /\ Ordinal(rest, last - 1) \in Nat
    BY <2>1, FieldNumbers
  <2> QED
    BY <2>2
<1>10. Len(m) = 2 * n /\ MarksOf(m, rest, Len(rest), Sizes(rest))
  BY DEF AllMarks
<1>11. PICK p : MarksOf(p, rest, Len(rest), Lengths(rest))
  BY <1>8, MarksExist, Zenon
<1>12. Cuts(p, n, Len(post)) /\ Cuts(m, n, Bytes(post))
  BY <1>1, <1>10, <1>11, LengthsCut
<1>13. Behind(m, p, n)
  BY <1>10, <1>11, MarksBehind
<1>14. /\ p[2 * n - 1] = Len(before) /\ p[2 * n] = Len(Y[last])
       /\ m[2 * n - 1] = Len(before) + x /\ m[2 * n] = Len(Y[last]) + (x + e)
  <2>1. MarksAt(p, m, n, Y[last - 1], Y[last])
    BY <1>1, <1>10, <1>11, MarkAt, Zenon
  <2>2. /\ p[2 * n - 1] = Len(Y[last - 1]) /\ p[2 * n] = Len(Y[last])
        /\ m[2 * n - 1] = Bytes(Y[last - 1]) /\ m[2 * n] = Bytes(Y[last])
    BY <2>1, Zenon DEF MarksAt
  <2> QED
    BY <2>2, <1>3, <1>6
<1>25. Len(post) \in Nat /\ m[2 * n] \in Nat
  <2>1. Len(post) \in Nat
    BY <1>7, LenProperties
  <2>2. m[2 * n] \in Nat
    BY <1>9, <1>12, Zenon DEF Cuts
  <2> QED
    BY <2>1, <2>2
<1>15. PICK g : Templates(g, post, p, n)
  <2>1. n \in Nat
    BY <1>9
  <2>2. PICK h : IsTemplate(h, post, p, n)
    BY <2>1, TemplateExists, Zenon
  <2>3. Templates(h, post, p, n)
    BY <2>1, <2>2, TemplateIs
  <2> QED
    BY <2>3
<1>16. PICK meant : meant = FlattenSeq(MeantSeq(rest)) \o <<Ends>>
  OBVIOUS
<1>17. meant = Whole(g, post, p, n)
  BY <1>11, <1>15, <1>16, MeantIs, Zenon
<1>18. post \in Seq(Token) /\ n \in Nat
  <2>1. Character \subseteq Token
    BY MarkTypes
  <2> QED
    BY <2>1, <1>7, <1>9
<1>19. IsWhole(meant, post, p, n)
  BY <1>12, <1>15, <1>17, <1>18, WholeIs
<1>20. PICK f : /\ Templates(f, post, m, n)
                /\ Snippet(post, m) = IF Fails(post, m) THEN ArgsOutOfRange ELSE Whole(f, post, m, n)
  BY <1>10, <1>18, SnippetIs, Zenon
<1>21. Fails(post, m) <=> m[2 * n] > Len(post)
  BY <1>7, <1>9, <1>10, <1>12, FailsIs, Zenon
<1>22. ASSUME m[2 * n] <= Len(post) PROVE Cuts(m, n, Len(post))
  <2> SUFFICES ASSUME NEW k \in 1..n
               PROVE  /\ From(m, k - 1) \in Nat /\ m[2 * k - 1] \in Nat /\ m[2 * k] \in Nat
                      /\ From(m, k - 1) <= m[2 * k - 1] /\ m[2 * k - 1] <= m[2 * k] /\ m[2 * k] <= Len(post)
    BY Zenon DEF Cuts
  <2>1. /\ From(m, k - 1) \in Nat /\ m[2 * k - 1] \in Nat /\ m[2 * k] \in Nat
        /\ From(m, k - 1) <= m[2 * k - 1] /\ m[2 * k - 1] <= m[2 * k]
    BY <1>12, Zenon DEF Cuts
  <2>2. m[2 * k] <= m[2 * n]
    <3>1. PICK l \in Nat : l = Bytes(post)
      BY <1>7, BytesType
    <3>2. \A h \in 0..n : \A j \in 1..h : m[2 * j] <= From(m, h)
      BY <3>1, <1>12, <1>18, CutsOrdered
    <3>3. n \in 0..n /\ k \in 1..n /\ From(m, n) = m[2 * n]
      BY <1>9 DEF From
    <3> QED
      BY <3>2, <3>3
  <2>3. m[2 * k] <= Len(post)
    BY ONLY <2>1, <2>2, <1>22, <1>25
  <2> QED
    BY <2>1, <2>3
<1>23. ASSUME Snippet(post, m) = meant PROVE Unmoved(before, text, behind)
  <2>1. ~Fails(post, m)
    <3>1. SUFFICES ASSUME Fails(post, m) PROVE FALSE
      OBVIOUS
    <3>2. meant = ArgsOutOfRange
      BY <1>20, <1>23, <3>1
    <3>3. Len(meant) = 1
      BY <3>2 DEF ArgsOutOfRange
    <3>4. Len(meant) = Len(post) + 4 * n + 1
      BY <1>19, Zenon DEF IsWhole
    <3>5. \A a \in Nat : \A b \in Nat \ {0} : a + 4 * b + 1 # 1
      OBVIOUS
    <3>6. Len(post) + 4 * n + 1 # 1
      BY <3>5, <1>25, <1>9, Zenon
    <3> QED
      BY <3>3, <3>4, <3>6, Zenon
  <2>2. m[2 * n] <= Len(post)
    <3>1. ~(m[2 * n] > Len(post))
      BY <2>1, <1>21
    <3> QED
      BY ONLY <1>25, <3>1
  <2>3. Cuts(m, n, Len(post))
    BY <2>2, <1>22
  <2>4. meant = Whole(f, post, m, n)
    BY <2>1, <1>20, <1>23
  <2>5. IsWhole(meant, post, m, n)
    BY <2>3, <2>4, <1>18, <1>20, WholeIs
  <2>6. /\ \A k \in 1..n : p[2 * k - 1] = m[2 * k - 1]
        /\ n > 0 => \A i \in (p[2 * n] + 1)..m[2 * n] : post[i] = Closes
    <3>1. Shows(post, m, p, n)
      BY <2>3, <2>5, <1>7, <1>12, <1>13, <1>18, <1>19, SameOnlyIf, Zenon
    <3> QED
      BY <3>1, Zenon DEF Shows
  <2>7. x = 0
    <3>1. p[2 * n - 1] = m[2 * n - 1]
      BY <2>6, <1>9
    <3>2. Len(before) = Len(before) + x /\ Len(before) \in Nat
      BY <3>1, <1>6, <1>14
    <3>3. x \in Nat
      OBVIOUS
    <3> QED
      BY ONLY <3>2, <3>3
  <2>8. e <= Len(behind)
    BY <2>2, <2>7, <1>6, <1>7, <1>14
  <2>9. ASSUME NEW i \in 1..e PROVE behind[i] = Closes
    <3>1. i \in 1..Len(behind) /\ Len(Y[last]) + i \in (p[2 * n] + 1)..m[2 * n]
      BY <2>7, <2>8, <1>6, <1>7, <1>14
    <3>2. n > 0
      BY <1>9
    <3> QED
      BY <3>1, <3>2, <2>6, <1>7
  <2> QED
    BY <2>7, <2>8, <2>9, <1>4, <1>5 DEF Unmoved
<1>24. ASSUME Unmoved(before, text, behind) PROVE Snippet(post, m) = meant
  <2>1. x = 0 /\ e <= Len(behind) /\ \A i \in 1..e : behind[i] = Closes
    BY <1>4, <1>5, <1>24 DEF Unmoved
  <2>2. m[2 * n] <= Len(post) /\ ~Fails(post, m)
    <3>1. m[2 * n] <= Len(post)
      BY <2>1, <1>6, <1>7, <1>14
    <3>3. ~(m[2 * n] > Len(post))
      BY ONLY <3>1, <1>25
    <3> QED
      BY <3>1, <3>3, <1>21
  <2>3. Cuts(m, n, Len(post))
    BY <2>2, <1>22
  <2>4. ASSUME NEW i \in 0..Len(rest), i < last PROVE Bytes(Y[i]) = Len(Y[i])
    <3>1. i <= last - 1 /\ last - 1 \in 0..Len(rest)
      BY <2>4, <1>8
    <3>2. Bytes(Y[i]) - Len(Y[i]) <= Bytes(Y[last - 1]) - Len(Y[last - 1])
      BY <3>1, <1>1, PostsGrow
    <3>3. PICK y \in Seq(Character) : y = Y[i]
      BY <1>1, PostsAre
    <3>4. Bytes(y) = Len(y) + Excess(y) /\ Excess(y) \in Nat /\ Len(y) \in Nat
      BY ExcessType
    <3>5. Bytes(Y[last - 1]) = Len(Y[last - 1]) /\ Len(Y[last - 1]) \in Nat
      BY <2>1, <1>3, <1>6
    <3> QED
      BY ONLY <3>2, <3>3, <3>4, <3>5
  <2>5. ASSUME NEW k \in 1..n PROVE p[2 * k - 1] = m[2 * k - 1] /\ (k < n => p[2 * k] = m[2 * k])
    <3>1. PICK r \in 1..Len(rest) : IsField(rest[r]) /\ Ordinal(rest, r) = k
      BY <1>8, PlaceExists
    <3>2. MarksAt(p, m, k, Y[r - 1], Y[r])
      BY <3>1, <1>1, <1>10, <1>11, MarkAt, Zenon
    <3>3. /\ p[2 * k - 1] = Len(Y[r - 1]) /\ p[2 * k] = Len(Y[r])
          /\ m[2 * k - 1] = Bytes(Y[r - 1]) /\ m[2 * k] = Bytes(Y[r])
      BY <3>2, Zenon DEF MarksAt
    <3>4. ~(last < r) /\ (k < n => r < last)
      <4>1. last \in Nat \ {0} /\ r \in Nat \ {0}
        BY <1>8
      <4>2. Ordinal(rest, last) < Ordinal(rest, r) <=> last < r
        BY <4>1, <3>1, FieldNumbers
      <4>3. Ordinal(rest, r) < Ordinal(rest, last) <=> r < last
        BY <4>1, FieldNumbers
      <4> QED
        BY <4>2, <4>3, <3>1, <1>9
    <3>5. r - 1 \in 0..Len(rest) /\ r \in 0..Len(rest) /\ r - 1 < last
      BY <3>4, <1>8
    <3>6. Bytes(Y[r - 1]) = Len(Y[r - 1])
      BY <3>5, <2>4
    <3>7. k < n => Bytes(Y[r]) = Len(Y[r])
      BY <3>4, <3>5, <2>4
    <3> QED
      BY <3>3, <3>6, <3>7
  <2>6. p[2 * n] <= m[2 * n]
    BY <2>1, <1>6, <1>14
  <2>7. ASSUME NEW i \in (p[2 * n] + 1)..m[2 * n] PROVE post[i] = Closes
    <3>1. PICK j \in 1..e : i = Len(Y[last]) + j
      <4>1. i - Len(Y[last]) \in 1..e /\ i = Len(Y[last]) + (i - Len(Y[last]))
        BY <2>1, <1>6, <1>14
      <4> QED
        BY <4>1
    <3>2. j \in 1..Len(behind)
      BY <2>1, <1>7
    <3> QED
      BY <3>1, <3>2, <2>1, <1>7
  <2>8. (\A k \in 1..n : p[2 * k - 1] = m[2 * k - 1]) /\ \A k \in 1..n : k < n => p[2 * k] = m[2 * k]
    BY <2>5
  <2>9. Whole(f, post, m, n) = Whole(g, post, p, n)
    <3>1. Templates(f, post, m, n)
      BY <1>20
    <3> QED
      BY ONLY <3>1, <2>3, <2>6, <2>7, <2>8, <1>9, <1>12, <1>15, <1>18, SameIf
  <2> QED
    BY <2>2, <2>9, <1>17, <1>20
<1> QED
  BY <1>2, <1>16, <1>23, <1>24

\* A signal is no text.
LEMMA NoText == ArgsOutOfRange \notin Seq(Character)
<1>1. PICK a : a = "args-out-of-range"
  OBVIOUS
<1>2. a \notin Character
  BY <1>1, MarkTypes, Zenon
<1>3. \A S : <<a>> \in Seq(S) => a \in S
  <2> SUFFICES ASSUME NEW S, <<a>> \in Seq(S) PROVE a \in S
    OBVIOUS
  <2>1. 1 \in 1..Len(<<a>>) /\ <<a>>[1] = a
    OBVIOUS
  <2> QED
    BY <2>1, ElementOfSeq
<1> QED
  BY <1>1, <1>2, <1>3, Zenon DEF ArgsOutOfRange

StartShows(post, m, before) == Substring(post, 0, m[1]) = before <=> OneByteEach(before)

\* Without snippets, what is in front of the first field is inserted.
LEMMA StartRight ==
    ASSUME NEW rest \in Seq(Chunk), NEW first \in 1..Len(rest), IsField(rest[first]), Ordinal(rest, first) = 1,
           NEW before, before = AllOf(SubSeq(rest, 1, first - 1), Inserted),
           NEW post, post = Posts(rest)[Len(rest)],
           NEW m \in Seq(Nat), AllMarks(m, rest, Len(rest), Sizes(rest))
    PROVE  StartShows(post, m, before)
<1>1. PICK Y : Y = Posts(rest)
  OBVIOUS
<1>2. PICK behind : behind = AllOf(SubSeq(rest, first + 1, Len(rest)), Inserted)
  OBVIOUS
<1>3. /\ before = Y[first - 1] /\ before \in Seq(Character) /\ Y[first] \in Seq(Character)
  <2>1. Around(Y, rest, first, before, behind)
    BY <1>1, <1>2, AroundField, Zenon
  <2> QED
    BY <2>1 DEF Around
<1>4. Len(rest) \in Nat /\ first - 1 \in 0..Len(rest) /\ first - 1 <= Len(rest) /\ Len(rest) \in 0..Len(rest)
  <2>1. Len(rest) \in Nat
    BY <1>1, PostsAre
  <2> QED
    BY <2>1
<1>5. Grows(before, post, Character)
  BY <1>1, <1>3, <1>4, PostsGrow
<1>6. PICK t \in Seq(Character) : post = before \o t
  BY <1>5, Zenon DEF Grows
<1>7. /\ post \in Seq(Character) /\ Len(before) \in Nat /\ Len(t) \in Nat /\ Len(post) = Len(before) + Len(t)
      /\ \A i \in 1..Len(before) : post[i] = before[i]
  <2>1. post \in Seq(Character) /\ IsConcat(post, before, t)
    BY <1>3, <1>6, ConcatAt
  <2> QED
    BY <2>1 DEF IsConcat
<1>8. m[1] = Bytes(before)
  <2>1. MarksOf(m, rest, Len(rest), Sizes(rest))
    BY DEF AllMarks
  <2>2. PICK p : MarksOf(p, rest, Len(rest), Lengths(rest))
    BY <1>4, MarksExist, Zenon
  <2>3. MarksAt(p, m, 1, Y[first - 1], Y[first])
    BY <1>1, <2>1, <2>2, MarkAt, Zenon
  <2>4. m[2 * 1 - 1] = Bytes(Y[first - 1])
    BY <2>3, Zenon DEF MarksAt
  <2>5. 2 * 1 - 1 = 1
    OBVIOUS
  <2> QED
    BY <2>4, <2>5, <1>3
<1>9. Bytes(before) = Len(before) + Excess(before) /\ Excess(before) \in Nat
      /\ (Excess(before) = 0 <=> OneByteEach(before))
  BY <1>3, ExcessType
<1>10. ASSUME OneByteEach(before) PROVE Substring(post, 0, m[1]) = before
  <2>1. m[1] = Len(before) /\ 0 <= m[1] /\ m[1] <= Len(post)
    BY <1>7, <1>8, <1>9, <1>10
  <2>2. PICK s : s = SubSeq(post, 0 + 1, m[1])
    OBVIOUS
  <2>3. s \in Seq(Character) /\ Len(s) = Len(before) - 0 /\ \A i \in 1..(Len(before) - 0) : s[i] = post[0 + i]
    <3>1. 0 \in Nat /\ 0 <= Len(before) /\ Len(before) <= Len(post)
      BY <2>1
    <3> QED
      BY <2>1, <2>2, <3>1, <1>7, Piece
  <2>4. Len(before) - 0 = Len(before) /\ \A i \in 1..Len(before) : 0 + i = i
    BY <1>7
  <2>5. \A i \in 1..Len(before) : s[i] = before[i]
    BY ONLY <2>3, <2>4, <1>7
  <2>6. s = before
    BY ONLY <2>3, <2>4, <2>5, <1>3, SeqEqual
  <2> QED
    BY <2>1, <2>2, <2>6 DEF Substring
<1>11. ASSUME Substring(post, 0, m[1]) = before PROVE OneByteEach(before)
  <2>1. CASE m[1] <= Len(post)
    <3>1. m[1] \in Nat /\ 0 <= m[1]
      BY <1>7, <1>8, <1>9
    <3>2. before = SubSeq(post, 0 + 1, m[1])
      BY <1>11, <2>1, <3>1 DEF Substring
    <3>3. Len(SubSeq(post, 0 + 1, m[1])) = m[1] - 0
      <4>1. 0 \in Nat
        OBVIOUS
      <4> QED
        BY <4>1, <2>1, <3>1, <1>7, Piece
    <3>4. Len(before) = m[1]
      BY <3>1, <3>2, <3>3
    <3> QED
      BY <3>4, <1>7, <1>8, <1>9
  <2>2. CASE ~(m[1] <= Len(post))
    <3>1. before = ArgsOutOfRange
      BY <1>11, <2>2 DEF Substring
    <3>2. FALSE
      BY <3>1, <1>3, NoText
    <3> QED
      BY <3>2
  <2> QED
    BY <2>1, <2>2
<1>12. Substring(post, 0, m[1]) = before <=> OneByteEach(before)
  BY <1>10, <1>11
<1> QED
  BY <1>12, Zenon DEF StartShows

-----------------------------------------------------------------------------
(***************************************************************************)
(* Where the first and the last of something are.                          *)
(***************************************************************************)
\* The least of a set of numbers
LEMMA MinIs ==
    ASSUME NEW T, T \subseteq Nat, T # {}
    PROVE  Min(T) \in T /\ \A y \in T : Min(T) <= y
<1>1. \E x \in T : \A y \in T : x <= y
  BY Least
<1> QED
  BY <1>1 DEF Min

\* The greatest of a set of numbers
LEMMA MaxIs ==
    ASSUME NEW T, T \subseteq Nat, NEW x \in T, \A y \in T : y <= x
    PROVE  Max(T) = x
<1>1. \E z \in T : \A y \in T : z >= y
  OBVIOUS
<1>2. Max(T) \in T /\ \A y \in T : Max(T) >= y
  BY <1>1 DEF Max
<1>3. Max(T) >= x /\ Max(T) <= x /\ Max(T) \in Nat /\ x \in Nat
  BY <1>2
<1> QED
  BY <1>3

\* The first typed text of a completion string that is printed, and what the
\* loop has made of it.
LEMMA PrintedIs ==
    ASSUME NEW string \in CompletionString, NEW prefix, NEW style,
           IsPrinted(string, prefix, style),
           NEW cand, cand = CandidateOf(string, prefix, style),
           NEW chunks, chunks = string.chunks, NEW t, t = FirstTyped(string)
    PROVE  /\ chunks \in Seq(Chunk) /\ t \in 1..Len(chunks)
           /\ Named(cand, Joined(ShownSeq(chunks))[t], Joined(ShownSeq(chunks))[Len(chunks)],
                    SubSeq(chunks, t + 1, Len(chunks)), Len(chunks) - t)
<1>1. chunks \in Seq(Chunk)
  BY DEF CompletionString
<1>2. PICK l \in Nat : l = Len(chunks)
  BY <1>1, LenProperties
<1>3. PICK ins : ins = CaseInsensitive(prefix, style)
  OBVIOUS
<1>4. PICK c : Loops(c, chunks, l, prefix, ins) /\ cand = c[l]
  BY <1>2, <1>3, CandidateLoops
<1>5. cand.hasTyped /\ ~cand.miss
  BY Zenon DEF IsPrinted
<1> DEFINE I == {i \in 1..l : chunks[i].kind = "typed"}
<1>6. I # {}
  <2>1. SUFFICES ASSUME \A i \in 1..l : chunks[i].kind # "typed" PROVE FALSE
    OBVIOUS
  <2>2. Nameless(c[l], Joined(ShownSeq(chunks))[l])
    <3>1. l \in 0..Len(chunks)
      BY <1>2
    <3> QED
      BY <3>1, <2>1, <1>1, <1>2, <1>4, LoopBefore
  <2> QED
    BY <2>2, <1>4, <1>5 DEF Nameless
<1>7. t = Min(I)
  <2>1. t = IF I # {} THEN Min(I) ELSE 0
    BY <1>2 DEF FirstTyped, SelectInSeq
  <2> HIDE DEF I
  <2> QED
    BY <2>1, <1>6
<1>8. t \in I /\ \A i \in I : t <= i
  <2>1. I \subseteq Nat
    OBVIOUS
  <2> HIDE DEF I
  <2> QED
    BY <2>1, <1>6, <1>7, MinIs
<1>9. t \in 1..Len(chunks) /\ chunks[t].kind = "typed"
  BY <1>2, <1>8
<1>10. \A i \in 1..(t - 1) : chunks[i].kind # "typed"
  <2> SUFFICES ASSUME NEW i \in 1..(t - 1), chunks[i].kind = "typed" PROVE FALSE
    OBVIOUS
  <2>1. i \in I /\ i < t
    BY <1>2, <1>9
  <2> QED
    BY <2>1, <1>8, <1>9
<1>11. PICK rest : rest = SubSeq(chunks, t + 1, Len(chunks))
  OBVIOUS
<1>12. PICK n \in 0..(Len(chunks) - t) : n = Len(chunks) - t /\ t + n = l
  <2>1. Len(chunks) - t \in 0..(Len(chunks) - t) /\ t + (Len(chunks) - t) = l
    BY ONLY <1>2, <1>9
  <2> QED
    BY <2>1
<1>13. c[t + n].miss \/ Named(c[t + n], Joined(ShownSeq(chunks))[t],
                              Joined(ShownSeq(chunks))[t + n], rest, n)
  BY <1>1, <1>2, <1>4, <1>9, <1>10, <1>11, LoopBehind
<1> QED
  BY <1>1, <1>2, <1>4, <1>5, <1>9, <1>11, <1>12, <1>13

\* A text is cut at the size of its beginning.
LEMMA TailRight ==
    ASSUME NEW a \in Seq(Character), NEW b \in Seq(Character), NEW w, w = a \o b
    PROVE  Substring(w, Bytes(a), Len(w)) = b <=> OneByteEach(a)
<1>1. /\ w \in Seq(Character) /\ Len(w) = Len(a) + Len(b) /\ Len(a) \in Nat /\ Len(b) \in Nat
      /\ \A i \in 1..Len(b) : w[Len(a) + i] = b[i]
  <2>1. w \in Seq(Character) /\ IsConcat(w, a, b)
    BY ConcatAt
  <2> QED
    BY <2>1 DEF IsConcat
<1>2. /\ Bytes(a) = Len(a) + Excess(a) /\ Excess(a) \in Nat /\ Bytes(a) \in Nat
      /\ (Excess(a) = 0 <=> OneByteEach(a))
  BY ExcessType, BytesType
<1>3. Len(w) \in Nat /\ Len(w) <= Len(w)
  BY <1>1
<1>4. ASSUME OneByteEach(a) PROVE Substring(w, Bytes(a), Len(w)) = b
  <2>1. Bytes(a) = Len(a) /\ Len(a) <= Len(w)
    BY <1>1, <1>2, <1>4
  <2>2. PICK s : s = SubSeq(w, Len(a) + 1, Len(w))
    OBVIOUS
  <2>3. s \in Seq(Character) /\ Len(s) = Len(w) - Len(a)
        /\ \A i \in 1..(Len(w) - Len(a)) : s[i] = w[Len(a) + i]
    BY <2>1, <2>2, <1>1, <1>3, Piece
  <2>4. Len(w) - Len(a) = Len(b)
    BY <1>1
  <2>5. \A i \in 1..Len(b) : s[i] = b[i]
    BY ONLY <2>3, <2>4, <1>1
  <2>6. s = b
    BY ONLY <2>3, <2>4, <2>5, SeqEqual, b \in Seq(Character)
  <2> QED
    BY <2>1, <2>2, <2>6, <1>3 DEF Substring
<1>5. ASSUME Substring(w, Bytes(a), Len(w)) = b PROVE OneByteEach(a)
  <2>1. CASE Bytes(a) <= Len(w)
    <3>1. b = SubSeq(w, Bytes(a) + 1, Len(w))
      BY <1>3, <1>5, <2>1 DEF Substring
    <3>2. Len(SubSeq(w, Bytes(a) + 1, Len(w))) = Len(w) - Bytes(a)
      BY <2>1, <1>1, <1>2, <1>3, Piece
    <3>3. Len(b) = Len(w) - Bytes(a)
      BY <3>1, <3>2
    <3> QED
      BY <3>3, <1>1, <1>2
  <2>2. CASE ~(Bytes(a) <= Len(w))
    <3>1. b = ArgsOutOfRange
      BY <1>5, <2>2 DEF Substring
    <3> QED
      BY <3>1, NoText
  <2> QED
    BY <2>1, <2>2
<1> QED
  BY <1>4, <1>5

\* Where there are no fields there are no marks, and the other way round.
LEMMA NoFields ==
    ASSUME NEW rest, NEW l \in Nat
    PROVE  Ordinal(rest, l) = 0 <=> \A i \in 1..l : ~IsField(rest[i])
<1>1. ASSUME Ordinal(rest, l) = 0, NEW i \in 1..l, IsField(rest[i]) PROVE FALSE
  <2>1. i \in Nat \ {0} /\ i <= l /\ i \in Nat
    OBVIOUS
  <2>2. Ordinal(rest, i) = Ordinal(rest, i - 1) + 1 /\ Ordinal(rest, i - 1) \in Nat /\ Ordinal(rest, i) \in Nat
    BY <1>1, <2>1, FieldNumbers
  <2>3. Ordinal(rest, i) <= Ordinal(rest, l)
    BY <2>1, NumberGrows
  <2> QED
    BY <1>1, <2>2, <2>3
<1>2. ASSUME Ordinal(rest, l) # 0 PROVE \E i \in 1..l : IsField(rest[i])
  <2>1. Ordinal(rest, l) \in Nat
    BY NumberStep
  <2>2. Ordinal(rest, l) \in 1..Ordinal(rest, l)
    BY <1>2, <2>1
  <2> QED
    BY <2>2, PlaceExists
<1> QED
  BY <1>1, <1>2

\* The last field has the last number, the first one the first.
LEMMA LastAndFirst ==
    ASSUME NEW rest, NEW l \in Nat, l = Len(rest), Ordinal(rest, l) # 0
    PROVE  /\ SelectLastInSeq(rest, IsField) \in 1..l
           /\ IsField(rest[SelectLastInSeq(rest, IsField)])
           /\ Ordinal(rest, SelectLastInSeq(rest, IsField)) = Ordinal(rest, l)
           /\ SelectInSeq(rest, IsField) \in 1..l
           /\ IsField(rest[SelectInSeq(rest, IsField)])
           /\ Ordinal(rest, SelectInSeq(rest, IsField)) = 1
<1> DEFINE I == {i \in 1..l : IsField(rest[i])}
<1>1. SelectLastInSeq(rest, IsField) = IF I # {} THEN Max(I) ELSE 0
  BY DEF SelectLastInSeq
<1>2. SelectInSeq(rest, IsField) = IF I # {} THEN Min(I) ELSE 0
  BY DEF SelectInSeq
<1>3. PICK n \in Nat \ {0} : n = Ordinal(rest, l)
  BY NumberStep
<1>4. PICK r \in 1..l : IsField(rest[r]) /\ Ordinal(rest, r) = n
  <2>1. n \in 1..Ordinal(rest, l)
    BY <1>3
  <2> QED
    BY <2>1, PlaceExists
<1>5. PICK q \in 1..l : IsField(rest[q]) /\ Ordinal(rest, q) = 1
  <2>1. 1 \in 1..Ordinal(rest, l)
    BY <1>3
  <2> QED
    BY <2>1, PlaceExists
<1>6. r \in I /\ q \in I /\ I \subseteq Nat
  BY <1>4, <1>5
<1>7. ASSUME NEW i \in I PROVE i <= r /\ q <= i
  <2>1. i \in 1..l /\ i \in Nat \ {0} /\ r \in Nat \ {0} /\ q \in Nat \ {0} /\ IsField(rest[i]) /\ i <= l
    OBVIOUS
  <2>2. Ordinal(rest, i) <= Ordinal(rest, l)
    BY <2>1, NumberGrows
  <2>3. Ordinal(rest, i) = Ordinal(rest, i - 1) + 1 /\ Ordinal(rest, i - 1) \in Nat /\ Ordinal(rest, i) \in Nat
    BY <2>1, FieldNumbers
  <2>4. Ordinal(rest, r) < Ordinal(rest, i) <=> r < i
    BY <2>1, FieldNumbers
  <2>5. Ordinal(rest, i) < Ordinal(rest, q) <=> i < q
    BY <2>1, <1>5, FieldNumbers
  <2>6. ~(r < i)
    BY <2>2, <2>3, <2>4, <1>3, <1>4
  <2>7. ~(i < q)
    BY <2>3, <2>5, <1>5
  <2> QED
    BY ONLY <2>1, <2>6, <2>7
<1> HIDE DEF I
<1>8. Max(I) = r
  BY <1>6, <1>7, MaxIs
<1>9. Min(I) = q
  <2>1. Min(I) \in I /\ \A y \in I : Min(I) <= y
    BY <1>6, MinIs
  <2>2. Min(I) <= q /\ q <= Min(I) /\ Min(I) \in Nat /\ q \in Nat
    BY <2>1, <1>6, <1>7
  <2> QED
    BY ONLY <2>2
<1>10. I # {}
  BY <1>6
<1>11. SelectLastInSeq(rest, IsField) = r /\ SelectInSeq(rest, IsField) = q
  BY <1>1, <1>2, <1>8, <1>9, <1>10
<1> QED
  BY <1>3, <1>4, <1>5, <1>11

-----------------------------------------------------------------------------
(***************************************************************************)
(* The cuts of a candidate that is printed are right, but for wide         *)
(* characters in front of them.                                            *)
(***************************************************************************)
\* MovesNothing in terms of the chunks around the last field
LEMMA MovesNothingIs ==
    ASSUME NEW string, NEW rest, rest = Rest(string), NEW last, last = SelectLastInSeq(rest, IsField)
    PROVE  MovesNothing(string)
           <=> Unmoved(AllOf(SubSeq(rest, 1, last - 1), Inserted), rest[last].text,
                       AllOf(SubSeq(rest, last + 1, Len(rest)), Inserted))
BY Zenon DEF MovesNothing, Unmoved, Closes

\* The template that is meant, for these chunks
LEMMA MeantSnippetIs ==
    ASSUME NEW string, NEW rest, rest = Rest(string)
    PROVE  MeantSnippet(string) = FlattenSeq(MeantSeq(rest)) \o <<Ends>>
BY Zenon DEF MeantSnippet, MeantSeq, Ordinal, Ends

\* Every candidate that is printed is cut right, in the sense of CutsAreRight.
LEMMA CutsRight ==
    ASSUME NEW string \in CompletionString, NEW prefix, NEW style,
           IsPrinted(string, prefix, style),
           NEW cand, cand = CandidateOf(string, prefix, style)
    PROVE  CutsAreRight(string, cand)
<1>1. PICK chunks \in Seq(Chunk) : chunks = string.chunks
  BY DEF CompletionString
<1>2. PICK t \in 1..Len(chunks) : t = FirstTyped(string)
  BY <1>1, PrintedIs
<1>3. Len(chunks) \in Nat /\ t \in Nat /\ t <= Len(chunks) /\ t \in 0..Len(chunks)
  <2>1. Len(chunks) \in Nat
    BY LenProperties
  <2> QED
    BY <2>1
<1>4. PICK rest : rest = Rest(string)
  OBVIOUS
<1>5. rest = SubSeq(chunks, t + 1, Len(chunks))
  BY <1>1, <1>2, <1>4 DEF Rest
<1>6. rest \in Seq(Chunk) /\ Len(rest) = Len(chunks) - t /\ Len(rest) \in Nat
  <2>1. SubSeq(chunks, t + 1, Len(chunks)) \in Seq(Chunk)
        /\ Len(SubSeq(chunks, t + 1, Len(chunks))) = Len(chunks) - t
    BY <1>3, Piece
  <2> QED
    BY <2>1, <1>5, LenProperties
<1>7. PICK J : J = Joined(ShownSeq(chunks))
  OBVIOUS
<1>8. Named(cand, J[t], J[Len(chunks)], rest, Len(rest))
  BY <1>1, <1>2, <1>5, <1>6, <1>7, PrintedIs
<1>9. PICK seqs \in Seq(Seq(Character)) : seqs = ShownSeq(chunks)
  BY SeqsTypes, Zenon
<1>10. Len(seqs) = Len(chunks)
  BY <1>9, SeqsTypes
<1>11. PICK post : post = Posts(rest)[Len(rest)]
  OBVIOUS
<1>12. PICK m \in Seq(Nat) : m = cand.marks
  BY <1>8 DEF Named, Candidate
<1>13. /\ cand.annotation = Bytes(J[t]) /\ cand.prototype = J[Len(chunks)] /\ cand.post = post
       /\ AllMarks(m, rest, Len(rest), Sizes(rest))
  BY <1>8, <1>11, <1>12, Zenon DEF Named, Posts, AllMarks
<1>14. Annotation(cand) = MeantAnnotation(string) <=> OneByteEach(AllOf(BeforeAnnotation(string), Shown))
  <2>1. AllOf(BeforeAnnotation(string), Shown) = J[t] /\ J[t] \in Seq(Character)
    <3>1. SubSeq(chunks, 0 + 1, t) \in Seq(Chunk) /\ ShownSeq(SubSeq(chunks, 0 + 1, t)) = SubSeq(seqs, 0 + 1, t)
      <4>1. 0 \in Nat /\ 0 <= t
        BY <1>3
      <4> QED
        BY <4>1, <1>3, <1>9, SeqsOfPiece
    <3>2. 0 + 1 = 1
      OBVIOUS
    <3>3. PICK piece \in Seq(Chunk) : piece = SubSeq(chunks, 1, t)
      BY <3>1, <3>2
    <3>4. AllOf(piece, Shown) = FlattenSeq(ShownSeq(piece))
      BY SeqsTypes
    <3>5. ShownSeq(piece) = SubSeq(seqs, 1, t)
      BY <3>1, <3>2, <3>3
    <3>6. t \in 0..Len(seqs)
      BY <1>3, <1>10
    <3>7. FlattenSeq(SubSeq(seqs, 1, t)) = Joined(seqs)[t]
      BY <3>6, JoinedPrefix
    <3>8. Joined(seqs)[t] \in Seq(Character)
      BY <3>6, JoinedTypes
    <3>9. piece = BeforeAnnotation(string)
      BY <1>1, <1>2, <3>3, Zenon DEF BeforeAnnotation
    <3> QED
      BY <3>4, <3>5, <3>7, <3>8, <3>9, <1>7, <1>9
  <2>2. PICK b : b = MeantAnnotation(string)
    OBVIOUS
  <2>3. b \in Seq(Character) /\ J[Len(chunks)] = J[t] \o b
    <3>1. t \in 0..Len(seqs)
      BY <1>3, <1>10
    <3>2. /\ FlattenSeq(SubSeq(seqs, t + 1, Len(seqs))) \in Seq(Character)
          /\ Joined(seqs)[Len(seqs)] = Joined(seqs)[t] \o FlattenSeq(SubSeq(seqs, t + 1, Len(seqs)))
      BY <3>1, JoinedSuffix
    <3>3. ShownSeq(SubSeq(chunks, t + 1, Len(chunks))) = SubSeq(seqs, t + 1, Len(chunks))
      <4>1. Len(chunks) <= Len(chunks)
        BY <1>3
      <4> QED
        BY <4>1, <1>3, <1>9, SeqsOfPiece
    <3>4. AllOf(rest, Shown) = FlattenSeq(ShownSeq(rest))
      BY <1>6, SeqsTypes
    <3>5. b = AllOf(rest, Shown)
      BY <2>2, <1>4 DEF MeantAnnotation
    <3> QED
      BY <3>2, <3>3, <3>4, <3>5, <1>5, <1>7, <1>9, <1>10
  <2>4. Substring(J[Len(chunks)], Bytes(J[t]), Len(J[Len(chunks)])) = b <=> OneByteEach(J[t])
    <3>1. PICK a \in Seq(Character) : a = J[t]
      BY <2>1
    <3>2. PICK w : w = J[Len(chunks)]
      OBVIOUS
    <3>3. w = a \o b
      BY <2>3, <3>1, <3>2
    <3>4. Substring(w, Bytes(a), Len(w)) = b <=> OneByteEach(a)
      BY <2>3, <3>3, TailRight
    <3> QED
      BY <3>1, <3>2, <3>4
  <2> QED
    BY <2>1, <2>2, <2>4, <1>13 DEF Annotation
<1>15. Len(m) = 2 * Ordinal(rest, Len(rest)) /\ Ordinal(rest, Len(rest)) \in Nat
  BY <1>6, <1>13, NumberStep DEF AllMarks
<1>16. m = <<>> <=> Ordinal(rest, Len(rest)) = 0
  <2>1. m = <<>> <=> Len(m) = 0
    BY EmptySeq
  <2> QED
    BY <2>1, <1>15
<1>17. MeantPost(string) = IF m = <<>> THEN [text |-> AllOf(rest, Inserted)]
                           ELSE [text |-> MeantStart(string), snippet |-> MeantSnippet(string)]
  <2>1. m = <<>> <=> \A i \in 1..Len(rest) : ~IsField(rest[i])
    BY <1>6, <1>16, NoFields
  <2> QED
    BY <2>1, <1>4, Zenon DEF MeantPost
<1>18. CASE m = <<>>
  <2>1. MeantPost(string).text = AllOf(rest, Inserted)
    BY <1>17, <1>18
  <2>2. AllOf(rest, Inserted) = post
    BY <1>6, <1>11, PostsAre
  <2>3. PostComplete(cand, TRUE) = cand.post /\ cand.marks = <<>>
    BY <1>12, <1>18 DEF PostComplete
  <2>4. PostComplete(cand, TRUE) = MeantPost(string).text
    BY <2>1, <2>2, <2>3, <1>13
  <2> QED
    BY <2>3, <2>4, <1>14, Zenon DEF CutsAreRight
<1>19. CASE m # <<>>
  <2>1. PICK n : n = Ordinal(rest, Len(rest)) /\ n # 0
    BY <1>16, <1>19
  <2>2. PICK last \in 1..Len(rest) : last = SelectLastInSeq(rest, IsField)
    BY <2>1, <1>6, LastAndFirst
  <2>3. PICK first \in 1..Len(rest) : first = SelectInSeq(rest, IsField)
    BY <2>1, <1>6, LastAndFirst
  <2>4. IsField(rest[last]) /\ Ordinal(rest, last) = n /\ IsField(rest[first]) /\ Ordinal(rest, first) = 1
    BY <2>1, <2>2, <2>3, <1>6, LastAndFirst
  <2>5. /\ MeantPost(string).text = MeantStart(string)
        /\ MeantPost(string).snippet = MeantSnippet(string)
    BY <1>17, <1>19
  <2>6. Snippet(post, m) = MeantSnippet(string) <=> MovesNothing(string)
    <3>1. Snippet(post, m) = FlattenSeq(MeantSeq(rest)) \o <<Ends>>
          <=> Unmoved(AllOf(SubSeq(rest, 1, last - 1), Inserted), rest[last].text,
                      AllOf(SubSeq(rest, last + 1, Len(rest)), Inserted))
      BY <2>1, <2>4, <1>6, <1>11, <1>13, SnippetRight, Zenon
    <3>2. MovesNothing(string)
          <=> Unmoved(AllOf(SubSeq(rest, 1, last - 1), Inserted), rest[last].text,
                      AllOf(SubSeq(rest, last + 1, Len(rest)), Inserted))
      BY <2>2, <1>4, MovesNothingIs, Zenon
    <3>3. MeantSnippet(string) = FlattenSeq(MeantSeq(rest)) \o <<Ends>>
      BY <1>4, MeantSnippetIs, Zenon
    <3> QED
      BY <3>1, <3>2, <3>3, Zenon
  <2>7. Substring(post, 0, m[1]) = MeantStart(string) <=> OneByteEach(MeantStart(string))
    <3>1. PICK before : before = AllOf(SubSeq(rest, 1, first - 1), Inserted)
      OBVIOUS
    <3>2. MeantStart(string) = before
      BY <2>3, <3>1, <1>4, Zenon DEF MeantStart
    <3>3. Substring(post, 0, m[1]) = before <=> OneByteEach(before)
      <4>1. rest \in Seq(Chunk)
        BY <1>6
      <4>2. first \in 1..Len(rest) /\ IsField(rest[first]) /\ Ordinal(rest, first) = 1
        BY <2>3, <2>4
      <4>3. post = Posts(rest)[Len(rest)]
        BY <1>11
      <4>4. m \in Seq(Nat) /\ AllMarks(m, rest, Len(rest), Sizes(rest))
        BY <1>13
      <4>5. StartShows(post, m, before)
        BY <4>1, <4>2, <4>3, <4>4, <3>1, StartRight, Zenon
      <4> QED
        BY <4>5, Zenon DEF StartShows
    <3> QED
      BY <3>2, <3>3
  <2>8. PostComplete(cand, TRUE) = Snippet(post, m) /\ PostComplete(cand, FALSE) = Substring(post, 0, m[1])
    BY <1>12, <1>13, <1>19, Zenon DEF PostComplete
  <2>9. cand.marks # <<>>
    BY <1>12, <1>19
  <2>10. PostComplete(cand, TRUE) = MeantPost(string).snippet <=> MovesNothing(string)
    BY <2>5, <2>6, <2>8
  <2>11. PostComplete(cand, FALSE) = MeantPost(string).text <=> OneByteEach(MeantPost(string).text)
    BY <2>5, <2>7, <2>8
  <2> QED
    BY <2>9, <2>10, <2>11, <1>14, Zenon DEF CutsAreRight
<1> QED
  BY <1>18, <1>19

-----------------------------------------------------------------------------
(***************************************************************************)
(* A list that the client gets is cut right.                               *)
(***************************************************************************)
\* The list that candidates answers is cut right.
LEMMA CandidatesCuts ==
    ASSUME NEW c, Candidates(c, String)
    PROVE  CutsWhereMeant'
<1> SUFFICES ASSUME reply'.list # <<>> PROVE CutsAreRight(reply'.string, reply'.list[1])
  BY Zenon DEF CutsWhereMeant
<1>0. PICK string \in String : \E prefix, style, printed :
         /\ printed <=> results # Nothing /\ IsPrinted(string, prefix, style)
         /\ reply' = [kind |-> "list", about |-> results, string |-> string,
                      list |-> IF printed THEN <<CandidateOf(string, prefix, style)>> ELSE <<>>]
  BY Zenon DEF Candidates, Answer
<1>1. PICK prefix, style, printed :
         /\ printed <=> results # Nothing /\ IsPrinted(string, prefix, style)
         /\ reply' = [kind |-> "list", about |-> results, string |-> string,
                      list |-> IF printed THEN <<CandidateOf(string, prefix, style)>> ELSE <<>>]
  BY <1>0, Zenon
<1>2. reply'.string = string
      /\ reply'.list = IF printed THEN <<CandidateOf(string, prefix, style)>> ELSE <<>>
  BY <1>1
<1>3. printed /\ IsPrinted(string, prefix, style)
  BY <1>1, <1>2
<1>4. reply'.list[1] = CandidateOf(string, prefix, style)
  BY <1>2, <1>3
<1>5. string \in CompletionString
  BY StringAssumption
<1>6. CutsAreRight(string, CandidateOf(string, prefix, style))
  BY <1>3, <1>5, CutsRight, Zenon
<1> QED
  BY <1>2, <1>4, <1>6, Zenon

\* Only candidates makes a list; every other step leaves it or answers otherwise.
LEMMA NextCuts == CutsWhereMeant /\ [Next]_vars => CutsWhereMeant'
<1> SUFFICES ASSUME CutsWhereMeant, [Next]_vars PROVE CutsWhereMeant'
  OBVIOUS
<1>1. CASE UNCHANGED reply
  BY <1>1, Zenon DEF CutsWhereMeant
<1>2. CASE reply' # Nothing => reply'.kind # "list"
  <2>1. reply'.kind # "list"
    BY <1>2 DEF Nothing
  <2> QED
    BY <2>1 DEF CutsWhereMeant
<1>3. CASE AskAny \/ AskAnyOptions \/ Send \/ Tools \/ UNCHANGED vars
  BY <1>1, <1>3 DEF AskAny, AskAnyOptions, Ask, AskOptions, Send, Tools, vars, fileVars, serverVars
<1>4. CASE Receive \/ NewProcess
  BY <1>2, <1>4 DEF Receive, NewProcess
<1>5. CASE ServerStep(String)
  <2>1. PICK c : Execute(c, String)
    BY <1>5 DEF ServerStep
  <2>2. CASE Parse(c) \/ Complete(c) \/ SetUnsaved(c) \/ ResetUnsaved(c)
    <3>1. reply' \in {Success, Failure, Unreadable}
      BY <2>2 DEF Parse, Complete, SetUnsaved, ResetUnsaved, Answer
    <3> QED
      BY <1>2, <3>1 DEF Success, Failure, Unreadable
  <2>3. CASE Diagnostics(c) \/ GetType(c) \/ Options(c) \/ Exit(c)
    <3>1. reply'.kind \in {"answer", "error", "options", "exit"}
      BY <2>3 DEF Diagnostics, GetType, Options, Exit, Answer, Failure
    <3> QED
      BY <1>2, <3>1
  <2>4. CASE Candidates(c, String)
    BY <2>4, CandidatesCuts
  <2>5. CASE LookUp(c)
    BY <1>1, <2>5 DEF LookUp, fileVars
  <2> QED
    BY <2>1, <2>2, <2>3, <2>4, <2>5 DEF Execute
<1> QED
  BY <1>3, <1>4, <1>5 DEF Next

\* The client cuts every candidate it gets where the server meant it to,
\* exactly when no wide character moves a cut, whatever completion string
\* libclang has: Irony::candidates counts bytes, irony-completion.el characters.
THEOREM CutsHold == Spec => []CutsWhereMeant
<1>1. Init => CutsWhereMeant
  <2> SUFFICES ASSUME Init PROVE CutsWhereMeant
    OBVIOUS
  <2>1. reply = Nothing
    BY DEF Init, ServerInit
  <2> QED
    BY <2>1 DEF CutsWhereMeant, Nothing
<1> QED
  BY <1>1, NextCuts, PTL DEF Spec

=============================================================================
