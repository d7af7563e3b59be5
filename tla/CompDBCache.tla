---------------------------- MODULE CompDBCache ----------------------------
(***************************************************************************)
(* The compilation database that irony-server keeps loaded                 *)
(* (CompDBCache.cpp) while build tools write, rewrite and remove the       *)
(* compile_commands.json files it comes from.                              *)
(*                                                                         *)
(* fromDirectory looks at the modification time first and loads after      *)
(* that; the file may change in between, and a time is in whole seconds.   *)
(***************************************************************************)
EXTENDS Naturals

CONSTANTS
    Dir,            \* the build directories
    NoDir,          \* no directory: the empty filename_
    MaxVersion,     \* bound: times the file of a directory is written
    MaxTime         \* bound: the last second

ASSUME CompDBAssumption == NoDir \notin Dir /\ MaxVersion \in Nat /\ MaxTime \in Nat \ {0}

VARIABLES
    json,           \* the file of a directory: version and modification time
    clock,          \* the time, in seconds
    cache,          \* filename_, mtime_ and the version loaded as db_
    lookup,         \* fromDirectory between its stat and its load
    served,         \* what the last lookup returned
    rewritten       \* history: <<d, t>> if the file of d was written twice in t

cdbVars == <<json, clock, cache, lookup, served, rewritten>>

Time == 0..MaxTime
Version == 0..MaxVersion

\* Version 0 of a file is no file.  A file that is removed keeps its number.
JsonFile == [version : Version, mtime : Time, exists : BOOLEAN]

\* version 0: no database is loaded
Cached == [dir : Dir \cup {NoDir}, mtime : Time, version : Version, of : Dir \cup {NoDir}]
Empty == [dir |-> NoDir, mtime |-> 0, version |-> 0, of |-> NoDir]

\* seen: the version there was at the stat, 0 for none
Lookup == [dir : Dir, mtime : Time, seen : Version]
NoLookup == [dir |-> NoDir, mtime |-> 0, seen |-> 0]

\* What getCompileOptions gets: a database, or an error (version 0)
Served == [dir : Dir, mtime : Time, seen : Version, of : Dir \cup {NoDir}, version : Version]
NothingServed == [dir |-> NoDir]

CdbInit ==
    /\ json = [d \in Dir |-> [version |-> 0, mtime |-> 0, exists |-> FALSE]]
    /\ clock = 1
    /\ cache = Empty
    /\ lookup = NoLookup
    /\ served = NothingServed
    /\ rewritten = {}

-----------------------------------------------------------------------------
(***************************************************************************)
(* The build tools and the clock.                                          *)
(***************************************************************************)
Write(d) ==
    /\ json[d].version < MaxVersion
    /\ rewritten' = IF json[d].mtime = clock THEN rewritten \cup {<<d, clock>>} ELSE rewritten
    /\ json' = [json EXCEPT ![d] = [version |-> @.version + 1, mtime |-> clock, exists |-> TRUE]]
    /\ UNCHANGED <<clock, cache, lookup, served>>

Delete(d) ==
    /\ json[d].exists
    /\ json' = [json EXCEPT ![d].exists = FALSE]
    /\ UNCHANGED <<clock, cache, lookup, served, rewritten>>

Tick ==
    /\ clock < MaxTime
    /\ clock' = clock + 1
    /\ UNCHANGED <<json, cache, lookup, served, rewritten>>

-----------------------------------------------------------------------------
(***************************************************************************)
(* CompDBCache::fromDirectory, as called by Irony::getCompileOptions.      *)
(***************************************************************************)

\* modificationTime: 0 if there is no such file
ModificationTime(d) == IF json[d].exists THEN json[d].mtime ELSE 0

\* The stat
Stat(d) ==
    /\ lookup = NoLookup
    /\ lookup' = [dir |-> d, mtime |-> ModificationTime(d),
                  seen |-> IF json[d].exists THEN json[d].version ELSE 0]
    /\ served' = NothingServed
    /\ UNCHANGED <<json, clock, cache, rewritten>>

\* Fault: the directory is not compared.
Bug_IsCached == lookup.mtime # 0 /\ lookup.mtime = cache.mtime

IsCached == lookup.dir = cache.dir /\ lookup.mtime # 0 /\ lookup.mtime = cache.mtime

Serve(of, version) ==
    /\ served' = [dir |-> lookup.dir, mtime |-> lookup.mtime, seen |-> lookup.seen,
                  of |-> of, version |-> version]
    /\ lookup' = NoLookup
    /\ UNCHANGED <<json, clock, rewritten>>

UseCached ==
    /\ lookup # NoLookup /\ IsCached
    /\ Serve(cache.of, cache.version)
    /\ UNCHANGED cache

\* What is kept of a database that was loaded: without a time it is not
\* found again, but it is still what the next clear disposes of.
Remember(d, version) ==
    IF lookup.mtime = 0 THEN [Empty EXCEPT !.version = version, !.of = d]
    ELSE [dir |-> d, mtime |-> lookup.mtime, version |-> version, of |-> d]

\* clear and load
Load ==
    /\ lookup # NoLookup /\ ~IsCached
    /\ json[lookup.dir].exists
    /\ cache' = Remember(lookup.dir, json[lookup.dir].version)
    /\ Serve(lookup.dir, json[lookup.dir].version)

\* The file is not there, or cannot be read while a tool is writing it.
LoadError ==
    /\ lookup # NoLookup /\ ~IsCached
    /\ cache' = Empty
    /\ Serve(NoDir, 0)

FromDirectory == UseCached \/ Load \/ LoadError

\* A new process has an empty cache.
NewCache ==
    /\ cache' = Empty /\ lookup' = NoLookup /\ served' = NothingServed
    /\ UNCHANGED <<json, clock, rewritten>>

CdbNext ==
    \/ \E d \in Dir : Write(d) \/ Delete(d) \/ Stat(d)
    \/ Tick
    \/ FromDirectory
    \/ NewCache

CdbSpec == CdbInit /\ [][CdbNext]_cdbVars

-----------------------------------------------------------------------------
CdbTypeOK ==
    /\ json \in [Dir -> JsonFile]
    /\ clock \in Time
    /\ cache \in Cached
    /\ lookup \in Lookup \cup {NoLookup}
    /\ served \in Served \cup {NothingServed}
    /\ rewritten \subseteq Dir \X Time

\* The database that is served is that of the directory asked for, and not
\* older than the file was when the request came in, even if it is taken from
\* the cache and the file was removed, written again, or written between the
\* stat and the load.  The exception is a file that was written twice in the
\* second that is its modification time.
ServedIsFresh ==
    served # NothingServed /\ served.version # 0 =>
        /\ served.of = served.dir
        /\ served.version >= served.seen \/ <<served.dir, served.mtime>> \in rewritten

\* What holds of the cache between lookups: what is kept for a directory and
\* a time was loaded from there, and is at least the first version of that time.
CacheIsOwn == cache.dir # NoDir => cache.of = cache.dir /\ cache.mtime # 0 /\ cache.version # 0
=============================================================================
