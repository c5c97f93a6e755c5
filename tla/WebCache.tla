------------------------------ MODULE WebCache ------------------------------
(***************************************************************************)
(* The cache of web results (internal/webcache): entries in memory, each   *)
(* also in a file of its own, which a new process reads.  Every operation  *)
(* holds the lock; the process may die within Set or Clear, between two    *)
(* steps.  Whether a file could be written or removed nobody looks at.  The*)
(* index file is written and never read, and left out.                     *)
(***************************************************************************)
EXTENDS Naturals, FiniteSets

CONSTANTS Searches,   \* keys
          Results,
          MaxSize,    \* Cache.maxSize, 500 in the code
          Lifetime,   \* Cache.ttl
          Given,      \* the times callers say a result expires at
          None,       \* no entry
          Torn,       \* a file that is no JSON
          MaxTime, MaxStops, MaxUnsaved

Entry == [result : Results, cachedAt : 0..MaxTime, expiresAt : (0..(MaxTime + Lifetime)) \cup Given]
CacheAssumption ==
    /\ MaxSize \in Nat \ {0} /\ Lifetime \in Nat /\ MaxTime \in Nat /\ Given \subseteq Nat
    /\ None \notin Entry /\ Torn \notin Entry /\ None # Torn

VARIABLES clock, entries, disk,
          latest,  \* history: what was stored last for each key, if not cleared
          unsaved, \* history: those whose file could not be written then, or
                   \* not removed when all was cleared
          stops
vars == <<clock, entries, disk, latest, unsaved, stops>>

Nothing == [k \in Searches |-> None]
Init ==
    /\ clock = 0 /\ entries = Nothing /\ disk = Nothing
    /\ latest = [k \in Searches |-> {None}] /\ unsaved = {} /\ stops = 0

Tick == clock < MaxTime /\ clock' = clock + 1 /\ UNCHANGED <<entries, disk, latest, unsaved, stops>>

Held(es) == {k \in Searches : es[k] # None}

Expired(e) == clock > e.expiresAt

\* What a caller is given
Get(k) == IF entries[k] = None THEN None ELSE IF Expired(entries[k]) THEN None ELSE entries[k]

\* One of the entries cached first (they may be as old as the new one).
Oldest(es) == {k \in Held(es) : \A o \in Held(es) : es[k].cachedAt <= es[o].cachedAt}

\* evictOldest, when there are too many: the entry and its file
Evictions(es) == IF Cardinality(Held(es)) > MaxSize THEN Oldest(es) ELSE {None}

\* The result comes with a time to expire at, or gets one from the cache.
New(r, until) == [result |-> r, cachedAt |-> clock, expiresAt |-> until]
Expiries == {clock + Lifetime} \cup Given

Set(k, r, until) ==
    LET e == New(r, until)
        es == [entries EXCEPT ![k] = e]
    IN \E out \in Evictions(es), removed \in BOOLEAN :
         LET kept == [o \in Searches |-> IF o = out /\ removed THEN None ELSE disk[o]]
         IN /\ entries' = [o \in Searches |-> IF o = out THEN None ELSE es[o]]
            /\ latest' = [latest EXCEPT ![k] = {e}]
            /\ \/ disk' = [kept EXCEPT ![k] = e] /\ unsaved' = unsaved \ {k}
               \/ /\ disk' \in {kept, [kept EXCEPT ![k] = Torn]}
                  /\ unsaved' = unsaved \cup {k} /\ Cardinality(unsaved') <= MaxUnsaved
            /\ UNCHANGED <<clock, stops>>

\* Some of the files may stay.
Without(files, ks) == [k \in Searches |-> IF k \in ks THEN None ELSE files[k]]
Clear ==
    /\ entries' = Nothing /\ latest' = [k \in Searches |-> {None}]
    /\ \E ks \in SUBSET Searches : disk' = Without(disk, ks)
    /\ unsaved' = {k \in Searches : disk'[k] # None} /\ Cardinality(unsaved') <= MaxUnsaved
    /\ UNCHANGED <<clock, stops>>

\* loadIndex: every file that can be read, however many and however old
Loaded(files) == [k \in Searches |-> IF files[k] = Torn THEN None ELSE files[k]]

\* The process ends, at rest, within Clear, or within Set(k, r, until) before,
\* within or after the write of the file, and starts again.
Restart ==
    /\ stops < MaxStops /\ stops' = stops + 1
    /\ \/ /\ \E ks \in SUBSET Searches : disk' = Without(disk, ks)
          /\ latest' = [k \in Searches |-> IF disk'[k] = disk[k] THEN latest[k] ELSE latest[k] \cup {None}]
       \/ \E k \in Searches, r \in Results, until \in Expiries :
            LET e == New(r, until)
                es == [entries EXCEPT ![k] = e]
            IN \E out \in Evictions(es), removed \in BOOLEAN, written \in {disk[k], Torn, e} :
                 /\ disk' = [o \in Searches |-> IF o = k /\ written # disk[k] THEN written
                                                ELSE IF o = out /\ removed THEN None ELSE disk[o]]
                 /\ latest' = [latest EXCEPT ![k] = @ \cup {e, None}]
    /\ entries' = Loaded(disk')
    /\ UNCHANGED <<clock, unsaved>>

Next ==
    \/ Tick \/ Clear \/ Restart
    \/ \E k \in Searches, r \in Results, until \in Expiries : Set(k, r, until)

-----------------------------------------------------------------------------
TypeOK ==
    /\ clock \in 0..MaxTime /\ entries \in [Searches -> Entry \cup {None}]
    /\ disk \in [Searches -> Entry \cup {None, Torn}]

\* A caller is given the last result stored for its key, as it was stored and
\* until it expires, or nothing; never one that was cleared or one a later
\* result had replaced (but for files that could not be written or removed),
\* whatever was evicted and whenever the process ended.  A cut file costs its
\* own entry and no other.
ServesTheLatest ==
    \A k \in Searches :
        /\ Get(k) # None /\ k \notin unsaved =>
              \E e \in latest[k] : e # None /\ Get(k) = e /\ clock <= e.expiresAt
        /\ k \notin unsaved =>
              /\ disk[k] \notin {None, Torn} => entries[k] = disk[k] \/ entries[k] = None
              /\ entries[k] # None => entries[k] = disk[k]
=============================================================================
