----------------------------- MODULE ToolCache -----------------------------
(***************************************************************************)
(* The result cache, src/src/cache.rs: entries under a lock, beside them   *)
(* an index from the instant of an entry's last use to its key, which      *)
(* tells what to evict, and a count of the bytes in use.                   *)
(*                                                                         *)
(* get and set run under the lock of the entries, one at a time, but read  *)
(* the clock before they have it: a thread may use an instant that others  *)
(* have overtaken (by up to Skew), and two may read the same one.          *)
(* Results are left out: what counts is their size.  So are the counters   *)
(* of hits and misses.  A definition named X_Y is X with the bug Y.        *)
(***************************************************************************)
EXTENDS Integers, FiniteSets, Functions

CONSTANTS Keys,         \* tool names with their arguments
          Sizes,        \* estimated sizes of results
          MaxBytes,     \* max_bytes
          MaxEntries,   \* max_entries
          Ttl,          \* default_ttl, in ticks; the server sets no other
          Skew,         \* how late a thread may use an instant
          MaxTime       \* bound on the clock

ASSUME CacheAssumption ==
    /\ IsFiniteSet(Keys)
    /\ Sizes \subseteq Nat
    /\ MaxBytes \in Nat /\ MaxEntries \in Nat
    /\ Ttl \in Nat /\ Skew \in Nat /\ MaxTime \in Nat

VARIABLES entries,   \* entries[k]: size, last_accessed and expires_at
          index,     \* access_index: from instants to keys
          bytes,     \* bytes_used
          now,
          collided   \* two uses had the same instant (history)

cacheVars == <<entries, index, bytes, now, collided>>

Entry == [size : Nat, last : 0 .. MaxTime, expires : Nat]

CacheTypeOK ==
    /\ DOMAIN entries \subseteq Keys
    /\ \A k \in DOMAIN entries : entries[k] \in Entry
    /\ DOMAIN index \subseteq 0 .. MaxTime
    /\ \A t \in DOMAIN index : index[t] \in Keys
    /\ bytes \in Nat
    /\ now \in 0 .. MaxTime
    /\ collided \in BOOLEAN

Empty == [x \in {} |-> 0]

CacheInit ==
    /\ entries = Empty
    /\ index = Empty
    /\ bytes = 0
    /\ now = 0
    /\ collided = FALSE

With(f, x, v) == [y \in DOMAIN f \cup {x} |-> IF y = x THEN v ELSE f[y]]
Without(f, x) == Restrict(f, DOMAIN f \ {x})

\* The instants an operation that gets the lock now may have read.
Instants == {t \in (now - Skew) .. now : t >= 0}

Use(t) == collided' = (collided \/ t \in DOMAIN index)

(***************************************************************************)
(* get: a hit moves the entry to the new end of the index.  An entry whose *)
(* time is over is a miss, and stays where it is.                          *)
(***************************************************************************)
Reindex_KeepsOld(k, t) == With(index, t, k)
Reindex(k, t) == With(Without(index, entries[k].last), t, k)

Hit(k, t) ==
    /\ k \in DOMAIN entries
    /\ entries[k].expires > t
    /\ entries' = [entries EXCEPT ![k].last = t]
    /\ index' = Reindex(k, t)
    /\ Use(t)
    /\ UNCHANGED <<bytes, now>>

(***************************************************************************)
(* set: the entry that was there goes first, whatever happens then.        *)
(***************************************************************************)
OthersIndex(k) ==
    IF k \in DOMAIN entries THEN Without(index, entries[k].last) ELSE index

OthersBytes(k) ==
    IF k \in DOMAIN entries THEN bytes - entries[k].size ELSE bytes

\* What evicting the index entries at the instants V takes out, besides k.
Evicted(k, V) == {OthersIndex(k)[t] : t \in V} \cap (DOMAIN entries \ {k})

Kept(k, V) == DOMAIN entries \ ({k} \cup Evicted(k, V))

\* The size of every entry, to be summed.
SizeOf == [k \in DOMAIN entries |-> entries[k].size]

BytesKept(k, V) == OthersBytes(k) - SumFunctionOnSet(SizeOf, Evicted(k, V))

Fits(k, s, V) ==
    /\ BytesKept(k, V) + s <= MaxBytes
    /\ Cardinality(Kept(k, V)) < MaxEntries

\* The loop evicts the oldest until the new entry fits: an index entry goes
\* when evicting all older ones is not enough.
Victims_NewestFirst(k, s) ==
    {t \in DOMAIN OthersIndex(k) :
        ~Fits(k, s, {u \in DOMAIN OthersIndex(k) : u > t})}

Victims(k, s) ==
    {t \in DOMAIN OthersIndex(k) :
        ~Fits(k, s, {u \in DOMAIN OthersIndex(k) : u < t})}

Store(k, s, t) ==
    /\ s <= MaxBytes
    /\ Use(t)
    /\ LET V == Victims(k, s)
           rest == Restrict(entries, Kept(k, V))
           restIndex == Restrict(OthersIndex(k), DOMAIN OthersIndex(k) \ V)
       IN  IF Fits(k, s, V)
           THEN /\ entries' = With(rest, k, [size |-> s, last |-> t,
                                             expires |-> t + Ttl])
                /\ index' = With(restIndex, t, k)
                /\ bytes' = BytesKept(k, V) + s
           ELSE /\ entries' = rest
                /\ index' = restIndex
                /\ bytes' = BytesKept(k, V)
    /\ UNCHANGED now

Tick ==
    /\ now < MaxTime
    /\ now' = now + 1
    /\ UNCHANGED <<entries, index, bytes, collided>>

CacheNext ==
    \/ \E k \in Keys, t \in Instants :
          Hit(k, t) \/ \E s \in Sizes : Store(k, s, t)
    \/ Tick

CacheSpec == CacheInit /\ [][CacheNext]_cacheVars
-----------------------------------------------------------------------------
(* Properties.                                                             *)

\* The count of bytes is exact and neither limit is ever exceeded, whatever
\* the clock does.
WithinLimits ==
    /\ bytes = SumFunction(SizeOf)
    /\ bytes <= MaxBytes
    /\ Cardinality(DOMAIN entries) <= MaxEntries

\* Every entry can be found by the instant of its last use, and so can be
\* evicted; every instant in the index stands for an entry.  (Two uses at
\* one instant undo this: the index has room for one key per instant.)
IndexMatches ==
    ~collided =>
        /\ \A k \in DOMAIN entries :
              entries[k].last \in DOMAIN index /\ index[entries[k].last] = k
        /\ \A t \in DOMAIN index :
              index[t] \in DOMAIN entries /\ entries[index[t]].last = t

\* The cache knows what it holds.
CacheAccounts == WithinLimits /\ IndexMatches

\* As long as every entry has an instant of its own, set makes room for
\* whatever fits into an empty cache, and what it evicts was used before all
\* that is kept.
OldestMakesRoom ==
    [][~collided /\ cacheVars' # cacheVars =>
       /\ \A k \in Keys, s \in Sizes, t \in Instants :
             Store(k, s, t) /\ MaxEntries > 0 => k \in DOMAIN entries'
       /\ \A k \in DOMAIN entries \ DOMAIN entries',
             j \in DOMAIN entries \cap DOMAIN entries' :
             entries'[j] = entries[j] => entries[k].last < entries[j].last]_cacheVars

=============================================================================
