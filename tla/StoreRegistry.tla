---------------------------- MODULE StoreRegistry ----------------------------
(***************************************************************************)
(* The registry of built S3 stores that every clone of a Lake shares:      *)
(* Stores of third_party/object_store/impl/remote.rs, reached through      *)
(* Lake::with_lease of capability.rs.  A walk opens an object per table    *)
(* with that table's lease; the registry hands out one store per bucket    *)
(* and lease, and is emptied whole when it is full.                        *)
(*                                                                         *)
(* The critical section of shared_store is three steps here (the lookup,   *)
(* the emptying, the build), so what the Mutex excludes is visible, were   *)
(* openers on threads of their own: the runtime has one, and no await is   *)
(* in the section.                                                         *)
(***************************************************************************)
EXTENDS Naturals, FiniteSets

CONSTANTS Opener,      \* who may be inside open_remote, list_remote or root_store
          Bucket,      \* the buckets, the nameless one included
          NoBucket,    \* the bucket of a URL without a host: no store can be built
          Lease,       \* the leases: what options they set does not matter here
          Limit,       \* STORE_LIMIT
          MaxBuilds,   \* bound: stores built
          Nobody       \* nobody holds the lock

ASSUME StoreRegistryAssumption ==
    /\ NoBucket \in Bucket
    /\ Limit \in Nat \ {0}
    /\ MaxBuilds \in Nat
    /\ Nobody \notin Opener

Key == Bucket \X Lease

(* A build is told from the next one of its key.                          *)
Store == [bucket: Bucket, lease: Lease, build: 1..MaxBuilds, epoch: 0..MaxBuilds]
NoStore == [build |-> 0]

VARIABLES registry,  \* the map from StoreKey to Arc<Store>
          lock,      \* who holds the Mutex
          at,        \* where each opener is: "out", "lookup", "full", "build"
          want,      \* the bucket and lease each opener opens with
          reading,   \* the store behind the reader each opener was given
          builds,    \* stores built so far
          epoch      \* how many times the registry was emptied

registryVars == <<registry, lock, at, want, reading, builds, epoch>>

RegistryTypeOK ==
    /\ DOMAIN registry \subseteq Key
    /\ \A k \in DOMAIN registry : registry[k] \in Store
    /\ lock \in Opener \cup {Nobody}
    /\ at \in [Opener -> {"out", "lookup", "full", "build"}]
    /\ want \in [Opener -> Key]
    /\ reading \in [Opener -> Store \cup {NoStore}]
    /\ builds \in 0..MaxBuilds
    /\ epoch \in 0..builds

RegistryInit ==
    /\ registry = << >> /\ lock = Nobody
    /\ at = [c \in Opener |-> "out"]
    /\ want \in [Opener -> Key]
    /\ reading = [c \in Opener |-> NoStore]
    /\ builds = 0 /\ epoch = 0

-----------------------------------------------------------------------------
(* Mutant of StoreKey: the options are not part of the key.                *)
BucketKey(b, l) == <<b, CHOOSE any \in Lease : TRUE>>

(* The bucket and the exact options, sorted. *)
StoreKey(b, l) == <<b, l>>

KeyOf(c) == StoreKey(want[c][1], want[c][2])
Hit(c) == KeyOf(c) \in DOMAIN registry

(* Mutant of Free: the lookup does not wait for the lock.                  *)
FreeAlways == TRUE
Free == lock = Nobody

(* A read under a view of the lake: it drops its former reader and waits   *)
(* for the registry.                                                       *)
Open(c) ==
    /\ at[c] = "out" /\ Free
    /\ lock' = c
    /\ at' = [at EXCEPT ![c] = "lookup"]
    /\ \E k \in Key : want' = [want EXCEPT ![c] = k]
    /\ reading' = [reading EXCEPT ![c] = NoStore]
    /\ UNCHANGED <<registry, builds, epoch>>

(* The store already built for the key is shared. *)
Reuse(c) ==
    /\ at[c] = "lookup" /\ Hit(c)
    /\ reading' = [reading EXCEPT ![c] = registry[KeyOf(c)]]
    /\ at' = [at EXCEPT ![c] = "out"] /\ lock' = Nobody
    /\ UNCHANGED <<registry, want, builds, epoch>>

(* Mutant of IsFull: the limit is taken as the last size allowed to grow.  *)
IsFullLate == Cardinality(DOMAIN registry) > Limit

IsFull == Cardinality(DOMAIN registry) >= Limit

Miss(c) ==
    /\ at[c] = "lookup" /\ ~Hit(c)
    /\ at' = [at EXCEPT ![c] = IF IsFull THEN "full" ELSE "build"]
    /\ UNCHANGED <<registry, lock, want, reading, builds, epoch>>

(* registry.clear(): the readers keep the stores they were given. *)
Clear(c) ==
    /\ at[c] = "full"
    /\ registry' = << >> /\ epoch' = epoch + 1
    /\ at' = [at EXCEPT ![c] = "build"]
    /\ UNCHANGED <<lock, want, reading, builds>>

(* build_store fails, after the registry was emptied if it was full. *)
BuildFails(c) ==
    /\ at[c] = "build" /\ want[c][1] = NoBucket
    /\ at' = [at EXCEPT ![c] = "out"] /\ lock' = Nobody
    /\ UNCHANGED <<registry, want, reading, builds, epoch>>

(* The store is built from the URL and the options, registered and handed out. *)
Build(c) ==
    /\ at[c] = "build" /\ want[c][1] # NoBucket /\ builds < MaxBuilds
    /\ LET s == [bucket |-> want[c][1], lease |-> want[c][2],
                 build |-> builds + 1, epoch |-> epoch]
       IN  /\ registry' = [k \in DOMAIN registry \cup {KeyOf(c)} |->
                               IF k = KeyOf(c) THEN s ELSE registry[k]]
           /\ reading' = [reading EXCEPT ![c] = s]
    /\ builds' = builds + 1
    /\ at' = [at EXCEPT ![c] = "out"] /\ lock' = Nobody
    /\ UNCHANGED <<want, epoch>>

RegistryNext == \E c \in Opener : \/ Open(c) \/ Reuse(c) \/ Miss(c) \/ Clear(c)
                          \/ BuildFails(c) \/ Build(c)

RegistrySpec == RegistryInit /\ [][RegistryNext]_registryVars

-----------------------------------------------------------------------------
(* Properties.                                                             *)

(* A long walk with a lease per table does not grow the registry past      *)
(* STORE_LIMIT (remote.rs:155), openers queueing or not.                   *)
RegistryBounded == Cardinality(DOMAIN registry) <= Limit

(* Whoever reads, reads the bucket it asked for with the lease it asked    *)
(* with, whoever built the store and whatever was emptied since: no table  *)
(* is read with the lease of another (shared_store, with_lease).           *)
OwnLease ==
    \A c \in Opener : reading[c] # NoStore =>
        reading[c].bucket = want[c][1] /\ reading[c].lease = want[c][2]

(* "One AmazonS3 per (bucket, options)" (remote.rs:141): between two        *)
(* emptyings a key is built once, and all of its readers share that pool.   *)
BuiltOnce ==
    \A c, d \in Opener :
        /\ reading[c] # NoStore /\ reading[d] # NoStore
        /\ want[c] = want[d] /\ reading[c].epoch = reading[d].epoch
        => reading[c] = reading[d]
=============================================================================
