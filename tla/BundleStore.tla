----------------------------- MODULE BundleStore -----------------------------
(***************************************************************************)
(* What BundleFS promises to the bundle agent that stores bundles in it,   *)
(* without sectors and tables: a bundle that was stored stays, unchanged,  *)
(* until the agent deletes it, until it has expired and a maintenance task *)
(* collects it, or until it is traded for a new bundle.  Only a bundle     *)
(* that nobody has custody of, or that has expired, may be traded; at most *)
(* one is, it is at least as large as the new one, and the new one is      *)
(* really stored.  What may happen to the bundles depends on the call and  *)
(* on what it returns: a bundle goes for nothing only if the agent has     *)
(* called fs_delete, and a bundle that is refused costs no other.          *)
(***************************************************************************)
EXTENDS Integers

CONSTANTS
    Numbers,    \* inode numbers
    Sizes,      \* sizes of bundles, in bytes
    TTLs,       \* times at which a bundle's life ends
    MaxClock    \* the last time considered

VARIABLES
    bundles,    \* what is stored: a function from a subset of Numbers
    clock,
    result      \* the call that was made last and what it returned

storeVars == <<bundles, clock, result>>

Stored == DOMAIN bundles

Bundle(size, ttl, custody) ==
    [size |-> size, time_to_live |-> ttl, custody |-> custody]

Expired(b) == clock > b.time_to_live

Expendable(size) ==
    {n \in Stored : /\ bundles[n].size >= size
                    /\ ~bundles[n].custody \/ Expired(bundles[n])}

StoreInit == /\ bundles = [n \in {} |-> {}]
             /\ clock = 0
             /\ result = [call |-> "fs_mount", code |-> "FS_OK"]

\* The call returns; it takes no time.
Returns(call, code) == /\ result' = [call |-> call, code |-> code]
                       /\ UNCHANGED clock

Put(size, ttl, custody) ==
    \E traded \in {{}} \cup {{v} : v \in Expendable(size)} :
      \E n \in Numbers \ (Stored \ traded) :
        /\ bundles' = [m \in (Stored \ traded) \cup {n} |->
                         IF m = n THEN Bundle(size, ttl, custody)
                                  ELSE bundles[m]]
        /\ Returns("fs_create", "FS_OK")

Refuse == UNCHANGED bundles /\ Returns("fs_create", "FS_FULL")

Without(gone) == [m \in Stored \ gone |-> bundles[m]]

Drop(n) == bundles' = Without({n}) /\ Returns("fs_delete", "FS_OK")

\* The agent may hand custody on or change the life of a bundle.
Update(n, ttl, custody) ==
    /\ bundles' = [bundles EXCEPT ![n] = Bundle(@.size, ttl, custody)]
    /\ Returns("fs_close", "FS_OK")

CollectExpired ==
    /\ bundles' = Without({n \in Stored : Expired(bundles[n])})
    /\ Returns("delete_invalid_inodes", "FS_OK")

\* Calls that leave the bundles alone.
Open(code) == UNCHANGED bundles /\ Returns("fs_open", code)

Repair == UNCHANGED bundles /\ Returns("restore_fs", "FS_OK")

Tick ==
    /\ clock < MaxClock
    /\ clock' = clock + 1
    /\ UNCHANGED <<bundles, result>>

StoreNext ==
    \/ \E size \in Sizes, ttl \in TTLs, custody \in BOOLEAN :
         Put(size, ttl, custody)
    \/ Refuse
    \/ \E n \in Stored : Drop(n)
    \/ \E n \in Stored, ttl \in TTLs, custody \in BOOLEAN :
         Update(n, ttl, custody)
    \/ CollectExpired
    \/ \E code \in {"FS_OK", "FS_PARAM_ERROR"} : Open(code)
    \/ Repair
    \/ Tick

StoreSpec == StoreInit /\ [][StoreNext]_storeVars
=============================================================================
