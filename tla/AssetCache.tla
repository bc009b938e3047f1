------------------------------ MODULE AssetCache ------------------------------
(***************************************************************************)
(* Loading the assets of a compiler toolchain through a cache that several *)
(* loads share (browser-toolchain/src/cache.ts).  A load awaits the cache, *)
(* the hashes, the network and every change of the cache; other loads, of  *)
(* the same or of another release of the asset under the same id, run in   *)
(* between.  What is cached may be damaged at any time.                    *)
(*                                                                         *)
(* One id is modelled: loads of different ids share nothing.  The SHA-256  *)
(* of some bytes is the bytes themselves.                                  *)
(***************************************************************************)
EXTENDS Naturals

CONSTANTS
    None,
    Loads,
    Contents,       \* contents an asset or an answer of the network may have
    Assets,         \* ToolchainAssetManifest: sha256, and whether sizeBytes is that of its bytes
    MaxDamage       \* bound: changes of the cached entry from outside

VARIABLES
    entry,      \* the cached bytes
    load,       \* per load: where it is, its asset and the bytes it holds
    damage      \* changes from outside so far

assetVars == <<entry, load, damage>>

\* where a load awaits, and how it ends
Awaiting == {"match", "hash", "evict", "fetch", "check", "discard", "put"}
Ended == {"loaded", "failed", "cancelled"}

Loading(at, asset) == [at |-> at, asset |-> asset, bytes |-> None, fetched |-> FALSE]
Goes(l, at) == load' = [load EXCEPT ![l].at = at]
At(l, at) == load[l].at = at

Matches_Anything(bytes, asset) == TRUE

\* actualHash = asset.sha256
Matches(bytes, asset) == bytes = asset.sha256

StartLoad(l) ==
    /\ At(l, "idle")
    /\ \E asset \in Assets : load' = [load EXCEPT ![l] = Loading("match", asset)]
    /\ UNCHANGED entry

ReadCache(l) ==
    /\ At(l, "match")
    /\ IF entry = None THEN Goes(l, "fetch")
       ELSE load' = [load EXCEPT ![l].at = "hash", ![l].bytes = entry]
    /\ UNCHANGED entry

\* hit, or evict what does not match and fetch
HashCached(l) ==
    /\ At(l, "hash")
    /\ Goes(l, IF Matches(load[l].bytes, load[l].asset) THEN "loaded" ELSE "evict")
    /\ UNCHANGED entry

Evict(l) == At(l, "evict") /\ entry' = None /\ load' = [load EXCEPT ![l].at = "fetch", ![l].bytes = None]

Cancel(l) == At(l, "fetch") /\ Goes(l, "cancelled") /\ UNCHANGED entry

FetchAsset(l) ==
    /\ At(l, "fetch")
    /\ \/ Goes(l, "failed")         \* the network fails, or answers with an error
       \/ \E bytes \in Contents : 
              load' = [load EXCEPT ![l] = [at |-> "check", asset |-> @.asset, bytes |-> bytes, fetched |-> TRUE]]
    /\ UNCHANGED entry

CheckFetched_HashOnly(l) ==
    /\ At(l, "check")
    /\ Goes(l, IF Matches(load[l].bytes, load[l].asset) THEN "put" ELSE "discard")
    /\ UNCHANGED entry

CheckFetched(l) ==
    /\ At(l, "check")
    /\ Goes(l, IF Matches(load[l].bytes, load[l].asset) /\ load[l].asset.sized THEN "put" ELSE "discard")
    /\ UNCHANGED entry

Discard(l) == At(l, "discard") /\ entry' = None /\ Goes(l, "failed")

StoreAsset(l) == At(l, "put") /\ entry' = load[l].bytes /\ Goes(l, "loaded")

\* Cache Storage rejects: the load throws
CacheFails(l) == load[l].at \in {"match", "evict", "discard", "put"} /\ Goes(l, "failed") /\ UNCHANGED entry

LoadStep(l) ==
    \/ StartLoad(l) \/ ReadCache(l) \/ HashCached(l) \/ Evict(l) \/ Cancel(l)
    \/ FetchAsset(l) \/ CheckFetched(l) \/ Discard(l) \/ StoreAsset(l) \/ CacheFails(l)

\* damaged, or removed by the browser
DamageEntry == damage < MaxDamage /\ damage' = damage + 1 /\ entry' \in Contents \cup {None} /\ UNCHANGED load

CacheInit == entry = None /\ load = [l \in Loads |-> Loading("idle", None)] /\ damage = 0

CacheNext ==
    \/ DamageEntry
    \/ UNCHANGED damage /\ \E l \in Loads : LoadStep(l)

CacheSpec == CacheInit /\ [][CacheNext]_assetVars

-----------------------------------------------------------------------------
AssetTypeOK ==
    /\ entry \in Contents \cup {None} /\ damage \in Nat
    /\ load \in [Loads -> [at : {"idle"} \cup Awaiting \cup Ended, asset : Assets \cup {None},
                           bytes : Contents \cup {None}, fetched : BOOLEAN]]

\* A load that succeeds has the bytes of its own release, and of the size its
\* manifest says when they came from the network, whatever was cached, damaged
\* or answered, and whichever other releases were loaded in between.
LoadsAreVerified ==
    \A l \in Loads : At(l, "loaded") =>
        load[l].bytes = load[l].asset.sha256 /\ (load[l].fetched => load[l].asset.sized)

\* As long as nobody damages the cache, it holds only bytes that some load of
\* its release has verified, so that a later hit needs no network.
CacheIsVerified ==
    damage = 0 /\ entry # None =>
        \E l \in Loads : At(l, "loaded") /\ load[l].fetched /\ load[l].bytes = entry
=============================================================================
