----------------------------- MODULE FeastCache -----------------------------
(***************************************************************************)
(* A server that answers requests for online features from a cached copy   *)
(* of the feature registry (feast/infra/registry/caching_registry.py, in   *)
(* mode sync): its request threads refresh the copy when its time-to-live  *)
(* is over, one of them at a time, and the feature server's timer          *)
(* (feast/feature_server.py) refreshes it too, without that lock.          *)
(***************************************************************************)
EXTENDS FeastRegistry

CONSTANTS
  Threads,  (* threads that answer requests *)
  Timer     (* the thread of async_refresh *)

Refreshers == Threads \cup {Timer}

ASSUME CacheAssumption == None \notin Refreshers /\ Timer \notin Threads

VARIABLES
  cache,    (* cached_registry_proto *)
  expired,  (* its time-to-live is over *)
  lock,     (* the thread that holds _refresh_lock, or None *)
  pc,       (* per refresher: where it is *)
  lookup,   (* per thread: what its request looks up next *)
  part,     (* per refresher: what proto() has read *)
  found,    (* per thread: the entity of the view it looked up *)
  closed,   (* history: per refresher and for the cache: read from a registry *)
            (* that had the entities of all its views and did not change     *)
  replaced  (* history, per thread: the cache was replaced since it looked up a view *)

cacheVars == <<cache, expired, lock, pc, lookup, part, found, closed, replaced>>

Nothing == [views |-> [v \in Views |-> None], entities |-> {}]
Snapshot == [views : [Views -> Entities \cup {None}], entities : SUBSET Entities]
Reading == {"proto", "proto views", "install"}

CacheTypeOK ==
  /\ cache \in Snapshot
  /\ expired \in BOOLEAN
  /\ lock \in Threads \cup {None}
  /\ pc \in [Refreshers -> {"idle", "check", "look", "proto again", "dead"} \cup Reading]
  /\ lookup \in [Threads -> {"view", "entity"}]
  /\ part \in [Refreshers -> Snapshot]
  /\ found \in [Threads -> Entities \cup {None}]
  /\ closed \in [Refreshers \cup {None} -> BOOLEAN]
  /\ replaced \in [Threads -> BOOLEAN]

StoredViews == [v \in Views |-> registry[v].entity]
StoredEntities == {e \in Entities : Exists(e)}
RegistryIsClosed == \A v \in Views : StoredViews[v] \in StoredEntities \cup {None}

(* The server is started on the empty registry and has just read it. *)
CacheInit ==
  /\ cache = [views |-> StoredViews, entities |-> StoredEntities]
  /\ expired = FALSE
  /\ lock = None
  /\ pc = [r \in Refreshers |-> "idle"]
  /\ lookup = [t \in Threads |-> "view"]
  /\ part = [r \in Refreshers |-> Nothing]
  /\ found = [t \in Threads |-> None]
  /\ closed = [r \in Refreshers \cup {None} |-> TRUE]
  /\ replaced = [t \in Threads |-> FALSE]

-----------------------------------------------------------------------------
Goes(r, from, to) == pc[r] = from /\ pc' = [pc EXCEPT ![r] = to]

(* What a step of a writer means to those that are reading the registry. *)
RegistryChanges ==
  closed' = [r \in Refreshers \cup {None} |->
               closed[r] /\ (r = None \/ pc[r] # "proto views" \/ registry' = registry)]

Expire ==
  /\ ~expired /\ expired' = TRUE
  /\ UNCHANGED <<feastVars, cache, lock, pc, lookup, part, found, closed, replaced>>

Request(t) ==
  /\ Goes(t, "idle", "check")
  /\ UNCHANGED <<feastVars, cache, expired, lock, lookup, part, found, closed, replaced>>

(* _refresh_cached_registry_if_necessary: a thread that finds the lock     *)
(* taken goes on with the copy there is.                                   *)
CheckCache(t) ==
  /\ \/ /\ ~expired \/ lock # None
        /\ Goes(t, "check", "look")
        /\ UNCHANGED lock
     \/ /\ expired /\ lock = None
        /\ Goes(t, "check", "proto")
        /\ lock' = t
  /\ UNCHANGED <<feastVars, cache, expired, lookup, part, found, closed, replaced>>

TimerFires ==
  /\ Goes(Timer, "idle", "proto")
  /\ UNCHANGED <<feastVars, cache, expired, lock, lookup, part, found, closed, replaced>>

(* The refresh reads into the copy that is being used. *)
FaultyProtoEntities(r) ==
  /\ Goes(r, "proto", "proto views")
  /\ part' = [part EXCEPT ![r].entities = StoredEntities]
  /\ cache' = [cache EXCEPT !.entities = StoredEntities]
  /\ closed' = [closed EXCEPT ![r] = RegistryIsClosed]
  /\ UNCHANGED <<feastVars, expired, lock, lookup, found, replaced>>

(* proto() lists the entities and then the views, each on its own. *)
ProtoEntities(r) ==
  /\ Goes(r, "proto", "proto views")
  /\ part' = [part EXCEPT ![r].entities = StoredEntities]
  /\ closed' = [closed EXCEPT ![r] = RegistryIsClosed]
  /\ UNCHANGED <<feastVars, cache, expired, lock, lookup, found, replaced>>

ProtoViews(r) ==
  /\ Goes(r, "proto views", "install")
  /\ part' = [part EXCEPT ![r].views = StoredViews]
  /\ UNCHANGED <<feastVars, cache, expired, lock, lookup, found, closed, replaced>>

(* The refresh of r is over: proto()'s result is dropped, the lock freed.   *)
Unlock(r) == lock' = IF lock = r THEN None ELSE lock
Drop(r) == part' = [part EXCEPT ![r] = Nothing]
AfterRefresh(r) == IF r = Timer THEN "proto again" ELSE "look"

Install(r) ==
  /\ Goes(r, "install", AfterRefresh(r))
  /\ cache' = part[r] /\ expired' = FALSE
  /\ closed' = [closed EXCEPT ![None] = closed[r], ![r] = TRUE]
  /\ replaced' = [t \in Threads |-> lookup[t] = "entity"]
  /\ Unlock(r) /\ Drop(r)
  /\ UNCHANGED <<feastVars, lookup, found>>

FaultyRefreshFails(r) ==
  /\ \E at \in {"proto", "proto views"} : Goes(r, at, AfterRefresh(r))
  /\ closed' = [closed EXCEPT ![r] = TRUE]
  /\ Fault /\ Drop(r)
  /\ UNCHANGED <<registry, online, sent, stage, repo, todo, left, runId, target, obj, seen, stale,
                 feastHistory, cache, expired, lock, lookup, found, replaced>>

(* refresh() swallows what proto() raises; the copy stays, and is expired. *)
RefreshFails(r) ==
  /\ \E at \in {"proto", "proto views"} : Goes(r, at, AfterRefresh(r))
  /\ closed' = [closed EXCEPT ![r] = TRUE]
  /\ Fault /\ Unlock(r) /\ Drop(r)
  /\ UNCHANGED <<registry, online, sent, stage, repo, todo, left, runId, target, obj, seen, stale,
                 feastHistory, cache, expired, lookup, found, replaced>>

(* async_refresh calls proto() once more, unprotected: when that raises,   *)
(* the timer is not set again.                                             *)
TimerAgain ==
  /\ \/ Goes(Timer, "proto again", "idle") /\ UNCHANGED feastFaults
     \/ Goes(Timer, "proto again", "dead") /\ Fault
  /\ UNCHANGED <<registry, online, sent, stage, repo, todo, left, runId, target, obj, seen, stale,
                 feastHistory, cache, expired, lock, lookup, part, found, closed, replaced>>

LookupView(t, v) ==
  /\ lookup[t] = "view"
  /\ \/ /\ cache.views[v] = None
        /\ Goes(t, "look", "idle")
        /\ UNCHANGED <<lookup, found, replaced>>
     \/ /\ cache.views[v] # None
        /\ Goes(t, "look", "check")
        /\ lookup' = [lookup EXCEPT ![t] = "entity"]
        /\ found' = [found EXCEPT ![t] = cache.views[v]]
        /\ replaced' = [replaced EXCEPT ![t] = FALSE]
  /\ UNCHANGED <<feastVars, cache, expired, lock, part, closed>>

LookupEntity(t) ==
  /\ lookup[t] = "entity"
  /\ Goes(t, "look", "idle")
  /\ lookup' = [lookup EXCEPT ![t] = "view"]
  /\ found' = [found EXCEPT ![t] = None]
  /\ replaced' = [replaced EXCEPT ![t] = FALSE]
  /\ UNCHANGED <<feastVars, cache, expired, lock, part, closed>>

Refresh(r) == ProtoEntities(r) \/ ProtoViews(r) \/ Install(r) \/ RefreshFails(r)
LookUp(t) == LookupEntity(t) \/ \E v \in Views : LookupView(t, v)
Serve(t) == Request(t) \/ CheckCache(t) \/ LookUp(t) \/ Refresh(t)
TimerStep == TimerFires \/ Refresh(Timer) \/ TimerAgain

-----------------------------------------------------------------------------
(* Properties.                                                              *)

(* A request fails for want of the entity of its view only if it looked    *)
(* into two copies, or the copy was read while the registry was changing   *)
(* or lacked the entity itself: the copy is replaced as a whole            *)
(* (caching_registry.py:427-432; utils.py:793-807).                        *)
EntitiesAreFound ==
  \A t \in Threads :
    pc[t] = "look" /\ lookup[t] = "entity" /\ found[t] \notin cache.entities =>
      replaced[t] \/ ~closed[None]
=============================================================================
