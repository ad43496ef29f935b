------------------------------- MODULE Cluster -------------------------------
(***************************************************************************)
(* The Kubernetes API server, the informer caches and the work queues that *)
(* every reconciler of the operator runs against.                          *)
(*                                                                         *)
(* An object is a timeline: the sequence of its versions from the one the  *)
(* informer cache holds (the head) to the one the API server holds (the    *)
(* last).  A write appends a version, a watch event drops the head; a      *)
(* timeline of length one is an object whose cache is up to date.  All     *)
(* controllers run in one manager process and share one informer per kind, *)
(* so one cached version per object is enough.                             *)
(***************************************************************************)
EXTENDS Naturals, Sequences

CONSTANTS
  Objects,        \* the names of the API objects
  Controllers,    \* the names of the controllers of the manager
  Absent,         \* the version of an object that does not exist
  Disturbances,   \* the kinds of disturbance the environment may cause
  MaxDisturbances \* a bound on their number

ASSUME MaxDisturbancesIsNat == MaxDisturbances \in Nat

VARIABLES
  obj,     \* object -> its timeline of versions
  queue,   \* the controllers whose (single) request is queued or delayed
  current, \* objects whose version, as last read by the controller that
           \* will update its status, is still the server's resourceVersion
  budget   \* disturbances left

clusterVars == <<obj, queue, current, budget>>

ClusterInit ==
  /\ obj = [o \in Objects |-> <<Absent>>]
  /\ queue = {}
  /\ current = {}
  /\ budget = MaxDisturbances

Store(o)  == obj[o][Len(obj[o])]
Cached(o) == Head(obj[o])
Fresh(o)  == Len(obj[o]) = 1

Exists(o) == Store(o) # Absent

\* A write reaches the API server.  One that changes nothing leaves the
\* resourceVersion alone and produces no watch event.
Commit(o, v) ==
  /\ obj' = [obj EXCEPT ![o] = IF v = Store(o) THEN @ ELSE Append(@, v)]
  /\ current' = IF v = Store(o) THEN current ELSE current \ {o}

\* The watch event of the next version: the cache takes it and every
\* controller watching the object gets its request queued.  The queue is a
\* set because a work queue holds a request once.
Deliver(o, watched) ==
  /\ ~Fresh(o)
  /\ obj' = [obj EXCEPT ![o] = Tail(@)]
  /\ queue' = queue \cup {c \in DOMAIN watched : o \in watched[c]}
  /\ UNCHANGED <<current, budget>>

\* The informers' periodic resync: every object in the cache is handed to the
\* controllers once more, changed or not.
Resync(watched) ==
  /\ queue' = queue \cup {c \in DOMAIN watched : \E o \in watched[c] : Cached(o) # Absent}
  /\ UNCHANGED <<obj, current, budget>>

\* A disturbance of the environment, one of a bounded number.
Disturb(kind) ==
  /\ kind \in Disturbances
  /\ budget > 0
  /\ budget' = budget - 1

\* Someone other than the controllers writes an object.
Interfere(kind, o, v) ==
  /\ Disturb(kind)
  /\ v # Store(o)
  /\ Commit(o, v)
  /\ UNCHANGED queue

\* The manager dies and comes back: work queues are lost, caches are listed
\* afresh, and the initial list queues a request for everything that exists.
Relist(watched) ==
  /\ Disturb("crash")
  /\ obj' = [o \in DOMAIN obj |-> <<Store(o)>>]
  /\ queue' = {c \in DOMAIN watched : \E o \in watched[c] : Exists(o)}
  /\ current' = {}

(***************************************************************************)
(* controllerutil.CreateOrPatch.  The object is read from the cache and    *)
(* mutated into "after".  An object the cache does not have is created;    *)
(* one that the mutation changes gets a merge patch of the changed fields  *)
(* alone, without a resourceVersion; one that it leaves alone costs no     *)
(* request, even if the cache is out of date.                              *)
(***************************************************************************)
Patched(stored, before, after) ==
  [f \in DOMAIN stored |-> IF after[f] # before[f] THEN after[f] ELSE stored[f]]

\* AlreadyExists for a creation, NotFound for a patch.
Refused(o) == (Cached(o) = Absent) # (Store(o) = Absent)

Written(o, after) ==
  IF Cached(o) = Absent THEN after ELSE Patched(Store(o), Cached(o), after)

Sends(o, after) == Cached(o) # after

\* The request is sent and accepted.
Write(o, after) == ~Refused(o) /\ Commit(o, Written(o, after))

CreateOrPatch(o, after) ==
  IF Sends(o, after) THEN Write(o, after) ELSE UNCHANGED <<obj, current>>

\* The object the caller holds afterwards: the server's answer, or the
\* cached copy when no request was sent.
Returned(o, after) == IF Sends(o, after) THEN Written(o, after) ELSE Cached(o)

\* CreateOrPatch returns an error: the server refused the request, or the
\* request or its answer was lost on the way.
WriteFails(o, after) ==
  \/ Refused(o) /\ UNCHANGED <<obj, current, budget>>
  \/ Disturb("fault") /\ UNCHANGED <<obj, current>>
  \/ Disturb("fault") /\ Write(o, after)
==============================================================================
