----------------------- MODULE LoadbalancerReconciler -----------------------
(***************************************************************************)
(* LoadbalancerReconciler.Reconcile: a pass reads the Loadbalancer, makes  *)
(* the Service it names, and copies the Service's address to the           *)
(* Loadbalancer's status with an optimistic-lock update.                   *)
(***************************************************************************)
EXTENDS Resources

VARIABLES
  lbpc, \* "idle", or the API call the running pass makes next
  lblb, \* the pass's copy of the Loadbalancer
  lbsvc, \* the pass's copy of the Service, once written
  lost   \* the last pass ended with a status update that failed for another
         \* reason than a conflict (history: the program does not record it)

loadbalancerVars == <<lbpc, lblb, lbsvc, lost>>

\* Mutant: Owns(Service) was forgotten.
WatchesWithoutServices == {"lb"}

\* For(Loadbalancer) and Owns(Service).
LoadbalancerWatches == {"lb"} \cup ServiceNames

LoadbalancerInit ==
  lbpc = "idle" /\ lblb = Absent /\ lbsvc = Absent /\ lost = FALSE

EndPass == lbpc' = "idle" /\ lblb' = Absent /\ lbsvc' = Absent

EndLoadbalancer == EndPass /\ UNCHANGED lost

\* The mutated Service: its spec is overwritten, its status is kept.
ServiceFor(lb, ingress) ==
  [selector |-> ServiceSelector(lb.selectors), ingress |-> ingress]

AfterService ==
  ServiceFor(lblb, IF Cached(lblb.name) = Absent
                     THEN NoIngress ELSE Cached(lblb.name).ingress)

\* Mutant: a Loadbalancer that is not found is reconciled all the same.
StartLoadbalancerUnchecked ==
  /\ lbpc = "idle"
  /\ "loadbalancer" \in queue
  /\ queue' = queue \ {"loadbalancer"}
  /\ lbpc' = "service"
  /\ lblb' = Cached("lb")
  /\ current' = IF Fresh("lb") THEN current \cup {"lb"} ELSE current \ {"lb"}
  /\ lost' = FALSE
  /\ UNCHANGED <<obj, budget, lbsvc>>

\* The worker takes the request and reads the Loadbalancer from the cache.
StartLoadbalancer ==
  /\ lbpc = "idle"
  /\ "loadbalancer" \in queue
  /\ queue' = queue \ {"loadbalancer"}
  /\ IF Cached("lb") = Absent
       THEN UNCHANGED <<lbpc, lblb, current>>
       ELSE /\ lbpc' = "service"
            /\ lblb' = Cached("lb")
            /\ current' = IF Fresh("lb") THEN current \cup {"lb"} ELSE current \ {"lb"}
  /\ lost' = FALSE
  /\ UNCHANGED <<obj, budget, lbsvc>>

\* Mutants: a pass that does not look whether there is an ingress, and one
\* that ends when the ingress has no address.
EnsureServiceUnchecked ==
  /\ lbpc = "service"
  /\ Write(lblb.name, AfterService)
  /\ lbpc' = "status"
  /\ lbsvc' = Written(lblb.name, AfterService)
  /\ UNCHANGED <<lblb, lost, queue, budget>>

EnsureServiceSkippingHostnames ==
  /\ lbpc = "service"
  /\ Write(lblb.name, AfterService)
  /\ LET service == Written(lblb.name, AfterService)
     IN  IF service.ingress \in {NoIngress, NoIP}
           THEN EndLoadbalancer
           ELSE lbpc' = "status" /\ lbsvc' = service /\ UNCHANGED <<lblb, lost>>
  /\ UNCHANGED <<queue, budget>>

\* CreateOrPatch of the Service.  Overwriting the whole spec drops what the
\* API server had defaulted in it, so a request is always sent and the copy
\* the pass goes on with is the server's.  A Service without an ingress ends
\* the pass.
EnsureService ==
  /\ lbpc = "service"
  /\ Write(lblb.name, AfterService)
  /\ LET service == Written(lblb.name, AfterService)
     IN  IF service.ingress = NoIngress
           THEN EndLoadbalancer
           ELSE lbpc' = "status" /\ lbsvc' = service /\ UNCHANGED <<lblb, lost>>
  /\ UNCHANGED <<queue, budget>>

\* Mutant: the error is logged and not returned.
FailServiceSwallowed ==
  /\ lbpc = "service"
  /\ WriteFails(lblb.name, AfterService)
  /\ UNCHANGED queue
  /\ EndLoadbalancer

\* It fails: the error is returned and the request queued again.
FailService ==
  /\ lbpc = "service"
  /\ WriteFails(lblb.name, AfterService)
  /\ queue' = queue \cup {"loadbalancer"}
  /\ EndLoadbalancer

\* Mutant: an address that has been published is never replaced.
UpdateStatusOnce ==
  /\ lbpc = "status"
  /\ "lb" \in current
  /\ IF lblb.ip = NoIP
       THEN Commit("lb", [Store("lb") EXCEPT !.ip = lbsvc.ingress])
       ELSE UNCHANGED <<obj, current>>
  /\ EndLoadbalancer
  /\ UNCHANGED <<queue, budget>>

\* Status().Update with the address of the first ingress, accepted because
\* the Loadbalancer has not been written since the pass's copy of it.
UpdateStatus ==
  /\ lbpc = "status"
  /\ "lb" \in current
  /\ Commit("lb", [Store("lb") EXCEPT !.ip = lbsvc.ingress])
  /\ EndLoadbalancer
  /\ UNCHANGED <<queue, budget>>

\* A conflict (or NotFound): the error is logged and Reconcile returns no
\* error and asks for no requeue.
StatusConflict ==
  /\ lbpc = "status"
  /\ "lb" \notin current
  /\ EndLoadbalancer
  /\ UNCHANGED <<obj, queue, current, budget>>

\* Any other failure of the update ends the pass in the same way, whether the
\* request or only its answer was lost.
StatusFault ==
  /\ lbpc = "status"
  /\ Disturb("statusFault")
  /\ \/ UNCHANGED <<obj, current>>
     \/ /\ "lb" \in current
        /\ Commit("lb", [Store("lb") EXCEPT !.ip = lbsvc.ingress])
  /\ EndPass
  /\ lost' = TRUE
  /\ UNCHANGED queue

LoadbalancerReconcile ==
  \/ StartLoadbalancer
  \/ EnsureService \/ FailService
  \/ UpdateStatus \/ StatusConflict \/ StatusFault

-----------------------------------------------------------------------------
(* What a pass keeps, whatever it runs together with.                      *)

\* A running pass holds the copies its next call needs.
LoadbalancerLocals ==
  /\ lbpc \in {"idle", "service", "status"}
  /\ lblb \in IF lbpc = "idle" THEN {Absent} ELSE Loadbalancers
  /\ lbsvc \in IF lbpc = "status" THEN Services ELSE {Absent}
  /\ lbpc = "status" => lbsvc.ingress # NoIngress
  /\ lost \in BOOLEAN

\* No request is queued and no event that would queue one is on its way.
LoadbalancerQuiet ==
  /\ "loadbalancer" \notin queue
  /\ \A o \in LoadbalancerWatches : Fresh(o)

\* The Service the Loadbalancer names selects what its spec asks for.
ServiceInSync ==
  LET lb == Store("lb") IN
  /\ Exists(lb.name)
  /\ Store(lb.name).selector = ServiceSelector(lb.selectors)

\* The address of the Service, if it has one, is the Loadbalancer's.
AddressInSync ==
  LET lb == Store("lb") IN
    Exists(lb.name) /\ Store(lb.name).ingress # NoIngress
      => lb.ip = Store(lb.name).ingress

\* A copy that carries the server's resourceVersion is the server's version.
CurrentCopy == lbpc # "idle" /\ "lb" \in current => lblb = Store("lb")

\* While nothing is on its way to the controller, a pass works on the
\* server's versions and what it has written so far is in sync.
LoadbalancerPass ==
  LoadbalancerQuiet =>
    /\ lbpc # "idle" => "lb" \in current
    /\ lbpc = "status" => ServiceInSync /\ lbsvc = Store(Store("lb").name)
    /\ lbpc = "idle" /\ Exists("lb") =>
         /\ ServiceInSync
         /\ ~lost => AddressInSync
==============================================================================
