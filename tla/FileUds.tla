------------------------------ MODULE FileUds ------------------------------
(***************************************************************************)
(* Unix sockets that behave like files (onlplib/module/src/file_uds.c): a  *)
(* client that connects to a path gets what the path's handler writes.     *)
(* One worker thread polls the listening sockets and an eventfd; add,      *)
(* remove and destroy are called from another thread.  The only user is    *)
(* the SNMP agent, which serves /var/run/onl/cpu-utilization               *)
(* (onlp_snmp_platform.c) and opens and closes other descriptors meanwhile.*)
(*                                                                         *)
(* What happens after somebody else's descriptor was closed, or after the  *)
(* control object was freed under the worker, is not modelled.             *)
(***************************************************************************)
EXTENDS Naturals

CONSTANTS Paths,    \* paths that services are added for
          Fds,      \* descriptors the process may have open, beside the eventfd
          NoFd, NoPath,
          Backlog   \* connections a listening socket holds before accept

ASSUME NoFdAssumption == NoFd \notin Fds
ASSUME NoPathAssumption == NoPath \notin Paths
ASSUME BacklogAssumption == Backlog \in Nat

VARIABLES
  running,   \* control->running
  terminate, \* control->terminate
  event,     \* the eventfd has been written
  svc,       \* per path: "active" (1), "removing" (-1), "none" if it has no entry
  lfd,       \* per path: the entry's listening descriptor
  waiting,   \* per path: a connection waits to be accepted
  owner,     \* per descriptor: what it is open for
  wpc,       \* where the worker is
  watched,   \* paths in the epoll set
  batch,     \* what epoll_wait returned and the worker has not looked at
  serving,   \* the path of the connection being served
  cfd,       \* ... and its descriptor
  cpc,       \* where the caller is
  early,     \* history: destroy came before the worker had set running
  window,    \* history: descriptors opened since the handler closed its own
  wrong      \* history: a descriptor was closed that was somebody else's

control == <<running, terminate, event>>
services == <<svc, lfd, watched>>
worker == <<wpc, batch, serving, cfd>>
caller == <<cpc, early>>
vars == <<control, services, waiting, owner, worker, caller, window, wrong>>

\* The eventfd among the events of epoll_wait.
Wake == NoPath

WorkerLocations == {"created", "head", "scan", "wait", "serve", "handle",
                    "close", "ended"}
CallerLocations == {"idle", "wake", "signal", "join", "free", "gone"}

TypeOK == /\ running \in BOOLEAN /\ terminate \in BOOLEAN /\ event \in BOOLEAN
          /\ svc \in [Paths -> {"none", "active", "removing"}]
          /\ lfd \in [Paths -> Fds \cup {NoFd}]
          /\ waiting \in [Paths -> 0 .. Backlog]
          /\ owner \in [Fds -> {"free", "listen", "conn", "foreign"}]
          /\ wpc \in WorkerLocations
          /\ watched \subseteq Paths
          /\ batch \subseteq Paths \cup {Wake}
          /\ serving \in Paths \cup {NoPath}
          /\ cfd \in Fds \cup {NoFd}
          /\ cpc \in CallerLocations
          /\ early \in BOOLEAN
          /\ window \subseteq Fds
          /\ wrong \in BOOLEAN

Present == {p \in Paths : svc[p] # "none"}
Removing == {p \in Paths : svc[p] = "removing"}
Lfds(P) == {lfd[p] : p \in P}

\* onlp_file_uds_create has made the eventfd, the list and the thread.
Init == /\ running = FALSE /\ terminate = FALSE /\ event = FALSE
        /\ svc = [p \in Paths |-> "none"]
        /\ lfd = [p \in Paths |-> NoFd]
        /\ waiting = [p \in Paths |-> 0]
        /\ owner = [f \in Fds |-> "free"]
        /\ wpc = "created" /\ watched = {} /\ batch = {}
        /\ serving = NoPath /\ cfd = NoFd
        /\ cpc = "idle" /\ early = FALSE
        /\ window = {} /\ wrong = FALSE

\* A descriptor number is free for anybody as soon as it is closed.
Open(f, use) == /\ owner[f] = "free"
                /\ owner' = [owner EXCEPT ![f] = use]
                /\ window' = IF wpc = "close" THEN window \cup {f} ELSE window
-----------------------------------------------------------------------------
(* Clients, and the other threads of the process.                          *)

Connect(p) == /\ p \in Present
              /\ waiting[p] < Backlog
              /\ waiting' = [waiting EXCEPT ![p] = @ + 1]
              /\ UNCHANGED <<control, services, owner, worker, caller, window, wrong>>

ForeignOpen(f) == /\ Open(f, "foreign")
                  /\ UNCHANGED <<control, services, waiting, worker, caller, wrong>>

ForeignClose(f) == /\ owner[f] = "foreign"
                   /\ owner' = [owner EXCEPT ![f] = "free"]
                   /\ UNCHANGED <<control, services, waiting, worker, caller, window, wrong>>
-----------------------------------------------------------------------------
(* uds_thread_worker__                                                     *)

WGoto(l) == wpc' = l

\* epoll_create, control->running = 1.
WStart == /\ wpc = "created"
          /\ running' = TRUE
          /\ WGoto("head")
          /\ UNCHANGED <<terminate, event, services, waiting, owner, batch,
                         serving, cfd, caller, window, wrong>>

WStartFails == /\ wpc = "created"
               /\ WGoto("ended")
               /\ UNCHANGED <<control, services, waiting, owner, batch, serving,
                              cfd, caller, window, wrong>>

\* Leaves the loop by a break.
WBreak == /\ running' = FALSE
          /\ WGoto("ended")
          /\ UNCHANGED <<terminate, event, services, waiting, owner, batch,
                         serving, cfd, caller, window, wrong>>

WTerminates == wpc = "head" /\ terminate /\ WBreak

\* The test of terminate, and the eventfd joins the epoll set.
WHead == /\ wpc = "head"
         /\ ~terminate
         /\ WGoto("scan")
         /\ UNCHANGED <<control, services, waiting, owner, batch, serving, cfd,
                        caller, window, wrong>>

\* The eventfd cannot be added: a return that leaves running as it is.
WHeadFails == /\ wpc = "head"
              /\ ~terminate
              /\ WGoto("ended")
              /\ UNCHANGED <<control, services, waiting, owner, batch, serving,
                             cfd, caller, window, wrong>>

\* Mutant: the entry is not zeroed after its descriptor was closed.
WScanKeepsEntry ==
  /\ wpc = "scan"
  /\ watched' = Present \ Removing
  /\ owner' = [f \in Fds |-> IF f \in Lfds(Removing) THEN "free" ELSE owner[f]]
  /\ WGoto("wait")
  /\ UNCHANGED <<control, svc, lfd, waiting, batch, serving, cfd, caller, window, wrong>>

\* Under the list's lock: active services join the epoll set, services to be
\* removed leave it, are closed and cleared.
WScan == /\ wpc = "scan"
         /\ watched' = Present \ Removing
         /\ svc' = [p \in Paths |-> IF p \in Removing THEN "none" ELSE svc[p]]
         /\ lfd' = [p \in Paths |-> IF p \in Removing THEN NoFd ELSE lfd[p]]
         /\ waiting' = [p \in Paths |-> IF p \in Removing THEN 0 ELSE waiting[p]]
         /\ owner' = [f \in Fds |-> IF f \in Lfds(Removing) THEN "free" ELSE owner[f]]
         /\ WGoto("wait")
         /\ UNCHANGED <<control, batch, serving, cfd, caller, window, wrong>>

Ready == {p \in watched : waiting[p] > 0} \cup (IF event THEN {Wake} ELSE {})

\* epoll_wait returns every descriptor that is ready.
WWait == /\ wpc = "wait"
         /\ Ready # {}
         /\ batch' = Ready
         /\ WGoto("serve")
         /\ UNCHANGED <<control, services, waiting, owner, serving, cfd, caller,
                        window, wrong>>

\* EINTR: a signal ends a wait for which nothing is ready.
WInterrupted == /\ wpc = "wait"
                /\ Ready = {}
                /\ WGoto("head")
                /\ UNCHANGED <<control, services, waiting, owner, batch, serving,
                               cfd, caller, window, wrong>>

WWaitFails == wpc = "wait" /\ WBreak

\* The next event of the batch: the eventfd, or a service if it is still active.
WEventfd == /\ wpc = "serve"
            /\ Wake \in batch
            /\ batch' = batch \ {Wake}
            /\ event' = FALSE
            /\ UNCHANGED <<running, terminate, services, waiting, owner, wpc,
                           serving, cfd, caller, window, wrong>>

WSkip(p) == /\ wpc = "serve"
            /\ p \in batch
            /\ svc[p] # "active"
            /\ batch' = batch \ {p}
            /\ UNCHANGED <<control, services, waiting, owner, wpc, serving, cfd,
                           caller, window, wrong>>

\* accept__.  Between the test of active and accept the service may be
\* removed, but only this thread closes its descriptor.
WAccept(p) == /\ wpc = "serve"
              /\ p \in batch
              /\ svc[p] = "active"
              /\ batch' = batch \ {p}
              /\ serving' = p
              /\ waiting' = [waiting EXCEPT ![p] = @ - 1]
              /\ \E f \in Fds : Open(f, "conn") /\ cfd' = f
              /\ WGoto("handle")
              /\ UNCHANGED <<control, services, caller, wrong>>

\* No descriptor is free: the connection stays where it is.
WAcceptFails(p) == /\ wpc = "serve"
                   /\ p \in batch
                   /\ svc[p] = "active"
                   /\ \A f \in Fds : owner[f] # "free"
                   /\ batch' = batch \ {p}
                   /\ UNCHANGED <<control, services, waiting, owner, wpc, serving,
                                  cfd, caller, window, wrong>>

\* cpu_utilization_handler__ writes the value and closes the connection.
WHandle == /\ wpc = "handle"
           /\ owner' = [owner EXCEPT ![cfd] = "free"]
           /\ window' = {}
           /\ WGoto("close")
           /\ UNCHANGED <<control, services, waiting, batch, serving, cfd, caller, wrong>>

\* accept__ closes it once more.
WClose == /\ wpc = "close"
          /\ owner' = [owner EXCEPT ![cfd] = "free"]
          /\ wrong' = (owner[cfd] # "free")
          /\ window' = {}
          /\ serving' = NoPath
          /\ cfd' = NoFd
          /\ WGoto("serve")
          /\ UNCHANGED <<control, services, waiting, batch, caller>>

\* Mutant: the epoll set is filled once, before the loop.
WEndOfBatchWaits == /\ wpc = "serve"
                    /\ batch = {}
                    /\ WGoto("wait")
                    /\ UNCHANGED <<control, services, waiting, owner, batch, serving,
                                   cfd, caller, window, wrong>>

WEndOfBatch == /\ wpc = "serve"
               /\ batch = {}
               /\ WGoto("head")
               /\ UNCHANGED <<control, services, waiting, owner, batch, serving,
                              cfd, caller, window, wrong>>
-----------------------------------------------------------------------------
(* onlp_file_uds_add, _remove and _destroy.                                *)

Goto(l) == cpc' = l

\* A new service: socket, bind, listen and the entry, under the list's lock.
Add(p) == /\ cpc = "idle"
          /\ svc[p] = "none"
          /\ \E f \in Fds : Open(f, "listen") /\ lfd' = [lfd EXCEPT ![p] = f]
          /\ svc' = [svc EXCEPT ![p] = "active"]
          /\ Goto("wake")
          /\ UNCHANGED <<control, waiting, worker, watched, early, wrong>>

\* The path has an entry already, or the service cannot be created (in which
\* case add still returns 0).
AddsNothing == /\ cpc = "idle"
               /\ Goto("wake")
               /\ UNCHANGED <<control, services, waiting, owner, worker, early,
                              window, wrong>>

\* Mutant: add leaves the worker asleep, as remove does.
AddWakesNobody == /\ cpc = "wake"
                  /\ Goto("idle")
                  /\ UNCHANGED <<control, services, waiting, owner, worker, early,
                                 window, wrong>>

\* eventfd_write__, after the lock was given back.
AddWakes == /\ cpc = "wake"
            /\ event' = TRUE
            /\ Goto("idle")
            /\ UNCHANGED <<running, terminate, services, waiting, owner, worker,
                           early, window, wrong>>

\* Only marks the entry: the worker clears it when something else wakes it.
Remove(p) == /\ cpc = "idle"
             /\ p \in Present
             /\ svc' = [svc EXCEPT ![p] = "removing"]
             /\ UNCHANGED <<control, lfd, waiting, owner, worker, watched, caller,
                            window, wrong>>

\* Mutant: the worker is told, but not waited for.
DestroyNoJoin == /\ cpc = "idle"
                 /\ terminate' = TRUE
                 /\ event' = TRUE
                 /\ Goto("free")
                 /\ early' = ~running
                 /\ UNCHANGED <<running, services, waiting, owner, worker, window, wrong>>

\* The test of running.
Destroy == /\ cpc = "idle"
           /\ IF running
                THEN terminate' = TRUE /\ Goto("signal") /\ early' = early
                ELSE terminate' = terminate /\ Goto("free")
                     /\ early' = (wpc = "created")
           /\ UNCHANGED <<running, event, services, waiting, owner, worker, window, wrong>>

DestroyWakes == /\ cpc = "signal"
                /\ event' = TRUE
                /\ Goto("join")
                /\ UNCHANGED <<running, terminate, services, waiting, owner, worker,
                               early, window, wrong>>

Join == /\ cpc = "join"
        /\ wpc = "ended"
        /\ Goto("free")
        /\ UNCHANGED <<control, services, waiting, owner, worker, early, window, wrong>>

\* The services are closed, the list and the control object freed.
Free == /\ cpc = "free"
        /\ owner' = [f \in Fds |-> IF f \in Lfds(Present) THEN "free" ELSE owner[f]]
        /\ svc' = [p \in Paths |-> "none"]
        /\ lfd' = [p \in Paths |-> NoFd]
        /\ waiting' = [p \in Paths |-> 0]
        /\ watched' = {}
        /\ Goto("gone")
        /\ UNCHANGED <<control, worker, early, window, wrong>>
-----------------------------------------------------------------------------
Freed == cpc = "gone"

Serve == \/ WEventfd \/ WHandle \/ WClose \/ WEndOfBatch
         \/ \E p \in Paths : WSkip(p) \/ WAccept(p) \/ WAcceptFails(p)

Loop == WTerminates \/ WHead \/ WScan \/ WWait \/ Serve

Worker == \/ WStart \/ Loop
          \/ WStartFails \/ WHeadFails \/ WInterrupted \/ WWaitFails

InCall == AddWakes \/ DestroyWakes \/ Join \/ Free

Caller == InCall \/ Destroy \/ AddsNothing \/ \E p \in Paths : Add(p) \/ Remove(p)

Next == /\ ~wrong
        /\ \/ ~Freed /\ Worker
           \/ Caller
           \/ \E p \in Paths : Connect(p)
           \/ \E f \in Fds : ForeignOpen(f) \/ ForeignClose(f)

Spec == Init /\ [][Next]_vars

\* The worker is scheduled, and a caller inside the library goes on; nobody has
\* to connect, add, remove or destroy, and no system call has to fail.
Fairness == /\ WF_vars(~wrong /\ ~Freed /\ (WStart \/ Loop))
            /\ WF_vars(~wrong /\ InCall)

FairSpec == Spec /\ Fairness
-----------------------------------------------------------------------------
\* The inductive strengthening of the two safety properties.  The worker has
\* announced itself while it is in its loop; destroy frees the control object of
\* a worker that still runs only if it came before that.
RunningInv == /\ wpc = "created" => ~running
              /\ wpc \notin {"created", "ended"} => running
              /\ cpc \in {"free", "gone"} /\ wpc # "ended" => early

\* What epoll_wait has returned still has its connection.
BatchInv == /\ wpc \notin {"serve", "handle", "close", "ended"} => batch = {}
            /\ \A p \in Paths \cap batch : waiting[p] > 0 \/ Freed

\* Every entry has a listening socket of its own, and the connection being
\* served one descriptor, until the handler has closed it.
DescriptorInv ==
  ~wrong =>
    /\ \A p \in Present : lfd[p] \in Fds /\ owner[lfd[p]] = "listen"
    /\ \A p, q \in Present : lfd[p] = lfd[q] => p = q
    /\ \A p \in Paths \ Present : lfd[p] = NoFd
    /\ wpc \in {"handle", "close"} => cfd \in Fds
    /\ wpc = "handle" => owner[cfd] = "conn"
    /\ wpc = "close" /\ owner[cfd] # "free" => cfd \in window
    /\ \A f \in Fds : owner[f] = "conn" => wpc = "handle" /\ f = cfd

IInv == TypeOK /\ RunningInv /\ BatchInv /\ DescriptorInv
-----------------------------------------------------------------------------
\* The second close of a connection's descriptor does no harm to whatever was
\* open when the handler closed it: the service closes its own descriptors, and
\* beyond them at most one that another thread opened between the two closes.
ClosesOwn ==
  [][\A f \in Fds : owner[f] # "free" /\ owner'[f] = "free" =>
       \/ owner[f] = "foreign" /\ (f \in window \/ ForeignClose(f))
       \/ owner[f] = "listen" /\ (f \in window \/ f \in Lfds(Paths) \ Lfds(Paths)')
       \/ owner[f] = "conn" /\ f = cfd]_vars

\* The worker outlives the control object only if destroy came before the
\* worker had announced itself: then destroy does not join it.
NoUseAfterFree == Freed /\ wpc # "ended" => early

\* The worker still polls.
Polling == wpc # "ended" /\ ~terminate /\ ~Freed /\ ~wrong

\* Whoever connects to a service that stays is served, as long as the worker
\* keeps polling and descriptors do not run out for good: the wake-up written by
\* add after it gave the lock back is never lost.
Answered ==
  <>[](\E f \in Fds : owner[f] = "free") =>
    \A p \in Paths : waiting[p] > 0 /\ svc[p] = "active" /\ Polling
                       ~> serving = p \/ svc[p] # "active" \/ ~Polling

\* A removed path that is refused when it is added again is not refused for
\* ever: the refused call itself wakes the worker, which clears the entry.
RetriedAddSucceeds ==
  \A p \in Paths : svc[p] = "removing" /\ cpc = "wake" /\ Polling
                     ~> svc[p] # "removing" \/ ~Polling
=============================================================================
