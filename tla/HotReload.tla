------------------------------ MODULE HotReload ------------------------------
(***************************************************************************)
(* Hot reload of the node lists (main.go, internal/admin, internal/config, *)
(* internal/balancer).  The main goroutine on SIGHUP and every admin       *)
(* POST /admin/upstreams/reload each load the config file and then apply   *)
(* it with Registry.ReloadNodes; Registry.Snapshot reads all the pools for *)
(* the admin API.  The networks are fixed at startup; only the node lists  *)
(* change.                                                                 *)
(***************************************************************************)
EXTENDS Integers

CONSTANTS Chains,      \* the networks registered at startup
          Main,        \* the goroutine that receives signals
          Admins,      \* concurrent calls of the admin reload endpoint
          Viewers,     \* concurrent calls of the admin upstreams endpoint
          Unparsable,  \* a config file that cannot be read or parsed
          Files,       \* the other contents: functions from networks to node lists
          Empty,       \* the empty node list
          MaxEdits     \* bound on how often the operator edits the file

Reloaders == {Main} \union Admins
NoOne == "nobody"

ASSUME ReloadAssumption ==
  /\ Main \notin Admins
  /\ NoOne \notin Reloaders
  /\ Unparsable \notin Files
  /\ \A f \in Files : f = [c \in DOMAIN f |-> f[c]]
  /\ MaxEdits \in Nat

VARIABLES file, edition,   \* external: the config file and how often it was edited
          signals,         \* sigCh, a buffer of one
          pools,           \* r.pools: the node list of each network
          writer, readers, \* r.mu, a readers-writer lock
          pc, loaded,      \* of each reloader: its position, the chains it loaded
          left,            \* pools its loop in ReloadNodes has not reached
          result,          \* what its last reload returned
          view, unread,    \* of each viewer: the snapshot so far, chains to go
          committed,       \* ghost: the pools when r.mu was last free of a writer
          loadedEd,        \* ghost: of each reloader, the edition it loaded
          ackedEd,         \* ghost: the newest edition a reload has reported as applied
          overlapped,      \* ghost: a reload has loaded the file while another was on its way
          hupEd, triedEd   \* ghost: the edition at the last SIGHUP, and at main's last load

lockVars == <<writer, readers>>
reloadVars == <<pc, loaded, left, result, loadedEd, ackedEd, overlapped>>
viewVars == <<view, unread>>
signalVars == <<signals, hupEd, triedEd>>
vars == <<file, edition, signalVars, pools, lockVars, reloadVars, viewVars, committed>>

\* config.Load: readable, parsable, at least one chain, no chain without nodes.
Valid(f) ==
  /\ f # Unparsable
  /\ DOMAIN f # {}
  /\ \A c \in DOMAIN f : f[c] # Empty

\* The gateway starts from a valid file, whose chains are the networks.
Init ==
  /\ file \in {f \in Files : Valid(f) /\ DOMAIN f = Chains}
  /\ edition = 0
  /\ signals = {}
  /\ pools = file
  /\ writer = NoOne
  /\ readers = {}
  /\ pc = [r \in Reloaders |-> "idle"]
  /\ loaded = [r \in Reloaders |-> file]
  /\ left = [r \in Reloaders |-> {}]
  /\ result = [r \in Reloaders |-> "none"]
  /\ view = [v \in Viewers |-> file]
  /\ unread = [v \in Viewers |-> {}]
  /\ committed = pools
  /\ loadedEd = [r \in Reloaders |-> 0]
  /\ ackedEd = 0
  /\ overlapped = FALSE
  /\ hupEd = 0
  /\ triedEd = 0

----------------------------------------------------------------------------
(* The operator *)

Edit(f) ==
  /\ edition < MaxEdits
  /\ file' = f
  /\ edition' = edition + 1
  /\ UNCHANGED <<signalVars, pools, lockVars, reloadVars, viewVars, committed>>

DeliverUnbuffered(sig) == signals' = IF pc[Main] = "idle" /\ signals = {} THEN {sig} ELSE signals

\* signal.Notify does not block: a signal that finds sigCh full is dropped.
Deliver(sig) == signals' = IF signals = {} THEN {sig} ELSE signals

Hup ==                        \* kill -HUP
  /\ pc[Main] # "stopped"
  /\ Deliver("HUP")
  /\ hupEd' = edition
  /\ UNCHANGED <<file, edition, triedEd, pools, lockVars, reloadVars, viewVars, committed>>

Term ==                       \* kill -TERM or Ctrl-C
  /\ pc[Main] # "stopped"
  /\ Deliver("TERM")
  /\ UNCHANGED <<file, edition, hupEd, triedEd, pools, lockVars, reloadVars, viewVars, committed>>

----------------------------------------------------------------------------
(* The main goroutine's loop over sigCh, and the admin endpoint *)

Receive(sig, to) ==
  /\ pc[Main] = "idle"
  /\ sig \in signals
  /\ signals' = {}
  /\ pc' = [pc EXCEPT ![Main] = to]
  /\ UNCHANGED <<file, edition, hupEd, triedEd, pools, lockVars, loaded, left, result,
                 viewVars, committed, loadedEd, ackedEd, overlapped>>

ReceiveHup == Receive("HUP", "load")

Stop == Receive("TERM", "stopped")

Post(r) ==                    \* POST /admin/upstreams/reload arrives
  /\ pc[Main] # "stopped"
  /\ pc[r] = "idle"
  /\ pc' = [pc EXCEPT ![r] = "load"]
  /\ UNCHANGED <<file, edition, signalVars, pools, lockVars, loaded, left, result,
                 viewVars, committed, loadedEd, ackedEd, overlapped>>

----------------------------------------------------------------------------
(* A reload: config.Load, then Registry.ReloadNodes *)

LoadUnvalidated(r) ==
  /\ pc[r] = "load"
  /\ IF file # Unparsable
     THEN /\ pc' = [pc EXCEPT ![r] = "lock"]
          /\ loaded' = [loaded EXCEPT ![r] = file]
          /\ loadedEd' = [loadedEd EXCEPT ![r] = edition]
          /\ result' = [result EXCEPT ![r] = "none"]
     ELSE /\ pc' = [pc EXCEPT ![r] = "idle"]
          /\ result' = [result EXCEPT ![r] = "error"]
          /\ UNCHANGED <<loaded, loadedEd>>
  /\ triedEd' = IF r = Main THEN edition ELSE triedEd
  /\ overlapped' = (overlapped \/ \E q \in Reloaders : pc[q] \in {"lock", "apply"})
  /\ UNCHANGED <<file, edition, signals, hupEd, pools, lockVars, left, viewVars, committed, ackedEd>>

Load(r) ==
  /\ pc[r] = "load"
  /\ IF Valid(file)
     THEN /\ pc' = [pc EXCEPT ![r] = "lock"]
          /\ loaded' = [loaded EXCEPT ![r] = file]
          /\ loadedEd' = [loadedEd EXCEPT ![r] = edition]
          /\ result' = [result EXCEPT ![r] = "none"]
     ELSE /\ pc' = [pc EXCEPT ![r] = "idle"]
          /\ result' = [result EXCEPT ![r] = "error"]
          /\ UNCHANGED <<loaded, loadedEd>>
  /\ triedEd' = IF r = Main THEN edition ELSE triedEd
  /\ overlapped' = (overlapped \/ \E q \in Reloaders : pc[q] \in {"lock", "apply"})
  /\ UNCHANGED <<file, edition, signals, hupEd, pools, lockVars, left, viewVars, committed, ackedEd>>

Lock(r) ==                    \* r.mu.Lock()
  /\ pc[r] = "lock"
  /\ writer = NoOne
  /\ readers = {}
  /\ writer' = r
  /\ pc' = [pc EXCEPT ![r] = "apply"]
  /\ left' = [left EXCEPT ![r] = Chains]
  /\ UNCHANGED <<file, edition, signalVars, pools, readers, loaded, result, viewVars,
                 committed, loadedEd, ackedEd, overlapped>>

\* One iteration of the loop over r.pools, in map order.
ApplyStopsAtMissing(r, c) ==
  /\ pc[r] = "apply"
  /\ c \in left[r]
  /\ IF c \notin DOMAIN loaded[r]
     THEN /\ left' = [left EXCEPT ![r] = {}]
          /\ UNCHANGED <<pools, result>>
     ELSE /\ left' = [left EXCEPT ![r] = @ \ {c}]
          /\ pools' = [pools EXCEPT ![c] = loaded[r][c]]
          /\ UNCHANGED result
  /\ UNCHANGED <<file, edition, signalVars, lockVars, pc, loaded, viewVars, committed,
                 loadedEd, ackedEd, overlapped>>

\* The chain is missing: keep its nodes.  Its list is empty: return an error
\* with the remaining pools untouched.  Otherwise: pool.ReplaceNodes.
Apply(r, c) ==
  /\ pc[r] = "apply"
  /\ c \in left[r]
  /\ IF c \notin DOMAIN loaded[r]
     THEN /\ left' = [left EXCEPT ![r] = @ \ {c}]
          /\ UNCHANGED <<pools, result>>
     ELSE IF loaded[r][c] = Empty
     THEN /\ left' = [left EXCEPT ![r] = {}]
          /\ result' = [result EXCEPT ![r] = "error"]
          /\ UNCHANGED pools
     ELSE /\ left' = [left EXCEPT ![r] = @ \ {c}]
          /\ pools' = [pools EXCEPT ![c] = loaded[r][c]]
          /\ UNCHANGED result
  /\ UNCHANGED <<file, edition, signalVars, lockVars, pc, loaded, viewVars, committed,
                 loadedEd, ackedEd, overlapped>>

Larger(a, b) == IF a > b THEN a ELSE b

Unlock(r) ==                  \* the deferred r.mu.Unlock() and the return
  /\ pc[r] = "apply"
  /\ left[r] = {}
  /\ writer' = NoOne
  /\ committed' = pools
  /\ pc' = [pc EXCEPT ![r] = "idle"]
  /\ result' = [result EXCEPT ![r] = IF @ = "error" THEN @ ELSE "ok"]
  /\ ackedEd' = IF result[r] = "error" THEN ackedEd ELSE Larger(ackedEd, loadedEd[r])
  /\ UNCHANGED <<file, edition, signalVars, pools, readers, loaded, left, viewVars, loadedEd,
                 overlapped>>

----------------------------------------------------------------------------
(* Registry.Snapshot *)

RLockIgnoresWriter(v) ==
  /\ pc[Main] # "stopped"
  /\ v \notin readers
  /\ readers' = readers \union {v}
  /\ unread' = [unread EXCEPT ![v] = Chains]
  /\ UNCHANGED <<file, edition, signalVars, pools, writer, reloadVars, view, committed>>

RLock(v) ==                   \* a new GET /admin/upstreams
  /\ pc[Main] # "stopped"
  /\ v \notin readers
  /\ writer = NoOne
  /\ readers' = readers \union {v}
  /\ unread' = [unread EXCEPT ![v] = Chains]
  /\ UNCHANGED <<file, edition, signalVars, pools, writer, reloadVars, view, committed>>

ReadPool(v, c) ==             \* out[id] = p.Snapshot()
  /\ c \in unread[v]
  /\ view' = [view EXCEPT ![v] = [@ EXCEPT ![c] = pools[c]]]
  /\ unread' = [unread EXCEPT ![v] = @ \ {c}]
  /\ UNCHANGED <<file, edition, signalVars, pools, lockVars, reloadVars, committed>>

RUnlock(v) ==
  /\ v \in readers
  /\ unread[v] = {}
  /\ readers' = readers \ {v}
  /\ UNCHANGED <<file, edition, signalVars, pools, writer, reloadVars, viewVars, committed>>

----------------------------------------------------------------------------
Reload(r) == Load(r) \/ Lock(r) \/ Unlock(r) \/ \E c \in Chains : Apply(r, c)

Snapshot(v) == RLock(v) \/ RUnlock(v) \/ \E c \in Chains : ReadPool(v, c)

\* After the shutdown and the last request in flight the process exits.
Exited ==
  /\ pc[Main] = "stopped"
  /\ \A r \in Admins : pc[r] = "idle"
  /\ readers = {}
  /\ UNCHANGED vars

Next ==
  \/ \E f \in Files \union {Unparsable} : Edit(f)
  \/ Hup \/ Term
  \/ ReceiveHup \/ Stop
  \/ \E r \in Admins : Post(r)
  \/ \E r \in Reloaders : Reload(r)
  \/ \E v \in Viewers : Snapshot(v)
  \/ Exited

\* The main loop keeps receiving, a started reload or snapshot goes on, and
\* sync.RWMutex lets no stream of readers starve a waiting writer.
Fairness ==
  /\ WF_vars(ReceiveHup \/ Stop)
  /\ \A r \in Reloaders : SF_vars(Reload(r))
  /\ \A v \in Viewers : WF_vars(RUnlock(v) \/ \E c \in Chains : ReadPool(v, c))

Spec == Init /\ [][Next]_vars /\ Fairness

----------------------------------------------------------------------------
(* Properties *)

Lists == (UNION {{f[c] : c \in DOMAIN f} : f \in Files}) \ {Empty}

TypeOK ==
  /\ file \in Files \union {Unparsable}
  /\ edition \in 0 .. MaxEdits
  /\ signals \in {{}, {"HUP"}, {"TERM"}}
  /\ pools \in [Chains -> Lists]
  /\ writer \in Reloaders \union {NoOne}
  /\ readers \subseteq Viewers
  /\ pc \in [Reloaders -> {"idle", "load", "lock", "apply", "stopped"}]
  /\ loaded \in [Reloaders -> Files]
  /\ left \in [Reloaders -> SUBSET Chains]
  /\ result \in [Reloaders -> {"none", "ok", "error"}]
  /\ view \in [Viewers -> [Chains -> Lists]]
  /\ unread \in [Viewers -> SUBSET Chains]
  /\ committed \in [Chains -> Lists]
  /\ loadedEd \in [Reloaders -> 0 .. MaxEdits]
  /\ {ackedEd, hupEd, triedEd} \subseteq 0 .. MaxEdits
  /\ overlapped \in BOOLEAN

(***************************************************************************)
(* A reload that fails leaves every node list as it was, although          *)
(* ReloadNodes returns from the middle of its loop when a list is empty:   *)
(* config.Load refuses such a file before ReloadNodes sees it.             *)
(***************************************************************************)
FailedReloadChangesNothing ==
  \A r \in Reloaders : writer = r /\ result[r] = "error" => pools = committed

(***************************************************************************)
(* Registry.Snapshot never mixes the pools of two reloads: what it has     *)
(* read is what the pools held when no reload was being applied.           *)
(***************************************************************************)
SnapshotIsAtomic ==
  \A v \in readers : \A c \in Chains \ unread[v] : view[v][c] = committed[c]

(***************************************************************************)
(* docs/nodes.md: after editing the nodes, reload in either way.  Once a   *)
(* reload that loaded the latest edition has reported success, the pools   *)
(* hold what the file says, also after earlier reloads and refused ones,   *)
(* as long as no reload has loaded the file while another was between      *)
(* config.Load and the end of ReloadNodes.                                 *)
(***************************************************************************)
ReloadTakesEffect ==
  ~overlapped /\ writer = NoOne /\ ackedEd = edition /\ edition > 0 =>
    \A c \in Chains \intersect DOMAIN file : pools[c] = file[c]

(***************************************************************************)
(* A SIGHUP is never lost for good, although sigCh holds one signal and    *)
(* drops the others: the file as it was when the signal came, or a later   *)
(* edition, is afterwards loaded (or refused) by the main goroutine,       *)
(* unless the gateway is shut down.                                        *)
(***************************************************************************)
HupIsServed ==
  \A e \in 0 .. MaxEdits : (hupEd = e) ~> (triedEd >= e \/ pc[Main] = "stopped")
=============================================================================
