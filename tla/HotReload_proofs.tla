-------------------------- MODULE HotReload_proofs --------------------------
(***************************************************************************)
(* Reloads of the node lists for any number of networks, admin calls,      *)
(* viewers and edits: no failed reload changes a list, no snapshot is      *)
(* torn, and reloads that do not overlap take effect.                      *)
(***************************************************************************)
EXTENDS HotReload, TLAPS

Busy(r) == pc[r] \in {"lock", "apply"}

\* r.mu: the writer is in ReloadNodes' loop, and readers see finished reloads only.
LockInv ==
  /\ \A r \in Reloaders : writer = r <=> pc[r] = "apply"
  /\ writer # NoOne => readers = {}
  /\ writer = NoOne => pools = committed

\* A reload that goes on after config.Load has a valid file, and has it applied
\* to the pools it has reached.
LoadInv ==
  /\ \A r \in Reloaders :
       /\ loadedEd[r] <= edition
       /\ Busy(r) => /\ Valid(loaded[r]) /\ result[r] = "none"
                     /\ loadedEd[r] = edition => loaded[r] = file
       /\ pc[r] = "apply" =>
            \A c \in (Chains \ left[r]) \intersect DOMAIN loaded[r] : pools[c] = loaded[r][c]
  /\ ackedEd <= edition

\* Without overlap, one reload is under way, and none that is older than the
\* newest applied.
EffectInv ==
  ~overlapped =>
    /\ \A q, r \in Reloaders : Busy(q) /\ Busy(r) => q = r
    /\ (ackedEd = edition /\ edition > 0) =>
         /\ \A r \in Reloaders : Busy(r) => loadedEd[r] = edition
         /\ \A c \in Chains \intersect DOMAIN file : pools[c] = file[c]

ReloadInv == TypeOK /\ LockInv /\ LoadInv /\ EffectInv /\ SnapshotIsAtomic

\* The list a file gives a network is one of Lists unless it is empty.
LEMMA InLists ==
  ASSUME NEW f \in Files, NEW c \in DOMAIN f, f[c] # Empty
  PROVE  f[c] \in Lists
<1>1. f[c] \in {f[d] : d \in DOMAIN f}
  OBVIOUS
<1>2. {f[d] : d \in DOMAIN f} \in {{g[d] : d \in DOMAIN g} : g \in Files}
  OBVIOUS
<1>3. f[c] \in UNION {{g[d] : d \in DOMAIN g} : g \in Files}
  BY <1>1, <1>2, Zenon
<1> QED
  BY <1>3 DEF Lists

\* The gateway starts with the networks of a valid file and nothing under way.
LEMMA ReloadInit == Init => ReloadInv
<1> SUFFICES ASSUME Init PROVE ReloadInv
  OBVIOUS
<1>1. file \in Files /\ Valid(file) /\ DOMAIN file = Chains
  BY DEF Init
<1>2. file = [c \in Chains |-> file[c]]
  BY <1>1, ReloadAssumption
<1>3. \A c \in Chains : file[c] \in Lists
  BY <1>1, InLists DEF Valid
<1>4. file \in [Chains -> Lists]
  BY <1>2, <1>3
<1>5. TypeOK
  <2>1. /\ file \in Files \union {Unparsable} /\ signals = {}
        /\ pools \in [Chains -> Lists] /\ committed \in [Chains -> Lists]
        /\ writer \in Reloaders \union {NoOne} /\ readers \subseteq Viewers
        /\ overlapped \in BOOLEAN
    BY <1>1, <1>4 DEF Init
  <2>4. edition \in 0 .. MaxEdits /\ {ackedEd, hupEd, triedEd} \subseteq 0 .. MaxEdits
    <3>1. 0 \in 0 .. MaxEdits
      BY ReloadAssumption
    <3> QED
      BY <3>1 DEF Init
  <2>2. /\ pc \in [Reloaders -> {"idle", "load", "lock", "apply", "stopped"}]
        /\ result \in [Reloaders -> {"none", "ok", "error"}]
        /\ loadedEd \in [Reloaders -> 0 .. MaxEdits]
    BY ReloadAssumption DEF Init
  <2>3. /\ loaded \in [Reloaders -> Files] /\ left \in [Reloaders -> SUBSET Chains]
        /\ view \in [Viewers -> [Chains -> Lists]] /\ unread \in [Viewers -> SUBSET Chains]
    BY <1>1, <1>4 DEF Init
  <2> QED
    BY <2>1, <2>2, <2>3, <2>4 DEF TypeOK
<1>6. LockInv
  BY ReloadAssumption DEF Init, LockInv
<1>7. LoadInv
  BY <1>5 DEF Init, LoadInv, Busy, TypeOK
<1>8. EffectInv
  BY DEF Init, EffectInv, Busy
<1>9. SnapshotIsAtomic
  BY DEF Init, SnapshotIsAtomic
<1> QED
  BY <1>5, <1>6, <1>7, <1>8, <1>9 DEF ReloadInv

\* Signals and calls that start: no reload is between config.Load and its end
\* that was not before.
LEMMA Waiting ==
  ASSUME ReloadInv, TypeOK',
         \A r \in Reloaders : pc'[r] = pc[r]
                              \/ (~Busy(r) /\ pc'[r] \notin {"lock", "apply"}),
         UNCHANGED <<file, edition, pools, writer, readers, loaded, left, result, view, unread,
                     committed, loadedEd, ackedEd, overlapped>>
  PROVE  ReloadInv'
<1>1. \A r \in Reloaders : (Busy(r)' <=> Busy(r)) /\ (pc'[r] = "apply" <=> pc[r] = "apply")
  BY DEF Busy
<1>2. LockInv'
  BY <1>1 DEF ReloadInv, LockInv
<1>3. LoadInv'
  BY <1>1 DEF ReloadInv, LoadInv, Valid
<1>4. EffectInv'
  BY <1>1 DEF ReloadInv, EffectInv
<1>5. SnapshotIsAtomic'
  BY DEF ReloadInv, SnapshotIsAtomic
<1> QED
  BY <1>2, <1>3, <1>4, <1>5 DEF ReloadInv

\* An edit makes every load and every success so far one of an older edition.
LEMMA EditInv ==
  ASSUME ReloadInv, NEW f \in Files \union {Unparsable}, Edit(f)
  PROVE  ReloadInv'
<1>1. /\ edition \in Nat /\ edition' = edition + 1 /\ ackedEd \in Nat /\ ackedEd <= edition
      /\ \A r \in Reloaders : loadedEd[r] \in Nat /\ loadedEd[r] <= edition
  BY ReloadAssumption DEF ReloadInv, TypeOK, LoadInv, Edit
<1>2. UNCHANGED <<signals, hupEd, triedEd, pools, writer, readers, pc, loaded, left, result,
                  view, unread, committed, loadedEd, ackedEd, overlapped>>
  BY DEF Edit, signalVars, lockVars, reloadVars, viewVars
<1>3. TypeOK'
  <2>1. edition' \in 0 .. MaxEdits /\ file' \in Files \union {Unparsable}
    BY <1>1, ReloadAssumption DEF Edit
  <2> QED
    BY <1>2, <2>1 DEF ReloadInv, TypeOK
<1>4. LockInv' /\ SnapshotIsAtomic'
  BY <1>2 DEF ReloadInv, LockInv, SnapshotIsAtomic
<1>5. \A r \in Reloaders : loadedEd'[r] # edition'
  BY <1>1, <1>2
<1>6. LoadInv'
  <2>1. \A r \in Reloaders : loadedEd'[r] <= edition' /\ ackedEd' <= edition'
    BY <1>1, <1>2
  <2> QED
    BY <1>1, <1>2, <1>5, <2>1 DEF ReloadInv, LoadInv, Busy, Valid
<1>7. EffectInv'
  BY <1>1, <1>2 DEF ReloadInv, EffectInv, Busy
<1> QED
  BY <1>3, <1>4, <1>6, <1>7 DEF ReloadInv

\* A signal that arrives, and one that is received.
LEMMA SignalInv ==
  ASSUME ReloadInv,
         Hup \/ Term \/ ReceiveHup \/ Stop \/ \E r \in Admins : Post(r)
  PROVE  ReloadInv'
<1> USE DEF signalVars, lockVars, reloadVars, viewVars
<1>1. TypeOK
  BY DEF ReloadInv
<1>2. CASE Hup \/ Term
  <2>1. signals' \in {signals, {"HUP"}, {"TERM"}} /\ hupEd' \in {hupEd, edition}
    BY <1>2 DEF Hup, Term, Deliver
  <2>2. UNCHANGED <<file, edition, triedEd, pools, writer, readers, pc, loaded, left, result,
                    view, unread, committed, loadedEd, ackedEd, overlapped>>
    BY <1>2 DEF Hup, Term
  <2>3. TypeOK'
    BY <1>1, <2>1, <2>2 DEF TypeOK
  <2> QED
    BY <2>2, <2>3, Waiting
<1>3. ASSUME NEW sig, NEW to \in {"load", "stopped"}, Receive(sig, to)
      PROVE  ReloadInv'
  <2>1. Main \in Reloaders
    BY DEF Reloaders
  <2>2. /\ pc[Main] = "idle" /\ pc' = [pc EXCEPT ![Main] = to] /\ signals' = {}
        /\ UNCHANGED <<file, edition, hupEd, triedEd, pools, writer, readers, loaded, left, result,
                       view, unread, committed, loadedEd, ackedEd, overlapped>>
    BY <1>3 DEF Receive
  <2>3. TypeOK'
    BY <1>1, <2>1, <2>2 DEF TypeOK
  <2>4. \A r \in Reloaders : pc'[r] = pc[r] \/ (~Busy(r) /\ pc'[r] \notin {"lock", "apply"})
    BY <1>1, <2>2 DEF TypeOK, Busy
  <2> QED
    BY <2>2, <2>3, <2>4, Waiting
<1>4. ASSUME NEW r \in Admins, Post(r)
      PROVE  ReloadInv'
  <2>1. r \in Reloaders
    BY DEF Reloaders
  <2>2. /\ pc[r] = "idle" /\ pc' = [pc EXCEPT ![r] = "load"]
        /\ UNCHANGED <<file, edition, signals, hupEd, triedEd, pools, writer, readers, loaded, left,
                       result, view, unread, committed, loadedEd, ackedEd, overlapped>>
    BY <1>4 DEF Post
  <2>3. TypeOK'
    BY <1>1, <2>1, <2>2 DEF TypeOK
  <2>4. \A q \in Reloaders : pc'[q] = pc[q] \/ (~Busy(q) /\ pc'[q] \notin {"lock", "apply"})
    BY <1>1, <2>2 DEF TypeOK, Busy
  <2> QED
    BY <2>2, <2>3, <2>4, Waiting
<1> QED
  BY <1>2, <1>3, <1>4 DEF ReceiveHup, Stop

\* config.Load lets only valid files through to ReloadNodes.
LEMMA LoadedInv ==
  ASSUME ReloadInv, NEW r \in Reloaders, Load(r)
  PROVE  ReloadInv'
<1> USE DEF lockVars, viewVars
<1>1. TypeOK /\ pc[r] = "load"
  BY DEF ReloadInv, Load
<1>2. UNCHANGED <<file, edition, signals, hupEd, pools, writer, readers, left, view, unread,
                  committed, ackedEd>>
  BY DEF Load
<1>3. /\ overlapped' = (overlapped \/ \E q \in Reloaders : Busy(q))
      /\ triedEd' \in {edition, triedEd}
  BY DEF Load, Busy
<1>4. CASE Valid(file)
  <2>1. /\ pc' = [pc EXCEPT ![r] = "lock"] /\ loaded' = [loaded EXCEPT ![r] = file]
        /\ loadedEd' = [loadedEd EXCEPT ![r] = edition] /\ result' = [result EXCEPT ![r] = "none"]
    BY <1>4 DEF Load
  <2>2. file \in Files
    BY <1>1, <1>4 DEF TypeOK, Valid
  <2>3. TypeOK'
    BY <1>1, <1>2, <1>3, <2>1, <2>2 DEF TypeOK
  <2>4. \A q \in Reloaders \ {r} : /\ pc'[q] = pc[q] /\ loaded'[q] = loaded[q]
                                   /\ loadedEd'[q] = loadedEd[q] /\ result'[q] = result[q]
    BY <1>1, <2>1 DEF TypeOK
  <2>5. pc'[r] = "lock" /\ loaded'[r] = file /\ loadedEd'[r] = edition /\ result'[r] = "none"
    BY <1>1, <2>1 DEF TypeOK
  <2>6. LockInv' /\ SnapshotIsAtomic'
    BY <1>1, <1>2, <2>4, <2>5 DEF ReloadInv, LockInv, SnapshotIsAtomic
  <2>7. LoadInv'
    <3>1. edition \in Nat
      BY <1>1, ReloadAssumption DEF TypeOK
    <3>2. ASSUME NEW q \in Reloaders
          PROVE  /\ loadedEd'[q] <= edition'
                 /\ Busy(q)' => /\ Valid(loaded'[q]) /\ result'[q] = "none"
                                /\ loadedEd'[q] = edition' => loaded'[q] = file'
                 /\ pc'[q] = "apply" =>
                      \A c \in (Chains \ left'[q]) \intersect DOMAIN loaded'[q] :
                        pools'[c] = loaded'[q][c]
      <4>1. CASE q = r
        BY <1>2, <1>4, <2>5, <3>1, <4>1
      <4>2. CASE q # r
        BY <1>2, <2>4, <4>2 DEF ReloadInv, LoadInv, Busy
      <4> QED
        BY <4>1, <4>2
    <3> QED
      BY <1>2, <3>2 DEF ReloadInv, LoadInv, Valid
  <2>8. EffectInv'
    BY <1>1, <1>2, <1>3, <2>4, <2>5 DEF ReloadInv, EffectInv, Busy
  <2> QED
    BY <2>3, <2>6, <2>7, <2>8 DEF ReloadInv
<1>5. CASE ~Valid(file)
  <2>1. pc' = [pc EXCEPT ![r] = "idle"] /\ result' = [result EXCEPT ![r] = "error"]
        /\ UNCHANGED <<loaded, loadedEd>>
    BY <1>5 DEF Load
  <2>2. TypeOK'
    BY <1>1, <1>2, <1>3, <2>1 DEF TypeOK
  <2>3. \A q \in Reloaders : (Busy(q)' <=> Busy(q)) /\ (pc'[q] = "apply" <=> pc[q] = "apply")
                             /\ (Busy(q) => result'[q] = result[q])
    BY <1>1, <2>1 DEF TypeOK, Busy
  <2>4. LockInv' /\ SnapshotIsAtomic'
    BY <1>2, <2>3 DEF ReloadInv, LockInv, SnapshotIsAtomic
  <2>5. LoadInv'
    BY <1>2, <2>1, <2>3 DEF ReloadInv, LoadInv, Valid
  <2>6. EffectInv'
    BY <1>2, <1>3, <2>1, <2>3 DEF ReloadInv, EffectInv
  <2> QED
    BY <2>2, <2>4, <2>5, <2>6 DEF ReloadInv
<1> QED
  BY <1>4, <1>5

\* r.mu.Lock: the loop starts with no pool reached.
LEMMA LockedInv ==
  ASSUME ReloadInv, NEW r \in Reloaders, Lock(r)
  PROVE  ReloadInv'
<1> USE DEF signalVars, viewVars
<1>1. TypeOK /\ pc[r] = "lock" /\ writer = NoOne /\ readers = {}
  BY DEF ReloadInv, Lock
<1>2. /\ writer' = r /\ pc' = [pc EXCEPT ![r] = "apply"] /\ left' = [left EXCEPT ![r] = Chains]
      /\ UNCHANGED <<file, edition, signals, hupEd, triedEd, pools, readers, loaded, result,
                     view, unread, committed, loadedEd, ackedEd, overlapped>>
  BY DEF Lock
<1>3. TypeOK'
  BY <1>1, <1>2 DEF TypeOK
<1>4. \A q \in Reloaders \ {r} : pc'[q] = pc[q] /\ left'[q] = left[q] /\ pc[q] # "apply"
  BY <1>1, <1>2, ReloadAssumption DEF TypeOK, ReloadInv, LockInv
<1>5. pc'[r] = "apply" /\ left'[r] = Chains
  BY <1>1, <1>2 DEF TypeOK
<1>6. \A q \in Reloaders : Busy(q)' <=> Busy(q)
  BY <1>1, <1>4, <1>5 DEF Busy
<1>7. LockInv' /\ SnapshotIsAtomic'
  BY <1>1, <1>2, <1>4, <1>5, ReloadAssumption DEF LockInv, SnapshotIsAtomic
<1>8. LoadInv'
  BY <1>2, <1>4, <1>5, <1>6 DEF ReloadInv, LoadInv, Valid
<1>9. EffectInv'
  BY <1>2, <1>6 DEF ReloadInv, EffectInv
<1> QED
  BY <1>3, <1>7, <1>8, <1>9 DEF ReloadInv

\* One pool: a validated file has no empty list, so the loop does not return early.
LEMMA AppliedInv ==
  ASSUME ReloadInv, NEW r \in Reloaders, NEW c \in Chains, Apply(r, c)
  PROVE  ReloadInv'
<1> USE DEF signalVars, lockVars, viewVars
<1>1. /\ TypeOK /\ pc[r] = "apply" /\ c \in left[r] /\ Valid(loaded[r]) /\ loaded[r] \in Files
      /\ writer = r /\ readers = {}
  BY ReloadAssumption DEF ReloadInv, LoadInv, LockInv, Apply, Busy, TypeOK
<1>2. left' = [left EXCEPT ![r] = left[r] \ {c}]
      /\ pools' = (IF c \in DOMAIN loaded[r] THEN [pools EXCEPT ![c] = loaded[r][c]] ELSE pools)
      /\ UNCHANGED <<file, edition, signals, hupEd, triedEd, writer, readers, pc, loaded, result,
                     view, unread, committed, loadedEd, ackedEd, overlapped>>
  BY <1>1 DEF Apply, Valid
<1>3. c \in DOMAIN loaded[r] => loaded[r][c] \in Lists
  BY <1>1, InLists DEF Valid
<1>4. TypeOK'
  BY <1>1, <1>2, <1>3 DEF TypeOK
<1>5. /\ \A d \in Chains \ {c} : pools'[d] = pools[d]
      /\ pools'[c] = IF c \in DOMAIN loaded[r] THEN loaded[r][c] ELSE pools[c]
      /\ left'[r] = left[r] \ {c}
      /\ \A q \in Reloaders \ {r} : left'[q] = left[q] /\ pc[q] # "apply"
      /\ \A q \in Reloaders : Busy(q)' <=> Busy(q)
  BY <1>1, <1>2 DEF TypeOK, ReloadInv, LockInv, Busy
<1>6. LockInv' /\ SnapshotIsAtomic'
  BY <1>1, <1>2, ReloadAssumption DEF ReloadInv, LockInv, SnapshotIsAtomic
<1>7. LoadInv'
  <2>1. \A d \in (Chains \ left'[r]) \intersect DOMAIN loaded[r] : pools'[d] = loaded[r][d]
    BY <1>1, <1>5 DEF ReloadInv, LoadInv
  <2> QED
    BY <1>2, <1>5, <2>1 DEF ReloadInv, LoadInv, Valid
<1>8. EffectInv'
  <2> SUFFICES ASSUME ~overlapped, ackedEd = edition, edition > 0,
                      NEW d \in Chains \intersect DOMAIN file
               PROVE  pools'[d] = file[d]
    BY <1>2, <1>5 DEF ReloadInv, EffectInv
  <2>1. Busy(r) /\ pools[d] = file[d] /\ loadedEd[r] = edition
    BY <1>1 DEF ReloadInv, EffectInv, Busy
  <2>2. loaded[r] = file
    BY <2>1 DEF ReloadInv, LoadInv
  <2> QED
    BY <1>5, <2>1, <2>2
<1> QED
  BY <1>4, <1>6, <1>7, <1>8 DEF ReloadInv

\* r.mu.Unlock and the return: the pools hold what the reload loaded.
LEMMA UnlockedInv ==
  ASSUME ReloadInv, NEW r \in Reloaders, Unlock(r)
  PROVE  ReloadInv'
<1> USE DEF signalVars, viewVars
<1>1. /\ TypeOK /\ pc[r] = "apply" /\ left[r] = {} /\ writer = r /\ readers = {} /\ Busy(r)
      /\ result[r] = "none" /\ (loadedEd[r] = edition => loaded[r] = file)
      /\ edition \in Nat /\ loadedEd[r] \in Nat /\ ackedEd \in Nat
      /\ loadedEd[r] <= edition /\ ackedEd <= edition
  BY ReloadAssumption DEF ReloadInv, LoadInv, LockInv, Unlock, Busy, TypeOK
<1>2. /\ writer' = NoOne /\ committed' = pools /\ pc' = [pc EXCEPT ![r] = "idle"]
      /\ result' = [result EXCEPT ![r] = "ok"]
      /\ ackedEd' \in {ackedEd, loadedEd[r]}
      /\ UNCHANGED <<file, edition, signals, hupEd, triedEd, pools, readers, loaded, left,
                     view, unread, loadedEd, overlapped>>
  BY <1>1 DEF Unlock, Larger
<1>3. TypeOK'
  <2>1. ackedEd' \in 0 .. MaxEdits
    BY <1>1, <1>2 DEF TypeOK
  <2> QED
    BY <1>1, <1>2, <2>1 DEF TypeOK
<1>4. /\ \A q \in Reloaders \ {r} : pc'[q] = pc[q] /\ result'[q] = result[q] /\ pc[q] # "apply"
      /\ pc'[r] = "idle"
  BY <1>1, <1>2 DEF TypeOK, ReloadInv, LockInv
<1>5. ~Busy(r)' /\ \A q \in Reloaders \ {r} : Busy(q)' <=> Busy(q)
  BY <1>4 DEF Busy
<1>6. LockInv' /\ SnapshotIsAtomic'
  BY <1>1, <1>2, <1>4, ReloadAssumption DEF LockInv, SnapshotIsAtomic
<1>7. LoadInv'
  BY <1>1, <1>2, <1>4, <1>5 DEF ReloadInv, LoadInv, Valid
<1>8. EffectInv'
  <2> SUFFICES ASSUME ~overlapped
               PROVE  /\ \A q, s \in Reloaders : Busy(q)' /\ Busy(s)' => q = s
                      /\ (ackedEd' = edition /\ edition > 0) =>
                           /\ \A q \in Reloaders : Busy(q)' => loadedEd[q] = edition
                           /\ \A c \in Chains \intersect DOMAIN file : pools[c] = file[c]
    BY <1>2 DEF EffectInv
  <2>1. \A q \in Reloaders : ~Busy(q)'
    BY <1>1, <1>5 DEF ReloadInv, EffectInv
  <2>2. ASSUME ackedEd' = edition, edition > 0, NEW c \in Chains \intersect DOMAIN file
        PROVE  pools[c] = file[c]
    <3>1. CASE ackedEd = edition
      BY <2>2, <3>1 DEF ReloadInv, EffectInv
    <3>2. CASE loadedEd[r] = edition
      BY <1>1, <2>2, <3>2 DEF ReloadInv, LoadInv
    <3> QED
      BY <1>2, <2>2, <3>1, <3>2
  <2> QED
    BY <2>1, <2>2
<1> QED
  BY <1>3, <1>6, <1>7, <1>8 DEF ReloadInv

\* A viewer reads while nobody writes, so it reads what the last reload left.
LEMMA ViewInv ==
  ASSUME ReloadInv, NEW v \in Viewers, Snapshot(v)
  PROVE  ReloadInv'
<1> USE DEF signalVars, lockVars, viewVars, reloadVars
<1>1. TypeOK /\ LockInv /\ SnapshotIsAtomic
  BY DEF ReloadInv
<1>2. UNCHANGED <<file, edition, signals, hupEd, triedEd, pools, writer, pc, loaded, left, result,
                  committed, loadedEd, ackedEd, overlapped>>
  BY DEF Snapshot, RLock, ReadPool, RUnlock
<1>3. LoadInv' /\ EffectInv'
  BY <1>2 DEF ReloadInv, LoadInv, EffectInv, Busy, Valid
<1>4. CASE RLock(v)
  <2>1. TypeOK' /\ LockInv'
    BY <1>1, <1>2, <1>4 DEF RLock, TypeOK, LockInv
  <2>2. SnapshotIsAtomic'
    BY <1>1, <1>4 DEF RLock, TypeOK, SnapshotIsAtomic
  <2> QED
    BY <1>3, <2>1, <2>2 DEF ReloadInv
<1>5. ASSUME NEW c \in Chains, ReadPool(v, c) PROVE ReloadInv'
  <2>1. view' = [view EXCEPT ![v] = [view[v] EXCEPT ![c] = pools[c]]]
        /\ unread' = [unread EXCEPT ![v] = unread[v] \ {c}] /\ readers' = readers
    BY <1>5 DEF ReadPool
  <2>2. view[v] \in [Chains -> Lists] /\ pools[c] \in Lists
    BY <1>1 DEF TypeOK
  <2>3. [view[v] EXCEPT ![c] = pools[c]] \in [Chains -> Lists]
    BY <2>2
  <2>4. TypeOK' /\ LockInv'
    BY <1>1, <1>2, <2>1, <2>3 DEF TypeOK, LockInv
  <2>5. v \in readers => pools[c] = committed[c]
    BY <1>1 DEF LockInv
  <2>6. SnapshotIsAtomic'
    <3> SUFFICES ASSUME NEW w \in readers, NEW d \in Chains \ unread'[w]
                 PROVE  view'[w][d] = committed[d]
      BY <1>2, <2>1 DEF SnapshotIsAtomic
    <3>1. CASE w = v /\ d = c
      BY <1>1, <2>1, <2>2, <2>5, <3>1 DEF TypeOK
    <3>2. CASE ~(w = v /\ d = c)
      BY <1>1, <2>1, <2>2, <3>2 DEF TypeOK, SnapshotIsAtomic
    <3> QED
      BY <3>1, <3>2
  <2> QED
    BY <1>3, <2>4, <2>6 DEF ReloadInv
<1>6. CASE RUnlock(v)
  <2>1. TypeOK' /\ LockInv' /\ SnapshotIsAtomic'
    BY <1>1, <1>2, <1>6 DEF RUnlock, TypeOK, LockInv, SnapshotIsAtomic
  <2> QED
    BY <1>3, <2>1 DEF ReloadInv
<1> QED
  BY <1>4, <1>5, <1>6 DEF Snapshot

LEMMA ReloadStep == ReloadInv /\ [Next]_vars => ReloadInv'
<1> SUFFICES ASSUME ReloadInv, [Next]_vars PROVE ReloadInv'
  OBVIOUS
<1>1. CASE UNCHANGED vars
  <2>1. UNCHANGED <<file, edition, signals, hupEd, triedEd, pools, writer, readers, pc, loaded, left,
                    result, view, unread, committed, loadedEd, ackedEd, overlapped>>
    BY <1>1 DEF vars, signalVars, lockVars, reloadVars, viewVars
  <2>2. TypeOK'
    BY <2>1 DEF ReloadInv, TypeOK
  <2> QED
    BY <2>1, <2>2, Waiting
<1>2. ASSUME NEW r \in Reloaders, Reload(r) PROVE ReloadInv'
  BY <1>2, LoadedInv, LockedInv, AppliedInv, UnlockedInv DEF Reload
<1> QED
  BY <1>1, <1>2, EditInv, SignalInv, ViewInv DEF Next, Exited

LEMMA ReloadInvariant == Spec => []ReloadInv
<1> QED
  BY ReloadInit, ReloadStep, PTL DEF Spec

(***************************************************************************)
(* A reload that fails leaves every node list as it was: ReloadNodes never *)
(* returns from the middle of its loop, since config.Load refuses a file   *)
(* with an empty list.                                                     *)
(***************************************************************************)
THEOREM FailedReloadsAreHarmless == Spec => []FailedReloadChangesNothing
<1>1. ReloadInv => FailedReloadChangesNothing
  BY DEF ReloadInv, LockInv, LoadInv, Busy, FailedReloadChangesNothing
<1> QED
  BY <1>1, ReloadInvariant, PTL

(***************************************************************************)
(* Registry.Snapshot never mixes the pools of two reloads, for any number  *)
(* of viewers, reloads and networks.                                       *)
(***************************************************************************)
THEOREM SnapshotsAreAtomic == Spec => []SnapshotIsAtomic
<1>1. ReloadInv => SnapshotIsAtomic
  BY DEF ReloadInv
<1> QED
  BY <1>1, ReloadInvariant, PTL

(***************************************************************************)
(* A reload that loaded the latest edition and reported success has its    *)
(* nodes in the pools, as long as no two reloads have overlapped, for any  *)
(* number of edits and triggers (ReloadNodes after config.Load).           *)
(***************************************************************************)
THEOREM ReloadsTakeEffect == Spec => []ReloadTakesEffect
<1>1. ReloadInv => ReloadTakesEffect
  BY DEF ReloadInv, EffectInv, ReloadTakesEffect
<1> QED
  BY <1>1, ReloadInvariant, PTL
=============================================================================
