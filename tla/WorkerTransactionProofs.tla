------------------------ MODULE WorkerTransactionProofs ------------------------
(***************************************************************************)
(* The NestJS transaction runner for any number of requests, connections   *)
(* and workers that die: what is recorded is true of the file, no          *)
(* connection changes hands with a transaction open, and gauges, leases    *)
(* and threads agree.                                                      *)
(***************************************************************************)
EXTENDS WorkerTransaction, FiniteSetTheorems, TLAPS

Stages == {"new", "acquire", "begin", "read", "write", "commit", "rollback", "close", "done"}
Holding == {"begin", "read", "write", "commit", "rollback", "close"}
InUse == {"creating", "rejecting", "free", "leased"}
Slots == InUse \cup {"unused", "closing", "gone"}

Types ==
  /\ stage \in [Requests -> Stages]
  /\ lease \in [Requests -> Connections \cup {NoConnection}]
  /\ error \in [Requests -> {"none", "body", "other"}]
  /\ outcome \in [Requests -> {"none"} \cup Outcomes]
  /\ slot \in [Connections -> Slots]
  /\ alive \in [Connections -> BOOLEAN] /\ dirty \in [Connections -> BOOLEAN]
  /\ wire \in [Connections -> {"idle"} \cup Queries \cup Replies]
  /\ thread \in [Connections -> {"none", "running", "exited"}]
  /\ tx \in [Connections -> Requests \cup {NoRequest}]
  /\ disk \in SUBSET Requests
  /\ gauges \in [sessions: Int, connections: Int]
  /\ pool \in {"up", "stopping", "stopped"}

-----------------------------------------------------------------------------
(* The inductive invariant. *)

\* What may be on the wire while a run waits at a stage.
WiresAt(s) ==
  CASE s = "begin" -> {"begin", "ok_in_tx", "error", "rejected"}
    [] s \in {"read", "write"} -> {"statement", "ok_in_tx", "error_in_tx", "error", "rejected"}
    [] s = "commit" -> {"commit", "ok", "error_in_tx", "error", "rejected"}
    [] s = "rollback" -> {"rollback", "ok", "error_in_tx", "error", "rejected"}
    [] s = "close" -> {"close", "ok", "rejected"}

\* A live worker's transaction is what the message on the wire says: open
\* while a statement or COMMIT is under way, afterwards as the reply told.
TxAsTold(r, c) ==
  /\ wire[c] \in {"statement", "commit", "ok_in_tx", "error_in_tx"} => tx[c] = r
  /\ wire[c] \in {"begin", "ok", "error"} => tx[c] = NoRequest

\* What a run has thrown and what has reached the file.
DiskAsThrown(r) ==
  /\ stage[r] \in {"new", "acquire", "begin", "read", "write"} => r \notin disk
  /\ stage[r] \in Stages \ {"rollback", "close", "done"} => error[r] = "none"
  /\ stage[r] \in {"rollback", "close"} => error[r] # "none"
  /\ stage[r] = "commit" /\ wire[lease[r]] = "ok" => r \in disk
  /\ stage[r] # "done" /\ error[r] = "body" => r \notin disk
  /\ stage[r] = "done" => outcome[r] # "none"
  /\ outcome[r] # "none" => stage[r] = "done"
  /\ outcome[r] = "committed" => r \in disk
  /\ outcome[r] = "rolled_back" => r \notin disk

RunSound(r) ==
  /\ lease[r] # NoConnection <=> stage[r] \in Holding
  /\ stage[r] \in Holding =>
       /\ slot[lease[r]] = "leased"
       /\ wire[lease[r]] \in WiresAt(stage[r])
       /\ thread[lease[r]] = "running" => TxAsTold(r, lease[r])
  /\ DiskAsThrown(r)

ConnectionSound(c) ==
  /\ thread[c] = "running" => alive[c]
  /\ wire[c] = "rejected" => ~alive[c]
  /\ slot[c] \in {"unused", "gone"} => ~alive[c]
  /\ slot[c] \in {"unused", "free", "gone"} => wire[c] = "idle"
  /\ slot[c] = "creating" => wire[c] \in {"probe", "ok", "error", "rejected"}
  /\ slot[c] \in {"closing", "rejecting"} => wire[c] \in {"close", "ok", "rejected"}
  /\ slot[c] = "leased" => \E r \in Requests : lease[r] = c
  /\ tx[c] # NoRequest => thread[c] = "running" /\ lease[tx[c]] = c

OneRunEach ==
  \A q, r \in Requests : lease[q] = lease[r] /\ lease[r] # NoConnection => q = r

Busy == {r \in Requests : lease[r] # NoConnection}

Counts ==
  /\ Cardinality(InSlots({"leased"})) = Cardinality(Busy)
  /\ gauges.connections = Cardinality(Busy)
  /\ gauges.sessions = Cardinality(Busy) + Cardinality(Waiting)
  /\ Cardinality(InSlots(InUse)) <= PoolSize

PoolIsOver ==
  pool = "stopped" =>
    Waiting = {} /\ \A c \in Connections : slot[c] \in {"unused", "gone"}

IInv ==
  /\ Types
  /\ OneRunEach
  /\ Counts
  /\ PoolIsOver
  /\ \A r \in Requests : RunSound(r)
  /\ \A c \in Connections : ConnectionSound(c)

-----------------------------------------------------------------------------
(* What a step leaves alone. *)

KeptRun(r) ==
  /\ stage'[r] = stage[r] /\ lease'[r] = lease[r]
  /\ error'[r] = error[r] /\ outcome'[r] = outcome[r]
  /\ r \in disk' <=> r \in disk

KeptConnection(c) ==
  /\ slot'[c] = slot[c] /\ alive'[c] = alive[c] /\ wire'[c] = wire[c]
  /\ thread'[c] = thread[c] /\ tx'[c] = tx[c]

LEMMA FrameRun ==
  ASSUME NEW r \in Requests, RunSound(r), KeptRun(r),
         lease[r] # NoConnection => KeptConnection(lease[r])
  PROVE  RunSound(r)'
<1>1. DiskAsThrown(r)'
  BY DEF RunSound, DiskAsThrown, KeptRun, KeptConnection, Holding
<1>2. stage[r] \in Holding /\ TxAsTold(r, lease[r]) => TxAsTold(r, lease[r])'
  BY DEF RunSound, TxAsTold, KeptRun, KeptConnection
<1>3. QED
  BY <1>1, <1>2 DEF RunSound, KeptRun, KeptConnection

LEMMA FrameConnection ==
  ASSUME NEW c \in Connections, ConnectionSound(c), KeptConnection(c), Types,
         \A r \in Requests : lease[r] = c => lease'[r] = c
  PROVE  ConnectionSound(c)'
<1>1. tx[c] \in Requests \cup {NoRequest}
  BY DEF Types
<1>2. QED
  BY <1>1 DEF ConnectionSound, KeptConnection

\* A step on one connection that gives it to nobody and takes it from nobody.
LEMMA OneConnectionStep ==
  ASSUME IInv, NEW c \in Connections, Types',
         UNCHANGED <<lease, slot, gauges, pool>>, Waiting' = Waiting,
         \A d \in Connections \ {c} : KeptConnection(d),
         \A r \in Requests : lease[r] # c => KeptRun(r),
         \A r \in Requests : lease[r] = c => RunSound(r)',
         ConnectionSound(c)'
  PROVE  IInv'
<1>1. Types /\ OneRunEach /\ Counts /\ PoolIsOver
  BY DEF IInv
<1>2. OneRunEach' /\ PoolIsOver'
  BY <1>1 DEF OneRunEach, PoolIsOver
<1>3. Counts'
  <2>1. Busy' = Busy /\ \A S : InSlots(S)' = InSlots(S)
    BY DEF Busy, InSlots
  <2>2. QED
    BY <1>1, <2>1 DEF Counts
<1>4. ASSUME NEW r \in Requests
      PROVE  RunSound(r)'
  <2>1. CASE lease[r] # c
    <3>1. lease[r] \in Connections \cup {NoConnection}
      BY <1>1 DEF Types
    <3>2. lease[r] # NoConnection => KeptConnection(lease[r])
      BY <2>1, <3>1
    <3>3. QED
      BY <2>1, <3>2, FrameRun DEF IInv
  <2>2. QED
    BY <2>1
<1>5. ASSUME NEW d \in Connections \ {c}
      PROVE  ConnectionSound(d)'
  BY <1>1, FrameConnection DEF IInv
<1>6. QED
  BY <1>2, <1>3, <1>4, <1>5 DEF IInv

-----------------------------------------------------------------------------
(* The worker threads. *)

\* A live worker that has a query of a transaction works for the run that
\* leases its connection.
LEMMA Client ==
  ASSUME IInv, NEW c \in Connections
  PROVE  /\ \A q, r \in Requests : lease[q] = c /\ lease[r] = c => q = r
         /\ wire[c] \in {"begin", "statement", "commit", "rollback"} =>
              \E r \in Requests : lease[r] = c
         /\ \A r \in Requests : lease[r] = c =>
              /\ stage[r] \in Holding /\ wire[c] \in WiresAt(stage[r])
              /\ thread[c] = "running" => TxAsTold(r, c)
              /\ slot[c] = "leased"
              /\ DiskAsThrown(r)
<1>1. c # NoConnection
  BY WorkerAssumption
<1>2. \A q, r \in Requests : lease[q] = c /\ lease[r] = c => q = r
  BY <1>1 DEF IInv, OneRunEach
<1>3. wire[c] \in {"begin", "statement", "commit", "rollback"} =>
        \E r \in Requests : lease[r] = c
  BY DEF IInv, Types, ConnectionSound, Slots, InUse
<1>4. \A r \in Requests : lease[r] = c =>
              /\ stage[r] \in Holding /\ wire[c] \in WiresAt(stage[r])
              /\ thread[c] = "running" => TxAsTold(r, c)
              /\ slot[c] = "leased"
              /\ DiskAsThrown(r)
  BY <1>1 DEF IInv, RunSound
<1>5. QED
  BY <1>2, <1>3, <1>4

\* What a worker's step has to keep, when it changes neither the list of its
\* connections nor anything the main thread knows.
LEMMA WorkerSide ==
  ASSUME IInv, NEW c \in Connections, UNCHANGED <<main, slot, alive, dirty, gauges, pool>>,
         NEW p \in Replies \cup Queries \cup {"idle"}, NEW t \in Requests \cup {NoRequest},
         NEW th \in {"running", "exited"},
         wire' = [wire EXCEPT ![c] = p], tx' = [tx EXCEPT ![c] = t],
         thread' = [thread EXCEPT ![c] = th], thread[c] = "running",
         disk' \in SUBSET Requests, \A r \in Requests : lease[r] # c => (r \in disk' <=> r \in disk),
         ConnectionSound(c)', \A r \in Requests : lease[r] = c => RunSound(r)'
  PROVE  IInv'
<1>1. Types
  BY DEF IInv
<1>2. Types'
  <2>1. /\ wire' \in [Connections -> {"idle"} \cup Queries \cup Replies]
        /\ tx' \in [Connections -> Requests \cup {NoRequest}]
        /\ thread' \in [Connections -> {"none", "running", "exited"}]
    BY <1>1 DEF Types
  <2>2. QED
    BY <1>1, <2>1 DEF Types, main
<1>3. Waiting' = Waiting
  BY DEF Waiting, main
<1>4. \A d \in Connections \ {c} : KeptConnection(d)
  BY <1>1 DEF KeptConnection, Types
<1>5. \A r \in Requests : lease[r] # c => KeptRun(r)
  BY DEF KeptRun, main
<1>6. QED
  BY <1>2, <1>3, <1>4, <1>5, OneConnectionStep DEF main

\* A reply to a run, and the transaction as it says; "ok" to a COMMIT comes
\* with the run's writes on disk.
LEMMA ReplyStep ==
  ASSUME IInv, NEW c \in Connections, thread[c] = "running",
         UNCHANGED <<main, slot, alive, dirty, thread, gauges, pool>>,
         NEW r \in Requests, lease[r] = c,
         NEW p \in {"ok", "ok_in_tx", "error", "error_in_tx"}, p \in WiresAt(stage[r]),
         wire' = [wire EXCEPT ![c] = p],
         tx' = [tx EXCEPT ![c] = IF p \in {"ok_in_tx", "error_in_tx"} THEN r ELSE NoRequest],
         disk' = IF stage[r] = "commit" /\ p = "ok" THEN disk \cup {r} ELSE disk
  PROVE  IInv'
<1> DEFINE t == IF p \in {"ok_in_tx", "error_in_tx"} THEN r ELSE NoRequest
<1>1. /\ Types /\ ConnectionSound(c)
      /\ \A q \in Requests : lease[q] = c => q = r
      /\ stage[r] \in Holding /\ slot[c] = "leased" /\ DiskAsThrown(r)
  BY Client DEF IInv
<1>2. /\ wire'[c] = p /\ tx'[c] = t /\ alive'[c] = alive[c] /\ slot'[c] = slot[c]
      /\ thread'[c] = thread[c]
  BY <1>1 DEF Types
<1>3. p \in Replies \cup Queries \cup {"idle"} /\ t \in Requests \cup {NoRequest}
  BY DEF Replies
<1>4. /\ thread' = [thread EXCEPT ![c] = "running"] /\ disk' \in SUBSET Requests
      /\ \A q \in Requests : lease[q] # c => (q \in disk' <=> q \in disk)
  BY <1>1 DEF Types
<1>5. ConnectionSound(c)'
  <2>1. lease' = lease /\ p # "rejected"
    BY DEF main
  <2>2. tx'[c] # NoRequest => lease'[tx'[c]] = c
    BY <1>2, <2>1
  <2>3. QED
    BY <1>1, <1>2, <2>1, <2>2 DEF ConnectionSound
<1>6. RunSound(r)'
  <2>1. stage' = stage /\ lease' = lease /\ error' = error /\ outcome' = outcome
    BY DEF main
  <2>2. DiskAsThrown(r)'
    BY <1>1, <1>2, <2>1 DEF DiskAsThrown, Holding, Stages
  <2>3. TxAsTold(r, lease[r])'
    BY <1>2, <2>1 DEF TxAsTold
  <2>4. lease[r] # NoConnection <=> stage[r] \in Holding
    BY DEF IInv, RunSound
  <2>5. QED
    BY <1>1, <1>2, <2>1, <2>2, <2>3, <2>4 DEF RunSound
<1> HIDE DEF t
<1>7. tx' = [tx EXCEPT ![c] = t]
  BY DEF t
<1>8. \A q \in Requests : lease[q] = c => RunSound(q)'
  BY <1>1, <1>6
<1>9. QED
  BY <1>3, <1>4, <1>5, <1>7, <1>8, WorkerSide

LEMMA WorkerStep ==
  ASSUME IInv, NEW c \in Connections, Worker(c)
  PROVE  IInv'
<1>1. Types /\ ConnectionSound(c)
  BY DEF IInv
<1>2. /\ thread[c] = "running" /\ alive[c]
      /\ UNCHANGED <<main, slot, alive, dirty, gauges, pool>>
  BY <1>1 DEF Worker, ConnectionSound
<1>3. tx = [tx EXCEPT ![c] = tx[c]] /\ tx[c] \in Requests \cup {NoRequest}
  BY <1>1 DEF Types
<1>4. ASSUME wire[c] \in {"begin", "statement", "commit", "rollback"}
      PROVE  \E r \in Requests :
               /\ lease[r] = c
               /\ wire[c] = "begin" => stage[r] = "begin" /\ tx[c] = NoRequest
               /\ wire[c] = "statement" => stage[r] \in {"read", "write"} /\ tx[c] = r
               /\ wire[c] = "commit" => stage[r] = "commit" /\ tx[c] = r
               /\ wire[c] = "rollback" => stage[r] = "rollback" /\ tx[c] \in {r, NoRequest}
  <2>1. PICK r \in Requests : lease[r] = c
    BY <1>4, Client
  <2>2. stage[r] \in Holding /\ wire[c] \in WiresAt(stage[r]) /\ TxAsTold(r, c)
    BY <1>2, <2>1, Client
  <2>3. tx[c] \in {r, NoRequest}
    BY <1>1, <1>3, <2>1, Client DEF ConnectionSound
  <2>4. /\ wire[c] = "begin" => stage[r] = "begin"
        /\ wire[c] = "statement" => stage[r] \in {"read", "write"}
        /\ wire[c] = "commit" => stage[r] = "commit"
        /\ wire[c] = "rollback" => stage[r] = "rollback"
    BY <2>2 DEF WiresAt, Holding
  <2>5. QED
    BY <2>1, <2>2, <2>3, <2>4 DEF TxAsTold
<1>5. CASE WorkerBegins(c)
  <2>1. UNCHANGED <<disk, thread>> /\ wire[c] = "begin"
    BY <1>5 DEF WorkerBegins
  <2>2. PICK r \in Requests : lease[r] = c /\ stage[r] = "begin" /\ tx[c] = NoRequest
    BY <1>4, <2>1
  <2>3. "ok_in_tx" \in WiresAt(stage[r]) /\ "error" \in WiresAt(stage[r])
    BY <2>2 DEF WiresAt
  <2>4. \A q \in Requests : lease[q] = c => q = r
    BY <2>2, Client
  <2>5. \/ wire' = [wire EXCEPT ![c] = "ok_in_tx"] /\ tx' = [tx EXCEPT ![c] = r]
        \/ wire' = [wire EXCEPT ![c] = "error"] /\ tx' = [tx EXCEPT ![c] = NoRequest]
    BY <1>3, <1>5, <2>2, <2>4 DEF WorkerBegins, Opens, Reply
  <2>6. QED
    BY <1>2, <2>1, <2>2, <2>3, <2>5, ReplyStep
<1>6. CASE WorkerExecutes(c)
  <2>1. UNCHANGED <<disk, thread>> /\ wire[c] = "statement"
    BY <1>6 DEF WorkerExecutes
  <2>2. PICK r \in Requests : lease[r] = c /\ stage[r] \in {"read", "write"} /\ tx[c] = r
    BY <1>4, <2>1
  <2>3. {"ok_in_tx", "error", "error_in_tx"} \subseteq WiresAt(stage[r])
    BY <2>2 DEF WiresAt
  <2>4. \/ \E p \in {"ok_in_tx", "error_in_tx"} :
             wire' = [wire EXCEPT ![c] = p] /\ tx' = [tx EXCEPT ![c] = r]
        \/ wire' = [wire EXCEPT ![c] = "error"] /\ tx' = [tx EXCEPT ![c] = NoRequest]
    BY <1>3, <1>6, <2>2 DEF WorkerExecutes, Opens, Reply
  <2>5. QED
    BY <1>2, <2>1, <2>2, <2>3, <2>4, ReplyStep
<1>7. CASE WorkerCommits(c)
  <2>1. UNCHANGED thread /\ wire[c] = "commit"
    BY <1>7 DEF WorkerCommits
  <2>2. PICK r \in Requests : lease[r] = c /\ stage[r] = "commit" /\ tx[c] = r
    BY <1>4, <2>1
  <2>3. {"ok", "error", "error_in_tx"} \subseteq WiresAt(stage[r])
    BY <2>2 DEF WiresAt
  <2>4. \/ /\ wire' = [wire EXCEPT ![c] = "ok"] /\ tx' = [tx EXCEPT ![c] = NoRequest]
           /\ disk' = disk \cup {r}
        \/ /\ wire' = [wire EXCEPT ![c] = "error_in_tx"] /\ tx' = [tx EXCEPT ![c] = r]
           /\ disk' = disk
        \/ /\ wire' = [wire EXCEPT ![c] = "error"] /\ tx' = [tx EXCEPT ![c] = NoRequest]
           /\ disk' = disk
    BY <1>3, <1>7, <2>2 DEF WorkerCommits, Opens, Reply
  <2>5. QED
    BY <1>2, <2>1, <2>2, <2>3, <2>4, ReplyStep
<1>8. CASE WorkerRollsBack(c)
  <2>1. UNCHANGED <<disk, thread>> /\ wire[c] = "rollback"
    BY <1>8 DEF WorkerRollsBack
  <2>2. PICK r \in Requests : lease[r] = c /\ stage[r] = "rollback" /\ tx[c] \in {r, NoRequest}
    BY <1>4, <2>1
  <2>3. {"ok", "error", "error_in_tx"} \subseteq WiresAt(stage[r])
    BY <2>2 DEF WiresAt
  <2>4. \/ wire' = [wire EXCEPT ![c] = "ok"] /\ tx' = [tx EXCEPT ![c] = NoRequest]
        \/ wire' = [wire EXCEPT ![c] = "error_in_tx"] /\ tx' = [tx EXCEPT ![c] = r]
        \/ wire' = [wire EXCEPT ![c] = "error"] /\ tx' = [tx EXCEPT ![c] = NoRequest]
    BY <1>3, <1>8, <2>2 DEF WorkerRollsBack, Opens, Reply
  <2>5. QED
    BY <1>2, <2>1, <2>2, <2>3, <2>4, ReplyStep
<1>9. CASE WorkerProbes(c)
  <2>1. UNCHANGED workers /\ wire[c] = "probe"
    BY <1>9 DEF WorkerProbes
  <2>2. PICK p \in {"ok", "error"} : wire' = [wire EXCEPT ![c] = p]
    BY <1>9 DEF WorkerProbes, Reply
  <2>3. \A r \in Requests : lease[r] # c
    BY <2>1, Client DEF WiresAt, Holding
  <2>4. slot[c] = "creating" /\ tx[c] = NoRequest
    BY <1>1, <2>1, <2>3 DEF ConnectionSound, Types, Slots, InUse
  <2>5. wire'[c] = p
    BY <1>1, <2>2 DEF Types
  <2>6. ConnectionSound(c)'
    BY <1>1, <1>2, <2>1, <2>4, <2>5 DEF ConnectionSound, workers
  <2>7. /\ p \in Replies \cup Queries \cup {"idle"}
        /\ tx' = [tx EXCEPT ![c] = NoRequest] /\ thread' = [thread EXCEPT ![c] = "running"]
        /\ disk' = disk /\ disk \in SUBSET Requests
    BY <1>1, <1>2, <1>3, <2>1, <2>4 DEF Types, workers, Replies
  <2>8. QED
    BY <1>2, <2>2, <2>3, <2>6, <2>7, WorkerSide
<1>10. CASE WorkerCloses(c)
  <2>1. /\ disk' = disk /\ wire[c] = "close"
        /\ wire' = [wire EXCEPT ![c] = "ok"] /\ tx' = [tx EXCEPT ![c] = NoRequest]
        /\ thread' = [thread EXCEPT ![c] = "exited"]
    BY <1>10 DEF WorkerCloses, Reply, Opens
  <2>2. \A r \in Requests : lease[r] = c =>
          stage[r] = "close" /\ slot[c] = "leased" /\ DiskAsThrown(r) /\ RunSound(r)
    BY <2>1, Client DEF WiresAt, Holding, IInv
  <2>3. wire'[c] = "ok" /\ tx'[c] = NoRequest /\ thread'[c] = "exited"
    BY <1>1, <2>1 DEF Types
  <2>4. ConnectionSound(c)'
    BY <1>1, <1>2, <2>1, <2>3 DEF ConnectionSound, main
  <2>5. ASSUME NEW r \in Requests, lease[r] = c
        PROVE  RunSound(r)'
    <3>1. DiskAsThrown(r)'
      BY <1>2, <2>1, <2>2, <2>5 DEF DiskAsThrown, main
    <3>2. QED
      BY <1>2, <2>2, <2>3, <2>5, <3>1 DEF RunSound, WiresAt, main
  <2>6. /\ "ok" \in Replies \cup Queries \cup {"idle"} /\ disk \in SUBSET Requests
    BY <1>1 DEF Types, Replies
  <2>7. QED
    BY <1>2, <2>1, <2>4, <2>5, <2>6, WorkerSide
<1>11. QED
  BY <1>5, <1>6, <1>7, <1>8, <1>9, <1>10 DEF Worker

\* A death closes the transaction, and nobody was told.
LEMMA WorkerDiesStep ==
  ASSUME IInv, NEW c \in Connections, WorkerDies(c)
  PROVE  IInv'
<1>1. Types /\ ConnectionSound(c)
  BY DEF IInv
<1>2. /\ thread[c] = "running" /\ thread' = [thread EXCEPT ![c] = "exited"]
      /\ tx' = [tx EXCEPT ![c] = NoRequest]
      /\ UNCHANGED <<main, slot, alive, dirty, wire, disk, gauges, pool>>
  BY DEF WorkerDies, Opens
<1>3. tx'[c] = NoRequest /\ thread'[c] = "exited"
  BY <1>1, <1>2 DEF Types
<1>4. ConnectionSound(c)'
  BY <1>1, <1>2, <1>3 DEF ConnectionSound, main
<1>5. ASSUME NEW r \in Requests, lease[r] = c
      PROVE  RunSound(r)'
  <2>1. RunSound(r)
    BY DEF IInv
  <2>2. DiskAsThrown(r)'
    BY <1>2, <2>1 DEF RunSound, DiskAsThrown, main
  <2>3. QED
    BY <1>2, <1>3, <1>5, <2>1, <2>2 DEF RunSound, main
<1>6. wire' = [wire EXCEPT ![c] = wire[c]] /\ wire[c] \in Replies \cup Queries \cup {"idle"}
  BY <1>1, <1>2 DEF Types
<1>7. disk' = disk /\ disk' \in SUBSET Requests
  BY <1>1, <1>2 DEF Types
<1>8. QED
  BY <1>2, <1>4, <1>5, <1>6, <1>7, WorkerSide

\* The event of a death reaches the main thread.
LEMMA FailStep ==
  ASSUME IInv, NEW c \in Connections, Fail(c)
  PROVE  IInv'
<1>1. Types /\ ConnectionSound(c)
  BY DEF IInv
<1>2. /\ thread[c] = "exited" /\ alive' = [alive EXCEPT ![c] = FALSE]
      /\ wire' = [wire EXCEPT ![c] = IF wire[c] = "idle" THEN "idle" ELSE "rejected"]
      /\ UNCHANGED <<main, slot, dirty, workers, gauges, pool>>
  BY DEF Fail
<1>3. wire'[c] = (IF wire[c] = "idle" THEN "idle" ELSE "rejected") /\ alive'[c] = FALSE
  BY <1>1, <1>2 DEF Types
<1>4. Types'
  <2>1. /\ wire' \in [Connections -> {"idle"} \cup Queries \cup Replies]
        /\ alive' \in [Connections -> BOOLEAN]
    BY <1>1, <1>2 DEF Types, Replies
  <2>2. QED
    BY <1>1, <1>2, <2>1 DEF Types, main, workers
<1>5. ConnectionSound(c)'
  BY <1>1, <1>2, <1>3 DEF ConnectionSound, main, workers
<1>6. ASSUME NEW r \in Requests, lease[r] = c
      PROVE  RunSound(r)'
  <2>1. /\ RunSound(r) /\ stage[r] \in Holding /\ wire[c] \in WiresAt(stage[r])
        /\ DiskAsThrown(r)
    BY <1>6, Client DEF IInv
  <2>2. wire[c] # "idle" /\ "rejected" \in WiresAt(stage[r])
    BY <2>1 DEF WiresAt, Holding
  <2>3. DiskAsThrown(r)'
    BY <1>2, <1>3, <1>6, <2>1, <2>2 DEF DiskAsThrown, main, workers
  <2>4. QED
    BY <1>2, <1>3, <1>6, <2>1, <2>2, <2>3 DEF RunSound, main, workers
<1>7. /\ \A d \in Connections \ {c} : KeptConnection(d)
      /\ \A r \in Requests : lease[r] # c => KeptRun(r)
  BY <1>1, <1>2 DEF KeptConnection, KeptRun, Types, main, workers
<1>8. Waiting' = Waiting
  BY <1>2 DEF Waiting, main
<1>9. QED
  BY <1>2, <1>4, <1>5, <1>6, <1>7, <1>8, OneConnectionStep DEF main

-----------------------------------------------------------------------------
(* The main thread's side of a transaction. *)

QueryOf(s) ==
  CASE s \in {"read", "write"} -> "statement"
    [] s = "commit" -> "commit"
    [] s = "rollback" -> "rollback"
    [] s = "close" -> "close"

\* A run sends its next query.
LEMMA AskStep ==
  ASSUME IInv, NEW r \in Requests, NEW c \in Connections, lease[r] = c,
         NEW s \in Holding \ {"begin"}, NEW e \in {"none", "body", "other"},
         stage' = [stage EXCEPT ![r] = s],
         error' = [error EXCEPT ![r] = e],
         Ask(c, QueryOf(s)),
         UNCHANGED <<lease, outcome, slot, alive, workers, gauges, pool>>,
         dirty' \in [Connections -> BOOLEAN],
         s \in {"read", "write"} => r \notin disk,
         s \in {"read", "write", "commit"} =>
           e = "none" /\ (thread[c] = "running" => tx[c] = r),
         s \in {"rollback", "close"} => e # "none" /\ (e = "body" => r \notin disk)
  PROVE  IInv'
<1> DEFINE q == IF alive[c] THEN QueryOf(s) ELSE "rejected"
<1>1. /\ Types /\ RunSound(r) /\ ConnectionSound(c) /\ stage[r] \in Holding
  BY Client DEF IInv
<1>2. /\ slot[c] = "leased" /\ DiskAsThrown(r)
      /\ \A p \in Requests : lease[p] = c => p = r
  BY <1>1, Client
<1>3. wire' = [wire EXCEPT ![c] = q]
  BY DEF Ask
<1>4. q \in {"statement", "commit", "rollback", "close", "rejected"} /\ q \in WiresAt(s)
  BY DEF QueryOf, WiresAt, Holding
<1>5. /\ stage'[r] = s /\ error'[r] = e /\ wire'[c] = q /\ lease'[r] = c
      /\ outcome'[r] = outcome[r]
  BY <1>1, <1>3 DEF Types
<1>6. q = "rejected" => ~alive[c]
  BY <1>4 DEF QueryOf, Holding
<1>7. q \in {"statement", "commit"} => s \in {"read", "write", "commit"}
  BY DEF QueryOf, Holding
<1> HIDE DEF q
<1>8. Types'
  <2>1. wire' \in [Connections -> {"idle"} \cup Queries \cup Replies]
    BY <1>1, <1>3, <1>4 DEF Types, Queries, Replies
  <2>2. stage' \in [Requests -> Stages] /\ error' \in [Requests -> {"none", "body", "other"}]
    BY <1>1 DEF Types, Holding, Stages
  <2>3. QED
    BY <1>1, <2>1, <2>2 DEF Types, workers
<1>9. ConnectionSound(c)'
  BY <1>1, <1>2, <1>4, <1>5, <1>6 DEF ConnectionSound, workers
<1>10. RunSound(r)'
  <2>1. DiskAsThrown(r)'
    BY <1>1, <1>2, <1>4, <1>5 DEF DiskAsThrown, Holding, Stages, workers
  <2>2. thread'[c] = "running" => TxAsTold(r, c)'
    <3>1. /\ thread'[c] = "running" /\ q \in {"statement", "commit"} => tx'[c] = r
      BY <1>7 DEF workers
    <3>2. q \notin {"begin", "ok", "error", "ok_in_tx", "error_in_tx"}
      BY <1>4
    <3>3. QED
      BY <1>5, <3>1, <3>2 DEF TxAsTold
  <2>3. c # NoConnection
    BY <1>1, WorkerAssumption
  <2>4. QED
    BY <1>2, <1>4, <1>5, <2>1, <2>2, <2>3 DEF RunSound
<1>11. \A d \in Connections \ {c} : KeptConnection(d)
  BY <1>1, <1>3 DEF KeptConnection, Types, workers
<1>12. \A p \in Requests : lease[p] # c => KeptRun(p)
  BY <1>1 DEF KeptRun, Types, workers
<1>13. Waiting' = Waiting
  <2>1. stage[r] # "acquire" /\ s # "acquire"
    BY <1>1 DEF Holding
  <2>2. \A p \in Requests : stage'[p] = "acquire" <=> stage[p] = "acquire"
    BY <1>1, <2>1 DEF Types
  <2>3. QED
    BY <2>2 DEF Waiting
<1>14. \A p \in Requests : lease[p] = c => RunSound(p)'
  BY <1>2, <1>10
<1>15. QED
  BY <1>1, <1>8, <1>9, <1>11, <1>12, <1>13, <1>14, OneConnectionStep

LEMMA Counting ==
  /\ \A S \in SUBSET Connections : IsFiniteSet(S) /\ Cardinality(S) \in Nat
  /\ \A S \in SUBSET Requests : IsFiniteSet(S) /\ Cardinality(S) \in Nat
  /\ PoolSize \in Nat
BY WorkerAssumption, FS_Subset, FS_CardinalityType

LEMMA CountedIn ==
  ASSUME NEW S, IsFiniteSet(S), NEW x, NEW T, NEW n \in Int, n = Cardinality(S)
  PROVE  /\ x \in S /\ T = S \ {x} => Cardinality(T) = n - 1
         /\ x \notin S /\ T = S \cup {x} => Cardinality(T) = n + 1
BY FS_AddElement, FS_RemoveElement

\* The pool hands out a connection.
LEMMA LeaseStep ==
  ASSUME IInv, NEW r \in Requests, NEW c \in Connections, Lease(r, c)
  PROVE  IInv'
<1>1. Types /\ OneRunEach /\ Counts /\ PoolIsOver /\ RunSound(r) /\ ConnectionSound(c)
  BY DEF IInv
<1>2. /\ stage[r] = "acquire" /\ pool = "up" /\ slot[c] = "free" /\ alive[c]
      /\ slot' = [slot EXCEPT ![c] = "leased"]
      /\ lease' = [lease EXCEPT ![r] = c]
      /\ stage' = [stage EXCEPT ![r] = "begin"]
      /\ wire' = [wire EXCEPT ![c] = "begin"]
      /\ gauges' = [gauges EXCEPT !.connections = @ + 1]
      /\ UNCHANGED <<error, outcome, alive, dirty, workers, pool>>
  BY DEF Lease, Valid, InSlot, Goto, Ask
<1>3. /\ c # NoConnection /\ lease[r] = NoConnection
      /\ \A p \in Requests : lease[p] # c
  <2>1. c # NoConnection
    BY WorkerAssumption
  <2>2. lease[r] = NoConnection
    BY <1>1, <1>2 DEF RunSound, Holding
  <2>3. \A p \in Requests : lease[p] # c
    BY <1>2, Client
  <2>4. QED
    BY <2>1, <2>2, <2>3
<1>4. tx[c] = NoRequest
  BY <1>1, <1>3 DEF ConnectionSound, Types
<1>5. /\ slot'[c] = "leased" /\ lease'[r] = c /\ stage'[r] = "begin" /\ wire'[c] = "begin"
      /\ error'[r] = error[r] /\ outcome'[r] = outcome[r] /\ tx'[c] = NoRequest
      /\ thread'[c] = thread[c] /\ alive'[c]
  BY <1>1, <1>2, <1>4 DEF Types, workers
<1>6. Types'
  <2>1. /\ slot' \in [Connections -> Slots]
        /\ lease' \in [Requests -> Connections \cup {NoConnection}]
        /\ stage' \in [Requests -> Stages]
    BY <1>1, <1>2 DEF Types, Slots, InUse, Stages
  <2>2. wire' \in [Connections -> {"idle"} \cup Queries \cup Replies]
    BY <1>1, <1>2 DEF Types, Queries
  <2>3. gauges' \in [sessions: Int, connections: Int]
    BY <1>1, <1>2 DEF Types
  <2>4. QED
    BY <1>1, <1>2, <2>1, <2>2, <2>3 DEF Types, workers
<1>7. OneRunEach'
  BY <1>1, <1>2, <1>3 DEF OneRunEach, Types
<1>8. RunSound(r)'
  <2>1. DiskAsThrown(r)'
    BY <1>1, <1>2, <1>5 DEF RunSound, DiskAsThrown, Stages, workers
  <2>2. TxAsTold(r, c)'
    BY <1>5 DEF TxAsTold
  <2>3. QED
    BY <1>3, <1>5, <2>1, <2>2 DEF RunSound, WiresAt, Holding
<1>9. ConnectionSound(c)'
  BY <1>5 DEF ConnectionSound
<1>10. ASSUME NEW p \in Requests \ {r}
       PROVE  RunSound(p)'
  <2>1. KeptRun(p)
    BY <1>1, <1>2 DEF KeptRun, Types, workers
  <2>2. lease[p] # NoConnection => KeptConnection(lease[p])
    BY <1>1, <1>2, <1>3 DEF KeptConnection, Types, workers
  <2>3. QED
    BY <2>1, <2>2, FrameRun DEF IInv
<1>11. ASSUME NEW d \in Connections \ {c}
       PROVE  ConnectionSound(d)'
  <2>1. KeptConnection(d)
    BY <1>1, <1>2 DEF KeptConnection, Types, workers
  <2>2. \A p \in Requests : lease[p] = d => lease'[p] = d
    BY <1>1, <1>2, <1>3, WorkerAssumption DEF Types
  <2>3. QED
    BY <1>1, <2>1, <2>2, FrameConnection DEF IInv
<1>12. Counts'
  <2>1. /\ InSlots({"leased"})' = InSlots({"leased"}) \cup {c} /\ c \notin InSlots({"leased"})
        /\ InSlots(InUse)' = InSlots(InUse)
    BY <1>1, <1>2 DEF InSlots, Types, InUse
  <2>2. Busy' = Busy \cup {r} /\ r \notin Busy
    BY <1>1, <1>2, <1>3 DEF Busy, Types
  <2>3. Waiting' = Waiting \ {r} /\ r \in Waiting
    BY <1>1, <1>2 DEF Waiting, Types
  <2>4. /\ InSlots({"leased"}) \in SUBSET Connections
        /\ Busy \in SUBSET Requests /\ Waiting \in SUBSET Requests
    BY DEF InSlots, Busy, Waiting
  <2>5. Cardinality(InSlots({"leased"})') = Cardinality(InSlots({"leased"})) + 1
    BY <2>1, <2>4, Counting, CountedIn
  <2>6. Cardinality(Busy') = Cardinality(Busy) + 1
    BY <2>2, <2>4, Counting, CountedIn
  <2>7. Cardinality(Waiting') = Cardinality(Waiting) - 1
    BY <2>3, <2>4, Counting, CountedIn
  <2>8. gauges'.connections = gauges.connections + 1 /\ gauges'.sessions = gauges.sessions
    BY <1>1, <1>2 DEF Types
  <2>9. Cardinality(Busy) \in Nat /\ Cardinality(Waiting) \in Nat
    BY <2>4, Counting
  <2>10. QED
    BY <1>1, <2>1, <2>5, <2>6, <2>7, <2>8, <2>9 DEF Counts
<1>13. PoolIsOver'
  BY <1>2 DEF PoolIsOver
<1>14. QED
  BY <1>6, <1>7, <1>8, <1>9, <1>10, <1>11, <1>12, <1>13 DEF IInv

\* A connection without a transaction goes back.
LEMMA GiveBackStep ==
  ASSUME IInv, NEW r \in Requests, NEW c \in Connections, lease[r] = c,
         NEW e \in {"none", "body", "other"}, GiveBack(r, e),
         error' = [error EXCEPT ![r] = e],
         UNCHANGED <<alive, workers, pool>>, dirty' \in [Connections -> BOOLEAN],
         tx[c] = NoRequest,
         e = "none" => r \in disk, e = "body" => r \notin disk
  PROVE  IInv'
<1>1. /\ Types /\ OneRunEach /\ Counts /\ PoolIsOver /\ RunSound(r) /\ ConnectionSound(c)
      /\ stage[r] \in Holding /\ slot[c] = "leased"
  BY Client DEF IInv
<1> DEFINE o == OutcomeOf(e)
<1>2. /\ stage' = [stage EXCEPT ![r] = "done"]
      /\ lease' = [lease EXCEPT ![r] = NoConnection]
      /\ outcome' = [outcome EXCEPT ![r] = o]
      /\ slot' = [slot EXCEPT ![c] = "free"]
      /\ wire' = [wire EXCEPT ![c] = "idle"]
      /\ gauges' = [sessions |-> gauges.sessions - 1,
                    connections |-> gauges.connections - 1]
  BY DEF GiveBack, Goto, InSlot
<1>3. /\ c # NoConnection
      /\ \A p \in Requests \ {r} : lease[p] # c
  BY <1>1, Client, WorkerAssumption
<1>4. /\ o \in Outcomes
      /\ o = "committed" => r \in disk
      /\ o = "rolled_back" => r \notin disk
  BY DEF OutcomeOf, Outcomes
<1> HIDE DEF o
<1>5. /\ slot'[c] = "free" /\ lease'[r] = NoConnection /\ stage'[r] = "done"
      /\ wire'[c] = "idle" /\ error'[r] = e /\ outcome'[r] = o /\ tx'[c] = NoRequest
      /\ thread'[c] = thread[c] /\ alive'[c] = alive[c]
  BY <1>1, <1>2 DEF Types, workers
<1>6. Types'
  <2>1. /\ slot' \in [Connections -> Slots]
        /\ lease' \in [Requests -> Connections \cup {NoConnection}]
        /\ stage' \in [Requests -> Stages]
    BY <1>1, <1>2 DEF Types, Slots, InUse, Stages
  <2>2. /\ wire' \in [Connections -> {"idle"} \cup Queries \cup Replies]
        /\ outcome' \in [Requests -> {"none"} \cup Outcomes]
        /\ error' \in [Requests -> {"none", "body", "other"}]
    BY <1>1, <1>2, <1>4 DEF Types
  <2>3. gauges' \in [sessions: Int, connections: Int]
    BY <1>1, <1>2 DEF Types
  <2>4. QED
    BY <1>1, <1>2, <2>1, <2>2, <2>3 DEF Types, workers
<1>7. OneRunEach'
  BY <1>1, <1>2 DEF OneRunEach, Types
<1>8. RunSound(r)'
  <2>1. DiskAsThrown(r)'
    BY <1>4, <1>5 DEF DiskAsThrown, Outcomes, workers
  <2>2. QED
    BY <1>5, <2>1 DEF RunSound, Holding
<1>9. ConnectionSound(c)'
  BY <1>1, <1>5 DEF ConnectionSound
<1>10. ASSUME NEW p \in Requests \ {r}
       PROVE  RunSound(p)'
  <2>1. KeptRun(p)
    BY <1>1, <1>2 DEF KeptRun, Types, workers
  <2>2. lease[p] # NoConnection => KeptConnection(lease[p])
    BY <1>1, <1>2, <1>3 DEF KeptConnection, Types, workers
  <2>3. QED
    BY <2>1, <2>2, FrameRun DEF IInv
<1>11. ASSUME NEW d \in Connections \ {c}
       PROVE  ConnectionSound(d)'
  <2>1. KeptConnection(d)
    BY <1>1, <1>2 DEF KeptConnection, Types, workers
  <2>2. \A p \in Requests : lease[p] = d => lease'[p] = d
    BY <1>1, <1>2 DEF Types
  <2>3. QED
    BY <1>1, <2>1, <2>2, FrameConnection DEF IInv
<1>12. Counts'
  <2>1. /\ InSlots({"leased"})' = InSlots({"leased"}) \ {c} /\ c \in InSlots({"leased"})
        /\ InSlots(InUse)' = InSlots(InUse)
    BY <1>1, <1>2 DEF InSlots, Types, InUse
  <2>2. Busy' = Busy \ {r} /\ r \in Busy
    BY <1>1, <1>2, <1>3 DEF Busy, Types
  <2>3. Waiting' = Waiting
    BY <1>1, <1>2 DEF Waiting, Types, Holding
  <2>4. /\ InSlots({"leased"}) \in SUBSET Connections
        /\ Busy \in SUBSET Requests /\ Waiting \in SUBSET Requests
    BY DEF InSlots, Busy, Waiting
  <2>5. Cardinality(InSlots({"leased"})') = Cardinality(InSlots({"leased"})) - 1
    BY <2>1, <2>4, Counting, CountedIn
  <2>6. Cardinality(Busy') = Cardinality(Busy) - 1
    BY <2>2, <2>4, Counting, CountedIn
  <2>7. /\ gauges'.connections = gauges.connections - 1
        /\ gauges'.sessions = gauges.sessions - 1
    BY <1>1, <1>2 DEF Types
  <2>8. Cardinality(Busy) \in Nat /\ Cardinality(Waiting) \in Nat
    BY <2>4, Counting
  <2>9. QED
    BY <1>1, <2>1, <2>3, <2>5, <2>6, <2>7, <2>8 DEF Counts
<1>13. PoolIsOver'
  BY <1>1, <1>2 DEF PoolIsOver
<1>14. QED
  BY <1>6, <1>7, <1>8, <1>9, <1>10, <1>11, <1>12, <1>13 DEF IInv

\* What the main thread knows of the transaction from a reply.
LEMMA WhatRepliesSay ==
  ASSUME IInv, NEW r \in Requests, NEW c \in Connections, lease[r] = c,
         wire[c] \in Replies, stage[r] # "close"
  PROVE  /\ wire[c] \in WiresAt(stage[r])
         /\ Told(c) \in BOOLEAN
         /\ dirty' = [dirty EXCEPT ![c] = Told(c)] => dirty' \in [Connections -> BOOLEAN]
         /\ ~Told(c) => tx[c] = NoRequest
         /\ wire[c] = "ok_in_tx" /\ thread[c] = "running" => tx[c] = r
         /\ wire[c] \in Succeeded => ~Told(c) \/ wire[c] = "ok_in_tx"
<1>1. /\ Types /\ ConnectionSound(c)
      /\ \A p \in Requests : lease[p] = c => p = r
      /\ wire[c] \in WiresAt(stage[r]) /\ (thread[c] = "running" => TxAsTold(r, c))
  BY Client DEF IInv
<1>2. Told(c) \in BOOLEAN
  <2>1. dirty[c] \in BOOLEAN
    BY <1>1 DEF Types
  <2>2. CASE wire[c] = "rejected"
    BY <2>1, <2>2 DEF Told
  <2>3. CASE wire[c] # "rejected"
    BY <2>3 DEF Told
  <2>4. QED
    BY <2>2, <2>3
<1>3. dirty' = [dirty EXCEPT ![c] = Told(c)] => dirty' \in [Connections -> BOOLEAN]
  BY <1>1, <1>2 DEF Types
<1>4. ~Told(c) => tx[c] = NoRequest
  BY <1>1 DEF Told, TxAsTold, ConnectionSound, Replies
<1>5. wire[c] = "ok_in_tx" /\ thread[c] = "running" => tx[c] = r
  BY <1>1 DEF TxAsTold
<1>6. wire[c] \in Succeeded => ~Told(c) \/ wire[c] = "ok_in_tx"
  BY DEF Succeeded, Told
<1>7. QED
  BY <1>1, <1>2, <1>3, <1>4, <1>5, <1>6

\* Primary.release after a reply.
LEMMA ReleaseStep ==
  ASSUME IInv, NEW r \in Requests, NEW c \in Connections, lease[r] = c,
         wire[c] \in Replies, stage[r] # "close",
         NEW e \in {"none", "body", "other"}, Release(r, e), Settle(c),
         UNCHANGED <<alive, workers, pool>>,
         e = "none" => r \in disk /\ ~Told(c), e = "body" => r \notin disk
  PROVE  IInv'
<1>1. /\ dirty' \in [Connections -> BOOLEAN]
      /\ ~Told(c) => tx[c] = NoRequest
  BY WhatRepliesSay DEF Settle
<1>2. error' = [error EXCEPT ![r] = e]
  BY DEF Release, Throw
<1>3. CASE Told(c)
  <2>1. /\ stage' = [stage EXCEPT ![r] = "close"] /\ Ask(c, "close")
        /\ UNCHANGED <<lease, outcome, slot, gauges>>
    BY <1>3 DEF Release, Goto
  <2>2. QueryOf("close") = "close" /\ "close" \in Holding \ {"begin"}
    BY DEF QueryOf, Holding
  <2>3. Ask(c, QueryOf("close"))
    BY <2>1, <2>2
  <2>4. e # "none"
    BY <1>3
  <2>5. QED
    BY <1>1, <1>2, <2>1, <2>2, <2>3, <2>4, AskStep
<1>4. CASE ~Told(c)
  <2>1. GiveBack(r, e)
    BY <1>4 DEF Release
  <2>2. QED
    BY <1>1, <1>2, <1>4, <2>1, GiveBackStep
<1>5. QED
  BY <1>3, <1>4

\* The next query after a reply.
LEMMA ContinueStep ==
  ASSUME IInv, NEW r \in Requests, NEW c \in Connections, lease[r] = c,
         wire[c] \in Replies, stage[r] # "close",
         NEW s \in {"read", "write", "commit", "rollback"},
         NEW e \in {"none", "body", "other"}, error' = [error EXCEPT ![r] = e],
         Continue(r, s, QueryOf(s)), Settle(c),
         UNCHANGED <<alive, workers, pool>>,
         s \in {"read", "write"} => r \notin disk,
         s # "rollback" => e = "none" /\ (thread[c] = "running" => tx[c] = r),
         s = "rollback" => e # "none" /\ (e = "body" => r \notin disk)
  PROVE  IInv'
<1>1. dirty' \in [Connections -> BOOLEAN]
  BY WhatRepliesSay DEF Settle
<1>2. /\ stage' = [stage EXCEPT ![r] = s] /\ Ask(c, QueryOf(s))
      /\ UNCHANGED <<lease, outcome, slot, gauges>>
  BY DEF Continue, Goto
<1>3. s \in Holding \ {"begin"}
  BY DEF Holding
<1>4. QED
  BY <1>1, <1>2, <1>3, AskStep

LEMMA RepliedStep ==
  ASSUME IInv, NEW r \in Requests, Replied(r)
  PROVE  IInv'
<1>1. /\ Types /\ RunSound(r) /\ DiskAsThrown(r)
      /\ stage[r] \in {"begin", "read", "write", "commit", "rollback"}
  BY DEF IInv, RunSound, Replied
<1>2. lease[r] # NoConnection
  BY <1>1 DEF RunSound, Holding
<1>3. PICK c \in Connections : lease[r] = c
  BY <1>1, <1>2 DEF Types
<1> DEFINE ok == wire[c] \in Succeeded
<1>4. /\ wire[c] \in Replies /\ Settle(c) /\ UNCHANGED <<alive, workers, pool>>
      /\ stage[r] # "close"
  BY <1>1, <1>3 DEF Replied
<1>5. /\ wire[c] \in WiresAt(stage[r])
      /\ ok => ~Told(c) \/ wire[c] = "ok_in_tx"
      /\ wire[c] = "ok_in_tx" /\ thread[c] = "running" => tx[c] = r
  BY <1>3, <1>4, WhatRepliesSay
<1>6. \A e : error' = error /\ error[r] = e => error' = [error EXCEPT ![r] = e]
  BY <1>1 DEF Types
<1>7. CASE stage[r] = "begin"
  <2>1. ok => wire[c] = "ok_in_tx"
    BY <1>5, <1>7 DEF WiresAt, Succeeded
  <2>2. CASE ok /\ Continue(r, "read", "statement") /\ UNCHANGED error
    <3>1. QueryOf("read") = "statement"
      BY DEF QueryOf
    <3>2. error[r] = "none" /\ r \notin disk
      BY <1>1, <1>7 DEF DiskAsThrown, Stages
    <3>3. error' = [error EXCEPT ![r] = "none"] /\ Continue(r, "read", QueryOf("read"))
      BY <1>6, <2>2, <3>1, <3>2
    <3>4. QED
      BY <1>3, <1>4, <1>5, <2>1, <2>2, <3>2, <3>3, ContinueStep
  <2>3. CASE Release(r, "other")
    BY <1>3, <1>4, <2>3, ReleaseStep
  <2>4. QED
    BY <1>3, <1>7, <2>2, <2>3 DEF Replied
<1>8. CASE stage[r] \in {"read", "write"}
  <2>1. error[r] = "none" /\ r \notin disk
    BY <1>1, <1>8 DEF DiskAsThrown, Stages
  <2>2. ok => wire[c] = "ok_in_tx"
    BY <1>5, <1>8 DEF WiresAt, Succeeded
  <2>3. ASSUME NEW s \in {"write", "commit"}, ok, Continue(r, s, QueryOf(s)), UNCHANGED error
        PROVE  IInv'
    <3>1. error' = [error EXCEPT ![r] = "none"]
      BY <1>6, <2>1, <2>3
    <3>2. QED
      BY <1>3, <1>4, <1>5, <2>1, <2>2, <2>3, <3>1, ContinueStep
  <2>4. CASE RollBack(r, "body")
    <3>1. Continue(r, "rollback", QueryOf("rollback")) /\ error' = [error EXCEPT ![r] = "body"]
      BY <2>4 DEF RollBack, Throw, QueryOf
    <3>2. QED
      BY <1>3, <1>4, <2>1, <3>1, ContinueStep
  <2>5. QueryOf("write") = "statement" /\ QueryOf("commit") = "commit"
    BY DEF QueryOf
  <2>6. \/ ok /\ Continue(r, "write", "statement") /\ UNCHANGED error
        \/ ok /\ Continue(r, "commit", "commit") /\ UNCHANGED error
        \/ RollBack(r, "body")
    BY <1>3, <1>8 DEF Replied
  <2>7. QED
    BY <2>3, <2>4, <2>5, <2>6
<1>9. CASE stage[r] = "commit"
  <2>1. ok => wire[c] = "ok" /\ r \in disk /\ ~Told(c)
    BY <1>1, <1>3, <1>5, <1>9 DEF DiskAsThrown, WiresAt, Succeeded
  <2>2. CASE ok /\ Release(r, "none")
    BY <1>3, <1>4, <2>1, <2>2, ReleaseStep
  <2>3. CASE RollBack(r, "other")
    <3>1. Continue(r, "rollback", QueryOf("rollback")) /\ error' = [error EXCEPT ![r] = "other"]
      BY <2>3 DEF RollBack, Throw, QueryOf
    <3>2. QED
      BY <1>3, <1>4, <3>1, ContinueStep
  <2>4. QED
    BY <1>3, <1>9, <2>2, <2>3 DEF Replied
<1>10. CASE stage[r] = "rollback"
  <2>1. /\ error[r] \in {"body", "other"}
        /\ error[r] = "body" => r \notin disk
    BY <1>1, <1>10 DEF DiskAsThrown, Types
  <2>2. \/ Release(r, error[r]) \/ Release(r, "other")
    BY <1>3, <1>10 DEF Replied
  <2>3. QED
    BY <1>3, <1>4, <2>1, <2>2, ReleaseStep
<1>11. QED
  BY <1>1, <1>7, <1>8, <1>9, <1>10

LEMMA ReleaseClosedStep ==
  ASSUME IInv, NEW r \in Requests, ReleaseClosed(r)
  PROVE  IInv'
<1>1. /\ Types /\ RunSound(r) /\ DiskAsThrown(r) /\ stage[r] = "close"
  BY DEF IInv, RunSound, ReleaseClosed
<1>2. lease[r] # NoConnection
  BY <1>1 DEF RunSound, Holding
<1>3. PICK c \in Connections : lease[r] = c
  BY <1>1, <1>2 DEF Types
<1>4. /\ ~alive[c] /\ GiveBack(r, error[r])
      /\ UNCHANGED <<error, alive, dirty, workers, pool>>
  BY <1>3 DEF ReleaseClosed
<1>5. tx[c] = NoRequest
  BY <1>4 DEF IInv, ConnectionSound
<1>6. /\ error[r] \in {"body", "other"}
      /\ error[r] = "body" => r \notin disk
  BY <1>1 DEF DiskAsThrown, Types
<1>7. error' = [error EXCEPT ![r] = error[r]] /\ dirty' \in [Connections -> BOOLEAN]
  BY <1>1, <1>4 DEF Types
<1>8. QED
  BY <1>3, <1>4, <1>5, <1>6, <1>7, GiveBackStep

-----------------------------------------------------------------------------
(* The pool. *)

\* A run joins those that wait, or leaves them without a connection.
Joins(r) ==
  /\ stage[r] = "new" /\ pool = "up"
  /\ stage' = [stage EXCEPT ![r] = "acquire"]
  /\ gauges' = [gauges EXCEPT !.sessions = @ + 1]
  /\ UNCHANGED <<lease, error, outcome>>

\* The part of the invariant about runs, when connections that are leased stay
\* as they are and nothing is leased or given back.
LEMMA RunSide ==
  ASSUME IInv, UNCHANGED <<tx, disk>>,
         \/ UNCHANGED <<main, gauges>>
         \/ \E r \in Requests : Joins(r)
         \/ \E r \in Requests : AcquireFails(r),
         \A d \in Connections : slot'[d] = "leased" <=> slot[d] = "leased",
         \A d \in Connections : slot[d] = "leased" => KeptConnection(d)
  PROVE  /\ lease' = lease /\ error' = error
         /\ stage' \in [Requests -> Stages]
         /\ outcome' \in [Requests -> {"none"} \cup Outcomes]
         /\ gauges' \in [sessions: Int, connections: Int]
         /\ OneRunEach'
         /\ \A r \in Requests : RunSound(r)'
         /\ (pool # "up" => Waiting' \subseteq Waiting)
         /\ Cardinality(InSlots({"leased"})') = Cardinality(Busy')
         /\ gauges'.connections = Cardinality(Busy')
         /\ gauges'.sessions = Cardinality(Busy') + Cardinality(Waiting')
<1>1. Types /\ OneRunEach /\ Counts
  BY DEF IInv
<1>2. /\ lease' = lease /\ error' = error
      /\ \/ UNCHANGED <<stage, outcome, gauges>>
         \/ \E r \in Requests : Joins(r)
         \/ \E r \in Requests : AcquireFails(r)
  BY DEF main, Joins, AcquireFails
<1>3. OneRunEach' /\ Busy' = Busy /\ InSlots({"leased"})' = InSlots({"leased"})
  BY <1>1, <1>2 DEF OneRunEach, Busy, InSlots
<1>4. ASSUME NEW r \in Requests, KeptRun(r)
      PROVE  RunSound(r)'
  <2>1. RunSound(r) /\ lease[r] \in Connections \cup {NoConnection}
    BY <1>1 DEF IInv, Types
  <2>2. lease[r] # NoConnection => slot[lease[r]] = "leased"
    BY <2>1 DEF RunSound
  <2>3. QED
    BY <1>4, <2>1, <2>2, FrameRun
<1>5. /\ Busy \in SUBSET Requests /\ Waiting \in SUBSET Requests
      /\ IsFiniteSet(Waiting) /\ Cardinality(Waiting) \in Int /\ Cardinality(Busy) \in Int
  BY Counting DEF Busy, Waiting
<1>6. CASE UNCHANGED <<stage, outcome, gauges>>
  <2>1. \A r \in Requests : RunSound(r)'
    BY <1>2, <1>4, <1>6 DEF KeptRun
  <2>2. Waiting' = Waiting
    BY <1>6 DEF Waiting
  <2>3. QED
    BY <1>1, <1>2, <1>3, <1>6, <2>1, <2>2 DEF Types, Counts
<1>7. CASE \E r \in Requests : Joins(r)
  <2>1. PICK r \in Requests : Joins(r)
    BY <1>7
  <2>2. /\ stage[r] = "new" /\ pool = "up"
        /\ stage' = [stage EXCEPT ![r] = "acquire"]
        /\ gauges' = [gauges EXCEPT !.sessions = @ + 1]
        /\ outcome' = outcome
    BY <2>1 DEF Joins
  <2>3. /\ stage' \in [Requests -> Stages] /\ stage'[r] = "acquire"
        /\ gauges' \in [sessions: Int, connections: Int]
        /\ gauges'.connections = gauges.connections
        /\ gauges'.sessions = gauges.sessions + 1
    BY <1>1, <2>2 DEF Types, Stages
  <2>4. RunSound(r)'
    <3>1. RunSound(r)
      BY DEF IInv
    <3>2. lease[r] = NoConnection
      BY <2>2, <3>1 DEF RunSound, Holding
    <3>3. DiskAsThrown(r)'
      BY <1>2, <2>2, <2>3, <3>1 DEF RunSound, DiskAsThrown, Stages
    <3>4. QED
      BY <1>2, <2>3, <3>2, <3>3 DEF RunSound, Holding
  <2>5. \A p \in Requests \ {r} : KeptRun(p)
    BY <1>1, <1>2, <2>2 DEF KeptRun, Types
  <2>6. Waiting' = Waiting \cup {r} /\ r \notin Waiting
    BY <1>1, <2>2 DEF Waiting, Types
  <2>7. Cardinality(Waiting') = Cardinality(Waiting) + 1
    BY <1>5, <2>6, CountedIn
  <2>8. \A p \in Requests : RunSound(p)'
    BY <1>4, <2>4, <2>5
  <2>9. gauges'.sessions = Cardinality(Busy') + Cardinality(Waiting')
    BY <1>1, <1>3, <1>5, <2>3, <2>7 DEF Counts
  <2>10. QED
    BY <1>1, <1>2, <1>3, <2>2, <2>3, <2>8, <2>9 DEF Types, Counts
<1>8. CASE \E r \in Requests : AcquireFails(r)
  <2>1. PICK r \in Requests : AcquireFails(r)
    BY <1>8
  <2>2. /\ stage[r] = "acquire"
        /\ stage' = [stage EXCEPT ![r] = "done"]
        /\ gauges' = [gauges EXCEPT !.sessions = @ - 1]
        /\ outcome' = [outcome EXCEPT ![r] = "failed"]
    BY <2>1 DEF AcquireFails, Goto
  <2>3. /\ stage' \in [Requests -> Stages] /\ stage'[r] = "done"
        /\ outcome' \in [Requests -> {"none"} \cup Outcomes] /\ outcome'[r] = "failed"
        /\ gauges' \in [sessions: Int, connections: Int]
        /\ gauges'.connections = gauges.connections
        /\ gauges'.sessions = gauges.sessions - 1
    BY <1>1, <2>2 DEF Types, Stages, Outcomes
  <2>4. RunSound(r)'
    <3>1. RunSound(r)
      BY DEF IInv
    <3>2. lease[r] = NoConnection
      BY <2>2, <3>1 DEF RunSound, Holding
    <3>3. DiskAsThrown(r)'
      BY <1>2, <2>2, <2>3, <3>1 DEF RunSound, DiskAsThrown, Stages
    <3>4. QED
      BY <1>2, <2>3, <3>2, <3>3 DEF RunSound, Holding
  <2>5. \A p \in Requests \ {r} : KeptRun(p)
    BY <1>1, <1>2, <2>2 DEF KeptRun, Types
  <2>6. Waiting' = Waiting \ {r} /\ r \in Waiting
    BY <1>1, <2>2 DEF Waiting, Types
  <2>7. Cardinality(Waiting') = Cardinality(Waiting) - 1
    BY <1>5, <2>6, CountedIn
  <2>8. \A p \in Requests : RunSound(p)'
    BY <1>4, <2>4, <2>5
  <2>9. gauges'.sessions = Cardinality(Busy') + Cardinality(Waiting')
    BY <1>1, <1>3, <1>5, <2>3, <2>7 DEF Counts
  <2>10. QED
    BY <1>1, <1>2, <1>3, <2>3, <2>6, <2>8, <2>9 DEF Counts
<1>9. QED
  BY <1>2, <1>6, <1>7, <1>8

\* A step on one connection that is not leased.
LEMMA PoolStep ==
  ASSUME IInv, NEW c \in Connections, slot[c] # "leased",
         NEW s \in Slots \ {"leased"}, slot' = [slot EXCEPT ![c] = s],
         UNCHANGED <<tx, disk, pool>>,
         \/ UNCHANGED <<main, gauges>>
         \/ \E r \in Requests : AcquireFails(r),
         NEW w \in {"idle"} \cup Queries \cup Replies, wire' = [wire EXCEPT ![c] = w],
         alive' \in [Connections -> BOOLEAN], \A d \in Connections \ {c} : alive'[d] = alive[d],
         NEW th \in {"none", "running", "exited"}, thread' = [thread EXCEPT ![c] = th],
         dirty' \in [Connections -> BOOLEAN],
         pool # "stopped",
         Cardinality(InSlots(InUse)') <= PoolSize,
         th = "running" => alive'[c],
         w = "rejected" => ~alive'[c],
         s \in {"unused", "gone"} => ~alive'[c],
         s \in {"unused", "free", "gone"} => w = "idle",
         s = "creating" => w \in {"probe", "ok", "error", "rejected"},
         s \in {"closing", "rejecting"} => w \in {"close", "ok", "rejected"}
  PROVE  IInv'
<1>1. Types /\ ConnectionSound(c)
  BY DEF IInv
<1>2. \A d \in Connections : slot'[d] = "leased" <=> slot[d] = "leased"
  BY <1>1 DEF Types
<1>3. \A d \in Connections \ {c} : KeptConnection(d)
  BY <1>1 DEF KeptConnection, Types
<1>4. /\ lease' = lease /\ error' = error
      /\ stage' \in [Requests -> Stages]
      /\ outcome' \in [Requests -> {"none"} \cup Outcomes]
      /\ gauges' \in [sessions: Int, connections: Int]
      /\ OneRunEach'
      /\ \A r \in Requests : RunSound(r)'
      /\ Cardinality(InSlots({"leased"})') = Cardinality(Busy')
      /\ gauges'.connections = Cardinality(Busy')
      /\ gauges'.sessions = Cardinality(Busy') + Cardinality(Waiting')
  BY <1>2, <1>3, RunSide
<1>5. Types'
  <2>1. /\ slot' \in [Connections -> Slots]
        /\ wire' \in [Connections -> {"idle"} \cup Queries \cup Replies]
        /\ thread' \in [Connections -> {"none", "running", "exited"}]
    BY <1>1 DEF Types
  <2>2. QED
    BY <1>1, <1>4, <2>1 DEF Types
<1>6. tx[c] = NoRequest
  BY <1>1, Client DEF ConnectionSound, Types
<1>7. ConnectionSound(c)'
  <2>1. slot'[c] = s /\ wire'[c] = w /\ thread'[c] = th
    BY <1>1 DEF Types
  <2>2. (thread[c] = "running" => alive[c])'
    BY <2>1
  <2>3. (wire[c] = "rejected" => ~alive[c])'
    BY <2>1
  <2>4. (slot[c] \in {"unused", "gone"} => ~alive[c])'
    BY <2>1
  <2>5. (tx[c] # NoRequest => thread[c] = "running" /\ lease[tx[c]] = c)'
    BY <1>6
  <2>6. QED
    BY <2>1, <2>2, <2>3, <2>4, <2>5 DEF ConnectionSound
<1>8. \A d \in Connections \ {c} : ConnectionSound(d)'
  BY <1>1, <1>3, <1>4, FrameConnection DEF IInv
<1>9. Counts' /\ PoolIsOver'
  BY <1>4 DEF Counts, PoolIsOver
<1>10. QED
  BY <1>4, <1>5, <1>7, <1>8, <1>9 DEF IInv

LEMMA SmallerPool ==
  ASSUME NEW S \in SUBSET Connections, NEW T \in SUBSET S, Cardinality(S) <= PoolSize
  PROVE  Cardinality(T) <= PoolSize
<1>1. IsFiniteSet(S) /\ Cardinality(S) \in Nat /\ Cardinality(T) \in Nat /\ PoolSize \in Nat
  BY Counting
<1>2. Cardinality(T) <= Cardinality(S)
  BY <1>1, FS_Subset
<1>3. QED
  BY <1>1, <1>2

LEMMA PoolIsThere ==
  ASSUME IInv, NEW c \in Connections, slot[c] \notin {"unused", "gone"}
  PROVE  pool # "stopped"
BY DEF IInv, PoolIsOver

\* Taking a connection out of use, or leaving it in use.
LEMMA StillFits ==
  ASSUME IInv, NEW c \in Connections, slot[c] \in InUse,
         NEW s \in Slots, slot' = [slot EXCEPT ![c] = s]
  PROVE  Cardinality(InSlots(InUse)') <= PoolSize
<1>1. InSlots(InUse) \in SUBSET Connections /\ Cardinality(InSlots(InUse)) <= PoolSize
  BY DEF IInv, Counts, InSlots
<1>2. InSlots(InUse)' \subseteq InSlots(InUse)
  BY DEF IInv, Types, InSlots
<1>3. QED
  BY <1>1, <1>2, SmallerPool

LEMMA DestroyStep ==
  ASSUME IInv, NEW c \in Connections, Destroy(c)
  PROVE  IInv'
<1>1. Types /\ ConnectionSound(c)
  BY DEF IInv
<1> DEFINE w == IF alive[c] THEN "close" ELSE "rejected"
<1>2. /\ slot[c] = "free" /\ slot' = [slot EXCEPT ![c] = "closing"]
      /\ wire' = [wire EXCEPT ![c] = w]
      /\ UNCHANGED <<main, alive, dirty, workers, gauges, pool>>
  BY DEF Destroy, InSlot, Ask
<1>3. /\ w \in {"close", "rejected"} /\ (w = "rejected" => ~alive[c])
      /\ w \in {"idle"} \cup Queries \cup Replies
  BY DEF Queries, Replies
<1> HIDE DEF w
<1>4. "closing" \in Slots \ {"leased"} /\ "free" \in InUse
  BY DEF Slots, InUse
<1>5. Cardinality(InSlots(InUse)') <= PoolSize
  BY <1>2, <1>4, StillFits
<1>6. /\ alive' \in [Connections -> BOOLEAN] /\ alive' = alive
      /\ thread[c] \in {"none", "running", "exited"}
      /\ thread' = [thread EXCEPT ![c] = thread[c]]
      /\ dirty' \in [Connections -> BOOLEAN] /\ UNCHANGED <<tx, disk, pool>>
  BY <1>1, <1>2 DEF Types, workers
<1>7. pool # "stopped"
  BY <1>2, PoolIsThere
<1>8. thread[c] = "running" => alive[c]
  BY <1>1 DEF ConnectionSound
<1>9. QED
  BY <1>2, <1>3, <1>4, <1>5, <1>6, <1>7, <1>8, PoolStep

LEMMA CreateStep ==
  ASSUME IInv, NEW c \in Connections, Create(c)
  PROVE  IInv'
<1>1. Types /\ ConnectionSound(c)
  BY DEF IInv
<1>2. /\ slot[c] = "unused" /\ pool = "up" /\ InSlots({"free"}) = {}
      /\ Cardinality(InSlots({"creating", "rejecting", "leased"})) < PoolSize
      /\ slot' = [slot EXCEPT ![c] = "creating"]
      /\ thread' = [thread EXCEPT ![c] = "running"]
      /\ alive' = [alive EXCEPT ![c] = TRUE]
      /\ wire' = [wire EXCEPT ![c] = "probe"]
      /\ UNCHANGED <<main, dirty, tx, disk, gauges, pool>>
  BY DEF Create, NextUnused, InSlot
<1>3. Cardinality(InSlots(InUse)') <= PoolSize
  <2> DEFINE B == InSlots({"creating", "rejecting", "leased"})
  <2>1. InSlots(InUse)' = B \cup {c} /\ c \notin B
    BY <1>1, <1>2 DEF Types, InSlots, InUse
  <2>2. B \in SUBSET Connections
    BY DEF InSlots
  <2>3. IsFiniteSet(B) /\ Cardinality(B) \in Nat /\ PoolSize \in Nat
    BY <2>2, Counting
  <2>4. Cardinality(B) < PoolSize
    BY <1>2
  <2> HIDE DEF B
  <2>5. Cardinality(B \cup {c}) = Cardinality(B) + 1
    BY <2>1, <2>3, CountedIn
  <2>6. QED
    BY <2>1, <2>3, <2>4, <2>5
<1>4. /\ "creating" \in Slots \ {"leased"} /\ "probe" \in {"idle"} \cup Queries \cup Replies
      /\ dirty' \in [Connections -> BOOLEAN]
  BY <1>1, <1>2 DEF Types, Slots, InUse, Queries
<1> DEFINE s == "creating"
           w == "probe"
           th == "running"
<1>5. /\ alive' \in [Connections -> BOOLEAN] /\ alive'[c]
      /\ \A d \in Connections \ {c} : alive'[d] = alive[d]
      /\ s \in Slots \ {"leased"} /\ slot' = [slot EXCEPT ![c] = s]
      /\ w \in {"idle"} \cup Queries \cup Replies /\ wire' = [wire EXCEPT ![c] = w]
      /\ th \in {"none", "running", "exited"} /\ thread' = [thread EXCEPT ![c] = th]
  BY <1>1, <1>2, <1>4 DEF Types
<1>6. /\ s = "creating" /\ w = "probe" /\ slot[c] # "leased" /\ pool # "stopped"
      /\ UNCHANGED <<tx, disk, pool>> /\ UNCHANGED <<main, gauges>>
  BY <1>2
<1>7. /\ th = "running" => alive'[c]
      /\ w = "rejected" => ~alive'[c]
      /\ s \in {"unused", "gone"} => ~alive'[c]
      /\ s \in {"unused", "free", "gone"} => w = "idle"
      /\ s = "creating" => w \in {"probe", "ok", "error", "rejected"}
      /\ s \in {"closing", "rejecting"} => w \in {"close", "ok", "rejected"}
  BY <1>5
<1> HIDE DEF s, w, th
<1>8. QED
  BY <1>3, <1>4, <1>5, <1>6, <1>7, PoolStep

LEMMA ProbedStep ==
  ASSUME IInv, NEW c \in Connections, Probed(c)
  PROVE  IInv'
<1>1. Types /\ ConnectionSound(c)
  BY DEF IInv
<1>2. /\ slot[c] = "creating" /\ dirty' = [dirty EXCEPT ![c] = Told(c)]
      /\ UNCHANGED <<main, alive, workers, gauges, pool>>
  BY DEF Probed, Settle
<1>3. dirty' \in [Connections -> BOOLEAN]
  <2>1. Told(c) \in BOOLEAN
    <3>1. CASE wire[c] = "rejected"
      BY <1>1, <3>1 DEF Told, Types
    <3>2. CASE wire[c] # "rejected"
      BY <3>2 DEF Told
    <3>3. QED
      BY <3>1, <3>2
  <2>2. QED
    BY <1>1, <1>2, <2>1 DEF Types
<1>4. /\ alive' \in [Connections -> BOOLEAN] /\ alive' = alive
      /\ thread[c] \in {"none", "running", "exited"}
      /\ thread' = [thread EXCEPT ![c] = thread[c]]
      /\ UNCHANGED <<tx, disk, pool>>
  BY <1>1, <1>2 DEF Types, workers
<1>5. pool # "stopped" /\ (thread[c] = "running" => alive[c])
  BY <1>1, <1>2, PoolIsThere DEF ConnectionSound
<1>6. ASSUME NEW s \in {"free", "rejecting"}, slot' = [slot EXCEPT ![c] = s]
      PROVE  /\ Cardinality(InSlots(InUse)') <= PoolSize
             /\ s \in Slots \ {"leased"}
  <2>1. slot[c] \in InUse /\ s \in Slots \ {"leased"}
    BY <1>2 DEF InUse, Slots
  <2>2. QED
    BY <1>6, <2>1, StillFits
<1>7. CASE slot' = [slot EXCEPT ![c] = "free"] /\ wire' = [wire EXCEPT ![c] = "idle"]
  <2> DEFINE s == "free"
             w == "idle"
  <2>1. /\ slot' = [slot EXCEPT ![c] = s] /\ wire' = [wire EXCEPT ![c] = w]
        /\ s = "free" /\ w = "idle" /\ w \in {"idle"} \cup Queries \cup Replies
    BY <1>7
  <2>2. s \in Slots \ {"leased"} /\ Cardinality(InSlots(InUse)') <= PoolSize
    BY <1>6, <1>7
  <2>3. /\ w = "rejected" => ~alive'[c]
        /\ s \in {"unused", "gone"} => ~alive'[c]
        /\ s \in {"unused", "free", "gone"} => w = "idle"
        /\ s = "creating" => w \in {"probe", "ok", "error", "rejected"}
        /\ s \in {"closing", "rejecting"} => w \in {"close", "ok", "rejected"}
    OBVIOUS
  <2> HIDE DEF s, w
  <2>4. slot[c] # "leased" /\ UNCHANGED <<main, gauges>>
    BY <1>2
  <2>5. thread[c] = "running" => alive'[c]
    BY <1>2, <1>5
  <2>6. QED
    BY <1>3, <1>4, <1>5, <2>1, <2>2, <2>3, <2>4, <2>5, PoolStep
<1>8. CASE slot' = [slot EXCEPT ![c] = "rejecting"] /\ Ask(c, "close")
  <2> DEFINE w == IF alive[c] THEN "close" ELSE "rejected"
  <2>1. /\ w \in {"close", "rejected"} /\ (w = "rejected" => ~alive[c])
        /\ w \in {"idle"} \cup Queries \cup Replies
    BY DEF Queries, Replies
  <2>2. wire' = [wire EXCEPT ![c] = w]
    BY <1>8 DEF Ask
  <2> HIDE DEF w
  <2>3. QED
    BY <1>2, <1>3, <1>4, <1>5, <1>6, <1>8, <2>1, <2>2, PoolStep
<1>9. QED
  BY <1>7, <1>8 DEF Probed, InSlot

LEMMA ClosedStep ==
  ASSUME IInv, NEW c \in Connections, Closed(c)
  PROVE  IInv'
<1>1. Types /\ ConnectionSound(c)
  BY DEF IInv
<1>2. /\ slot[c] \in {"closing", "rejecting"} /\ ~alive[c]
      /\ slot' = [slot EXCEPT ![c] = "gone"]
      /\ wire' = [wire EXCEPT ![c] = "idle"]
      /\ UNCHANGED <<main, gauges>> \/ \E r \in Requests : AcquireFails(r)
      /\ UNCHANGED <<alive, dirty, workers, pool>>
  BY DEF Closed, InSlot
<1>3. Cardinality(InSlots(InUse)') <= PoolSize
  <2>1. InSlots(InUse) \in SUBSET Connections /\ Cardinality(InSlots(InUse)) <= PoolSize
    BY DEF IInv, Counts, InSlots
  <2>2. InSlots(InUse)' \subseteq InSlots(InUse)
    BY <1>1, <1>2 DEF Types, InSlots, InUse
  <2>3. QED
    BY <2>1, <2>2, SmallerPool
<1>4. /\ alive' \in [Connections -> BOOLEAN] /\ alive' = alive
      /\ thread[c] \in {"none", "running", "exited"} /\ thread[c] # "running"
      /\ thread' = [thread EXCEPT ![c] = thread[c]]
      /\ dirty' \in [Connections -> BOOLEAN] /\ UNCHANGED <<tx, disk, pool>>
  BY <1>1, <1>2 DEF Types, ConnectionSound, workers
<1> DEFINE s == "gone"
           w == "idle"
<1>5. /\ pool # "stopped" /\ slot[c] # "leased" /\ s \in Slots \ {"leased"}
      /\ w \in {"idle"} \cup Queries \cup Replies
  BY <1>2, PoolIsThere DEF Slots
<1>6. /\ s = "gone" /\ w = "idle"
      /\ slot' = [slot EXCEPT ![c] = s] /\ wire' = [wire EXCEPT ![c] = w]
  BY <1>2
<1> HIDE DEF s, w
<1>7. QED
  BY <1>2, <1>3, <1>4, <1>5, <1>6, PoolStep

\* A run arrives, or waits in vain.
LEMMA WaitingStep ==
  ASSUME IInv, NEW r \in Requests, Arrive(r) \/ AcquireTimesOut(r)
  PROVE  IInv'
<1>1. Types /\ Counts /\ PoolIsOver
  BY DEF IInv
<1>2. /\ UNCHANGED <<slot, alive, dirty, wire, workers, pool>>
      /\ \/ \E p \in Requests : Joins(p)
         \/ \E p \in Requests : AcquireFails(p)
  BY DEF Arrive, AcquireTimesOut, Joins, Goto
<1>3. \A d \in Connections : KeptConnection(d)
  BY <1>2 DEF KeptConnection, workers
<1>4. /\ lease' = lease /\ error' = error
      /\ stage' \in [Requests -> Stages]
      /\ outcome' \in [Requests -> {"none"} \cup Outcomes]
      /\ gauges' \in [sessions: Int, connections: Int]
      /\ OneRunEach'
      /\ \A p \in Requests : RunSound(p)'
      /\ (pool # "up" => Waiting' \subseteq Waiting)
      /\ Cardinality(InSlots({"leased"})') = Cardinality(Busy')
      /\ gauges'.connections = Cardinality(Busy')
      /\ gauges'.sessions = Cardinality(Busy') + Cardinality(Waiting')
  <2>1. UNCHANGED <<tx, disk>> /\ slot' = slot
    BY <1>2 DEF workers
  <2>2. QED
    BY <1>2, <1>3, <2>1, RunSide
<1>5. Types'
  BY <1>1, <1>2, <1>4 DEF Types, workers
<1>6. Counts'
  <2>1. InSlots(InUse)' = InSlots(InUse)
    BY <1>2 DEF InSlots
  <2>2. QED
    BY <1>1, <1>4, <2>1 DEF Counts
<1>7. PoolIsOver'
  BY <1>1, <1>2, <1>4 DEF PoolIsOver
<1>8. \A d \in Connections : ConnectionSound(d)'
  BY <1>1, <1>3, <1>4, FrameConnection DEF IInv
<1>9. QED
  BY <1>4, <1>5, <1>6, <1>7, <1>8 DEF IInv

\* A step of the shutdown, or none at all.
LEMMA ShutdownStep ==
  ASSUME IInv, UNCHANGED <<main, slot, alive, dirty, wire, workers, gauges>>,
         Stop \/ Stopped \/ UNCHANGED pool
  PROVE  IInv'
<1>1. Types /\ OneRunEach /\ Counts /\ PoolIsOver
  BY DEF IInv
<1>2. /\ stage' = stage /\ lease' = lease /\ error' = error /\ outcome' = outcome
      /\ thread' = thread /\ tx' = tx /\ disk' = disk
  BY DEF main, workers
<1>3. Types'
  BY <1>1, <1>2 DEF Types, Stop, Stopped
<1>4. Busy' = Busy /\ Waiting' = Waiting /\ \A S : InSlots(S)' = InSlots(S)
  BY <1>2 DEF Busy, Waiting, InSlots
<1>5. OneRunEach' /\ Counts'
  BY <1>1, <1>2, <1>4 DEF OneRunEach, Counts
<1>6. PoolIsOver'
  <2>1. CASE Stop
    BY <2>1 DEF Stop, PoolIsOver
  <2>2. CASE Stopped
    <3>1. Waiting' = {}
      BY <1>4, <2>2 DEF Stopped
    <3>2. InSlots({"creating", "rejecting", "free", "leased", "closing"}) = {}
      BY <2>2 DEF Stopped
    <3>3. \A c \in Connections : slot[c] \in {"unused", "gone"}
      BY <1>1, <3>2 DEF InSlots, Types, Slots, InUse
    <3>4. QED
      BY <3>1, <3>3 DEF PoolIsOver
  <2>3. CASE UNCHANGED pool
    BY <1>1, <1>4, <2>3 DEF PoolIsOver
  <2>4. QED
    BY <2>1, <2>2, <2>3
<1>7. \A c \in Connections : KeptConnection(c)
  BY <1>2 DEF KeptConnection
<1>8. ASSUME NEW r \in Requests
      PROVE  RunSound(r)'
  <2>1. KeptRun(r)
    BY <1>2 DEF KeptRun
  <2>2. lease[r] # NoConnection => KeptConnection(lease[r])
    BY <1>1, <1>7 DEF Types
  <2>3. QED
    BY <2>1, <2>2, FrameRun DEF IInv
<1>9. \A d \in Connections : ConnectionSound(d)'
  BY <1>1, <1>2, <1>7, FrameConnection DEF IInv
<1>10. QED
  BY <1>3, <1>5, <1>6, <1>8, <1>9 DEF IInv

-----------------------------------------------------------------------------
(* The theorems. *)

LEMMA InitHolds == Init => IInv
<1> SUFFICES ASSUME Init PROVE IInv
  OBVIOUS
<1>1. Types
  BY DEF Init, Types, Stages, Slots, InUse
<1>2. OneRunEach /\ PoolIsOver
  BY DEF Init, OneRunEach, PoolIsOver
<1>3. /\ Busy = {} /\ Waiting = {} /\ InSlots({"leased"}) = {} /\ InSlots(InUse) = {}
  BY DEF Init, Busy, Waiting, InSlots, InUse
<1>4. Counts
  <2>1. Cardinality({}) = 0 /\ PoolSize \in Nat
    BY FS_EmptySet, Counting
  <2>2. gauges.sessions = 0 /\ gauges.connections = 0
    BY DEF Init
  <2>3. QED
    BY <1>3, <2>1, <2>2 DEF Counts
<1>5. ASSUME NEW r \in Requests
      PROVE  RunSound(r)
  <2>1. DiskAsThrown(r)
    BY DEF Init, DiskAsThrown
  <2>2. QED
    BY <2>1 DEF Init, RunSound, Holding
<1>6. \A c \in Connections : ConnectionSound(c)
  BY DEF Init, ConnectionSound
<1>7. QED
  BY <1>1, <1>2, <1>4, <1>5, <1>6 DEF IInv

LEMMA Invariant == Spec => []IInv
<1>1. IInv /\ [Next]_vars => IInv'
  <2> SUFFICES ASSUME IInv, [Next]_vars PROVE IInv'
    OBVIOUS
  <2>1. CASE \E r \in Requests : Arrive(r) \/ Acquire(r) \/ Run(r)
    BY <2>1, WaitingStep, LeaseStep, RepliedStep, ReleaseClosedStep DEF Acquire, Run
  <2>2. CASE \E c \in Connections : Pooling(c) \/ Worker(c) \/ WorkerDies(c) \/ Fail(c)
    BY <2>2, DestroyStep, CreateStep, ProbedStep, ClosedStep, WorkerStep, WorkerDiesStep,
       FailStep DEF Pooling
  <2>3. CASE Stop \/ Stopped
    BY <2>3, ShutdownStep DEF Stop, Stopped
  <2>4. CASE UNCHANGED vars
    BY <2>4, ShutdownStep DEF vars
  <2>5. QED
    BY <2>1, <2>2, <2>3, <2>4 DEF Next
<1>2. QED
  BY <1>1, InitHolds, PTL DEF Spec

\* Whatever dies and whatever fails, "committed" is recorded only of writes
\* that are in the file and "rolled_back" only of writes that are not.
THEOREM OutcomesAreTrue == Spec => []OutcomeMatchesDisk
<1>1. IInv => OutcomeMatchesDisk
  <2> SUFFICES ASSUME IInv, NEW r \in Requests
               PROVE  /\ outcome[r] = "committed" => r \in disk
                      /\ outcome[r] = "rolled_back" => r \notin disk
                      /\ r \in disk /\ stage[r] = "done" =>
                           outcome[r] \in {"committed", "failed"}
    BY DEF OutcomeMatchesDisk
  <2>1. DiskAsThrown(r) /\ outcome[r] \in {"none"} \cup Outcomes
    BY DEF IInv, RunSound, Types
  <2>2. QED
    BY <2>1 DEF DiskAsThrown, Outcomes
<1>2. QED
  BY <1>1, Invariant, PTL

\* Leases, gauges, slots and threads agree between any two callbacks, nothing
\* outlives the pool, and no connection changes hands with a transaction open.
THEOREM WorkersAreSound == Spec => []WorkerInv
<1>1. ASSUME IInv
      PROVE  WorkerInv
  <2>1. /\ Types /\ OneRunEach /\ Counts /\ PoolIsOver
        /\ \A r \in Requests : RunSound(r)
        /\ \A c \in Connections : ConnectionSound(c)
    BY <1>1 DEF IInv
  <2>2. /\ Busy \in SUBSET Requests /\ Waiting \in SUBSET Requests
        /\ Busy \cap Waiting = {}
    BY <2>1 DEF Busy, Waiting, RunSound, Holding
  <2>3. /\ IsFiniteSet(Busy) /\ IsFiniteSet(Waiting) /\ IsFiniteSet(Requests)
        /\ Cardinality(Busy) \in Nat /\ Cardinality(Waiting) \in Nat
        /\ Cardinality(Requests) \in Nat /\ PoolSize \in Nat
    BY <2>2, Counting
  <2>4. Cardinality(Busy) + Cardinality(Waiting) <= Cardinality(Requests)
    <3>1. Cardinality(Busy \cup Waiting) =
            Cardinality(Busy) + Cardinality(Waiting) - Cardinality(Busy \cap Waiting)
      BY <2>3, FS_Union
    <3>2. Cardinality(Busy \cap Waiting) = 0
      BY <2>2, FS_EmptySet
    <3>3. Busy \cup Waiting \in SUBSET Requests
      BY <2>2
    <3>4. Cardinality(Busy \cup Waiting) <= Cardinality(Requests)
      BY <2>3, <3>3, FS_Subset
    <3>5. QED
      BY <2>3, <3>1, <3>2, <3>4
  <2>5. Cardinality(Busy) <= PoolSize
    <3>1. InSlots({"leased"}) \in SUBSET InSlots(InUse) /\ InSlots(InUse) \in SUBSET Connections
      BY DEF InSlots, InUse
    <3>2. Cardinality(InSlots({"leased"})) <= PoolSize
      BY <2>1, <3>1, SmallerPool DEF Counts
    <3>3. QED
      BY <2>1, <3>2 DEF Counts
  <2>6. TypeOK
    <3>1. gauges \in [sessions: 0..Cardinality(Requests), connections: 0..PoolSize]
      <4>1. gauges = [sessions |-> gauges.sessions, connections |-> gauges.connections]
        BY <2>1 DEF Types
      <4>2. /\ gauges.sessions \in 0..Cardinality(Requests)
            /\ gauges.connections \in 0..PoolSize
        BY <2>1, <2>3, <2>4, <2>5 DEF Counts
      <4>3. QED
        BY <4>1, <4>2
    <3>2. QED
      BY <2>1, <3>1 DEF Types, TypeOK, Stages, Slots, InUse
  <2>7. LeasesMatch
    <3>1. /\ \A r \in Busy : slot[lease[r]] = "leased"
          /\ \A q, r \in Busy : lease[q] = lease[r] => q = r
      BY <2>1 DEF Busy, RunSound, OneRunEach
    <3>2. QED
      BY <2>1, <2>5, <3>1 DEF LeasesMatch, Counts, Busy
  <2>8. NothingOutlivesThePool
    <3> SUFFICES ASSUME pool = "stopped"
                 PROVE  /\ \A r \in Requests : stage[r] \in {"new", "done"}
                        /\ \A c \in Connections : thread[c] # "running"
      BY DEF NothingOutlivesThePool
    <3>1. Waiting = {} /\ \A c \in Connections : slot[c] \in {"unused", "gone"}
      BY <2>1 DEF PoolIsOver
    <3>2. \A c \in Connections : thread[c] # "running"
      BY <2>1, <3>1 DEF ConnectionSound
    <3>3. ASSUME NEW r \in Requests
          PROVE  stage[r] \in {"new", "done"}
      <4>1. lease[r] \in Connections \cup {NoConnection} /\ stage[r] \in Stages
        BY <2>1 DEF Types
      <4>2. lease[r] = NoConnection
        BY <2>1, <3>1, <4>1 DEF RunSound
      <4>3. stage[r] \notin Holding /\ stage[r] # "acquire"
        BY <2>1, <3>1, <4>2 DEF RunSound, Waiting
      <4>4. QED
        BY <4>1, <4>3 DEF Stages, Holding
    <3>4. QED
      BY <3>2, <3>3
  <2>9. CleanHandover
    <3> SUFFICES ASSUME NEW c \in Connections
                 PROVE  /\ tx[c] # NoRequest => lease[tx[c]] = c
                        /\ slot[c] = "free" => tx[c] = NoRequest
      BY DEF CleanHandover
    <3>1. tx[c] # NoRequest => tx[c] \in Requests /\ lease[tx[c]] = c
      BY <2>1 DEF ConnectionSound, Types
    <3>2. \A r \in Requests : lease[r] = c => slot[c] = "leased"
      BY <1>1, Client
    <3>3. QED
      BY <3>1, <3>2
  <2>10. QED
    BY <2>6, <2>7, <2>8, <2>9 DEF WorkerInv
<1>2. QED
  BY <1>1, Invariant, PTL

=============================================================================
