---------------------------- MODULE FastapiProofs ----------------------------
(***************************************************************************)
(* The Python process: its transactions, for any number of tasks, scopes   *)
(* and levels of nesting; its exchanges from the request to what is        *)
(* counted and logged of it, for any number of requests, connections and   *)
(* scrapes; its life, for any number of requests, beside which stands that *)
(* of a NestJS process (MCLifecycles), for any number of clients; and the  *)
(* migrations of its file, for any number of processes and rows.           *)
(***************************************************************************)
EXTENDS TransactionalScope, FastapiExchange, MCLifecycles, SchemaMigration,
        FiniteSetTheorems, SequenceTheorems, TLAPS

-----------------------------------------------------------------------------
(* The @transactional decorator. *)

\* What holds of the scope that is running.  The recorded cause is exactly the
\* fact that a nested call failed; a scope that reached COMMIT has no cause and
\* was not closed by hand; and only a close by hand makes writes durable early.
RunningScope ==
  owner # NoTask =>
    /\ cause = failures
    /\ manual => tx = "closed"
    /\ kept => manual

AtCommit ==
  \A t \in Tasks : doing[t] = "commit" => ~cause /\ tx = "scope" /\ depth[t] = 1

\* Every begun scope is recorded once.
CountsScopes == Begun <= MaxScopes

ScopeInv == ScopeTypeOK /\ ScopeHasOneOwner /\ RunningScope /\ AtCommit /\ CountsScopes

-----------------------------------------------------------------------------

LEMMA InitEstablishes == ScopeInit => ScopeInv
<1> SUFFICES ASSUME ScopeInit PROVE ScopeInv  OBVIOUS
<1>1. ScopeTypeOK
  <2>1. cause \in BOOLEAN /\ pending \in BOOLEAN /\ kept \in BOOLEAN
        /\ failures \in BOOLEAN /\ manual \in BOOLEAN
    BY DEF ScopeInit
  <2>2. recorded \in [{"committed", "failed"} -> 0..MaxScopes]
    BY ScopeAssumption DEF ScopeInit
  <2>3. depth \in [Tasks -> 0..MaxDepth]
    BY ScopeAssumption DEF ScopeInit
  <2> QED  BY <2>1, <2>2, <2>3 DEF ScopeInit, ScopeTypeOK
<1>2. ScopeHasOneOwner  BY ScopeAssumption DEF ScopeInit, ScopeHasOneOwner
<1>3. RunningScope /\ AtCommit  BY DEF ScopeInit, RunningScope, AtCommit
<1>4. CountsScopes  BY ScopeAssumption DEF ScopeInit, CountsScopes, Begun
<1> QED  BY <1>1, <1>2, <1>3, <1>4 DEF ScopeInv

LEMMA StutterKeeps == ScopeInv /\ UNCHANGED scopeVars => ScopeInv'
  BY DEF ScopeInv, ScopeTypeOK, ScopeHasOneOwner, RunningScope, AtCommit, CountsScopes,
         Begun, scopeVars, history

\* The actions of one task other than the end of its scope.
LEMMA CallsKeep ==
  ASSUME ScopeInv, NEW t \in Tasks,
         CallOuter(t) \/ Acquire(t) \/ CallNested(t)
           \/ CallRefused(t) \/ HandleRefusal(t)
  PROVE  ScopeInv'
<1> USE ScopeAssumption
    DEF ScopeInv, ScopeTypeOK, ScopeHasOneOwner, RunningScope, AtCommit, CountsScopes,
        Begun, Become, history
<1>1. CASE CallOuter(t)
  <2>1. ScopeTypeOK'
    <3>1. cause' \in BOOLEAN /\ kept' \in BOOLEAN /\ failures' \in BOOLEAN
          /\ manual' \in BOOLEAN
      BY <1>1 DEF CallOuter
    <3>2. pending' \in BOOLEAN
      BY <1>1 DEF CallOuter
    <3>3. depth' \in [Tasks -> 0..MaxDepth]
      BY <1>1 DEF CallOuter
    <3>4. doing' \in [Tasks -> {"idle", "refused", "acquire", "body", "raising", "commit"}]
      BY <1>1 DEF CallOuter
    <3> QED  BY <1>1, <3>1, <3>2, <3>3, <3>4 DEF CallOuter
  <2>2. ScopeHasOneOwner'  BY <1>1 DEF CallOuter
  <2>3. RunningScope'  BY <1>1 DEF CallOuter
  <2>4. AtCommit'  BY <1>1 DEF CallOuter
  <2>5. CountsScopes'  BY <1>1 DEF CallOuter
  <2> QED  BY <2>1, <2>2, <2>3, <2>4, <2>5
<1>2. CASE Acquire(t)
  BY <1>2 DEF Acquire
<1>3. CASE CallNested(t)
  BY <1>3 DEF CallNested
<1>4. CASE CallRefused(t)
  BY <1>4 DEF CallRefused, Refused
<1>5. CASE HandleRefusal(t)
  BY <1>5 DEF HandleRefusal
<1> QED  BY <1>1, <1>2, <1>3, <1>4, <1>5

LEMMA BodyKeeps ==
  ASSUME ScopeInv, NEW t \in Tasks,
         Execute(t) \/ EndByHand(t) \/ Raise(t) \/ ReturnNested(t)
           \/ RaiseNested(t) \/ ReturnOuter(t)
  PROVE  ScopeInv'
<1> USE ScopeAssumption
    DEF ScopeInv, ScopeTypeOK, ScopeHasOneOwner, RunningScope, AtCommit, CountsScopes,
        Begun, Become, history
<1>1. CASE Execute(t)
  <2>1. ScopeTypeOK'  BY <1>1 DEF Execute
  <2>2. ScopeHasOneOwner'  BY <1>1 DEF Execute
  <2>3. RunningScope' /\ AtCommit' /\ CountsScopes'  BY <1>1 DEF Execute
  <2> QED  BY <2>1, <2>2, <2>3
<1>2. CASE EndByHand(t)
  <2>1. ScopeTypeOK'  BY <1>2 DEF EndByHand
  <2>2. ScopeHasOneOwner'  BY <1>2 DEF EndByHand
  <2>3. RunningScope' /\ AtCommit' /\ CountsScopes'  BY <1>2 DEF EndByHand
  <2> QED  BY <2>1, <2>2, <2>3
<1>3. CASE Raise(t)
  BY <1>3 DEF Raise
<1>4. CASE ReturnNested(t)
  BY <1>4 DEF ReturnNested
<1>5. CASE RaiseNested(t)
  BY <1>5 DEF RaiseNested
<1>6. CASE ReturnOuter(t)
  BY <1>6 DEF ReturnOuter
<1> QED  BY <1>1, <1>2, <1>3, <1>4, <1>5, <1>6

\* Finish leaves the session as it was before the scope.
LEMMA FinishKeeps ==
  ASSUME ScopeInv, NEW t \in Tasks, owner = t, NEW o \in {"committed", "failed"},
         Finish(t, o), kept' \in BOOLEAN
  PROVE  ScopeInv'
<1> USE ScopeAssumption DEF ScopeInv, Finish, Become
<1>1. ScopeTypeOK'
  <2>1. recorded[o] \in Nat /\ recorded[o] + 1 <= MaxScopes
    BY DEF ScopeTypeOK, CountsScopes, Begun
  <2>2. recorded' \in [{"committed", "failed"} -> 0..MaxScopes]
    BY <2>1 DEF ScopeTypeOK
  <2>3. cause' \in BOOLEAN /\ pending' \in BOOLEAN
    OBVIOUS
  <2>4. failures' \in BOOLEAN /\ manual' \in BOOLEAN
    BY DEF ScopeTypeOK
  <2>5. owner' \in Tasks \cup {NoTask} /\ tx' \in {"none", "scope", "closed", "foreign"}
    OBVIOUS
  <2>6. depth' \in [Tasks -> 0..MaxDepth]
    BY DEF ScopeTypeOK
  <2>7. doing' \in [Tasks -> {"idle", "refused", "acquire", "body", "raising", "commit"}]
    BY DEF ScopeTypeOK
  <2> QED  BY <2>2, <2>3, <2>4, <2>5, <2>6, <2>7 DEF ScopeTypeOK
<1>2. ScopeHasOneOwner'
  BY DEF ScopeTypeOK, ScopeHasOneOwner
<1>3. RunningScope' /\ AtCommit'
  BY DEF ScopeTypeOK, ScopeHasOneOwner, RunningScope, AtCommit
<1>4. CountsScopes'
  BY DEF ScopeTypeOK, CountsScopes, Begun
<1> QED  BY <1>1, <1>2, <1>3, <1>4

LEMMA EndKeeps ==
  ASSUME ScopeInv, NEW t \in Tasks, CommitOuter(t) \/ CommitFails(t) \/ Rollback(t)
  PROVE  ScopeInv'
<1>1. owner = t
  BY DEF ScopeInv, ScopeTypeOK, ScopeHasOneOwner, CommitOuter, CommitFails, Rollback
<1>2. kept' \in BOOLEAN
  BY DEF ScopeInv, ScopeTypeOK, CommitOuter, CommitFails, Rollback
<1>3. PICK o \in {"committed", "failed"} : Finish(t, o)
  BY DEF CommitOuter, CommitFails, Rollback
<1> QED  BY <1>1, <1>2, <1>3, FinishKeeps

LEMMA ForeignKeeps == ScopeInv /\ Foreign => ScopeInv'
  BY ScopeAssumption
  DEF ScopeInv, ScopeTypeOK, ScopeHasOneOwner, RunningScope, AtCommit, CountsScopes,
      Begun, Foreign, history

LEMMA NextKeeps == ScopeInv /\ [ScopeNext]_scopeVars => ScopeInv'
  BY CallsKeep, BodyKeeps, EndKeeps, ForeignKeeps, StutterKeeps DEF ScopeNext

LEMMA ScopeInvariant == ScopeSpec => []ScopeInv
  BY InitEstablishes, NextKeeps, PTL DEF ScopeSpec

-----------------------------------------------------------------------------

\* No owner, state or transaction of one scope is ever left for the next.
THEOREM ScopeAlwaysHasOneOwner == ScopeSpec => []ScopeHasOneOwner
<1>1. ScopeInv => ScopeHasOneOwner  BY DEF ScopeInv
<1> QED  BY <1>1, ScopeInvariant, PTL

\* Only the last three actions record an outcome.
LEMMA OnlyEndsRecord ==
  ASSUME ScopeInv, [ScopeNext]_scopeVars, NEW o \in {"committed", "failed"}, Ends(o)
  PROVE  \E t \in Tasks : CommitOuter(t) \/ CommitFails(t) \/ Rollback(t)
<1>1. recorded[o] \in Nat
  BY ScopeAssumption DEF ScopeInv, ScopeTypeOK
<1>2. recorded' # recorded
  BY <1>1 DEF Ends
<1> QED
  BY <1>2 DEF ScopeNext, scopeVars, history, CallOuter, Acquire, CallNested, CallRefused,
     HandleRefusal, Execute, EndByHand, Raise, ReturnNested, RaiseNested,
     ReturnOuter, Foreign

\* The outcome of a step that ends a scope.
LEMMA OutcomeOfEnd ==
  ASSUME ScopeInv, NEW t \in Tasks, CommitOuter(t) \/ CommitFails(t) \/ Rollback(t)
  PROVE  /\ Ends("committed") => CommitOuter(t)
         /\ Ends("failed") => CommitFails(t) \/ Rollback(t)
         /\ owner = t
  BY ScopeAssumption
  DEF ScopeInv, ScopeTypeOK, ScopeHasOneOwner, Ends, CommitOuter, CommitFails, Rollback, Finish

\* A scope in which a decorated call failed is rolled back and recorded as
\* failed, even if its caller caught the error.
LEMMA FailureAlwaysForbidsCommit == ScopeSpec => FailureForbidsCommit
<1> DEFINE Step ==
      /\ failures /\ owner # NoTask => ~Ends("committed")
      /\ (Ends("failed") /\ ~manual /\ "commit" \notin {doing[t] : t \in Tasks})
           => ~kept'
<1>1. ASSUME ScopeInv, [ScopeNext]_scopeVars PROVE Step
  <2>1. ASSUME failures, owner # NoTask, Ends("committed") PROVE FALSE
    <3>1. PICK t \in Tasks : CommitOuter(t) \/ CommitFails(t) \/ Rollback(t)
      BY <1>1, <2>1, OnlyEndsRecord
    <3>2. CommitOuter(t)
      BY <1>1, <2>1, <3>1, OutcomeOfEnd
    <3> QED  BY <1>1, <2>1, <3>2 DEF CommitOuter, ScopeInv, AtCommit, RunningScope
  <2>2. ASSUME Ends("failed"), ~manual, "commit" \notin {doing[t] : t \in Tasks}
        PROVE  ~kept'
    <3>1. PICK t \in Tasks : CommitOuter(t) \/ CommitFails(t) \/ Rollback(t)
      BY <1>1, <2>2, OnlyEndsRecord
    <3>2. Rollback(t) /\ owner # NoTask
      BY <1>1, <2>2, <3>1, OutcomeOfEnd, ScopeAssumption DEF CommitOuter, CommitFails
    <3> QED  BY <1>1, <2>2, <3>2 DEF Rollback, ScopeInv, RunningScope
  <2> QED  BY <2>1, <2>2
<1>2. ScopeInv /\ [ScopeNext]_scopeVars => [Step]_scopeVars
  BY <1>1
<1> QED  BY <1>2, ScopeInvariant, PTL DEF ScopeSpec, FailureForbidsCommit

\* A scope recorded as committed was committed by the decorator, as a whole.
LEMMA CommittedIsAlwaysWhole == ScopeSpec => CommittedIsWhole
<1> DEFINE Step == Ends("committed") => ~manual /\ (pending => kept')
<1>1. ASSUME ScopeInv, [ScopeNext]_scopeVars, Ends("committed")
      PROVE  ~manual /\ (pending => kept')
  <2>1. PICK t \in Tasks : CommitOuter(t) \/ CommitFails(t) \/ Rollback(t)
    BY <1>1, OnlyEndsRecord
  <2>2. CommitOuter(t) /\ owner # NoTask
    BY <1>1, <2>1, OutcomeOfEnd, ScopeAssumption
  <2> QED  BY <1>1, <2>2 DEF CommitOuter, ScopeInv, AtCommit, RunningScope
<1>2. ScopeInv /\ [ScopeNext]_scopeVars => [Step]_scopeVars
  BY <1>1
<1> QED  BY <1>2, ScopeInvariant, PTL DEF ScopeSpec, CommittedIsWhole

\* However deep the calls, however many tasks and whatever is caught or ended by
\* hand: a commit is earned.
THEOREM CommitsAreAlwaysEarned == ScopeSpec => CommitsAreEarned
BY FailureAlwaysForbidsCommit, CommittedIsAlwaysWhole DEF CommitsAreEarned

-----------------------------------------------------------------------------
(* The sessions of the pool. *)

\* An outcome other than the first guess has its reason, and a connection is
\* kept behind the end of its transaction by cancelled requests only.
SessionIsSound(r) ==
  /\ outcome[r] = "committed" => acquisition[r] = "acquired" /\ phase[r] \in {"ended", "counted", "done"}
  /\ outcome[r] = "none" => phase[r] \in {"counted", "done"}
  /\ acquisition[r] = "none" <=> outcome[r] = "none"
  /\ phase[r] = "working" => acquisition[r] = "acquired"
  /\ HasConnection(r) => phase[r] \notin {"new", "session"}
  /\ HasConnection(r) /\ phase[r] \in {"counted", "done"} => r \in cancelled

\* What the metrics count.
Known == {r \in Requests : phase[r] # "new"}
Out == {c \in Records : holder[c] # NoRequest}
Open == {r \in Requests : phase[r] \notin {"new", "done"}}
EndedAs(o) == {r \in Requests : phase[r] \in {"counted", "done"} /\ outcome[r] = o}
AcquiredAs(o) ==
  {r \in Requests : phase[r] \in {"working", "ended", "counted", "done"} /\ acquisition[r] = o}
Committed == {r \in Requests : outcome[r] = "committed"}

\* Whoever committed has given its connection back, and that was counted.
CountsAreTrue ==
  /\ metric["connections"] = Cardinality(Out)
  /\ metric["sessions"] = Cardinality(Open)
  /\ \A o \in TransactionOutcomes : metric[o] = Cardinality(EndedAs(o))
  /\ metric["duration"] = metric["committed"] + metric["failed"]
  /\ \A o \in AcquisitionOutcomes : metric[o] = Cardinality(AcquiredAs(o))
  /\ metric["timeouts"] = metric["timeout"]
  /\ Cardinality(Committed) <= metric["hold"]

SessionInv ==
  /\ TypeOK /\ MarksAreHeld
  /\ \A r \in Requests : SessionIsSound(r)
  /\ IsFiniteSet(Known)
  /\ ~failed => CountsAreTrue

PoolStep(r) ==
  \/ OpenSession(r) \/ Refuse(r) \/ PoolTimesOut(r) \/ Begin(r) \/ RecordAcquisition(r)
  \/ Cancel(r) \/ Fail(r) \/ RecordTransaction(r) \/ CloseSession(r)
  \/ \E c \in Records : Checkout(r, c) \/ CannotConnect(r, c) \/ Commit(r, c) \/ Return(r, c)

\* Whatever is reported, the values remain numbers: a gauge goes down only for
\* what it has counted.
LEMMA PoolTypeStep ==
  ASSUME SessionInv, NEW r \in Requests, PoolStep(r)
  PROVE  /\ phase' \in [Requests -> Phases]
         /\ cancelled' \subseteq Requests
         /\ acquisition' \in [Requests -> AcquisitionOutcomes \cup {"none"}]
         /\ outcome' \in [Requests -> TransactionOutcomes \cup {"none"}]
         /\ holder' \in [Records -> Requests \cup {NoRequest}]
         /\ started' \subseteq Records
         /\ failed' \in BOOLEAN
<1> USE DEF SessionInv, TypeOK, Phases, Move, Record, CheckedOut, Returned,
            AcquisitionOutcomes, TransactionOutcomes
<1>1. CASE OpenSession(r)  BY <1>1 DEF OpenSession
<1>2. CASE Refuse(r)  BY <1>2 DEF Refuse
<1>3. CASE PoolTimesOut(r)  BY <1>3 DEF PoolTimesOut
<1>4. CASE Begin(r)  BY <1>4 DEF Begin
<1>5. CASE RecordAcquisition(r)  BY <1>5 DEF RecordAcquisition
<1>6. CASE Cancel(r)  BY <1>6 DEF Cancel
<1>7. CASE Fail(r)  BY <1>7 DEF Fail
<1>8. CASE RecordTransaction(r)  BY <1>8 DEF RecordTransaction
<1>9. CASE CloseSession(r)  BY <1>9 DEF CloseSession
<1>10. CASE \E c \in Records : Checkout(r, c)
  <2> PICK c \in Records : Checkout(r, c)  BY <1>10
  <2>1. holder' \in [Records -> Requests \cup {NoRequest}]  BY DEF Checkout
  <2> QED  BY <2>1 DEF Checkout
<1>11. CASE \E c \in Records : CannotConnect(r, c)  BY <1>11 DEF CannotConnect
<1>12. CASE \E c \in Records : Commit(r, c)
  <2> PICK c \in Records : Commit(r, c)  BY <1>12
  <2>1. holder' \in [Records -> Requests \cup {NoRequest}]  BY DEF Commit
  <2>2. failed' \in BOOLEAN /\ started' \subseteq Records  BY DEF Commit
  <2> QED  BY <2>1, <2>2 DEF Commit
<1>13. CASE \E c \in Records : Return(r, c)
  <2> PICK c \in Records : Return(r, c)  BY <1>13
  <2>1. holder' \in [Records -> Requests \cup {NoRequest}]  BY DEF Return
  <2>2. failed' \in BOOLEAN /\ started' \subseteq Records  BY DEF Return
  <2> QED  BY <2>1, <2>2 DEF Return
<1> QED
  BY <1>1, <1>2, <1>3, <1>4, <1>5, <1>6, <1>7, <1>8, <1>9, <1>10, <1>11, <1>12, <1>13
  DEF PoolStep

LEMMA MarksStep ==
  ASSUME SessionInv, NEW r \in Requests, PoolStep(r)
  PROVE  MarksAreHeld'
<1> USE NoRequestAssumption
    DEF SessionInv, TypeOK, MarksAreHeld, Move, Record, CheckedOut, Returned
<1>1. CASE \E c \in Records : Checkout(r, c)  BY <1>1 DEF Checkout
<1>2. CASE \E c \in Records : CannotConnect(r, c)  BY <1>2 DEF CannotConnect
<1>3. CASE \E c \in Records : Commit(r, c)  BY <1>3 DEF Commit, Holds
<1>4. CASE \E c \in Records : Return(r, c)  BY <1>4 DEF Return, Holds
<1>5. CASE UNCHANGED <<holder, started>>  BY <1>5
<1> QED
  BY <1>1, <1>2, <1>3, <1>4, <1>5
  DEF PoolStep, OpenSession, Refuse, PoolTimesOut, Begin, RecordAcquisition, Cancel, Fail,
      RecordTransaction, CloseSession

LEMMA SoundStep ==
  ASSUME SessionInv, NEW r \in Requests, PoolStep(r)
  PROVE  \A q \in Requests : SessionIsSound(q)'
<1> SUFFICES ASSUME NEW q \in Requests PROVE SessionIsSound(q)'  OBVIOUS
<1> USE NoRequestAssumption
    DEF SessionInv, TypeOK, SessionIsSound, HasConnection, Holds, Move, Phases,
        AcquisitionOutcomes, TransactionOutcomes
<1>1. CASE OpenSession(r)  BY <1>1 DEF OpenSession
<1>2. CASE Refuse(r)  BY <1>2 DEF Refuse
<1>3. CASE PoolTimesOut(r)  BY <1>3 DEF PoolTimesOut
<1>4. CASE Begin(r)  BY <1>4 DEF Begin
<1>5. CASE RecordAcquisition(r)  BY <1>5 DEF RecordAcquisition
<1>6. CASE Cancel(r)  BY <1>6 DEF Cancel
<1>7. CASE Fail(r)  BY <1>7 DEF Fail
<1>8. CASE RecordTransaction(r)  BY <1>8 DEF RecordTransaction
<1>9. CASE CloseSession(r)  BY <1>9 DEF CloseSession
<1>10. ASSUME NEW c \in Records, Checkout(r, c) PROVE SessionIsSound(q)'
  BY <1>10 DEF Checkout
<1>11. ASSUME NEW c \in Records, CannotConnect(r, c) PROVE SessionIsSound(q)'
  BY <1>11 DEF CannotConnect
<1>12. ASSUME NEW c \in Records, Commit(r, c) PROVE SessionIsSound(q)'
  BY <1>12 DEF Commit
<1>13. ASSUME NEW c \in Records, Return(r, c) PROVE SessionIsSound(q)'
  BY <1>13 DEF Return
<1> QED
  BY <1>1, <1>2, <1>3, <1>4, <1>5, <1>6, <1>7, <1>8, <1>9, <1>10, <1>11, <1>12, <1>13
  DEF PoolStep

\* A request begins with the opening of its session, at the latest.
LEMMA KnownStep ==
  ASSUME SessionInv, NEW r \in Requests, PoolStep(r)
  PROVE  IsFiniteSet(Known')
<1>1. Known' \subseteq Known \cup {r}
  <2>1. \A q \in Requests \ {r} : phase'[q] = phase[q]
    BY DEF SessionInv, TypeOK, Move, PoolStep, OpenSession, Refuse, PoolTimesOut, Begin,
           RecordAcquisition, Cancel, Fail, RecordTransaction, CloseSession, Checkout,
           CannotConnect, Commit, Return
  <2> QED  BY <2>1 DEF Known
<1>2. IsFiniteSet(Known \cup {r})
  BY FS_AddElement DEF SessionInv
<1> QED  BY <1>1, <1>2, FS_Subset

LEMMA CountedSetsAreFinite ==
  ASSUME SessionInv
  PROVE  /\ IsFiniteSet(Out) /\ IsFiniteSet(Open) /\ IsFiniteSet(Committed)
         /\ \A o : IsFiniteSet(EndedAs(o)) /\ IsFiniteSet(AcquiredAs(o))
<1>1. IsFiniteSet(Out)
  BY LimitAssumption, FS_Subset DEF Out
<1>2. Open \subseteq Known /\ Committed \subseteq Known
  BY DEF Open, Committed, Known, SessionInv, SessionIsSound
<1>3. \A o : EndedAs(o) \subseteq Known /\ AcquiredAs(o) \subseteq Known
  BY DEF EndedAs, AcquiredAs, Known
<1> QED  BY <1>1, <1>2, <1>3, FS_Subset DEF SessionInv

LEMMA CountedNumbers ==
  ASSUME SessionInv
  PROVE  /\ Cardinality(Out) \in Nat /\ Cardinality(Open) \in Nat /\ Cardinality(Committed) \in Nat
         /\ \A o : Cardinality(EndedAs(o)) \in Nat /\ Cardinality(AcquiredAs(o)) \in Nat
  BY CountedSetsAreFinite, FS_CardinalityType

\* A report that is not lost adds one to the values of "up", and takes one
\* from those of "down".
LEMMA Reported ==
  ASSUME TypeOK, NEW up, NEW down, Record(up, down), ~failed'
  PROVE  /\ ~failed
         /\ \A m \in Gauges \cup Counters :
              metric'[m] = metric[m] + (IF m \in up THEN 1 ELSE 0) - (IF m \in down THEN 1 ELSE 0)
  BY DEF TypeOK, Record

\* A step that reports nothing, and moves a request between phases that no
\* count tells apart.
LEMMA SilentStep ==
  ASSUME SessionInv, NEW r \in Requests,
         \/ Refuse(r) \/ PoolTimesOut(r) \/ Begin(r) \/ Cancel(r) \/ Fail(r)
         \/ \E c \in Records : CannotConnect(r, c)
  PROVE  (~failed => CountsAreTrue)' /\ metric' = metric
<1>1. metric' = metric /\ failed' = failed /\ holder' = holder
  BY DEF SessionInv, TypeOK, MarksAreHeld, Refuse, PoolTimesOut, Begin, Cancel, Fail,
         CannotConnect, Returned
<1>2. Out' = Out  BY <1>1 DEF Out
<1>3. /\ Open' = Open /\ Committed' = Committed
      /\ \A o \in TransactionOutcomes : EndedAs(o)' = EndedAs(o)
      /\ \A o \in AcquisitionOutcomes : AcquiredAs(o)' = AcquiredAs(o)
  <2> USE DEF SessionInv, TypeOK, SessionIsSound, Phases, Move, TransactionOutcomes,
              AcquisitionOutcomes, Open, Committed, EndedAs, AcquiredAs
  <2>1. CASE Refuse(r)  BY <2>1 DEF Refuse
  <2>2. CASE PoolTimesOut(r)  BY <2>2 DEF PoolTimesOut
  <2>3. CASE Begin(r)  BY <2>3 DEF Begin
  <2>4. CASE Cancel(r)  BY <2>4 DEF Cancel
  <2>5. CASE Fail(r)  BY <2>5 DEF Fail
  <2>6. CASE \E c \in Records : CannotConnect(r, c)  BY <2>6 DEF CannotConnect
  <2> QED  BY <2>1, <2>2, <2>3, <2>4, <2>5, <2>6
<1>4. (~failed => CountsAreTrue)'
  <2> SUFFICES ASSUME ~failed' PROVE CountsAreTrue'  OBVIOUS
  <2>1. CountsAreTrue  BY <1>1 DEF SessionInv
  <2> QED  BY <2>1, <1>1, <1>2, <1>3 DEF CountsAreTrue, TransactionOutcomes, AcquisitionOutcomes
<1> QED  BY <1>1, <1>4

LEMMA ReportedType ==
  ASSUME TypeOK, NEW up, NEW down, Record(up, down),
         ~failed => \A m \in down \cap (Gauges \cup Counters) : metric[m] > 0
  PROVE  metric' \in [Gauges \cup Counters -> Nat]
<1>1. CASE failed' /\ metric' = NoMetric
  BY <1>1 DEF NoMetric
<1>2. CASE ~failed /\ metric' = [m \in DOMAIN metric |->
                     metric[m] + (IF m \in up THEN 1 ELSE 0) - (IF m \in down THEN 1 ELSE 0)]
  <2>1. \A m \in Gauges \cup Counters : metric[m] \in Nat /\ (m \in down => metric[m] > 0)
    BY <1>2 DEF TypeOK
  <2>2. \A m \in Gauges \cup Counters :
          metric[m] + (IF m \in up THEN 1 ELSE 0) - (IF m \in down THEN 1 ELSE 0) \in Nat
    BY <2>1
  <2>3. DOMAIN metric = Gauges \cup Counters  BY DEF TypeOK
  <2> QED  BY <1>2, <2>2, <2>3
<1> QED  BY <1>1, <1>2 DEF Record

\* The sets that a reporting step changes, and how.
LEMMA OpenStep ==
  ASSUME SessionInv, NEW r \in Requests, OpenSession(r)
  PROVE  metric' \in [Gauges \cup Counters -> Nat] /\ (~failed => CountsAreTrue)'
<1>1. Record({"sessions"}, {}) /\ TypeOK  BY DEF OpenSession, SessionInv
<1>2. metric' \in [Gauges \cup Counters -> Nat]  BY <1>1, ReportedType
<1>3. SUFFICES ASSUME ~failed' PROVE CountsAreTrue'  BY <1>2
<1>4. ~failed /\ \A m \in Gauges \cup Counters :
        metric'[m] = metric[m] + (IF m \in {"sessions"} THEN 1 ELSE 0) - (IF m \in {} THEN 1 ELSE 0)
  BY <1>1, <1>3, Reported
<1>5. /\ Open' = Open \cup {r} /\ r \notin Open
      /\ Out' = Out /\ Committed' = Committed
      /\ \A o \in TransactionOutcomes : EndedAs(o)' = EndedAs(o)
      /\ \A o \in AcquisitionOutcomes : AcquiredAs(o)' = AcquiredAs(o)
  BY DEF OpenSession, SessionInv, TypeOK, Move, Open, Out, Committed, EndedAs, AcquiredAs, Phases
<1>6. Cardinality(Open') = Cardinality(Open) + 1
  BY <1>5, CountedSetsAreFinite, FS_AddElement
<1>7. CountsAreTrue /\ metric \in [Gauges \cup Counters -> Nat]
  BY <1>4 DEF SessionInv, TypeOK
<1> QED
  BY <1>4, <1>5, <1>6, <1>7, CountedNumbers
  DEF CountsAreTrue, Gauges, Counters, TransactionOutcomes, AcquisitionOutcomes

LEMMA CheckoutStep ==
  ASSUME SessionInv, NEW r \in Requests, NEW c \in Records, Checkout(r, c)
  PROVE  metric' \in [Gauges \cup Counters -> Nat] /\ (~failed => CountsAreTrue)'
<1>1. Record({"connections"}, {}) /\ TypeOK  BY DEF Checkout, CheckedOut, SessionInv
<1>2. metric' \in [Gauges \cup Counters -> Nat]  BY <1>1, ReportedType
<1>3. SUFFICES ASSUME ~failed' PROVE CountsAreTrue'  BY <1>2
<1>4. ~failed /\ \A m \in Gauges \cup Counters :
        metric'[m] = metric[m] + (IF m \in {"connections"} THEN 1 ELSE 0) - (IF m \in {} THEN 1 ELSE 0)
  BY <1>1, <1>3, Reported
<1>5. /\ Out' = Out \cup {c} /\ c \notin Out
      /\ Open' = Open /\ Committed' = Committed
      /\ \A o \in TransactionOutcomes : EndedAs(o)' = EndedAs(o)
      /\ \A o \in AcquisitionOutcomes : AcquiredAs(o)' = AcquiredAs(o)
  BY NoRequestAssumption
  DEF Checkout, SessionInv, TypeOK, Move, Open, Out, Committed, EndedAs, AcquiredAs, Phases
<1>6. Cardinality(Out') = Cardinality(Out) + 1
  BY <1>5, CountedSetsAreFinite, FS_AddElement
<1>7. CountsAreTrue /\ metric \in [Gauges \cup Counters -> Nat]
  BY <1>4 DEF SessionInv, TypeOK
<1> QED
  BY <1>4, <1>5, <1>6, <1>7, CountedNumbers
  DEF CountsAreTrue, Gauges, Counters, TransactionOutcomes, AcquisitionOutcomes

LEMMA RecordAcquisitionStep ==
  ASSUME SessionInv, NEW r \in Requests, RecordAcquisition(r)
  PROVE  metric' \in [Gauges \cup Counters -> Nat] /\ (~failed => CountsAreTrue)'
<1>0. PICK how \in AcquisitionOutcomes : how = acquisition[r]
  BY DEF RecordAcquisition, SessionInv, TypeOK, SessionIsSound
<1> DEFINE up == {how} \cup IF how = "timeout" THEN {"timeouts"} ELSE {}
<1>1. Record(up, {}) /\ TypeOK
  BY <1>0 DEF RecordAcquisition, SessionInv
<1>2. metric' \in [Gauges \cup Counters -> Nat]  BY <1>1, ReportedType
<1>3. SUFFICES ASSUME ~failed' PROVE CountsAreTrue'  BY <1>2
<1>4. ~failed /\ \A m \in Gauges \cup Counters :
        metric'[m] = metric[m] + (IF m \in up THEN 1 ELSE 0) - (IF m \in {} THEN 1 ELSE 0)
  BY <1>1, <1>3, Reported
<1>6. /\ AcquiredAs(how)' = AcquiredAs(how) \cup {r} /\ r \notin AcquiredAs(how)
      /\ Out' = Out /\ Open' = Open /\ Committed' = Committed
      /\ \A o \in TransactionOutcomes : EndedAs(o)' = EndedAs(o)
      /\ \A o \in AcquisitionOutcomes \ {how} : AcquiredAs(o)' = AcquiredAs(o)
  BY <1>0 DEF RecordAcquisition, SessionInv, TypeOK, Move, Open, Out, Committed, EndedAs, AcquiredAs, Phases
<1>7. Cardinality(AcquiredAs(how)') = Cardinality(AcquiredAs(how)) + 1
  BY <1>6, CountedSetsAreFinite, FS_AddElement
<1>8. CountsAreTrue /\ metric \in [Gauges \cup Counters -> Nat]
  BY <1>4 DEF SessionInv, TypeOK
<1>9. \A o \in AcquisitionOutcomes : metric'[o] = Cardinality(AcquiredAs(o)')
  <2> SUFFICES ASSUME NEW o \in AcquisitionOutcomes PROVE metric'[o] = Cardinality(AcquiredAs(o)')
    OBVIOUS
  <2>1. metric'[o] = metric[o] + (IF o = how THEN 1 ELSE 0) /\ metric[o] = Cardinality(AcquiredAs(o))
    BY <1>4, <1>8 DEF CountsAreTrue, Gauges, Counters, AcquisitionOutcomes
  <2>2. CASE o = how  BY <2>1, <2>2, <1>7
  <2>3. CASE o # how  BY <2>1, <2>3, <1>6, CountedNumbers
  <2> QED  BY <2>2, <2>3
<1>10. metric'["timeouts"] = metric'["timeout"]
  BY <1>4, <1>0, <1>8 DEF CountsAreTrue, Gauges, Counters, TransactionOutcomes, AcquisitionOutcomes
<1>11. \A m \in Gauges \cup TransactionOutcomes \cup {"duration", "hold"} : metric'[m] = metric[m]
  BY <1>4, <1>0, <1>8 DEF Gauges, Counters, TransactionOutcomes, AcquisitionOutcomes
<1> QED
  BY <1>6, <1>8, <1>9, <1>10, <1>11 DEF CountsAreTrue, Gauges, TransactionOutcomes

\* A connection that was counted out comes back.
LEMMA ReturnedKeeps ==
  ASSUME SessionInv, NEW c \in Records, holder[c] # NoRequest,
         holder' = [holder EXCEPT ![c] = NoRequest], Returned(c)
  PROVE  /\ metric' \in [Gauges \cup Counters -> Nat]
         /\ ~failed' =>
              /\ ~failed /\ metric'["connections"] = Cardinality(Out')
              /\ metric'["hold"] = metric["hold"] + 1
              /\ \A m \in (Gauges \cup Counters) \ {"connections", "hold"} : metric'[m] = metric[m]
<1>1. Record({"hold"}, {"connections"}) /\ TypeOK
  BY DEF Returned, SessionInv, MarksAreHeld
<1>2. c \in Out /\ Out' = Out \ {c}
  BY DEF Out, SessionInv, TypeOK
<1>3. Cardinality(Out') = Cardinality(Out) - 1 /\ Cardinality(Out') \in Nat
  BY <1>2, CountedSetsAreFinite, FS_RemoveElement, FS_CardinalityType
<1>4. ~failed => metric["connections"] > 0
  BY <1>3, CountedNumbers DEF SessionInv, CountsAreTrue
<1>5. metric' \in [Gauges \cup Counters -> Nat]  BY <1>1, <1>4, ReportedType
<1>6. SUFFICES ASSUME ~failed'
               PROVE  /\ ~failed /\ metric'["connections"] = Cardinality(Out')
                      /\ metric'["hold"] = metric["hold"] + 1
                      /\ \A m \in (Gauges \cup Counters) \ {"connections", "hold"} :
                           metric'[m] = metric[m]
  BY <1>5
<1>7. ~failed /\ \A m \in Gauges \cup Counters :
        metric'[m] = metric[m] + (IF m \in {"hold"} THEN 1 ELSE 0) - (IF m \in {"connections"} THEN 1 ELSE 0)
  BY <1>1, <1>6, Reported
<1>8. CountsAreTrue /\ metric \in [Gauges \cup Counters -> Nat]
  BY <1>7 DEF SessionInv, TypeOK
<1> QED
  BY <1>3, <1>7, <1>8, CountedNumbers DEF CountsAreTrue, Gauges, Counters

LEMMA CommitStep ==
  ASSUME SessionInv, NEW r \in Requests, NEW c \in Records, Commit(r, c)
  PROVE  metric' \in [Gauges \cup Counters -> Nat] /\ (~failed => CountsAreTrue)'
<1>1. holder[c] # NoRequest
  BY NoRequestAssumption DEF Commit, Holds
<1>2. SUFFICES ASSUME ~failed' PROVE CountsAreTrue'
  BY <1>1, ReturnedKeeps DEF Commit
<1>3. /\ ~failed /\ metric'["connections"] = Cardinality(Out')
      /\ metric'["hold"] = metric["hold"] + 1
      /\ \A m \in (Gauges \cup Counters) \ {"connections", "hold"} : metric'[m] = metric[m]
  BY <1>1, <1>2, ReturnedKeeps DEF Commit
<1>4. /\ Committed' = Committed \cup {r} /\ Open' = Open
      /\ \A o \in TransactionOutcomes : EndedAs(o)' = EndedAs(o)
      /\ \A o \in AcquisitionOutcomes : AcquiredAs(o)' = AcquiredAs(o)
  BY DEF Commit, SessionInv, TypeOK, Move, Open, Committed, EndedAs, AcquiredAs, Phases
<1>5. Cardinality(Committed') <= Cardinality(Committed) + 1 /\ Cardinality(Committed') \in Nat
  <2>1. IsFiniteSet(Committed) /\ Cardinality(Committed) \in Nat
    BY CountedSetsAreFinite, CountedNumbers
  <2>2. Cardinality(Committed \cup {r})
          = IF r \in Committed THEN Cardinality(Committed) ELSE Cardinality(Committed) + 1
    BY <2>1, FS_AddElement
  <2> QED  BY <2>1, <2>2, <1>4
<1>6. CountsAreTrue /\ metric \in [Gauges \cup Counters -> Nat]
  BY <1>3 DEF SessionInv, TypeOK
<1>7. Cardinality(Committed') <= metric'["hold"]
  BY <1>3, <1>5, <1>6, CountedNumbers DEF CountsAreTrue, Gauges, Counters
<1> QED
  BY <1>3, <1>4, <1>6, <1>7
  DEF CountsAreTrue, Gauges, Counters, TransactionOutcomes, AcquisitionOutcomes

LEMMA ReturnStep ==
  ASSUME SessionInv, NEW r \in Requests, NEW c \in Records, Return(r, c)
  PROVE  metric' \in [Gauges \cup Counters -> Nat] /\ (~failed => CountsAreTrue)'
<1>1. holder[c] # NoRequest
  BY NoRequestAssumption DEF Return, Holds
<1>2. SUFFICES ASSUME ~failed' PROVE CountsAreTrue'
  BY <1>1, ReturnedKeeps DEF Return
<1>3. /\ ~failed /\ metric'["connections"] = Cardinality(Out')
      /\ metric'["hold"] = metric["hold"] + 1
      /\ \A m \in (Gauges \cup Counters) \ {"connections", "hold"} : metric'[m] = metric[m]
  BY <1>1, <1>2, ReturnedKeeps DEF Return
<1>4. /\ Committed' = Committed /\ Open' = Open
      /\ \A o \in TransactionOutcomes : EndedAs(o)' = EndedAs(o)
      /\ \A o \in AcquisitionOutcomes : AcquiredAs(o)' = AcquiredAs(o)
  BY DEF Return, Open, Committed, EndedAs, AcquiredAs
<1>5. CountsAreTrue /\ metric \in [Gauges \cup Counters -> Nat]
  BY <1>3 DEF SessionInv, TypeOK
<1>6. Cardinality(Committed') <= metric'["hold"]
  BY <1>3, <1>4, <1>5, CountedNumbers DEF CountsAreTrue, Gauges, Counters
<1> QED
  BY <1>3, <1>4, <1>5, <1>6
  DEF CountsAreTrue, Gauges, Counters, TransactionOutcomes, AcquisitionOutcomes

LEMMA RecordTransactionStep ==
  ASSUME SessionInv, NEW r \in Requests, RecordTransaction(r)
  PROVE  metric' \in [Gauges \cup Counters -> Nat] /\ (~failed => CountsAreTrue)'
<1>0. PICK how \in TransactionOutcomes : how = outcome[r]
  BY DEF RecordTransaction, SessionInv, TypeOK, SessionIsSound
<1>1. Record({how, "duration"}, {}) /\ TypeOK
  BY <1>0 DEF RecordTransaction, SessionInv
<1>2. metric' \in [Gauges \cup Counters -> Nat]  BY <1>1, ReportedType
<1>3. SUFFICES ASSUME ~failed' PROVE CountsAreTrue'  BY <1>2
<1>4. ~failed /\ \A m \in Gauges \cup Counters :
        metric'[m] = metric[m] + (IF m \in {how, "duration"} THEN 1 ELSE 0) - (IF m \in {} THEN 1 ELSE 0)
  BY <1>1, <1>3, Reported
<1>6. /\ EndedAs(how)' = EndedAs(how) \cup {r} /\ r \notin EndedAs(how)
      /\ Out' = Out /\ Open' = Open /\ Committed' = Committed
      /\ \A o \in AcquisitionOutcomes : AcquiredAs(o)' = AcquiredAs(o)
      /\ \A o \in TransactionOutcomes \ {how} : EndedAs(o)' = EndedAs(o)
  BY <1>0 DEF RecordTransaction, SessionInv, TypeOK, Move, Open, Out, Committed, EndedAs, AcquiredAs, Phases
<1>7. Cardinality(EndedAs(how)') = Cardinality(EndedAs(how)) + 1
  BY <1>6, CountedSetsAreFinite, FS_AddElement
<1>8. CountsAreTrue /\ metric \in [Gauges \cup Counters -> Nat]
  BY <1>4 DEF SessionInv, TypeOK
<1>9. \A o \in TransactionOutcomes : metric'[o] = Cardinality(EndedAs(o)')
  <2> SUFFICES ASSUME NEW o \in TransactionOutcomes PROVE metric'[o] = Cardinality(EndedAs(o)')
    OBVIOUS
  <2>1. metric'[o] = metric[o] + (IF o = how THEN 1 ELSE 0) /\ metric[o] = Cardinality(EndedAs(o))
    BY <1>4, <1>8 DEF CountsAreTrue, Gauges, Counters, TransactionOutcomes
  <2>2. CASE o = how  BY <2>1, <2>2, <1>7
  <2>3. CASE o # how  BY <2>1, <2>3, <1>6, CountedNumbers
  <2> QED  BY <2>2, <2>3
<1>10. metric'["duration"] = metric'["committed"] + metric'["failed"]
  BY <1>4, <1>0, <1>8 DEF CountsAreTrue, Gauges, Counters, TransactionOutcomes, AcquisitionOutcomes
<1>11. \A m \in Gauges \cup AcquisitionOutcomes \cup {"timeouts", "hold"} : metric'[m] = metric[m]
  BY <1>4, <1>0, <1>8 DEF Gauges, Counters, TransactionOutcomes, AcquisitionOutcomes
<1> QED
  BY <1>6, <1>8, <1>9, <1>10, <1>11 DEF CountsAreTrue, Gauges, AcquisitionOutcomes

LEMMA CloseSessionStep ==
  ASSUME SessionInv, NEW r \in Requests, CloseSession(r)
  PROVE  metric' \in [Gauges \cup Counters -> Nat] /\ (~failed => CountsAreTrue)'
<1>1. Record({}, {"sessions"}) /\ TypeOK  BY DEF CloseSession, SessionInv
<1>2. /\ r \in Open /\ Open' = Open \ {r}
      /\ Out' = Out /\ Committed' = Committed
      /\ \A o \in TransactionOutcomes : EndedAs(o)' = EndedAs(o)
      /\ \A o \in AcquisitionOutcomes : AcquiredAs(o)' = AcquiredAs(o)
  BY DEF CloseSession, SessionInv, TypeOK, Move, Open, Out, Committed, EndedAs, AcquiredAs, Phases
<1>3. Cardinality(Open') = Cardinality(Open) - 1 /\ Cardinality(Open') \in Nat
  BY <1>2, CountedSetsAreFinite, FS_RemoveElement, FS_CardinalityType
<1>4. ~failed => metric["sessions"] > 0
  BY <1>3, CountedNumbers DEF SessionInv, CountsAreTrue
<1>5. metric' \in [Gauges \cup Counters -> Nat]  BY <1>1, <1>4, ReportedType
<1>6. SUFFICES ASSUME ~failed' PROVE CountsAreTrue'  BY <1>5
<1>7. ~failed /\ \A m \in Gauges \cup Counters :
        metric'[m] = metric[m] + (IF m \in {} THEN 1 ELSE 0) - (IF m \in {"sessions"} THEN 1 ELSE 0)
  BY <1>1, <1>6, Reported
<1>8. CountsAreTrue /\ metric \in [Gauges \cup Counters -> Nat]
  BY <1>7 DEF SessionInv, TypeOK
<1> QED
  BY <1>2, <1>3, <1>7, <1>8, CountedNumbers
  DEF CountsAreTrue, Gauges, Counters, TransactionOutcomes, AcquisitionOutcomes

\* Every step of a request's session keeps the invariant.
LEMMA SessionStep ==
  ASSUME SessionInv, NEW r \in Requests, PoolStep(r)
  PROVE  SessionInv'
<1>1. metric' \in [Gauges \cup Counters -> Nat] /\ (~failed => CountsAreTrue)'
  BY SilentStep, OpenStep, CheckoutStep, RecordAcquisitionStep, CommitStep, ReturnStep,
     RecordTransactionStep, CloseSessionStep
  DEF PoolStep, SessionInv, TypeOK
<1>2. TypeOK'  BY <1>1, PoolTypeStep DEF TypeOK
<1> QED  BY <1>1, <1>2, MarksStep, SoundStep, KnownStep DEF SessionInv

\* Nor does anything outside of the sessions break it: all that is shared is
\* the flag, which is never reset.
LEMMA OtherStepKeepsSessions ==
  SessionInv /\ UNCHANGED dbVars /\ failed' \in {failed, TRUE} => SessionInv'
<1> SUFFICES ASSUME SessionInv, UNCHANGED dbVars, failed' \in {failed, TRUE} PROVE SessionInv'
  OBVIOUS
<1>1. TypeOK' /\ MarksAreHeld' /\ Known' = Known
  BY DEF SessionInv, TypeOK, MarksAreHeld, Known, dbVars
<1>2. \A r \in Requests : SessionIsSound(r)'
  BY DEF SessionInv, SessionIsSound, HasConnection, Holds, dbVars
<1>3. ASSUME ~failed' PROVE CountsAreTrue'
  <2>1. CountsAreTrue  BY <1>3 DEF SessionInv, TypeOK
  <2> QED
    BY <2>1 DEF CountsAreTrue, Out, Open, Committed, EndedAs, AcquiredAs, dbVars
<1> QED  BY <1>1, <1>2, <1>3 DEF SessionInv

LEMMA SessionInit ==
  ASSUME Init PROVE SessionInv
<1>1. TypeOK
  BY DEF Init, TypeOK, Phases, AcquisitionOutcomes, TransactionOutcomes, NoMetric
<1>2. MarksAreHeld /\ \A r \in Requests : SessionIsSound(r)
  BY NoRequestAssumption DEF Init, MarksAreHeld, SessionIsSound, HasConnection, Holds
<1>3. /\ Known = {} /\ Out = {} /\ Open = {} /\ Committed = {}
      /\ \A o : EndedAs(o) = {} /\ AcquiredAs(o) = {}
  BY DEF Init, Known, Out, Open, Committed, EndedAs, AcquiredAs
<1>4. CountsAreTrue
  BY <1>3, FS_EmptySet
  DEF Init, NoMetric, CountsAreTrue, Gauges, Counters, TransactionOutcomes, AcquisitionOutcomes
<1> QED  BY <1>1, <1>2, <1>3, <1>4, FS_EmptySet DEF SessionInv

\* What the run checks of the metrics.
LEMMA MetricsAreTrue ==
  ASSUME SessionInv PROVE PoolInv /\ GaugesAreTrue
<1>1. GaugesAreTrue
  BY DEF SessionInv, CountsAreTrue, GaugesAreTrue, Out, Open
<1>2. ASSUME ~failed
      PROVE  metric["committed"] <= metric["acquired"] /\ metric["committed"] <= metric["hold"]
  <2>1. EndedAs("committed") \subseteq AcquiredAs("acquired") /\ EndedAs("committed") \subseteq Committed
    BY DEF EndedAs, AcquiredAs, Committed, SessionInv, SessionIsSound
  <2>2. /\ Cardinality(EndedAs("committed")) <= Cardinality(AcquiredAs("acquired"))
        /\ Cardinality(EndedAs("committed")) <= Cardinality(Committed)
    BY <2>1, CountedSetsAreFinite, FS_Subset
  <2>3. CountsAreTrue /\ metric["hold"] \in Nat
    BY <1>2 DEF SessionInv, TypeOK, Counters
  <2> QED
    BY <2>2, <2>3, CountedNumbers DEF CountsAreTrue, TransactionOutcomes, AcquisitionOutcomes
<1>3. CountersAreTrue
  BY <1>2 DEF SessionInv, CountsAreTrue, CountersAreTrue, EndedAs, AcquiredAs
<1> QED  BY <1>1, <1>3 DEF SessionInv, PoolInv

-----------------------------------------------------------------------------
(* The observation of an exchange. *)

\* What the wrapper has seen is what the server took, but for a send that was
\* cut off; and it blames only a client that left.
SeenIsTaken(r) ==
  /\ ~sending[r] => seen[r].finished = wire[r].whole /\ seen[r].status = wire[r].status
  /\ sending[r] => ~seen[r].finished /\ seen[r].status \in {"none", wire[r].status}
  /\ sending[r] /\ stage[r] = "running" =>
       ~wire[r].whole /\ ~seen[r].send_failed /\ seen[r].status = wire[r].status
  /\ sending[r] /\ stage[r] # "running" =>
       execution[r] = "cancelled" \/ (execution[r] = "error" /\ seen[r].send_failed)
  /\ seen[r].send_failed => client[r] = "gone" /\ ~wire[r].whole /\ stage[r] # "running"
  /\ seen[r].disconnected => client[r] = "gone" \/ seen[r].finished
  /\ stage[r] = "new" => ~sending[r] /\ ~seen[r].send_failed

Resolved(r) == stage[r] \in {"resolved", "counted", "done"}

\* The result is made of that when the application has ended, and stays; an
\* excluded exchange goes no further.
ResultIsSeen(r) ==
  /\ stage[r] \in {"resolved", "counted"} => r \notin excluded
  /\ Resolved(r) => result[r] = [status |-> seen[r].status,
                                 completion |-> Http!ResolveCompletion(r),
                                 execution |-> execution[r]]
  /\ ~Resolved(r) => result[r] = Http!NoResult

\* Each result is counted once, as long as nothing is lost.
Counted(l) == {r \in Requests \ excluded : stage[r] \in {"counted", "done"} /\ result[r] = l}
Observed(l) == {r \in Requests \ excluded : stage[r] = "done" /\ result[r] = l}

ResultsAreCounted ==
  \A l \in Http!Labels :
    /\ Http!CountOf(l, requests) = Cardinality(Counted(l))
    /\ Http!CountOf(l, duration) = Cardinality(Observed(l))

\* What is due to a scrape is in both metrics, and remains in them.
Due(s, l) == {r \in scrape[s].due : result[r] = l}

DueIsCounted(s) ==
  /\ scrape[s].complete
  /\ scrape[s].stage \in {"checked", "reading"} =>
       /\ IsFiniteSet(scrape[s].due)
       /\ \A r \in scrape[s].due : stage[r] = "done"
       /\ \A l \in Http!Labels :
            /\ Cardinality(Due(s, l)) <= Http!CountOf(l, requests)
            /\ Cardinality(Due(s, l)) <= Http!CountOf(l, duration)

Arrived == {r \in Requests : stage[r] # "new"}

HttpInv ==
  /\ Http!TypeOK
  /\ \A r \in Requests : SeenIsTaken(r) /\ ResultIsSeen(r)
  /\ IsFiniteSet(Arrived)
  /\ ~failed => ResultsAreCounted
  /\ \A s \in Scrapes : DueIsCounted(s)

\* The application of one exchange, its client and the server.
ApplicationStep(r) == Http!Application(r) \/ Http!ClientGoes(r)

LEMMA ApplicationTypes ==
  ASSUME HttpInv, NEW r \in Requests, ApplicationStep(r)
  PROVE  Http!TypeOK'
<1> USE DEF HttpInv, Http!TypeOK, Http!exchange, Http!metrics, Http!HttpExecution
<1>1. CASE Http!Arrive(r)  BY <1>1 DEF Http!Arrive
<1>2. CASE Http!Send(r)  BY <1>2 DEF Http!Send
<1> DEFINE Wire == [status: Statuses \cup {"none"}, whole: BOOLEAN]
           Seen == [finished: BOOLEAN, status: Statuses \cup {"none"},
                    send_failed: BOOLEAN, disconnected: BOOLEAN]
<1>a. wire[r] \in Wire /\ seen[r] \in Seen  OBVIOUS
<1>b. Http!Taken(r) \subseteq Wire
  <2> SUFFICES ASSUME NEW taken \in Http!Taken(r) PROVE taken \in Wire  OBVIOUS
  <2>1. CASE wire[r].status = "none"
    <3>1. PICK status \in Statuses : taken = [wire[r] EXCEPT !.status = status]
      BY <2>1 DEF Http!Taken
    <3> QED  BY <3>1, <1>a
  <2>2. CASE wire[r].status # "none"
    <3>1. taken = [wire[r] EXCEPT !.whole = TRUE]
      BY <2>2 DEF Http!Taken
    <3> QED  BY <3>1, <1>a
  <2> QED  BY <2>1, <2>2
<1>3. CASE Http!SendReturns(r)
  <2>1. PICK taken \in Http!Taken(r) :
          /\ wire' = [wire EXCEPT ![r] = taken]
          /\ seen' = [seen EXCEPT ![r].status = taken.status, ![r].finished = taken.whole]
    BY <1>3 DEF Http!SendReturns
  <2>2. wire' \in [Requests -> Wire]
    BY <2>1, <1>b
  <2>3. [seen[r] EXCEPT !.status = taken.status, !.finished = taken.whole] \in Seen
    BY <1>a, <1>b
  <2>4. seen' \in [Requests -> Seen]
    BY <2>1, <2>3
  <2> QED  BY <2>2, <2>4, <1>3 DEF Http!SendReturns
<1>4. CASE Http!SendFails(r)
  <2>1. [seen[r] EXCEPT !.send_failed = TRUE] \in Seen
    BY <1>a
  <2>2. seen' \in [Requests -> Seen]
    BY <2>1, <1>4 DEF Http!SendFails
  <2> QED  BY <2>2, <1>4 DEF Http!SendFails, Http!Ends
<1>5. CASE Http!Receive(r)
  <2>1. [seen[r] EXCEPT !.disconnected = TRUE] \in Seen
    BY <1>a
  <2>2. seen' \in [Requests -> Seen]
    BY <2>1, <1>5 DEF Http!Receive
  <2> QED  BY <2>2, <1>5 DEF Http!Receive
<1>6. CASE Http!Return(r)  BY <1>6 DEF Http!Return, Http!Ends
<1>7. CASE Http!Raise(r)  BY <1>7 DEF Http!Raise, Http!Ends
<1>8. CASE Http!Cancel(r)
  <2>1. wire' \in [Requests -> Wire]
    BY <1>8, <1>b DEF Http!Cancel
  <2> QED  BY <2>1, <1>8 DEF Http!Cancel, Http!Ends
<1>9. CASE Http!ClientGoes(r)  BY <1>9 DEF Http!ClientGoes
<1> QED
  BY <1>1, <1>2, <1>3, <1>4, <1>5, <1>6, <1>7, <1>8, <1>9 DEF ApplicationStep, Http!Application

\* It leaves all other exchanges and the records alone.
LEMMA ApplicationIsLocal ==
  ASSUME HttpInv, NEW r \in Requests, ApplicationStep(r)
  PROVE  /\ UNCHANGED <<excluded, result, requests, duration, failed, scrape>>
         /\ \A q \in Requests \ {r} :
              /\ stage'[q] = stage[q] /\ client'[q] = client[q] /\ sending'[q] = sending[q]
              /\ wire'[q] = wire[q] /\ seen'[q] = seen[q] /\ execution'[q] = execution[q]
         /\ stage[r] \in {"new", "running"} /\ stage'[r] \in {"running", "ended"}
<1> USE DEF HttpInv, Http!TypeOK, Http!exchange, Http!metrics
<1>1. CASE Http!Arrive(r)  BY <1>1 DEF Http!Arrive
<1>2. CASE Http!Send(r)  BY <1>2 DEF Http!Send, Http!Running
<1>3. CASE Http!SendReturns(r)  BY <1>3 DEF Http!SendReturns
<1>4. CASE Http!SendFails(r)  BY <1>4 DEF Http!SendFails, Http!Ends
<1>5. CASE Http!Receive(r)  BY <1>5 DEF Http!Receive, Http!Running
<1>6. CASE Http!Return(r)  BY <1>6 DEF Http!Return, Http!Ends, Http!Running
<1>7. CASE Http!Raise(r)  BY <1>7 DEF Http!Raise, Http!Ends, Http!Running
<1>8. CASE Http!Cancel(r)  BY <1>8 DEF Http!Cancel, Http!Ends
<1>9. CASE Http!ClientGoes(r)  BY <1>9 DEF Http!ClientGoes
<1> QED
  BY <1>1, <1>2, <1>3, <1>4, <1>5, <1>6, <1>7, <1>8, <1>9 DEF ApplicationStep, Http!Application

LEMMA ApplicationSees ==
  ASSUME HttpInv, NEW r \in Requests, ApplicationStep(r)
  PROVE  SeenIsTaken(r)'
<1> USE DEF HttpInv, Http!TypeOK, SeenIsTaken, Http!exchange, Http!metrics
<1>1. CASE Http!Arrive(r)  BY <1>1 DEF Http!Arrive
<1>2. CASE Http!Send(r)  BY <1>2 DEF Http!Send, Http!Running
<1>3. CASE Http!SendReturns(r)
  BY <1>3 DEF Http!SendReturns, Http!Taken
<1>4. CASE Http!SendFails(r)  BY <1>4 DEF Http!SendFails, Http!Ends
<1>5. CASE Http!Receive(r)  BY <1>5 DEF Http!Receive, Http!Running
<1>6. CASE Http!Return(r)  BY <1>6 DEF Http!Return, Http!Ends, Http!Running
<1>7. CASE Http!Raise(r)  BY <1>7 DEF Http!Raise, Http!Ends, Http!Running
<1>8. CASE Http!Cancel(r)
  BY <1>8 DEF Http!Cancel, Http!Ends, Http!Taken
<1>9. CASE Http!ClientGoes(r)  BY <1>9 DEF Http!ClientGoes
<1> QED
  BY <1>1, <1>2, <1>3, <1>4, <1>5, <1>6, <1>7, <1>8, <1>9 DEF ApplicationStep, Http!Application

LEMMA ApplicationKeepsHttp ==
  ASSUME HttpInv, NEW r \in Requests, ApplicationStep(r)
  PROVE  HttpInv'
<1> /\ UNCHANGED <<excluded, result, requests, duration, failed, scrape>>
    /\ \A q \in Requests \ {r} :
         /\ stage'[q] = stage[q] /\ client'[q] = client[q] /\ sending'[q] = sending[q]
         /\ wire'[q] = wire[q] /\ seen'[q] = seen[q] /\ execution'[q] = execution[q]
    /\ stage[r] \in {"new", "running"} /\ stage'[r] \in {"running", "ended"}
  BY ApplicationIsLocal
<1>1. Http!TypeOK'  BY ApplicationTypes
<1>2. ASSUME NEW q \in Requests PROVE SeenIsTaken(q)' /\ ResultIsSeen(q)'
  <2>1. CASE q = r
    <3>1. ResultIsSeen(r)'  BY DEF HttpInv, ResultIsSeen, Resolved
    <3> QED  BY <2>1, <3>1, ApplicationSees
  <2>2. CASE q # r
    BY <2>2 DEF HttpInv, SeenIsTaken, ResultIsSeen, Resolved, Http!ResolveCompletion
  <2> QED  BY <2>1, <2>2
<1>3. IsFiniteSet(Arrived')
  <2>1. Arrived' \subseteq Arrived \cup {r}  BY DEF Arrived
  <2>2. IsFiniteSet(Arrived \cup {r})  BY FS_AddElement DEF HttpInv
  <2> QED  BY <2>1, <2>2, FS_Subset
<1>4. ASSUME ~failed' PROVE ResultsAreCounted'
  <2>1. ResultsAreCounted  BY <1>4 DEF HttpInv
  <2>2. \A l \in Http!Labels : Counted(l)' = Counted(l) /\ Observed(l)' = Observed(l)
    BY DEF Counted, Observed
  <2> QED  BY <2>1, <2>2 DEF ResultsAreCounted, Http!CountOf
<1>5. ASSUME NEW s \in Scrapes PROVE DueIsCounted(s)'
  <2>1. scrape[s].stage \in {"checked", "reading"} =>
          /\ \A q \in scrape[s].due : stage'[q] = "done"
          /\ \A l : Due(s, l)' = Due(s, l)
    BY DEF HttpInv, Http!TypeOK, DueIsCounted, Due
  <2> QED  BY <2>1 DEF HttpInv, DueIsCounted, Http!CountOf
<1> QED  BY <1>1, <1>2, <1>3, <1>4, <1>5 DEF HttpInv

LEMMA OtherStepKeepsHttp ==
  HttpInv /\ UNCHANGED httpVars /\ failed' \in {failed, TRUE} => HttpInv'
<1> SUFFICES ASSUME HttpInv, UNCHANGED httpVars, failed' \in {failed, TRUE} PROVE HttpInv'
  OBVIOUS
<1> USE DEF httpVars
<1>1. Http!TypeOK' /\ Arrived' = Arrived
  BY DEF HttpInv, Http!TypeOK, Arrived
<1>2. \A r \in Requests : SeenIsTaken(r)' /\ ResultIsSeen(r)'
  BY DEF HttpInv, SeenIsTaken, ResultIsSeen, Resolved, Http!ResolveCompletion
<1>3. ASSUME ~failed' PROVE ResultsAreCounted'
  <2>1. ResultsAreCounted  BY <1>3 DEF HttpInv, Http!TypeOK
  <2> QED  BY <2>1 DEF ResultsAreCounted, Http!CountOf, Counted, Observed
<1>4. \A s \in Scrapes : DueIsCounted(s)'
  BY DEF HttpInv, DueIsCounted, Due, Http!CountOf
<1> QED  BY <1>1, <1>2, <1>3, <1>4 DEF HttpInv

LEMMA HttpInit ==
  ASSUME Http!Init PROVE HttpInv
<1>1. Http!TypeOK
  <2>1. DOMAIN requests = {} /\ DOMAIN duration = {}
    BY DEF Http!Init, Http!NoCounts
  <2>2. requests \in [DOMAIN requests -> Nat \ {0}] /\ duration \in [DOMAIN duration -> Nat \ {0}]
    BY <2>1 DEF Http!Init, Http!NoCounts
  <2> QED
    BY <2>1, <2>2
    DEF Http!Init, Http!TypeOK, Http!Unseen, Http!HttpExecution, Http!NoResult, Http!Unread
<1>2. \A r \in Requests : SeenIsTaken(r) /\ ResultIsSeen(r)
  BY DEF Http!Init, Http!Unseen, SeenIsTaken, ResultIsSeen, Resolved
<1>3. Arrived = {} /\ \A l : Counted(l) = {} /\ Observed(l) = {}
  BY DEF Http!Init, Arrived, Counted, Observed
<1>4. ResultsAreCounted
  <2>1. \A l : Http!CountOf(l, requests) = 0 /\ Http!CountOf(l, duration) = 0
    BY DEF Http!Init, Http!NoCounts, Http!CountOf
  <2> QED  BY <1>3, <2>1, FS_EmptySet DEF ResultsAreCounted
<1>5. \A s \in Scrapes : DueIsCounted(s)
  BY DEF Http!Init, Http!Unread, DueIsCounted
<1> QED  BY <1>1, <1>2, <1>3, <1>4, <1>5, FS_EmptySet DEF HttpInv

\* The result of an exchange that has ended is one of the labels.
LEMMA ResultIsLabel ==
  ASSUME HttpInv, NEW r \in Requests
  PROVE  /\ Resolved(r) => result[r] \in Http!Labels
         /\ [status |-> seen[r].status, completion |-> Http!ResolveCompletion(r),
             execution |-> execution[r]] \in Http!Labels
<1>1. Http!ResolveCompletion(r) \in Http!HttpCompletion
  BY DEF Http!ResolveCompletion, Http!HttpCompletion
<1>2. seen[r].status \in Statuses \cup {"none"} /\ execution[r] \in Http!HttpExecution
  BY DEF HttpInv, Http!TypeOK
<1>3. [status |-> seen[r].status, completion |-> Http!ResolveCompletion(r),
       execution |-> execution[r]] \in Http!Labels
  BY <1>1, <1>2 DEF Http!Labels
<1> QED  BY <1>3 DEF HttpInv, ResultIsSeen

LEMMA CountsAreFinite ==
  ASSUME HttpInv
  PROVE  \A l : /\ IsFiniteSet(Counted(l)) /\ IsFiniteSet(Observed(l))
                /\ Cardinality(Counted(l)) \in Nat /\ Cardinality(Observed(l)) \in Nat
<1> SUFFICES ASSUME NEW l
             PROVE  /\ IsFiniteSet(Counted(l)) /\ IsFiniteSet(Observed(l))
                    /\ Cardinality(Counted(l)) \in Nat /\ Cardinality(Observed(l)) \in Nat
  OBVIOUS
<1>1. Counted(l) \subseteq Arrived /\ Observed(l) \subseteq Arrived
  BY DEF Counted, Observed, Arrived
<1> QED  BY <1>1, FS_Subset, FS_CardinalityType DEF HttpInv

\* To count an exchange adds one to its own label.
LEMMA AddCounts ==
  ASSUME NEW counts, NEW r \in Requests, result[r] \in Http!Labels,
         DOMAIN counts \subseteq Http!Labels, counts \in [DOMAIN counts -> Nat \ {0}]
  PROVE  LET more == Http!Add(counts, r)
         IN  /\ DOMAIN more = DOMAIN counts \cup {result[r]}
             /\ DOMAIN more \subseteq Http!Labels
             /\ more \in [DOMAIN more -> Nat \ {0}]
             /\ \A l : /\ Http!CountOf(l, counts) \in Nat
                       /\ Http!CountOf(l, more)
                            = Http!CountOf(l, counts) + (IF l = result[r] THEN 1 ELSE 0)
<1> DEFINE more == Http!Add(counts, r)
<1>1. DOMAIN more = DOMAIN counts \cup {result[r]}
  BY DEF Http!Add
<1>2. \A l : Http!CountOf(l, counts) \in Nat
  BY DEF Http!CountOf
<1>3. \A l \in DOMAIN more : more[l] = Http!CountOf(l, counts) + (IF l = result[r] THEN 1 ELSE 0)
  BY DEF Http!Add
<1>4. \A l \in DOMAIN more : more[l] \in Nat \ {0}
  BY <1>1, <1>2, <1>3 DEF Http!CountOf
<1>5. more = [l \in DOMAIN more |-> more[l]]
  BY DEF Http!Add
<1>6. \A l : Http!CountOf(l, more) = Http!CountOf(l, counts) + (IF l = result[r] THEN 1 ELSE 0)
  <2> SUFFICES ASSUME NEW l
               PROVE Http!CountOf(l, more)
                       = Http!CountOf(l, counts) + (IF l = result[r] THEN 1 ELSE 0)
    OBVIOUS
  <2>1. CASE l \in DOMAIN more
    <3> HIDE DEF more
    <3> QED  BY <2>1, <1>3 DEF Http!CountOf
  <2>2. CASE l \notin DOMAIN more
    <3> HIDE DEF more
    <3> QED  BY <2>2, <1>1 DEF Http!CountOf
  <2> QED  BY <2>1, <2>2
<1> HIDE DEF more
<1>7. more \in [DOMAIN more -> Nat \ {0}]
  BY <1>4, <1>5
<1> QED  BY <1>1, <1>2, <1>6, <1>7 DEF more

\* The finally block changes one exchange, which has ended and is not done,
\* and the records.
LEMMA FinallyIsLocal ==
  ASSUME HttpInv, NEW r \in Requests, Http!Finally(r)
  PROVE  /\ UNCHANGED <<excluded, client, sending, wire, seen, execution, scrape>>
         /\ \A q \in Requests \ {r} : stage'[q] = stage[q] /\ result'[q] = result[q]
         /\ stage[r] \in {"ended", "resolved", "counted"}
         /\ stage'[r] \in {"resolved", "counted", "done"}
         /\ stage' \in [Requests -> {"new", "running", "ended", "resolved", "counted", "done"}]
         /\ failed' \in BOOLEAN /\ (~failed' => ~failed)
<1> USE DEF HttpInv, Http!TypeOK, Http!exchange, Http!metrics
<1>1. CASE Http!Resolve(r)  BY <1>1 DEF Http!Resolve
<1>2. CASE Http!ErrorLogFails(r)  BY <1>2 DEF Http!ErrorLogFails
<1>3. CASE Http!Count(r)  BY <1>3 DEF Http!Count
<1>4. CASE Http!Observe(r)  BY <1>4 DEF Http!Observe
<1>5. CASE Http!RecordFails(r)  BY <1>5 DEF Http!RecordFails
<1> QED  BY <1>1, <1>2, <1>3, <1>4, <1>5 DEF Http!Finally

LEMMA FinallyResults ==
  ASSUME HttpInv, NEW r \in Requests, Http!Finally(r)
  PROVE  /\ \A q \in Requests : SeenIsTaken(q)' /\ ResultIsSeen(q)'
         /\ result' \in [Requests -> Http!Labels \cup {Http!NoResult}]
         /\ Resolved(r) => result' = result
<1> /\ UNCHANGED <<excluded, client, sending, wire, seen, execution, scrape>>
    /\ \A q \in Requests \ {r} : stage'[q] = stage[q] /\ result'[q] = result[q]
    /\ stage[r] \in {"ended", "resolved", "counted"}
    /\ stage'[r] \in {"resolved", "counted", "done"}
  BY FinallyIsLocal
<1>1. \A q \in Requests : SeenIsTaken(q)'
  BY DEF HttpInv, SeenIsTaken
<1> DEFINE made == [status |-> seen[r].status, completion |-> Http!ResolveCompletion(r),
                    execution |-> execution[r]]
<1>2. made \in Http!Labels  BY ResultIsLabel
<1>3. /\ result'[r] = made /\ (stage'[r] \in {"resolved", "counted"} => r \notin excluded)
      /\ result' \in [Requests -> Http!Labels \cup {Http!NoResult}]
      /\ (Resolved(r) => result' = result)
  <2> HIDE DEF made
  <2> USE <1>2 DEF HttpInv, Http!TypeOK
  <2>1. Resolved(r) => result[r] = made  BY DEF ResultIsSeen, made
  <2>2. CASE Http!Resolve(r)
    BY <2>2 DEF Http!Resolve, Resolved, made
  <2>3. CASE Http!ErrorLogFails(r)
    BY <2>3 DEF Http!ErrorLogFails, Resolved, made
  <2>4. CASE Http!Count(r)  BY <2>1, <2>4 DEF Http!Count, Resolved, ResultIsSeen
  <2>5. CASE Http!Observe(r)  BY <2>1, <2>5 DEF Http!Observe, Resolved
  <2>6. CASE Http!RecordFails(r)  BY <2>1, <2>6 DEF Http!RecordFails, Resolved
  <2> QED  BY <2>2, <2>3, <2>4, <2>5, <2>6 DEF Http!Finally
<1>4. ResultIsSeen(r)'
  BY <1>3 DEF ResultIsSeen, Resolved, Http!ResolveCompletion
<1>5. \A q \in Requests \ {r} : ResultIsSeen(q)'
  BY DEF HttpInv, ResultIsSeen, Resolved, Http!ResolveCompletion
<1> QED  BY <1>1, <1>3, <1>4, <1>5

\* How the records grow.
LEMMA FinallyCounts ==
  ASSUME HttpInv, NEW r \in Requests, Http!Finally(r)
  PROVE  /\ DOMAIN requests' \subseteq Http!Labels /\ requests' \in [DOMAIN requests' -> Nat \ {0}]
         /\ DOMAIN duration' \subseteq Http!Labels /\ duration' \in [DOMAIN duration' -> Nat \ {0}]
         /\ \A l : /\ Http!CountOf(l, requests) <= Http!CountOf(l, requests')
                   /\ Http!CountOf(l, duration) <= Http!CountOf(l, duration')
<1> USE DEF HttpInv, Http!TypeOK
<1>1. \A l : Http!CountOf(l, requests) \in Nat /\ Http!CountOf(l, duration) \in Nat
  BY DEF Http!CountOf
<1>2. CASE Http!Count(r)
  <2>1. result[r] \in Http!Labels  BY <1>2, ResultIsLabel DEF Http!Count, Resolved
  <2>2. requests' = Http!Add(requests, r) /\ duration' = duration
    BY <1>2 DEF Http!Count
  <2>3. /\ DOMAIN requests' \subseteq Http!Labels /\ requests' \in [DOMAIN requests' -> Nat \ {0}]
        /\ \A l : Http!CountOf(l, requests')
                    = Http!CountOf(l, requests) + (IF l = result[r] THEN 1 ELSE 0)
    BY <2>1, <2>2, AddCounts
  <2> QED  BY <2>2, <2>3, <1>1
<1>3. CASE Http!Observe(r)
  <2>1. result[r] \in Http!Labels  BY <1>3, ResultIsLabel DEF Http!Observe, Resolved
  <2>2. duration' = Http!Add(duration, r) /\ requests' = requests
    BY <1>3 DEF Http!Observe
  <2>3. /\ DOMAIN duration' \subseteq Http!Labels /\ duration' \in [DOMAIN duration' -> Nat \ {0}]
        /\ \A l : Http!CountOf(l, duration')
                    = Http!CountOf(l, duration) + (IF l = result[r] THEN 1 ELSE 0)
    BY <2>1, <2>2, AddCounts
  <2> QED  BY <2>2, <2>3, <1>1
<1>4. CASE UNCHANGED <<requests, duration>>
  BY <1>1, <1>4
<1> QED
  BY <1>2, <1>3, <1>4
  DEF Http!Finally, Http!Resolve, Http!ErrorLogFails, Http!RecordFails, Http!metrics

\* An exchange enters the counts as its own result does, unless something is lost.
LEMMA FinallyCountsOnce ==
  ASSUME HttpInv, NEW r \in Requests, Http!Finally(r), ~failed'
  PROVE  ResultsAreCounted'
<1> USE DEF HttpInv, Http!TypeOK
<1>1. ResultsAreCounted /\ ~failed  BY FinallyIsLocal
<1> SUFFICES ASSUME NEW l \in Http!Labels
             PROVE  /\ Http!CountOf(l, requests') = Cardinality(Counted(l)')
                    /\ Http!CountOf(l, duration') = Cardinality(Observed(l)')
  BY DEF ResultsAreCounted, Http!CountOf
<1>2. /\ Http!CountOf(l, requests) = Cardinality(Counted(l))
      /\ Http!CountOf(l, duration) = Cardinality(Observed(l))
  BY <1>1 DEF ResultsAreCounted
<1>3. CASE Http!Resolve(r)
  <2>1. Counted(l)' = Counted(l) /\ Observed(l)' = Observed(l)
    BY <1>3 DEF Http!Resolve, Http!exchange, Http!metrics, Counted, Observed
  <2> QED  BY <2>1, <1>2, <1>3 DEF Http!Resolve, Http!metrics
<1>4. CASE Http!Count(r)
  <2>1. result[r] \in Http!Labels /\ r \in Requests \ excluded
    BY <1>4, ResultIsLabel DEF Http!Count, Resolved, ResultIsSeen
  <2>2. Http!CountOf(l, requests')
          = Http!CountOf(l, requests) + (IF l = result[r] THEN 1 ELSE 0)
    BY <2>1, <1>4, AddCounts DEF Http!Count
  <2>3. Observed(l)' = Observed(l) /\ duration' = duration
    BY <1>4 DEF Http!Count, Http!exchange, Observed
  <2>4. CASE l = result[r]
    <3>1. Counted(l)' = Counted(l) \cup {r} /\ r \notin Counted(l)
      BY <2>1, <2>4, <1>4 DEF Http!Count, Http!exchange, Counted
    <3>2. Cardinality(Counted(l) \cup {r}) = Cardinality(Counted(l)) + 1
      BY <3>1, CountsAreFinite, FS_AddElement
    <3> QED  BY <1>2, <2>2, <2>3, <2>4, <3>1, <3>2
  <2>5. CASE l # result[r]
    <3>1. Counted(l)' = Counted(l)
      BY <2>5, <1>4 DEF Http!Count, Http!exchange, Counted
    <3> QED  BY <1>2, <2>2, <2>3, <2>5, <3>1, CountsAreFinite
  <2> QED  BY <2>4, <2>5
<1>5. CASE Http!Observe(r)
  <2>1. result[r] \in Http!Labels /\ r \in Requests \ excluded
    BY <1>5, ResultIsLabel DEF Http!Observe, Resolved, ResultIsSeen
  <2>2. Http!CountOf(l, duration')
          = Http!CountOf(l, duration) + (IF l = result[r] THEN 1 ELSE 0)
    BY <2>1, <1>5, AddCounts DEF Http!Observe
  <2>3. Counted(l)' = Counted(l) /\ requests' = requests
    BY <1>5 DEF Http!Observe, Http!exchange, Counted
  <2>4. CASE l = result[r]
    <3>1. Observed(l)' = Observed(l) \cup {r} /\ r \notin Observed(l)
      BY <2>1, <2>4, <1>5 DEF Http!Observe, Http!exchange, Observed
    <3>2. Cardinality(Observed(l) \cup {r}) = Cardinality(Observed(l)) + 1
      BY <3>1, CountsAreFinite, FS_AddElement
    <3> QED  BY <1>2, <2>2, <2>3, <2>4, <3>1, <3>2
  <2>5. CASE l # result[r]
    <3>1. Observed(l)' = Observed(l)
      BY <2>5, <1>5 DEF Http!Observe, Http!exchange, Observed
    <3> QED  BY <1>2, <2>2, <2>3, <2>5, <3>1, CountsAreFinite
  <2> QED  BY <2>4, <2>5
<1> QED
  BY <1>3, <1>4, <1>5 DEF Http!Finally, Http!ErrorLogFails, Http!RecordFails

LEMMA FinallyKeepsHttp ==
  ASSUME HttpInv, NEW r \in Requests, Http!Finally(r)
  PROVE  HttpInv'
<1> /\ UNCHANGED <<excluded, client, sending, wire, seen, execution, scrape>>
    /\ \A q \in Requests \ {r} : stage'[q] = stage[q] /\ result'[q] = result[q]
    /\ stage[r] \in {"ended", "resolved", "counted"}
    /\ stage'[r] \in {"resolved", "counted", "done"}
  BY FinallyIsLocal
<1>1. Http!TypeOK'
  <2> USE DEF HttpInv, Http!TypeOK
  <2>1. /\ DOMAIN requests' \subseteq Http!Labels /\ requests' \in [DOMAIN requests' -> Nat \ {0}]
        /\ DOMAIN duration' \subseteq Http!Labels /\ duration' \in [DOMAIN duration' -> Nat \ {0}]
    BY FinallyCounts
  <2>2. result' \in [Requests -> Http!Labels \cup {Http!NoResult}]  BY FinallyResults
  <2> QED  BY <2>1, <2>2, FinallyIsLocal
<1>2. \A q \in Requests : SeenIsTaken(q)' /\ ResultIsSeen(q)'  BY FinallyResults
<1>3. IsFiniteSet(Arrived')
  <2>1. Arrived' \subseteq Arrived  BY DEF Arrived
  <2> QED  BY <2>1, FS_Subset DEF HttpInv
<1>4. ~failed' => ResultsAreCounted'  BY FinallyCountsOnce
<1>5. ASSUME NEW s \in Scrapes PROVE DueIsCounted(s)'
  <2>1. DueIsCounted(s)  BY DEF HttpInv
  <2>2. SUFFICES ASSUME scrape[s].stage \in {"checked", "reading"}
                 PROVE  /\ \A q \in scrape[s].due : stage'[q] = "done"
                        /\ \A l \in Http!Labels :
                             /\ Cardinality(Due(s, l)') <= Http!CountOf(l, requests')
                             /\ Cardinality(Due(s, l)') <= Http!CountOf(l, duration')
    BY <2>1 DEF DueIsCounted, Http!CountOf
  <2>3. scrape[s].due \subseteq Requests /\ IsFiniteSet(scrape[s].due)
    BY <2>1, <2>2 DEF DueIsCounted, HttpInv, Http!TypeOK
  <2>4. \A q \in scrape[s].due : stage'[q] = "done" /\ result'[q] = result[q]
    BY <2>1, <2>2, <2>3 DEF DueIsCounted
  <2>5. ASSUME NEW l \in Http!Labels
        PROVE  /\ Cardinality(Due(s, l)') <= Http!CountOf(l, requests')
               /\ Cardinality(Due(s, l)') <= Http!CountOf(l, duration')
    <3>1. Due(s, l)' = Due(s, l)  BY <2>4 DEF Due
    <3>2. Cardinality(Due(s, l)) \in Nat
      BY <2>3, FS_Subset, FS_CardinalityType DEF Due
    <3>3. /\ Http!CountOf(l, requests) <= Http!CountOf(l, requests')
          /\ Http!CountOf(l, duration) <= Http!CountOf(l, duration')
      BY FinallyCounts
    <3>4. /\ Http!CountOf(l, requests) \in Nat /\ Http!CountOf(l, requests') \in Nat
          /\ Http!CountOf(l, duration) \in Nat /\ Http!CountOf(l, duration') \in Nat
      BY <1>1 DEF HttpInv, Http!TypeOK, Http!CountOf
    <3>5. /\ Cardinality(Due(s, l)) <= Http!CountOf(l, requests)
          /\ Cardinality(Due(s, l)) <= Http!CountOf(l, duration)
      BY <2>1, <2>2 DEF DueIsCounted
    <3> QED  BY <3>1, <3>2, <3>3, <3>4, <3>5
  <2> QED  BY <2>4, <2>5
<1> QED  BY <1>1, <1>2, <1>3, <1>4, <1>5 DEF HttpInv

\* A scrape changes itself only, but for the flag it may raise.
LEMMA ScrapingIsLocal ==
  ASSUME HttpInv, NEW s \in Scrapes, Http!Scraping(s)
  PROVE  /\ UNCHANGED <<excluded, client, sending, wire, seen, execution, stage, result,
                        requests, duration>>
         /\ \A t \in Scrapes \ {s} : scrape'[t] = scrape[t]
         /\ failed' \in {failed, TRUE}
         /\ scrape' \in [Scrapes -> [stage: {"idle", "checked", "reading", "ok", "unavailable"},
                                     due: SUBSET Requests, complete: BOOLEAN]]
<1> DEFINE Read == [stage: {"idle", "checked", "reading", "ok", "unavailable"},
                    due: SUBSET Requests, complete: BOOLEAN]
<1> USE DEF HttpInv, Http!TypeOK, Http!exchange, Http!metrics
<1>1. scrape[s] \in Read  OBVIOUS
<1>2. CASE Http!Check(s)
  <2>1. [scrape[s] EXCEPT !.stage = "unavailable"] \in Read
        /\ [scrape[s] EXCEPT !.stage = "checked", !.due = Http!Done] \in Read
    BY <1>1 DEF Http!Done
  <2>2. scrape' \in [Scrapes -> Read]
    BY <2>1, <1>2 DEF Http!Check
  <2> QED  BY <2>2, <1>2 DEF Http!Check
<1>3. CASE Http!ReadRequests(s)
  <2>1. Http!Covers(requests, s) \in BOOLEAN  BY DEF Http!Covers
  <2>2. [scrape[s] EXCEPT !.stage = "reading", !.complete = Http!Covers(requests, s)] \in Read
    BY <1>1, <2>1
  <2>3. scrape' \in [Scrapes -> Read]
    BY <2>2, <1>3 DEF Http!ReadRequests
  <2> QED  BY <2>3, <1>3 DEF Http!ReadRequests
<1>4. CASE Http!ReadDuration(s)
  <2>1. (scrape[s].complete /\ Http!Covers(duration, s)) \in BOOLEAN  BY DEF Http!Covers
  <2>2. [stage |-> "ok", due |-> {}, complete |-> scrape[s].complete /\ Http!Covers(duration, s)] \in Read
    BY <1>1, <2>1
  <2>3. scrape' \in [Scrapes -> Read]
    BY <2>2, <1>4 DEF Http!ReadDuration
  <2> QED  BY <2>3, <1>4 DEF Http!ReadDuration
<1>5. CASE Http!ScrapeFails(s)
  <2>1. [Http!Unread EXCEPT !.stage = "unavailable"] \in Read  BY DEF Http!Unread
  <2>2. scrape' \in [Scrapes -> Read]
    BY <2>1, <1>5 DEF Http!ScrapeFails
  <2> QED  BY <2>2, <1>5 DEF Http!ScrapeFails
<1> QED  BY <1>2, <1>3, <1>4, <1>5 DEF Http!Scraping

LEMMA SameCardinality == \A S : Http!Cardinality(S) = Cardinality(S)
BY DEF Http!Cardinality, Cardinality

\* All that is due is read.
LEMMA DueIsCovered ==
  ASSUME HttpInv, NEW s \in Scrapes, scrape[s].stage \in {"checked", "reading"}
  PROVE  Http!Covers(requests, s) /\ Http!Covers(duration, s)
<1>1. ASSUME NEW q \in scrape[s].due
      PROVE  /\ Cardinality(Due(s, result[q])) <= Http!CountOf(result[q], requests)
             /\ Cardinality(Due(s, result[q])) <= Http!CountOf(result[q], duration)
  <2>1. q \in Requests /\ stage[q] = "done"
    BY DEF HttpInv, Http!TypeOK, DueIsCounted
  <2>2. result[q] \in Http!Labels
    BY <2>1, ResultIsLabel DEF Resolved
  <2> QED  BY <2>2 DEF HttpInv, DueIsCounted
<1>2. \A q \in scrape[s].due : {r \in scrape[s].due : result[r] = result[q]} = Due(s, result[q])
  BY DEF Due
<1>3. Http!Covers(requests, s) <=>
        \A q \in scrape[s].due : Cardinality(Due(s, result[q])) <= Http!CountOf(result[q], requests)
  BY <1>2, SameCardinality DEF Http!Covers
<1>4. Http!Covers(duration, s) <=>
        \A q \in scrape[s].due : Cardinality(Due(s, result[q])) <= Http!CountOf(result[q], duration)
  BY <1>2, SameCardinality DEF Http!Covers
<1> QED  BY <1>1, <1>3, <1>4

LEMMA ScrapingKeepsHttp ==
  ASSUME HttpInv, NEW s \in Scrapes, Http!Scraping(s)
  PROVE  HttpInv'
<1> /\ UNCHANGED <<excluded, client, sending, wire, seen, execution, stage, result,
                   requests, duration>>
    /\ \A t \in Scrapes \ {s} : scrape'[t] = scrape[t]
    /\ failed' \in {failed, TRUE}
  BY ScrapingIsLocal
<1>1. Http!TypeOK'
  <2>1. scrape' \in [Scrapes -> [stage: {"idle", "checked", "reading", "ok", "unavailable"},
                                 due: SUBSET Requests, complete: BOOLEAN]]
    BY ScrapingIsLocal
  <2> QED  BY <2>1 DEF HttpInv, Http!TypeOK
<1>2. Arrived' = Arrived  BY DEF Arrived
<1>3. \A r \in Requests : SeenIsTaken(r)' /\ ResultIsSeen(r)'
  BY DEF HttpInv, SeenIsTaken, ResultIsSeen, Resolved, Http!ResolveCompletion
<1>4. ASSUME ~failed' PROVE ResultsAreCounted'
  <2>1. ~failed  BY <1>4
  <2>2. ResultsAreCounted  BY <2>1 DEF HttpInv
  <2> QED  BY <2>2 DEF ResultsAreCounted, Http!CountOf, Counted, Observed
<1>5. \A t \in Scrapes \ {s} : DueIsCounted(t)'
  BY DEF HttpInv, DueIsCounted, Due, Http!CountOf
<1>6. DueIsCounted(s)'
  <2>0. DueIsCounted(s)  BY DEF HttpInv
  <2>1. CASE Http!Check(s) /\ failed
    <3>1. scrape'[s] = [scrape[s] EXCEPT !.stage = "unavailable"]
      BY <2>1 DEF Http!Check, HttpInv, Http!TypeOK
    <3> QED  BY <3>1, <2>0 DEF DueIsCounted, HttpInv, Http!TypeOK
  <2>2. CASE Http!Check(s) /\ ~failed
    <3>1. scrape'[s] = [scrape[s] EXCEPT !.stage = "checked", !.due = Http!Done]
      BY <2>2 DEF Http!Check, HttpInv, Http!TypeOK
    <3>2. scrape'[s].stage = "checked" /\ scrape'[s].due = Http!Done /\ scrape'[s].complete
      BY <3>1, <2>0 DEF DueIsCounted, HttpInv, Http!TypeOK
    <3>3. Http!Done \subseteq Arrived /\ \A r \in Http!Done : stage[r] = "done"
      BY DEF Http!Done, Arrived
    <3>4. IsFiniteSet(Http!Done)
      BY <3>3, FS_Subset DEF HttpInv
    <3>5. ASSUME NEW l \in Http!Labels
          PROVE  /\ Cardinality(Due(s, l)') <= Http!CountOf(l, requests)
                 /\ Cardinality(Due(s, l)') <= Http!CountOf(l, duration)
      <4>1. Due(s, l)' = Observed(l)
        BY <3>2 DEF Due, Observed, Http!Done
      <4>2. Observed(l) \subseteq Counted(l)
        BY DEF Observed, Counted
      <4>3. Cardinality(Observed(l)) <= Cardinality(Counted(l))
        BY <4>2, CountsAreFinite, FS_Subset
      <4>4. ResultsAreCounted  BY <2>2 DEF HttpInv
      <4> QED  BY <4>1, <4>3, <4>4, CountsAreFinite DEF ResultsAreCounted
    <3> QED  BY <3>2, <3>3, <3>4, <3>5 DEF DueIsCounted, Http!CountOf
  <2>3. CASE Http!ReadRequests(s)
    <3>1. scrape'[s] = [scrape[s] EXCEPT !.stage = "reading", !.complete = Http!Covers(requests, s)]
          /\ scrape[s].stage = "checked"
      BY <2>3 DEF Http!ReadRequests, HttpInv, Http!TypeOK
    <3>2. scrape'[s].stage = "reading" /\ scrape'[s].due = scrape[s].due /\ scrape'[s].complete
      BY <3>1, DueIsCovered DEF HttpInv, Http!TypeOK
    <3> QED  BY <3>1, <3>2, <2>0 DEF DueIsCounted, Due, Http!CountOf
  <2>4. CASE Http!ReadDuration(s)
    <3> DEFINE all == scrape[s].complete /\ Http!Covers(duration, s)
    <3>1. scrape'[s] = [stage |-> "ok", due |-> {}, complete |-> all]
          /\ scrape[s].stage = "reading"
      BY <2>4 DEF Http!ReadDuration, HttpInv, Http!TypeOK
    <3>2. all  BY <3>1, <2>0, DueIsCovered DEF DueIsCounted
    <3> HIDE DEF all
    <3>3. scrape'[s].stage = "ok" /\ scrape'[s].complete = all
      BY <3>1
    <3> QED  BY <3>2, <3>3 DEF DueIsCounted
  <2>5. CASE Http!ScrapeFails(s)
    <3>1. scrape'[s] = [Http!Unread EXCEPT !.stage = "unavailable"]
      BY <2>5 DEF Http!ScrapeFails, HttpInv, Http!TypeOK
    <3> QED  BY <3>1 DEF Http!Unread, DueIsCounted
  <2> QED  BY <2>1, <2>2, <2>3, <2>4, <2>5 DEF Http!Scraping
<1> QED  BY <1>1, <1>2, <1>3, <1>4, <1>5, <1>6 DEF HttpInv

\* What the run checks of the wrapper and its metrics.
LEMMA WrapperIsTruthful ==
  ASSUME HttpInv
  PROVE  /\ Http!CompletionIsTruthful
         /\ Http!EveryExchangeIsCountedOnce
         /\ Http!ScrapeIsComplete
<1>1. Http!CompletionIsTruthful
  <2> SUFFICES ASSUME NEW r \in Requests, result[r] # Http!NoResult
               PROVE  /\ wire[r].whole /\ ~sending[r] => result[r].completion = "complete"
                      /\ result[r].completion = "complete" => wire[r].whole
                      /\ result[r].completion \in {"send_failed", "disconnected"} =>
                           client[r] = "gone" /\ ~wire[r].whole
                      /\ result[r].status # "none" => result[r].status = wire[r].status
                      /\ result[r].status = "none" => wire[r].status = "none" \/ sending[r]
    BY DEF Http!CompletionIsTruthful
  <2>0. SeenIsTaken(r) /\ ResultIsSeen(r)  BY DEF HttpInv
  <2>1. Resolved(r) /\ SeenIsTaken(r)  BY <2>0 DEF ResultIsSeen
  <2>2. result[r].status = seen[r].status /\ result[r].completion = Http!ResolveCompletion(r)
    <3>1. result[r] = [status |-> seen[r].status, completion |-> Http!ResolveCompletion(r),
                       execution |-> execution[r]]
      BY <2>0, <2>1 DEF ResultIsSeen
    <3> QED  BY <3>1
  <2>3. seen[r].finished => wire[r].whole
    BY <2>1 DEF SeenIsTaken
  <2> QED
    BY <2>1, <2>2, <2>3 DEF SeenIsTaken, Resolved, Http!ResolveCompletion, HttpInv, Http!TypeOK
<1>2. Http!EveryExchangeIsCountedOnce
  <2> SUFFICES ASSUME ~failed,
                      NEW l \in DOMAIN requests \cup DOMAIN duration \cup {result[r] : r \in Requests}
               PROVE  /\ Http!CountOf(l, requests) = Cardinality(Counted(l))
                      /\ Http!CountOf(l, duration) = Cardinality(Observed(l))
    <3>1. \A l : Http!Recorded(l, {"counted", "done"}) = Cardinality(Counted(l))
                 /\ Http!Recorded(l, {"done"}) = Cardinality(Observed(l))
      <4> SUFFICES ASSUME NEW l
                   PROVE  Http!Recorded(l, {"counted", "done"}) = Cardinality(Counted(l))
                          /\ Http!Recorded(l, {"done"}) = Cardinality(Observed(l))
        OBVIOUS
      <4>1. {r \in Requests \ excluded : stage[r] \in {"done"} /\ result[r] = l} = Observed(l)
        BY DEF Observed
      <4>2. Http!Recorded(l, {"done"}) = Cardinality(Observed(l))
        BY <4>1, SameCardinality DEF Http!Recorded
      <4>3. Http!Recorded(l, {"counted", "done"}) = Cardinality(Counted(l))
        BY SameCardinality DEF Http!Recorded, Counted
      <4> QED  BY <4>2, <4>3
    <3> QED  BY <3>1 DEF Http!EveryExchangeIsCountedOnce
  <2>1. l \in Http!Labels \cup {Http!NoResult}
    BY DEF HttpInv, Http!TypeOK
  <2>2. CASE l \in Http!Labels
    BY <2>2 DEF HttpInv, ResultsAreCounted
  <2>3. CASE l = Http!NoResult
    <3>1. Http!NoResult \notin Http!Labels
      BY DEF Http!NoResult, Http!Labels, Http!HttpCompletion
    <3>2. Http!CountOf(l, requests) = 0 /\ Http!CountOf(l, duration) = 0
      BY <2>3, <3>1 DEF HttpInv, Http!TypeOK, Http!CountOf
    <3>3. \A r \in Requests : Resolved(r) => result[r] # l
      BY <2>3, <3>1, ResultIsLabel
    <3>4. Counted(l) = {} /\ Observed(l) = {}
      BY <3>3 DEF Counted, Observed, Resolved
    <3> QED  BY <3>2, <3>4, FS_EmptySet
  <2> QED  BY <2>1, <2>2, <2>3
<1>3. Http!ScrapeIsComplete
  BY DEF HttpInv, DueIsCounted, Http!ScrapeIsComplete
<1> QED  BY <1>1, <1>2, <1>3

-----------------------------------------------------------------------------
(* The exchange from end to end. *)

\* An answer is made when the transaction is over, and sent when the session
\* has been closed.
AnswerIsSound(r) ==
  /\ r \notin reserving =>
       answer[r] = "none" /\ phase[r] = "new" /\ seen[r].status \in OtherStatuses \cup {"none"}
  /\ answer[r] # "none" => phase[r] \in {"counted", "done"} \/ (phase[r] = "new" /\ answer[r] = "4xx")
  /\ answer[r] # "200" /\ (answer[r] = "201" => outcome[r] = "committed")
  /\ answer[r] \in {"4xx", "503"} => outcome[r] # "committed"
  /\ r \in reserving =>
       /\ sending[r] \/ wire[r].status # "none" =>
            answer[r] # "none" /\ phase[r] \in {"new", "done"} /\ ~HasConnection(r)
       /\ wire[r].status \in {"none", answer[r]} /\ seen[r].status \in {"none", answer[r]}

\* The wrapper has logged the errors that it has resolved.
ErrorIsReported(r) ==
  /\ r \in reported => execution[r] = "error" /\ Resolved(r)
  /\ Resolved(r) /\ execution[r] = "error" /\ ~failed => r \in reported

\* The reservations counted as created were committed, and counted as such.
CreatedOnes ==
  {r \in Requests \ excluded : stage[r] \in {"counted", "done"} /\ result[r].status = "201"}

CreationsAreCounted ==
  /\ IsFiniteSet(CreatedCounts)
  /\ ~failed => Created = Cardinality(CreatedOnes)

ScrapeIsSound(s) ==
  /\ read[s].stage = "read" => scrape[s].stage = "ok"
  /\ read[s].stage = "none" /\ ~failed => read[s].created <= Cardinality(CreatedOnes)
  /\ read[s].stage = "none" => (read[s].lossy => failed)
  /\ read[s].stage = "read" /\ ~read[s].lossy => read[s].created <= read[s].committed

OwnTypeOK ==
  /\ reserving \in SUBSET Requests
  /\ answer \in [Requests -> Statuses \cup {"none"}]
  /\ reported \in SUBSET Requests
  /\ read \in [Scrapes -> [created: Nat, committed: Nat, stage: {"none", "read"}, lossy: BOOLEAN]]

ExchangeInv ==
  /\ OwnTypeOK /\ HttpInv /\ SessionInv
  /\ \A r \in Requests : AnswerIsSound(r) /\ ErrorIsReported(r)
  /\ CreationsAreCounted
  /\ \A s \in Scrapes : ScrapeIsSound(s)

\* No step takes the flag back.
LEMMA PoolFailures ==
  ASSUME SessionInv, NEW r \in Requests, PoolStep(r)
  PROVE  failed' \in {failed, TRUE}
  BY DEF SessionInv, TypeOK, PoolStep, OpenSession, Refuse, PoolTimesOut, Begin,
         RecordAcquisition, Cancel, Fail, RecordTransaction, CloseSession, Checkout,
         CannotConnect, Commit, Return, CheckedOut, Returned, Record

\* A step of a request's session leaves the other requests alone.
LEMMA PoolStepIsLocal ==
  ASSUME SessionInv, NEW r \in Requests, PoolStep(r), NEW q \in Requests \ {r}
  PROVE  phase'[q] = phase[q] /\ outcome'[q] = outcome[q] /\ HasConnection(q)' = HasConnection(q)
<1> USE DEF SessionInv, TypeOK, Move
<1>1. phase'[q] = phase[q] /\ outcome'[q] = outcome[q]
  BY DEF PoolStep, OpenSession, Refuse, PoolTimesOut, Begin, RecordAcquisition, Cancel, Fail,
         RecordTransaction, CloseSession, Checkout, CannotConnect, Commit, Return
<1>2. \A c \in Records : Holds(q, c)' <=> Holds(q, c)
  <2>1. CASE \E c \in Records : Checkout(r, c)
    BY <2>1, NoRequestAssumption DEF Checkout, Holds
  <2>2. CASE \E c \in Records : Commit(r, c) \/ Return(r, c)
    BY <2>2, NoRequestAssumption DEF Commit, Return, Holds
  <2>3. CASE UNCHANGED holder  BY <2>3 DEF Holds
  <2> QED
    BY <2>1, <2>2, <2>3
    DEF PoolStep, OpenSession, Refuse, PoolTimesOut, Begin, RecordAcquisition, Cancel, Fail,
        RecordTransaction, CloseSession, CannotConnect
<1> QED  BY <1>1, <1>2 DEF HasConnection

\* The created ones are a finite set, that only grows.
LEMMA CreatedOnesAreFinite ==
  ASSUME HttpInv PROVE IsFiniteSet(CreatedOnes) /\ Cardinality(CreatedOnes) \in Nat
<1>1. CreatedOnes \subseteq Arrived  BY DEF CreatedOnes, Arrived
<1> QED  BY <1>1, FS_Subset, FS_CardinalityType DEF HttpInv

\* Steps that touch none of what has been counted or read.
LEMMA RecordsKept ==
  ASSUME ExchangeInv, UNCHANGED <<requests, scrape, read>>, CreatedOnes' = CreatedOnes,
         failed' \in {failed, TRUE}
  PROVE  CreationsAreCounted' /\ \A s \in Scrapes : ScrapeIsSound(s)'
<1>1. CreatedCounts' = CreatedCounts  BY DEF CreatedCounts
<1>2. ~failed' => ~failed  OBVIOUS
<1>3. CreationsAreCounted'
  BY <1>1, <1>2 DEF ExchangeInv, CreationsAreCounted, Created
<1>4. \A s \in Scrapes : ScrapeIsSound(s)'
  BY <1>2 DEF ExchangeInv, ScrapeIsSound
<1> QED  BY <1>3, <1>4

\* The session of a reservation.
LEMMA ReserveKeeps ==
  ASSUME ExchangeInv, NEW r \in Requests, Reserve(r) \/ EndSession(r)
  PROVE  ExchangeInv'
<1> USE DEF ExchangeInv
<1>1. PoolStep(r)
  BY DEF Reserve, EndSession, Session, PoolStep
<1>2. UNCHANGED <<excluded, stage, client, sending, wire, seen, execution, result,
                  requests, duration, scrape, reserving, answer, reported, read>>
  BY DEF Reserve, EndSession, httpVars, ownVars
<1>3. failed' \in {failed, TRUE}  BY <1>1, PoolFailures
<1>4. SessionInv' /\ HttpInv'
  BY <1>1, <1>2, <1>3, SessionStep, OtherStepKeepsHttp DEF httpVars
<1>5. OwnTypeOK'  BY <1>2 DEF OwnTypeOK
<1>6. \A q \in Requests : ErrorIsReported(q)'
  <2>1. ~failed' => ~failed  BY <1>3
  <2> QED  BY <2>1, <1>2 DEF ErrorIsReported, Resolved
<1>7. CreatedOnes' = CreatedOnes  BY <1>2 DEF CreatedOnes
<1>8. CreationsAreCounted' /\ \A s \in Scrapes : ScrapeIsSound(s)'
  BY <1>2, <1>3, <1>7, RecordsKept
<1>9. \A q \in Requests \ {r} : AnswerIsSound(q)'
  BY <1>1, <1>2, PoolStepIsLocal DEF AnswerIsSound
<1>10. AnswerIsSound(r)'
  <2> USE <1>2 DEF SessionInv, TypeOK, Move
  <2>1. /\ AnswerIsSound(r) /\ SessionIsSound(r)
        /\ r \in reserving \/ phase[r] # "new"
        /\ answer[r] # "none" => phase[r] \in {"counted", "done"}
    <3>1. phase[r] = "new" => r \in reserving /\ answer[r] = "none"
      BY DEF Reserve, EndSession, Session, Working, OpenSession, Refuse, PoolTimesOut, Begin,
         RecordAcquisition, Cancel, Fail, RecordTransaction, CloseSession, Checkout,
         CannotConnect, Commit, Return
    <3> QED  BY <3>1 DEF AnswerIsSound
  <2>2. r \in reserving  BY <2>1 DEF AnswerIsSound
  <2>3. /\ answer[r] # "none" => phase'[r] \in {"counted", "done"}
        /\ phase[r] \in {"counted", "done"} => outcome'[r] = outcome[r]
    BY <1>1, <2>1
    DEF PoolStep, OpenSession, Refuse, PoolTimesOut, Begin, RecordAcquisition, Cancel, Fail,
        RecordTransaction, CloseSession, Checkout, CannotConnect, Commit, Return
  <2>4. ~(sending[r] \/ wire[r].status # "none")
    <3> SUFFICES ASSUME sending[r] \/ wire[r].status # "none" PROVE FALSE  OBVIOUS
    <3>1. phase[r] = "done" /\ ~HasConnection(r)
      BY <2>1, <2>2 DEF AnswerIsSound
    <3> QED
      BY <1>1, <3>1
      DEF PoolStep, OpenSession, Refuse, PoolTimesOut, Begin, RecordAcquisition, Cancel, Fail,
          RecordTransaction, CloseSession, Checkout, CannotConnect, Commit, Return, HasConnection
  <2> QED  BY <2>1, <2>2, <2>3, <2>4 DEF AnswerIsSound
<1> QED  BY <1>4, <1>5, <1>6, <1>8, <1>9, <1>10

\* An answer is made.
LEMMA AnswerKeeps ==
  ASSUME ExchangeInv, NEW r \in Requests, MakeAnswer(r) \/ RefuseBody(r)
  PROVE  ExchangeInv'
<1> USE DEF ExchangeInv
<1>1. UNCHANGED <<excluded, stage, client, sending, wire, seen, execution, result, requests,
                  duration, scrape, reserving, reported, read, failed, phase, cancelled,
                  acquisition, outcome, holder, started, metric>>
  BY DEF MakeAnswer, RefuseBody, httpVars, dbVars
<1>2. HttpInv' /\ SessionInv'
  BY <1>1, OtherStepKeepsHttp, OtherStepKeepsSessions DEF httpVars, dbVars
<1>3. PICK a \in Statuses : /\ answer' = [answer EXCEPT ![r] = a]
                            /\ MakeAnswer(r) => a \in Answers(r)
                            /\ RefuseBody(r) => a = "4xx"
  BY DEF MakeAnswer, RefuseBody, Answers, Statuses
<1>4. OwnTypeOK'  BY <1>1, <1>3 DEF OwnTypeOK
<1>5. \A q \in Requests : ErrorIsReported(q)'
  BY <1>1 DEF ErrorIsReported, Resolved
<1>6. CreatedOnes' = CreatedOnes  BY <1>1 DEF CreatedOnes
<1>7. CreationsAreCounted' /\ \A s \in Scrapes : ScrapeIsSound(s)'
  BY <1>1, <1>6, RecordsKept
<1>8. \A q \in Requests \ {r} : AnswerIsSound(q)'
  BY <1>1, <1>3 DEF AnswerIsSound, HasConnection, Holds, OwnTypeOK
<1>9. AnswerIsSound(r)'
  <2>1. AnswerIsSound(r) /\ SessionIsSound(r)  BY DEF SessionInv
  <2>2. answer[r] = "none" /\ r \in reserving /\ phase[r] \in {"new", "counted"}
    BY <2>1 DEF MakeAnswer, RefuseBody, Working, AnswerIsSound
  <2>3. /\ a # "200" /\ (a = "201" => outcome[r] = "committed")
        /\ a \in {"4xx", "503"} => outcome[r] # "committed"
        /\ phase[r] = "new" => a = "4xx"
    <3>1. CASE MakeAnswer(r)
      BY <3>1, <1>3, <2>1 DEF MakeAnswer, Answers
    <3>2. CASE RefuseBody(r)
      BY <3>2, <1>3, <2>1 DEF RefuseBody, SessionIsSound
    <3> QED  BY <3>1, <3>2
  <2>4. answer'[r] = a  BY <1>3 DEF OwnTypeOK
  <2> QED
    BY <1>1, <2>1, <2>2, <2>3, <2>4 DEF AnswerIsSound, HasConnection, Holds
<1> QED  BY <1>2, <1>4, <1>5, <1>7, <1>8, <1>9

\* The application, its client and the server.
LEMMA ApplicationOfIsStep ==
  ASSUME NEW r \in Requests, Exchange(r) PROVE ApplicationStep(r)
  BY DEF Exchange, Proceed, BreakOff, ApplicationStep, Http!Application

LEMMA ApplicationAnswers ==
  ASSUME ExchangeInv, NEW r \in Requests, Exchange(r)
  PROVE  AnswerIsSound(r)'
<1>1. UNCHANGED <<reserving, answer, phase, outcome, holder, cancelled, acquisition>>
  BY DEF Exchange, dbVars, ownVars
<1>2. HasConnection(r)' = HasConnection(r)
  BY <1>1 DEF HasConnection, Holds
<1>3. AnswerIsSound(r) /\ SessionIsSound(r) /\ SeenIsTaken(r)
  BY DEF ExchangeInv, SessionInv, HttpInv
<1>4. ASSUME r \notin reserving
      PROVE  seen'[r].status \in OtherStatuses \cup {"none"}
  <2> USE <1>3, <1>4 DEF AnswerIsSound, ExchangeInv, HttpInv, Http!TypeOK
  <2>1. CASE Http!SendReturns(r)
    <3>1. wire'[r].status \in OtherStatuses
      BY <2>1, <1>4
      DEF Exchange, Proceed, BreakOff, Http!SendReturns, Http!Arrive, Http!Send, Http!SendFails,
          Http!Receive, Http!Return, Http!Raise, Http!Cancel, Http!ClientGoes, Http!Ends,
          Http!Running, Http!exchange
    <3>2. seen'[r].status = wire'[r].status
      BY <2>1 DEF Http!SendReturns
    <3> QED  BY <3>1, <3>2
  <2>2. CASE ~Http!SendReturns(r)
    <3>1. seen'[r].status = seen[r].status
      BY <2>2
      DEF Exchange, Proceed, BreakOff, Http!Arrive, Http!Send, Http!SendFails,
          Http!Receive, Http!Return, Http!Raise, Http!Cancel, Http!ClientGoes, Http!exchange
    <3> QED  BY <3>1
  <2> QED  BY <2>1, <2>2
<1>5. ASSUME r \in reserving
      PROVE  /\ sending'[r] \/ wire'[r].status # "none" =>
                  answer[r] # "none" /\ phase[r] \in {"new", "done"} /\ ~HasConnection(r)
             /\ wire'[r].status \in {"none", answer[r]} /\ seen'[r].status \in {"none", answer[r]}
  <2> USE <1>3, <1>5 DEF AnswerIsSound, ExchangeInv, HttpInv, Http!TypeOK
  <2>1. CASE Http!Send(r) /\ Responding(r)
    BY <2>1 DEF Http!Send, Responding, SessionIsSound
  <2>2. CASE Http!SendReturns(r) /\ wire'[r].status = answer[r]
    <3>1. seen'[r].status = wire'[r].status /\ sending[r]
      BY <2>2 DEF Http!SendReturns
    <3> QED  BY <2>2, <3>1
  <2>3. CASE Http!Cancel(r) /\ wire'[r].status \in {wire[r].status, answer[r]}
    <3>1. UNCHANGED <<seen, sending>> /\ (wire' = wire \/ sending[r])
      BY <2>3 DEF Http!Cancel, Http!Ends
    <3> QED  BY <2>3, <3>1
  <2>4. CASE Http!Arrive(r) \/ Http!Return(r) \/ Http!Raise(r) \/ Http!ClientGoes(r)
    BY <2>4 DEF Http!Arrive, Http!Return, Http!Raise, Http!ClientGoes, Http!Ends, Http!exchange
  <2>5. CASE Http!SendFails(r) \/ Http!Receive(r)
    <3>1. UNCHANGED <<wire, sending>> /\ seen'[r].status = seen[r].status
      BY <2>5 DEF Http!SendFails, Http!Receive, Http!Ends
    <3> QED  BY <3>1
  <2> QED  BY <2>1, <2>2, <2>3, <2>4, <2>5 DEF Exchange, Proceed, BreakOff
<1> QED  BY <1>1, <1>2, <1>3, <1>4, <1>5 DEF AnswerIsSound

LEMMA ApplicationKeeps ==
  ASSUME ExchangeInv, NEW r \in Requests, Exchange(r)
  PROVE  ExchangeInv'
<1> USE DEF ExchangeInv
<1>1. ApplicationStep(r)  BY ApplicationOfIsStep
<1>2. /\ UNCHANGED <<excluded, result, requests, duration, failed, scrape>>
      /\ \A q \in Requests \ {r} :
           /\ stage'[q] = stage[q] /\ client'[q] = client[q] /\ sending'[q] = sending[q]
           /\ wire'[q] = wire[q] /\ seen'[q] = seen[q] /\ execution'[q] = execution[q]
      /\ stage[r] \in {"new", "running"} /\ stage'[r] \in {"running", "ended"}
  BY <1>1, ApplicationIsLocal
<1>3. UNCHANGED <<phase, cancelled, acquisition, outcome, holder, started, metric,
                  reserving, answer, reported, read>>
  BY DEF Exchange, dbVars, ownVars
<1>4. HttpInv' /\ SessionInv'
  BY <1>1, <1>2, <1>3, ApplicationKeepsHttp, OtherStepKeepsSessions DEF dbVars
<1>5. OwnTypeOK'  BY <1>3 DEF OwnTypeOK
<1>6. \A q \in Requests : ErrorIsReported(q)'
  BY <1>2, <1>3 DEF ErrorIsReported, Resolved
<1>7. CreatedOnes' = CreatedOnes  BY <1>2 DEF CreatedOnes
<1>8. CreationsAreCounted' /\ \A s \in Scrapes : ScrapeIsSound(s)'
  BY <1>2, <1>3, <1>7, RecordsKept
<1>9. \A q \in Requests \ {r} : AnswerIsSound(q)'
  BY <1>2, <1>3 DEF AnswerIsSound, HasConnection, Holds
<1> QED  BY <1>4, <1>5, <1>6, <1>8, <1>9, ApplicationAnswers

\* The finally block of the wrapper.
LEMMA ExchangeFinally ==
  ASSUME ExchangeInv, NEW r \in Requests, ReportError(r) \/ RecordExchange(r)
  PROVE  /\ Http!Finally(r)
         /\ UNCHANGED <<phase, cancelled, acquisition, outcome, holder, started, metric,
                        reserving, answer, read>>
  BY DEF ReportError, RecordExchange, Http!Finally, dbVars, ownVars

\* A counted label has one more element in CreatedCounts, if it is about a creation.
LEMMA CountCreation ==
  ASSUME HttpInv, CreationsAreCounted, NEW r \in Requests, Http!Count(r)
  PROVE  CreationsAreCounted'
<1> DEFINE l == result[r]
           n == Http!CountOf(l, requests)
<1>1. l \in Http!Labels /\ r \in Requests \ excluded
  BY ResultIsLabel DEF Http!Count, Resolved, HttpInv, ResultIsSeen
<1>2. /\ DOMAIN requests \subseteq Http!Labels /\ requests \in [DOMAIN requests -> Nat \ {0}]
      /\ requests' = Http!Add(requests, r) /\ failed' = failed
  BY DEF HttpInv, Http!TypeOK, Http!Count
<1>3. /\ DOMAIN requests' = DOMAIN requests \cup {l} /\ n \in Nat
      /\ \A m \in DOMAIN requests' :
           requests'[m] = Http!CountOf(m, requests) + (IF m = l THEN 1 ELSE 0)
  BY <1>1, <1>2, AddCounts DEF Http!Add
<1>4. CASE l.status # "201"
  <2>1. CreatedCounts' = CreatedCounts
    <3>1. {m \in DOMAIN requests' : m.status = "201"} = {m \in DOMAIN requests : m.status = "201"}
      BY <1>3, <1>4
    <3>2. \A m \in {k \in DOMAIN requests : k.status = "201"} : requests'[m] = requests[m]
      BY <1>2, <1>3, <1>4 DEF Http!CountOf
    <3>3. CreatedCounts' = UNION {{m} \X (1..requests'[m]) : m \in {k \in DOMAIN requests : k.status = "201"}}
      BY <3>1 DEF CreatedCounts
    <3> QED  BY <3>2, <3>3 DEF CreatedCounts
  <2>2. CreatedOnes' = CreatedOnes
    BY <1>4 DEF CreatedOnes, Http!Count, Http!exchange, HttpInv, Http!TypeOK
  <2> QED  BY <2>1, <2>2, <1>2 DEF CreationsAreCounted, Created
<1>5. CASE l.status = "201"
  <2>1. CreatedCounts' = CreatedCounts \cup {<<l, n + 1>>} /\ <<l, n + 1>> \notin CreatedCounts
    <3> HIDE DEF l, n
    <3>1. \A m, i : <<m, i>> \in CreatedCounts
                      <=> m \in DOMAIN requests /\ m.status = "201" /\ i \in 1..requests[m]
      BY DEF CreatedCounts
    <3>2. \A m, i : <<m, i>> \in CreatedCounts'
                      <=> m \in DOMAIN requests' /\ m.status = "201" /\ i \in 1..requests'[m]
      BY DEF CreatedCounts
    <3>3. \A e \in CreatedCounts \cup CreatedCounts' : e = <<e[1], e[2]>>
      BY DEF CreatedCounts
    <3>4. n = IF l \in DOMAIN requests THEN requests[l] ELSE 0
      BY DEF Http!CountOf, l, n
    <3>5. \A m \in DOMAIN requests \ {l} : requests'[m] = requests[m]
      BY <1>2, <1>3 DEF Http!CountOf
    <3>6. requests'[l] = n + 1
      BY <1>3 DEF n
    <3>7. <<l, n + 1>> \notin CreatedCounts
      BY <3>1, <3>4, <1>3
    <3>8. \A m, i : <<m, i>> \in CreatedCounts' <=> <<m, i>> \in CreatedCounts \/ <<m, i>> = <<l, n + 1>>
      <4> SUFFICES ASSUME NEW m, NEW i
                   PROVE  <<m, i>> \in CreatedCounts'
                            <=> <<m, i>> \in CreatedCounts \/ <<m, i>> = <<l, n + 1>>
        OBVIOUS
      <4>1. CASE m # l
        BY <4>1, <3>1, <3>2, <3>5, <1>3
      <4>2. CASE m = l
        <5>1. <<m, i>> \in CreatedCounts' <=> i \in 1..(n + 1)
          BY <4>2, <3>2, <3>6, <1>3, <1>5
        <5>2. <<m, i>> \in CreatedCounts <=> i \in 1..n
          BY <4>2, <3>1, <3>4, <1>5
        <5>3. i \in 1..(n + 1) <=> i \in 1..n \/ i = n + 1
          BY <1>3
        <5> QED  BY <4>2, <5>1, <5>2, <5>3
      <4> QED  BY <4>1, <4>2
    <3> QED  BY <3>3, <3>7, <3>8
  <2>2. CreatedOnes' = CreatedOnes \cup {r} /\ r \notin CreatedOnes
    BY <1>1, <1>5 DEF CreatedOnes, Http!Count, Http!exchange, HttpInv, Http!TypeOK
  <2>3. /\ IsFiniteSet(CreatedCounts \cup {<<l, n + 1>>})
        /\ Cardinality(CreatedCounts \cup {<<l, n + 1>>}) = Cardinality(CreatedCounts) + 1
    BY <2>1, FS_AddElement DEF CreationsAreCounted
  <2>4. Cardinality(CreatedOnes \cup {r}) = Cardinality(CreatedOnes) + 1
    BY <2>2, CreatedOnesAreFinite, FS_AddElement
  <2> QED  BY <1>2, <2>1, <2>2, <2>3, <2>4 DEF CreationsAreCounted, Created
<1> QED  BY <1>4, <1>5

LEMMA FinallyKeeps ==
  ASSUME ExchangeInv, NEW r \in Requests, ReportError(r) \/ RecordExchange(r)
  PROVE  ExchangeInv'
<1> USE DEF ExchangeInv
<1>1. /\ Http!Finally(r)
      /\ UNCHANGED <<phase, cancelled, acquisition, outcome, holder, started, metric,
                     reserving, answer, read>>
  BY ExchangeFinally
<1>2. /\ UNCHANGED <<excluded, client, sending, wire, seen, execution, scrape>>
      /\ \A q \in Requests \ {r} : stage'[q] = stage[q] /\ result'[q] = result[q]
      /\ stage[r] \in {"ended", "resolved", "counted"}
      /\ stage'[r] \in {"resolved", "counted", "done"}
      /\ failed' \in BOOLEAN /\ (~failed' => ~failed)
  BY <1>1, FinallyIsLocal
<1>3. failed' \in {failed, TRUE}
  BY <1>2 DEF HttpInv, Http!TypeOK
<1>4. HttpInv' /\ SessionInv'
  BY <1>1, <1>3, FinallyKeepsHttp, OtherStepKeepsSessions DEF dbVars
<1>5. reported' \in SUBSET Requests /\ \A q \in Requests \ {r} : q \in reported' <=> q \in reported
  BY DEF ReportError, RecordExchange, ownVars, OwnTypeOK
<1>6. OwnTypeOK'  BY <1>1, <1>5 DEF OwnTypeOK
<1>7. \A q \in Requests : AnswerIsSound(q)'
  BY <1>1, <1>2 DEF AnswerIsSound, HasConnection, Holds
<1>8. \A q \in Requests \ {r} : ErrorIsReported(q)'
  BY <1>2, <1>5 DEF ErrorIsReported, Resolved
<1>9. ErrorIsReported(r)'
  <2>1. ErrorIsReported(r)  OBVIOUS
  <2>2. CASE ReportError(r)
    <3>1. r \notin reported  BY <2>1, <2>2 DEF ErrorIsReported, Resolved, ReportError, Http!Resolve
    <3>2. reported' = IF execution[r] = "error" THEN reported \cup {r} ELSE reported
      BY <2>2 DEF ReportError, FilterPasses, LogRecord, EVENTS
    <3> QED  BY <3>1, <3>2, <2>2, <1>2 DEF ErrorIsReported, Resolved
  <2>3. CASE RecordExchange(r) /\ Http!ErrorLogFails(r)
    <3>1. failed' /\ reported' = reported  BY <2>3 DEF Http!ErrorLogFails, RecordExchange, ownVars
    <3> QED  BY <3>1, <2>1, <1>2 DEF ErrorIsReported, Resolved
  <2>4. CASE RecordExchange(r) /\ ~Http!ErrorLogFails(r)
    <3>1. reported' = reported /\ Resolved(r)
      BY <2>4 DEF RecordExchange, ownVars, Resolved, Http!Count, Http!Observe, Http!RecordFails
    <3> QED  BY <3>1, <2>1, <1>2 DEF ErrorIsReported, Resolved
  <2> QED  BY <2>2, <2>3, <2>4
<1>10. CreationsAreCounted'
  <2>1. CASE Http!Count(r)  BY <2>1, CountCreation
  <2>2. CASE failed' /\ requests' = requests
    <3>1. CreatedCounts' = CreatedCounts  BY <2>2 DEF CreatedCounts
    <3> QED  BY <2>2, <3>1 DEF CreationsAreCounted
  <2>3. CASE (Http!Resolve(r) \/ Http!Observe(r)) /\ ~failed'
    <3>1. CreatedCounts' = CreatedCounts
      BY <2>3 DEF CreatedCounts, Http!Resolve, Http!Observe, Http!metrics
    <3>2. CreatedOnes' = CreatedOnes
      BY <2>3
      DEF CreatedOnes, Http!Resolve, Http!Observe, Http!exchange, HttpInv, Http!TypeOK
    <3> QED  BY <2>3, <3>1, <3>2, <1>2 DEF CreationsAreCounted, Created
  <2> QED
    BY <2>1, <2>2, <2>3, <1>1
    DEF Http!Finally, Http!Resolve, Http!ErrorLogFails, Http!Observe, Http!RecordFails, Http!metrics
<1>11. /\ Cardinality(CreatedOnes) <= Cardinality(CreatedOnes')
       /\ Cardinality(CreatedOnes') \in Nat
  <2>1. Resolved(r) => result' = result  BY <1>1, FinallyResults
  <2>2. stage[r] \in {"counted", "done"} => stage'[r] \in {"counted", "done"}
    BY <1>1, <1>2
    DEF Http!Finally, Http!Resolve, Http!ErrorLogFails, Http!Count, Http!Observe, Http!RecordFails,
        HttpInv, Http!TypeOK
  <2>3. CreatedOnes \subseteq CreatedOnes'
    BY <2>1, <2>2, <1>2 DEF CreatedOnes, Resolved
  <2>4. CreatedOnes' \subseteq Arrived'  BY DEF CreatedOnes, Arrived
  <2>5. IsFiniteSet(CreatedOnes')  BY <1>4, <2>4, FS_Subset DEF HttpInv
  <2> QED  BY <2>3, <2>5, FS_Subset, FS_CardinalityType
<1>12. ASSUME NEW s \in Scrapes PROVE ScrapeIsSound(s)'
  <2>1. read[s].created \in Nat /\ Cardinality(CreatedOnes) \in Nat
    BY CreatedOnesAreFinite DEF OwnTypeOK
  <2> QED  BY <2>1, <1>1, <1>2, <1>11 DEF ScrapeIsSound
<1> QED  BY <1>4, <1>6, <1>7, <1>8, <1>9, <1>10, <1>12

\* What a scrape is shown as created is shown as committed.
LEMMA CreatedIsCommitted ==
  ASSUME ExchangeInv, ~failed
  PROVE  Cardinality(CreatedOnes) <= metric["committed"]
<1> USE DEF ExchangeInv
<1>1. CreatedOnes \subseteq EndedAs("committed")
  <2> SUFFICES ASSUME NEW r \in CreatedOnes PROVE r \in EndedAs("committed")  OBVIOUS
  <2>1. r \in Requests /\ Resolved(r) /\ result[r].status = "201"
    BY DEF CreatedOnes, Resolved
  <2>2. seen[r].status = "201"
    <3>1. result[r] = [status |-> seen[r].status, completion |-> Http!ResolveCompletion(r),
                       execution |-> execution[r]]
      BY <2>1 DEF HttpInv, ResultIsSeen
    <3> QED  BY <3>1, <2>1
  <2>3. AnswerIsSound(r)  BY <2>1
  <2>4. r \in reserving
    BY <2>2, <2>3, OtherStatusesAssumption DEF AnswerIsSound
  <2>5. answer[r] = "201"
    BY <2>2, <2>3, <2>4 DEF AnswerIsSound
  <2> QED  BY <2>1, <2>3, <2>5 DEF AnswerIsSound, EndedAs
<1>2. Cardinality(CreatedOnes) <= Cardinality(EndedAs("committed"))
  BY <1>1, CountedSetsAreFinite, FS_Subset
<1> QED  BY <1>2 DEF SessionInv, CountsAreTrue, TransactionOutcomes

\* GET /metrics.
LEMMA ScrapingKeeps ==
  ASSUME ExchangeInv, NEW s \in Scrapes, Scraping(s)
  PROVE  ExchangeInv'
<1> USE DEF ExchangeInv
<1>1. UNCHANGED <<phase, cancelled, acquisition, outcome, holder, started, metric,
                  reserving, answer, reported>>
  BY DEF Scraping, ReadHttp, ReadDatabase, dbVars, ownVars
<1>2. /\ UNCHANGED <<excluded, client, sending, wire, seen, execution, stage, result,
                     requests, duration>>
      /\ \A t \in Scrapes \ {s} : scrape'[t] = scrape[t] /\ read'[t] = read[t]
      /\ failed' \in {failed, TRUE} /\ HttpInv'
  <2>1. CASE Http!Scraping(s) /\ \A t \in Scrapes \ {s} : read'[t] = read[t]
    BY <2>1, ScrapingIsLocal, ScrapingKeepsHttp
  <2>2. CASE ReadDatabase(s)
    BY <2>2, OtherStepKeepsHttp DEF ReadDatabase, httpVars, OwnTypeOK
  <2> QED
    BY <2>1, <2>2 DEF Scraping, ReadHttp, Http!Scraping, ownVars, OwnTypeOK
<1>3. SessionInv'
  BY <1>1, <1>2, OtherStepKeepsSessions DEF dbVars
<1>4. ~failed' => ~failed  BY <1>2
<1>5. \A r \in Requests : AnswerIsSound(r)' /\ ErrorIsReported(r)'
  BY <1>1, <1>2, <1>4 DEF AnswerIsSound, HasConnection, Holds, ErrorIsReported, Resolved
<1>6. CreatedOnes' = CreatedOnes /\ CreatedCounts' = CreatedCounts
  BY <1>2 DEF CreatedOnes, CreatedCounts
<1>7. CreationsAreCounted'
  BY <1>4, <1>6 DEF CreationsAreCounted, Created
<1>8. \A t \in Scrapes \ {s} : ScrapeIsSound(t)'
  BY <1>2, <1>4, <1>6 DEF ScrapeIsSound
<1>9. ScrapeIsSound(s) /\ read[s] \in [created: Nat, committed: Nat, stage: {"none", "read"}, lossy: BOOLEAN]
  BY DEF OwnTypeOK
<1>10. Created \in Nat
  BY FS_CardinalityType DEF CreationsAreCounted, Created
<1>11. OwnTypeOK' /\ ScrapeIsSound(s)'
  <2> DEFINE Values == [created: Nat, committed: Nat, stage: {"none", "read"}, lossy: BOOLEAN]
  <2>1. SUFFICES read' \in [Scrapes -> Values] /\ ScrapeIsSound(s)'
    BY <1>1 DEF OwnTypeOK
  <2>2. CASE (Http!Check(s) \/ Http!ReadDuration(s) \/ Http!ScrapeFails(s)) /\ UNCHANGED read
    <3>1. read[s].stage = "none"
      BY <2>2, <1>9 DEF ScrapeIsSound, Http!Check, Http!ReadDuration, Http!ScrapeFails
    <3> QED  BY <2>2, <3>1, <1>4, <1>6, <1>9 DEF ScrapeIsSound, OwnTypeOK
  <2>3. CASE ReadHttp(s)
    <3>1. read' = [read EXCEPT ![s].created = Created, ![s].lossy = failed]
          /\ scrape[s].stage = "checked" /\ failed' = failed
      BY <2>3 DEF ReadHttp, Http!ReadRequests, Http!metrics
    <3>2. [read[s] EXCEPT !.created = Created, !.lossy = failed] \in Values
      BY <1>9, <1>10 DEF HttpInv, Http!TypeOK
    <3>3. read' \in [Scrapes -> Values]
      BY <3>1, <3>2 DEF OwnTypeOK
    <3>4. read'[s].stage = "none" /\ read'[s].created = Created /\ (read'[s].lossy <=> failed)
      BY <3>1, <1>9 DEF ScrapeIsSound, OwnTypeOK
    <3>5. ~failed => Created <= Cardinality(CreatedOnes)
      BY CreatedOnesAreFinite DEF CreationsAreCounted
    <3> QED  BY <3>1, <3>3, <3>4, <3>5, <1>6 DEF ScrapeIsSound
  <2>4. CASE ReadDatabase(s)
    <3>1. read' = [read EXCEPT ![s] = [@ EXCEPT !.committed = metric["committed"], !.stage = "read",
                                               !.lossy = failed]]
          /\ scrape[s].stage = "ok" /\ read[s].stage = "none"
          /\ failed' = failed /\ scrape' = scrape
      BY <2>4 DEF ReadDatabase, httpVars
    <3>2. metric["committed"] \in Nat
      BY DEF SessionInv, TypeOK, Counters, TransactionOutcomes
    <3>3. [read[s] EXCEPT !.committed = metric["committed"], !.stage = "read", !.lossy = failed]
            \in Values
      BY <1>9, <3>2 DEF HttpInv, Http!TypeOK
    <3>4. read' \in [Scrapes -> Values]
      BY <3>1, <3>3 DEF OwnTypeOK
    <3>5. /\ read'[s].stage = "read" /\ read'[s].created = read[s].created
          /\ read'[s].committed = metric["committed"] /\ (read'[s].lossy <=> failed)
      BY <3>1, <1>9 DEF OwnTypeOK
    <3>6. ~failed => read[s].created <= metric["committed"]
      BY <3>1, <3>2, <1>9, CreatedIsCommitted, CreatedOnesAreFinite DEF ScrapeIsSound
    <3> QED  BY <3>1, <3>4, <3>5, <3>6 DEF ScrapeIsSound
  <2> QED  BY <2>2, <2>3, <2>4 DEF Scraping, ownVars
<1> QED  BY <1>2, <1>3, <1>5, <1>7, <1>8, <1>9, <1>11

\* What the server makes of it changes nothing else.
Observable == <<httpVars, dbVars, failed, reserving, answer, reported, read>>

LEMMA ExchangeStutter ==
  ExchangeInv /\ UNCHANGED Observable => ExchangeInv'
<1> SUFFICES ASSUME ExchangeInv, UNCHANGED Observable PROVE ExchangeInv'  OBVIOUS
<1> USE DEF ExchangeInv, Observable
<1>1. HttpInv' /\ SessionInv'
  BY OtherStepKeepsHttp, OtherStepKeepsSessions
<1>2. OwnTypeOK'  BY DEF OwnTypeOK
<1>3. \A r \in Requests : AnswerIsSound(r)' /\ ErrorIsReported(r)'
  BY DEF AnswerIsSound, HasConnection, Holds, ErrorIsReported, Resolved, httpVars, dbVars
<1>4. CreatedOnes' = CreatedOnes  BY DEF CreatedOnes, httpVars
<1>5. CreationsAreCounted' /\ \A s \in Scrapes : ScrapeIsSound(s)'
  BY <1>4, RecordsKept DEF httpVars
<1> QED  BY <1>1, <1>2, <1>3, <1>5

LEMMA ExchangeInitially == ExchangeInit => ExchangeInv
<1> SUFFICES ASSUME ExchangeInit PROVE ExchangeInv  OBVIOUS
<1>1. HttpInv /\ SessionInv
  BY HttpInit, SessionInit DEF ExchangeInit
<1>2. OwnTypeOK  BY DEF ExchangeInit, OwnTypeOK
<1>3. \A r \in Requests : AnswerIsSound(r) /\ ErrorIsReported(r)
  BY NoRequestAssumption
  DEF ExchangeInit, Init, Http!Init, Http!Unseen, AnswerIsSound, ErrorIsReported, Resolved
<1>4. CreatedCounts = {} /\ CreatedOnes = {}
  BY DEF ExchangeInit, Http!Init, Http!NoCounts, CreatedCounts, CreatedOnes
<1>5. CreationsAreCounted
  BY <1>4, FS_EmptySet DEF CreationsAreCounted, Created
<1>6. \A s \in Scrapes : ScrapeIsSound(s)
  BY <1>4, FS_EmptySet DEF ExchangeInit, ScrapeIsSound
<1> QED  BY <1>1, <1>2, <1>3, <1>5, <1>6 DEF ExchangeInv

LEMMA ExchangeStep == ExchangeInv /\ [ExchangeNext]_exchangeVars => ExchangeInv'
<1> SUFFICES ASSUME ExchangeInv, [ExchangeNext]_exchangeVars PROVE ExchangeInv'  OBVIOUS
<1>1. CASE UNCHANGED exchangeVars
  BY <1>1, ExchangeStutter DEF exchangeVars, ownVars, Observable
<1>2. CASE \E r \in Requests : ServerEnds(r) \/ ServerFails(r)
  BY <1>2, ExchangeStutter DEF ServerEnds, ServerFails, Observable
<1> QED
  BY <1>1, <1>2, ReserveKeeps, AnswerKeeps, ApplicationKeeps, FinallyKeeps, ScrapingKeeps
  DEF ExchangeNext

LEMMA ExchangeInvariant == ExchangeSpec => []ExchangeInv
  BY ExchangeInitially, ExchangeStep, PTL DEF ExchangeSpec

-----------------------------------------------------------------------------
(* What the log is told of an exchange. *)

\* An exception has come through the wrapper when it has left it, and through
\* nothing before there is one.  What the server logged, it logged at the end.
LogIsSound(r) ==
  /\ stage[r] = "new" => serverLine[r] \in {"waiting", "logged"}
  /\ stage[r] \in {"new", "running"} /\ serverLine[r] = "waiting" => traceback[r] = <<>>
  /\ stage[r] = "ended" => (traceback[r] = <<>> <=> execution[r] = "returned")
  /\ Resolved(r) => IF execution[r] = "returned" THEN traceback[r] = <<>>
                    ELSE CameThrough(traceback[r], http_boundary)
  /\ stage[r] # "new" /\ serverLine[r] # "waiting" =>
       /\ stage[r] = "done"
       /\ serverLine[r] = "logged" <=>
            execution[r] = "returned" /\ ~wire[r].whole /\ client[r] = "there"

LogInv ==
  /\ traceback \in [Requests -> Seq(Code)]
  /\ serverLine \in [Requests -> {"waiting", "silent", "logged"}]
  /\ \A r \in Requests : LogIsSound(r)

LEMMA Unwinding ==
  ASSUME NEW frames \in Seq(Code), NEW code \in Code
  PROVE  /\ <<code>> \o frames \in Seq(Code) /\ <<code>> \o frames # <<>>
         /\ \A b : CameThrough(<<code>> \o frames, b) <=> code = b \/ CameThrough(frames, b)
<1> DEFINE longer == <<code>> \o frames
<1>1. longer \in Seq(Code) /\ Len(longer) = 1 + Len(frames)
  OBVIOUS
<1>2. longer[1] = code /\ \A i \in 1..Len(frames) : longer[i + 1] = frames[i]
  OBVIOUS
<1>3. DOMAIN longer = 1..(1 + Len(frames)) /\ DOMAIN frames = 1..Len(frames) /\ Len(frames) \in Nat
  BY <1>1
<1>4. \A b : (\E i \in DOMAIN longer : longer[i] = b)
               <=> code = b \/ \E i \in DOMAIN frames : frames[i] = b
  <2> HIDE DEF longer
  <2> SUFFICES ASSUME NEW b
               PROVE  (\E i \in DOMAIN longer : longer[i] = b)
                        <=> code = b \/ \E i \in DOMAIN frames : frames[i] = b
    OBVIOUS
  <2>1. ASSUME NEW i \in DOMAIN longer, longer[i] = b
        PROVE  code = b \/ \E j \in DOMAIN frames : frames[j] = b
    <3>1. CASE i = 1  BY <3>1, <2>1, <1>2
    <3>2. CASE i # 1
      <4>1. i - 1 \in 1..Len(frames) /\ (i - 1) + 1 = i  BY <3>2, <1>3
      <4>2. frames[i - 1] = b  BY <4>1, <2>1, <1>2
      <4> QED  BY <4>1, <4>2, <1>3
    <3> QED  BY <3>1, <3>2
  <2>2. ASSUME code = b PROVE \E i \in DOMAIN longer : longer[i] = b
    BY <2>2, <1>2, <1>3
  <2>3. ASSUME NEW j \in DOMAIN frames, frames[j] = b
        PROVE  \E i \in DOMAIN longer : longer[i] = b
    <3>1. j + 1 \in DOMAIN longer  BY <1>3
    <3> QED  BY <3>1, <2>3, <1>2, <1>3
  <2> QED  BY <2>1, <2>2, <2>3
<1>5. longer # <<>>  BY <1>1, <1>3
<1>6. \A b : CameThrough(longer, b) <=> code = b \/ CameThrough(frames, b)
  <2> HIDE DEF longer
  <2> QED  BY <1>4 DEF CameThrough
<1> QED  BY <1>1, <1>5, <1>6

\* One frame more, for one exchange.
LEMMA UnwindAdds ==
  ASSUME LogInv, NEW r \in Requests, NEW code \in Code, Unwind(r, code)
  PROVE  /\ traceback' \in [Requests -> Seq(Code)] /\ traceback'[r] # <<>>
         /\ \A b : CameThrough(traceback'[r], b) <=> code = b \/ CameThrough(traceback[r], b)
         /\ \A q \in Requests \ {r} : traceback'[q] = traceback[q]
<1>1. traceback[r] \in Seq(Code)  BY DEF LogInv
<1>2. traceback'[r] = <<code>> \o traceback[r]  BY DEF LogInv, Unwind
<1> QED  BY <1>1, <1>2, Unwinding DEF LogInv, Unwind

\* Steps of anything else.
LEMMA LogKept ==
  ASSUME LogInv, UNCHANGED <<stage, execution, wire, client, traceback, serverLine>>
  PROVE  LogInv'
BY DEF LogInv, LogIsSound, Resolved

LEMMA ExchangeKeepsLog ==
  ASSUME ExchangeInv, LogInv, NEW r \in Requests, Exchange(r)
  PROVE  LogInv'
<1>1. /\ \A q \in Requests \ {r} :
           /\ stage'[q] = stage[q] /\ client'[q] = client[q]
           /\ wire'[q] = wire[q] /\ execution'[q] = execution[q]
      /\ stage[r] \in {"new", "running"} /\ stage'[r] \in {"running", "ended"}
      /\ serverLine' = serverLine
  BY ApplicationOfIsStep, ApplicationIsLocal DEF ExchangeInv, Exchange
<1>2. serverLine[r] = "waiting" /\ traceback[r] = <<>>
  <2>1. serverLine[r] = "waiting"
    <3>1. CASE Http!Arrive(r) /\ serverLine[r] = "waiting"  BY <3>1
    <3>2. CASE stage[r] = "running"  BY <3>2 DEF LogInv, LogIsSound
    <3> QED
      BY <3>1, <3>2
      DEF Exchange, Proceed, BreakOff, Http!Send, Http!SendReturns, Http!SendFails, Http!Receive,
          Http!Return, Http!Raise, Http!Cancel, Http!ClientGoes, Http!Running
  <2> QED  BY <2>1, <1>1 DEF LogInv, LogIsSound
<1>3. /\ traceback' \in [Requests -> Seq(Code)]
      /\ \A q \in Requests \ {r} : traceback'[q] = traceback[q]
      /\ stage'[r] = "running" => traceback'[r] = <<>>
      /\ stage'[r] = "ended" => (traceback'[r] = <<>> <=> execution'[r] = "returned")
  <2> USE DEF ExchangeInv, HttpInv, Http!TypeOK
  <2>1. CASE Proceed(r) /\ UNCHANGED traceback
    <3>1. stage'[r] = "ended" => execution'[r] = "returned"
      <4>1. CASE Http!Return(r)  BY <4>1 DEF Http!Return, Http!Ends
      <4>2. CASE ~Http!Return(r)
        <5>1. stage'[r] = "running"
          BY <4>2, <2>1
          DEF Proceed, Http!Arrive, Http!Send, Http!SendReturns, Http!Receive, Http!ClientGoes,
              Http!Running
        <5> QED  BY <5>1
      <4> QED  BY <4>1, <4>2
    <3> QED  BY <3>1, <2>1, <1>2 DEF LogInv
  <2>2. CASE BreakOff(r) /\ Unwind(r, "application")
    <3>1. stage'[r] = "ended" /\ execution'[r] # "returned"
      BY <2>2 DEF BreakOff, Http!SendFails, Http!Raise, Http!Cancel, Http!Ends
    <3>2. "application" \in Code  BY DEF Code
    <3> QED  BY <3>1, <3>2, <2>2, UnwindAdds
  <2> QED  BY <2>1, <2>2 DEF Exchange
<1>4. ASSUME NEW q \in Requests \ {r} PROVE LogIsSound(q)'
  <2>1. LogIsSound(q)  BY DEF LogInv
  <2>2. /\ stage'[q] = stage[q] /\ client'[q] = client[q] /\ wire'[q] = wire[q]
        /\ execution'[q] = execution[q] /\ traceback'[q] = traceback[q] /\ serverLine' = serverLine
    BY <1>1, <1>3
  <2> QED  BY <2>1, <2>2 DEF LogIsSound, Resolved, CameThrough, http_boundary
<1>5. LogIsSound(r)'
  BY <1>1, <1>2, <1>3 DEF LogIsSound, Resolved
<1> QED  BY <1>1, <1>3, <1>4, <1>5 DEF LogInv

\* The wrapper is left once, at the end of its first step.
LEMMA FinallyKeepsLog ==
  ASSUME ExchangeInv, LogInv, NEW r \in Requests, ReportError(r) \/ RecordExchange(r)
  PROVE  LogInv'
<1>1. /\ UNCHANGED <<client, wire, execution>>
      /\ \A q \in Requests \ {r} : stage'[q] = stage[q]
      /\ stage[r] \in {"ended", "resolved", "counted"}
      /\ stage'[r] \in {"resolved", "counted", "done"}
  BY ExchangeFinally, FinallyIsLocal DEF ExchangeInv
<1>2. serverLine' = serverLine /\ serverLine[r] = "waiting"
  BY <1>1 DEF ReportError, RecordExchange, LogInv, LogIsSound
<1>3. /\ traceback' \in [Requests -> Seq(Code)]
      /\ \A q \in Requests \ {r} : traceback'[q] = traceback[q]
      /\ IF execution[r] = "returned" THEN traceback'[r] = <<>>
         ELSE CameThrough(traceback'[r], http_boundary)
  <2>1. LogIsSound(r)  BY DEF LogInv
  <2>2. CASE stage[r] = "ended" /\ LeaveWrapper(r)
    <3>1. CASE execution[r] = "returned"
      BY <3>1, <2>1, <2>2 DEF LeaveWrapper, LogIsSound, LogInv
    <3>2. CASE execution[r] # "returned"
      <4>1. Unwind(r, http_boundary)  BY <3>2, <2>2 DEF LeaveWrapper
      <4>2. http_boundary \in Code  BY DEF Code, http_boundary
      <4> QED  BY <4>1, <4>2, <3>2, UnwindAdds
    <3> QED  BY <3>1, <3>2
  <2>3. CASE Resolved(r) /\ UNCHANGED traceback
    BY <2>1, <2>3 DEF LogIsSound, LogInv
  <2> QED
    BY <2>2, <2>3
    DEF ReportError, RecordExchange, Http!Resolve, Http!ErrorLogFails, Http!Count, Http!Observe,
        Http!RecordFails, Resolved
<1>4. \A q \in Requests \ {r} : LogIsSound(q)'
  BY <1>1, <1>2, <1>3 DEF LogInv, LogIsSound, Resolved
<1>5. LogIsSound(r)'
  BY <1>1, <1>2, <1>3 DEF LogIsSound, Resolved
<1> QED  BY <1>2, <1>3, <1>4, <1>5 DEF LogInv

\* What the filter makes of the server's records.
LEMMA ServerLines ==
  ASSUME LogInv, NEW r \in Requests, NEW msg, NEW frames, ServerLogs(r, msg, frames)
  PROVE  /\ serverLine' \in [Requests -> {"waiting", "silent", "logged"}]
         /\ \A q \in Requests \ {r} : serverLine'[q] = serverLine[q]
         /\ serverLine'[r] = IF msg = InAsgi /\ CameThrough(frames, http_boundary)
                         THEN "silent" ELSE "logged"
<1>1. FilterPasses(LogRecord("uvicorn", msg, frames))
        <=> ~(msg = InAsgi /\ CameThrough(frames, http_boundary))
  BY DEF FilterPasses, LogRecord
<1> QED  BY <1>1 DEF ServerLogs, LogInv

LEMMA ServerKeepsLog ==
  ASSUME ExchangeInv, LogInv, NEW r \in Requests, ServerEnds(r) \/ ServerFails(r)
  PROVE  LogInv'
<1>0. Unfinished # InAsgi  BY Zenon DEF Unfinished, InAsgi
<1>1. UNCHANGED <<stage, execution, wire, client>>
  BY DEF ServerEnds, ServerFails, httpVars
<1>2. LogIsSound(r) /\ "server" \in Code /\ http_boundary # "server"
  BY DEF LogInv, Code, http_boundary
<1>3. client[r] \in {"there", "gone"}  BY DEF ExchangeInv, HttpInv, Http!TypeOK
<1>4. /\ traceback' \in [Requests -> Seq(Code)]
      /\ serverLine' \in [Requests -> {"waiting", "silent", "logged"}]
      /\ \A q \in Requests \ {r} : traceback'[q] = traceback[q] /\ serverLine'[q] = serverLine[q]
      /\ LogIsSound(r)'
  <2>1. CASE ServerFails(r)
    <3>1. /\ stage[r] = "new" /\ traceback[r] = <<>>
          /\ Unwind(r, "server") /\ ServerLogs(r, InAsgi, traceback'[r])
      BY <2>1, <1>2 DEF ServerFails, LogIsSound
    <3>2. ~CameThrough(traceback[r], http_boundary)
      <4>1. \A i : i \notin DOMAIN <<>>
        <5>1. <<>> \in Seq(Code) /\ Len(<<>>) = 0  OBVIOUS
        <5>2. DOMAIN <<>> = 1..0  BY <5>1
        <5> QED  BY <5>2
      <4> QED  BY <3>1, <4>1 DEF CameThrough
    <3>3. ~CameThrough(traceback'[r], http_boundary)
      <4>1. CameThrough(traceback'[r], http_boundary)
              <=> "server" = http_boundary \/ CameThrough(traceback[r], http_boundary)
        BY <3>1, <1>2, UnwindAdds
      <4> QED  BY <4>1, <3>2, <1>2
    <3> QED
      BY <3>1, <3>3, <1>1, <1>2, UnwindAdds, ServerLines DEF LogIsSound, Resolved
  <2>2. CASE ServerEnds(r) /\ execution[r] # "returned"
    <3>1. stage[r] = "done" /\ CameThrough(traceback[r], http_boundary)
      BY <2>2, <1>2 DEF ServerEnds, LogIsSound, Resolved
    <3>2. traceback[r] # <<>>  BY <3>1 DEF CameThrough
    <3>3. Unwind(r, "server") /\ ServerLogs(r, InAsgi, traceback'[r])
      BY <2>2, <3>2 DEF ServerEnds
    <3>4. CameThrough(traceback'[r], http_boundary)
      BY <3>1, <3>3, <1>2, UnwindAdds
    <3> QED
      BY <2>2, <3>1, <3>3, <3>4, <1>1, <1>2, UnwindAdds, ServerLines DEF LogIsSound, Resolved
  <2>3. CASE ServerEnds(r) /\ execution[r] = "returned"
    <3>1. stage[r] = "done" /\ traceback[r] = <<>> /\ traceback' = traceback
      BY <2>3, <1>2 DEF ServerEnds, LogIsSound, Resolved
    <3>2. CASE wire[r].whole \/ client[r] = "gone"
      <4>1. serverLine' = [serverLine EXCEPT ![r] = "silent"]
        BY <2>3, <3>1, <3>2 DEF ServerEnds
      <4> QED  BY <2>3, <3>1, <3>2, <4>1, <1>1, <1>2 DEF LogIsSound, Resolved, LogInv
    <3>3. CASE ~wire[r].whole /\ client[r] # "gone"
      <4>1. ServerLogs(r, Unfinished, <<>>)
        BY <2>3, <3>1, <3>3 DEF ServerEnds
      <4>2. /\ serverLine' \in [Requests -> {"waiting", "silent", "logged"}]
            /\ \A q \in Requests \ {r} : serverLine'[q] = serverLine[q]
            /\ serverLine'[r] = "logged"
        BY <4>1, <1>0, ServerLines
      <4>3. client[r] = "there"  BY <3>3, <1>3
      <4>4. LogIsSound(r)'
        BY <2>3, <3>1, <3>3, <4>2, <4>3, <1>1, <1>2 DEF LogIsSound, Resolved
      <4>5. /\ traceback' \in [Requests -> Seq(Code)]
            /\ \A q \in Requests \ {r} : traceback'[q] = traceback[q]
        BY <3>1 DEF LogInv
      <4> QED  BY <4>2, <4>4, <4>5
    <3> QED  BY <3>2, <3>3
  <2> QED  BY <2>1, <2>2, <2>3
<1>5. \A q \in Requests \ {r} : LogIsSound(q)'
  BY <1>1, <1>4 DEF LogInv, LogIsSound, Resolved
<1> QED  BY <1>4, <1>5 DEF LogInv

LEMMA LogInitially == ExchangeInit => LogInv
<1> SUFFICES ASSUME ExchangeInit PROVE LogInv  OBVIOUS
<1>1. <<>> \in Seq(Code)  OBVIOUS
<1> QED  BY <1>1 DEF ExchangeInit, Http!Init, LogInv, LogIsSound, Resolved

LEMMA LogStep == ExchangeInv /\ LogInv /\ [ExchangeNext]_exchangeVars => LogInv'
<1> SUFFICES ASSUME ExchangeInv, LogInv, [ExchangeNext]_exchangeVars PROVE LogInv'  OBVIOUS
<1>1. CASE UNCHANGED exchangeVars
  BY <1>1, LogKept DEF exchangeVars, httpVars, ownVars
<1>2. ASSUME NEW r \in Requests, Reserve(r) \/ MakeAnswer(r) \/ RefuseBody(r) \/ EndSession(r)
      PROVE  LogInv'
  BY <1>2, LogKept DEF Reserve, MakeAnswer, RefuseBody, EndSession, httpVars, ownVars
<1>3. ASSUME NEW s \in Scrapes, Scraping(s)
      PROVE  LogInv'
  BY <1>3, LogKept
  DEF Scraping, ReadHttp, ReadDatabase, Http!Check, Http!ReadRequests, Http!ReadDuration,
      Http!ScrapeFails, Http!exchange, httpVars, ownVars
<1> QED
  BY <1>1, <1>2, <1>3, ExchangeKeepsLog, FinallyKeepsLog, ServerKeepsLog DEF ExchangeNext

LEMMA LogInvariant == ExchangeSpec => []LogInv
  BY LogInitially, LogStep, ExchangeInvariant, PTL DEF ExchangeSpec

-----------------------------------------------------------------------------

\* Whatever fails and whoever leaves or is cancelled, for any number of
\* requests, connections and scrapes: as long as no report is lost, each
\* exchange, transaction and connection is counted once.
THEOREM EverythingIsAlwaysCountedOnce == ExchangeSpec => []EverythingIsCountedOnce
<1>1. ASSUME ExchangeInv, LogInv PROVE EverythingIsCountedOnce
  <2>1. Http!EveryExchangeIsCountedOnce  BY <1>1, WrapperIsTruthful DEF ExchangeInv
  <2>2. PoolInv /\ GaugesAreTrue  BY <1>1, MetricsAreTrue DEF ExchangeInv
  <2>3. ExchangeTypeOK
    BY <1>1 DEF ExchangeInv, HttpInv, SessionInv, OwnTypeOK, ExchangeTypeOK, LogInv
  <2> QED  BY <2>1, <2>2, <2>3 DEF EverythingIsCountedOnce
<1> QED  BY <1>1, ExchangeInvariant, LogInvariant, PTL

\* "success" is what reached the server in full, and nothing else is: for a
\* reservation that is one that was committed.
LEMMA SuccessesAreDelivered == ExchangeInv => SuccessIsDelivered
<1>1. ASSUME ExchangeInv, NEW r \in Requests, result[r] # Http!NoResult
      PROVE  /\ RequestOutcome(result[r]) = "success" <=>
                  /\ execution[r] = "returned" /\ wire[r].whole
                  /\ wire[r].status \in {"200", "201"}
             /\ RequestOutcome(result[r]) = "success" /\ r \in reserving =>
                  outcome[r] = "committed"
  <2>1. AnswerIsSound(r) /\ SeenIsTaken(r)
    BY <1>1 DEF ExchangeInv, HttpInv
  <2>2. result[r] = [status |-> seen[r].status, completion |-> Http!ResolveCompletion(r),
                     execution |-> execution[r]]
    BY <1>1 DEF ExchangeInv, HttpInv, ResultIsSeen
  <2>3. RequestOutcome(result[r]) = "success" <=>
          execution[r] = "returned" /\ seen[r].finished /\ seen[r].status \in {"200", "201"}
    BY <2>2 DEF RequestOutcome, Http!ResolveCompletion
  <2>4. execution[r] = "returned" =>
          (seen[r].finished <=> wire[r].whole) /\ seen[r].status = wire[r].status
    <3> SUFFICES ASSUME execution[r] = "returned"
                 PROVE  (seen[r].finished <=> wire[r].whole) /\ seen[r].status = wire[r].status
      OBVIOUS
    <3>1. CASE ~sending[r]  BY <3>1, <2>1 DEF SeenIsTaken
    <3>2. CASE sending[r]  BY <3>2, <1>1, <2>1 DEF SeenIsTaken, ExchangeInv, HttpInv, ResultIsSeen
    <3> QED  BY <3>1, <3>2
  <2>5. r \in reserving /\ wire[r].status \in {"200", "201"} => outcome[r] = "committed"
    BY <2>1 DEF AnswerIsSound
  <2> QED  BY <2>3, <2>4, <2>5
<1> QED  BY <1>1 DEF SuccessIsDelivered

\* The wrapper's flags never tell another story than the wire, and the outcome
\* that is logged none either.
THEOREM CompletionIsAlwaysTruthful == ExchangeSpec => []CompletionIsTruthful
<1>1. ExchangeInv => CompletionIsTruthful
  BY WrapperIsTruthful, SuccessesAreDelivered DEF ExchangeInv, CompletionIsTruthful
<1> QED  BY <1>1, ExchangeInvariant, PTL

\* No client is told 201 for a reservation that is not committed, or an error
\* for one that is known to be, and none is answered before its session is closed.
THEOREM AnswersAreAlwaysSettled == ExchangeSpec => []AnswersAreSettled
<1>1. ASSUME ExchangeInv PROVE AnswersAreSettled
  <2> SUFFICES ASSUME NEW r \in reserving, wire[r].status # "none"
               PROVE  /\ wire[r].status = "201" => outcome[r] = "committed"
                      /\ wire[r].status \in {"4xx", "503"} => outcome[r] # "committed"
                      /\ phase[r] \in {"new", "done"}
                      /\ \A c \in Records : holder[c] # r
    BY DEF AnswersAreSettled
  <2>1. AnswerIsSound(r)  BY <1>1 DEF ExchangeInv, OwnTypeOK
  <2> QED  BY <2>1 DEF AnswerIsSound, HasConnection, Holds
<1> QED  BY <1>1, ExchangeInvariant, PTL

\* What went wrong leaves one line, of the wrapper or of the server, whatever
\* code the exception came through, and what did not leaves none; an error
\* without a line is one the metrics admit to.
THEOREM ErrorsAreAlwaysLoggedOnce == ExchangeSpec => []ErrorsAreLoggedOnce
<1>1. ASSUME ExchangeInv, LogInv, NEW r \in Requests, serverLine[r] # "waiting"
      PROVE  /\ r \notin reported \/ serverLine[r] # "logged"
             /\ r \in reported \/ serverLine[r] = "logged" => WentWrong(r)
             /\ WentWrong(r) =>
                  r \in reported \/ serverLine[r] = "logged" \/ (failed /\ execution[r] = "error")
  <2>1. LogIsSound(r) /\ ErrorIsReported(r) /\ failed \in BOOLEAN
    BY <1>1 DEF LogInv, ExchangeInv, HttpInv, Http!TypeOK
  <2>2. CASE stage[r] = "new"
    BY <2>1, <2>2, <1>1 DEF LogIsSound, ErrorIsReported, Resolved, WentWrong
  <2>3. CASE stage[r] # "new"
    BY <2>1, <2>3, <1>1 DEF LogIsSound, ErrorIsReported, Resolved, WentWrong
  <2> QED  BY <2>2, <2>3
<1>2. ExchangeInv /\ LogInv => ErrorsAreLoggedOnce
  BY <1>1 DEF ErrorsAreLoggedOnce
<1> QED  BY <1>2, ExchangeInvariant, LogInvariant, PTL

\* A scrape misses nothing that was over when it began, and shows no
\* reservation as created that it does not show as committed.
THEOREM ScrapesAreAlwaysComplete == ExchangeSpec => []ScrapeIsComplete
<1>1. ASSUME ExchangeInv PROVE ScrapeIsComplete
  <2>1. Http!ScrapeIsComplete  BY <1>1, WrapperIsTruthful DEF ExchangeInv
  <2>2. \A s \in Scrapes : ScrapeIsSound(s)  BY <1>1 DEF ExchangeInv
  <2> QED  BY <2>1, <2>2 DEF ScrapeIsComplete, ScrapeIsSound
<1> QED  BY <1>1, ExchangeInvariant, PTL

-----------------------------------------------------------------------------
(* The lives of the processes: the inductive invariants. *)

\* The stacks there are.
ToDispose == <<"dispose">>
ToUnpublish == <<"primary_engine", "dispose">>
ToUndo == <<"primary_session_factory", "primary_engine", "dispose">>

\* What is left to do, on the stack, is what was done to the engine and to
\* app.state; a callback that failed is the engine's.
WhatIsLeftToUndo ==
  /\ \/ stack = <<>> /\ published = {}
     \/ stack = ToDispose /\ published = {}
     \/ stack = ToUnpublish /\ published = {"primary_engine"}
     \/ stack = ToUndo /\ published = State
  /\ engine = "open" <=> stack # <<>>
  /\ disposals = (IF engine \in {"disposed", "broken"} THEN 1 ELSE 0)
  /\ cleanup = (engine = "broken")

\* What has happened by each step of the lifespan.
LifespanProgress ==
  /\ at = "assembled" => engine = "none"
  /\ at = "probe" => configured /\ stack = ToDispose
  /\ at = "up" => IF configured THEN published = State ELSE engine = "none"
  /\ at \in {"assembled", "probe", "up"} => error = "none"
  /\ ready = (at = "up")
  /\ at = "ended" => stack = <<>> /\ raised = (IF error = "none" /\ cleanup THEN "cleanup" ELSE error)

\* The server takes requests only while the lifespan waits at its yield, and
\* when it does no more, those that go on have been cancelled.
ServerInsideLifespan ==
  /\ server \in {"serving", "draining"} => at = "up"
  /\ server \in {"off", "closed"} => \A r \in Users : session[r] # "held"

LifespanInv ==
  LifespanTypeOK /\ WhatIsLeftToUndo /\ LifespanProgress /\ ServerInsideLifespan

\* Where the pool of a NestJS process is at each step, and when its server is.
Early == {"created", "module_init", "bootstrap", "listen"}

PoolAt ==
  /\ ~node_configured => pool = "absent"
  /\ node_at = "created" => pool = "absent"
  /\ node_at = "module_init" => node_configured
  /\ node_configured =>
       /\ node_at \in Node!Steps \ {"created", "destroying", "exited"} => pool = "open"
       /\ node_at = "destroying" => pool = "closing"
       /\ node_at = "exited" => pool \in {"absent", "destroyed"}
  /\ probe => node_at = "module_init"
  /\ node_ready => node_at \in {"listen", "up"}

ServerAt ==
  /\ node_at \in Early => node_server = "off"
  /\ node_server = "listening" => node_at \in {"up", "before_shutdown"}
  /\ node_server = "off" => \A c \in Clients : connection[c] = "none" /\ handler[c] = "none"
  /\ node_at \in {"on_shutdown", "destroying", "exited"} =>
       \A c \in Clients : connection[c] = "none"

EndOfProcess ==
  /\ (exitCode = "running") = (node_at # "exited")
  /\ node_at = "exited" => \A c \in Clients : handler[c] # "leased"

NestLifeInv == Node!TypeOK /\ PoolAt /\ ServerAt /\ EndOfProcess

LifeInv == LifespanInv /\ NestLifeInv

-----------------------------------------------------------------------------
\* What popping makes of them.
LEMMA TheStacks ==
  /\ Head(ToDispose) = "dispose" /\ Tail(ToDispose) = <<>>
  /\ Head(ToUnpublish) = "primary_engine" /\ Tail(ToUnpublish) = ToDispose
  /\ Head(ToUndo) = "primary_session_factory" /\ Tail(ToUndo) = ToUnpublish
  /\ ToDispose # <<>> /\ ToUnpublish # <<>> /\ ToUndo # <<>>
BY DEF ToDispose, ToUnpublish, ToUndo

LEMMA StackTypes ==
  \A s \in {<<>>, ToDispose, ToUnpublish, ToUndo} : s \in Seq(Callbacks) /\ Len(s) <= 3
<1>1. <<>> \in Seq(Callbacks) /\ Len(<<>>) <= 3  OBVIOUS
<1>2. ToDispose \in Seq(Callbacks) /\ Len(ToDispose) <= 3
  BY DEF ToDispose, Callbacks, State
<1>3. ToUnpublish \in Seq(Callbacks) /\ Len(ToUnpublish) <= 3
  BY DEF ToUnpublish, Callbacks, State
<1>4. ToUndo \in Seq(Callbacks) /\ Len(ToUndo) <= 3
  BY DEF ToUndo, Callbacks, State
<1> QED  BY <1>1, <1>2, <1>3, <1>4

\* And what pushing does.
LEMMA Pushed == <<"primary_session_factory", "primary_engine">> \o ToDispose = ToUndo
<1> DEFINE two == <<"primary_session_factory", "primary_engine">>
<1>1. /\ two \in Seq(Callbacks) /\ ToDispose \in Seq(Callbacks) /\ ToUndo \in Seq(Callbacks)
      /\ Len(two) = 2 /\ Len(ToDispose) = 1 /\ Len(ToUndo) = 3
  BY DEF ToDispose, ToUndo, Callbacks, State
<1>2. /\ two \o ToDispose \in Seq(Callbacks) /\ Len(two \o ToDispose) = 3
      /\ \A i \in 1..3 : (two \o ToDispose)[i] = IF i <= 2 THEN two[i] ELSE ToDispose[i - 2]
  BY <1>1, ConcatProperties
<1>3. \A i \in 1..3 : (two \o ToDispose)[i] = ToUndo[i]
  <2> SUFFICES ASSUME NEW i \in 1..3 PROVE (two \o ToDispose)[i] = ToUndo[i]  OBVIOUS
  <2>1. CASE i = 1  BY <1>2, <2>1 DEF ToUndo
  <2>2. CASE i = 2  BY <1>2, <2>2 DEF ToUndo
  <2>3. CASE i = 3  BY <1>2, <2>3 DEF ToUndo, ToDispose
  <2>4. i = 1 \/ i = 2 \/ i = 3  OBVIOUS
  <2> QED  BY <2>1, <2>2, <2>3, <2>4
<1> QED  BY <1>1, <1>2, <1>3, SeqEqual

LEMMA LifespanInitHolds == LifespanInit => LifespanInv
<1> SUFFICES ASSUME LifespanInit PROVE LifespanInv  OBVIOUS
<1>1. LifespanTypeOK
  <2>1. stack \in Seq(Callbacks) /\ Len(stack) <= 3
    BY StackTypes DEF LifespanInit
  <2>2. session \in [Users -> {"new", "held", "cancelled", "done"}]
    BY DEF LifespanInit
  <2>3. /\ configured \in BOOLEAN /\ ready \in BOOLEAN /\ cleanup \in BOOLEAN
        /\ published \in SUBSET State
    BY DEF LifespanInit
  <2> QED  BY <2>1, <2>2, <2>3 DEF LifespanInit, LifespanTypeOK, Errors
<1>2. WhatIsLeftToUndo /\ LifespanProgress /\ ServerInsideLifespan
  BY DEF LifespanInit, WhatIsLeftToUndo, LifespanProgress, ServerInsideLifespan
<1> QED  BY <1>1, <1>2 DEF LifespanInv

\* The start of the lifespan.
LEMMA StartStep ==
  ASSUME LifespanInv, Start, UNCHANGED configured
  PROVE  LifespanInv'
<1> USE DEF LifespanInv, LifespanTypeOK, WhatIsLeftToUndo, LifespanProgress,
            ServerInsideLifespan, Errors
<1>1. CASE Enter
  BY <1>1, TheStacks, StackTypes DEF Enter, ToDispose
<1>2. CASE Publish
  BY <1>2, Pushed, TheStacks, StackTypes DEF Publish
<1>3. CASE PrepareFails
  BY <1>3, TheStacks DEF PrepareFails
<1> QED  BY <1>1, <1>2, <1>3 DEF Start

\* Cancelling everybody leaves nobody with a session of his own.
LEMMA AllCancelled ==
  ASSUME session \in [Users -> {"new", "held", "cancelled", "done"}], CancelAll
  PROVE  /\ session' \in [Users -> {"new", "held", "cancelled", "done"}]
         /\ \A r \in Users : session'[r] # "held"
BY DEF CancelAll, Holding

\* Its end, and what comes of it.
LEMMA WindDownStep ==
  ASSUME LifespanInv, WindDown, UNCHANGED configured
  PROVE  LifespanInv'
<1> USE DEF LifespanInv, LifespanTypeOK, WhatIsLeftToUndo, LifespanProgress,
            ServerInsideLifespan, Errors
<1>1. CASE ShutDown
  BY <1>1 DEF ShutDown
<1>2. CASE Pop
  <2>1. CASE stack = ToDispose
    <3>1. published = {} /\ engine = "open" /\ disposals = 0 /\ ~cleanup
      BY <2>1, TheStacks
    <3>2. stack' = <<>> /\ Head(stack) = "dispose" /\ Head(stack) \notin State
      BY <1>2, <2>1, TheStacks DEF Pop, State
    <3>3. /\ published' = {} /\ disposals' = 1
          /\ \/ engine' = "disposed" /\ cleanup' = FALSE
             \/ engine' = "broken" /\ cleanup' = TRUE
      BY <1>2, <3>1, <3>2 DEF Pop
    <3>4. stack' \in Seq(Callbacks) /\ Len(stack') <= 3
      BY <3>2, StackTypes
    <3>5. WhatIsLeftToUndo'
      BY <3>2, <3>3
    <3> QED  BY <1>2, <3>2, <3>3, <3>4, <3>5 DEF Pop
  <2>2. CASE stack = ToUnpublish
    BY <1>2, <2>2, TheStacks, StackTypes DEF Pop, State
  <2>3. CASE stack = ToUndo
    BY <1>2, <2>3, TheStacks, StackTypes DEF Pop, State
  <2> QED  BY <1>2, <2>1, <2>2, <2>3 DEF Pop
<1>3. CASE End
  BY <1>3 DEF End
<1> QED  BY <1>1, <1>2, <1>3 DEF WindDown

\* The server, its requests and the loop they all run in.
LEMMA ServerStep ==
  ASSUME LifespanInv, UNCHANGED configured,
         Cancelled \/ Stop \/ Drain \/ \E r \in Users : Take(r) \/ Give(r)
  PROVE  LifespanInv'
<1> USE DEF LifespanInv, LifespanTypeOK, WhatIsLeftToUndo, LifespanProgress,
            ServerInsideLifespan, Errors
<1>1. CASE Cancelled
  BY <1>1, AllCancelled DEF Cancelled
<1>2. CASE Stop
  BY <1>2 DEF Stop, lifespanVars
<1>3. CASE Drain
  BY <1>3, AllCancelled DEF Drain, lifespanVars, Holding
<1>4. ASSUME NEW r \in Users, Take(r)
      PROVE  LifespanInv'
  BY <1>4 DEF Take, lifespanVars
<1>5. ASSUME NEW r \in Users, Give(r)
      PROVE  LifespanInv'
  BY <1>5 DEF Give, lifespanVars
<1> QED  BY <1>1, <1>2, <1>3, <1>4, <1>5

LEMMA LifespanInvariant == LifespanSpec => []LifespanInv
<1>1. LifespanInv /\ [LifespanNext]_processVars => LifespanInv'
  <2> SUFFICES ASSUME LifespanInv, [LifespanNext]_processVars PROVE LifespanInv'  OBVIOUS
  <2>1. CASE UNCHANGED processVars
    BY <2>1 DEF processVars, lifespanVars, LifespanInv, LifespanTypeOK, WhatIsLeftToUndo,
                LifespanProgress, ServerInsideLifespan
  <2> QED  BY <2>1, StartStep, WindDownStep, ServerStep DEF LifespanNext
<1> QED  BY <1>1, LifespanInitHolds, PTL DEF LifespanSpec

-----------------------------------------------------------------------------
(* The NestJS process. *)

LEMMA NestInitHolds == Node!Init => NestLifeInv
<1> SUFFICES ASSUME Node!Init PROVE NestLifeInv  OBVIOUS
<1>1. Node!TypeOK  BY DEF Node!Init, Node!TypeOK, Node!Steps
<1>2. PoolAt /\ ServerAt /\ EndOfProcess
  BY DEF Node!Init, PoolAt, ServerAt, EndOfProcess
<1> QED  BY <1>1, <1>2 DEF NestLifeInv

\* createApp and listen: there is neither a connection nor a handler yet.
LEMMA NestStartStep ==
  ASSUME NestLifeInv, Node!Start
  PROVE  NestLifeInv'
<1> USE DEF NestLifeInv, Node!TypeOK, Node!Steps, PoolAt, ServerAt, EndOfProcess, Early,
            Node!requests
<1>1. CASE Node!CreateFails  BY <1>1 DEF Node!CreateFails
<1>2. CASE Node!OnModuleInit  BY <1>2 DEF Node!OnModuleInit
<1>3. CASE Node!ProbeAcquired  BY <1>3 DEF Node!ProbeAcquired
<1>4. CASE Node!ProbeSucceeds  BY <1>4 DEF Node!ProbeSucceeds
<1>5. CASE Node!ProbeFails  BY <1>5 DEF Node!ProbeFails
<1>6. CASE Node!OnApplicationBootstrap  BY <1>6 DEF Node!OnApplicationBootstrap
<1>7. CASE Node!Listen  BY <1>7 DEF Node!Listen
<1>8. CASE Node!ListenFails  BY <1>8 DEF Node!ListenFails
<1> QED
  BY <1>1, <1>2, <1>3, <1>4, <1>5, <1>6, <1>7, <1>8 DEF Node!Start

\* The hooks that a signal sets off.
LEMMA NestShutdownStep ==
  ASSUME NestLifeInv, Node!OnModuleDestroy \/ Node!ShutdownStep
  PROVE  NestLifeInv'
<1> USE DEF NestLifeInv, Node!TypeOK, Node!Steps, PoolAt, ServerAt, EndOfProcess, Early,
            Node!requests
<1>1. CASE Node!OnModuleDestroy  BY <1>1 DEF Node!OnModuleDestroy
<1>2. CASE Node!BeforeShutdown
  BY <1>2 DEF Node!BeforeShutdown
<1>3. CASE Node!TimerFires  BY <1>3 DEF Node!TimerFires
<1>4. CASE Node!Disposed  BY <1>4 DEF Node!Disposed
<1>5. CASE Node!OnApplicationShutdown  BY <1>5 DEF Node!OnApplicationShutdown
<1>6. CASE Node!Exit  BY <1>6 DEF Node!Exit, Node!Leases
<1> QED
  BY <1>1, <1>2, <1>3, <1>4, <1>5, <1>6 DEF Node!ShutdownStep

\* Clients and handlers: no step of theirs makes a connection once the server
\* is closing, or takes a lease once the process has ended.
LEMMA NestClientStep ==
  ASSUME NestLifeInv, NEW c \in Clients,
         Node!Connect(c) \/ Node!Request(c) \/ Node!Disconnect(c) \/ Node!Handle(c)
  PROVE  NestLifeInv'
<1> USE DEF NestLifeInv, Node!TypeOK, PoolAt, ServerAt, EndOfProcess, Early, Node!process
<1>1. CASE Node!Connect(c)  BY <1>1 DEF Node!Connect
<1>2. CASE Node!Request(c)  BY <1>2 DEF Node!Request
<1>3. CASE Node!Disconnect(c)  BY <1>3 DEF Node!Disconnect
<1>4. CASE Node!RunWithout(c)  BY <1>4 DEF Node!RunWithout
<1>5. CASE Node!Acquire(c)  BY <1>5 DEF Node!Acquire
<1>6. CASE Node!Release(c)  BY <1>6 DEF Node!Release
<1>7. CASE Node!Answer(c)  BY <1>7 DEF Node!Answer
<1> QED
  BY <1>1, <1>2, <1>3, <1>4, <1>5, <1>6, <1>7 DEF Node!Handle

LEMMA NestLifeInvariant == Node!Spec => []NestLifeInv
<1>1. NestLifeInv /\ [Node!Next]_(Node!vars) => NestLifeInv'
  <2> SUFFICES ASSUME NestLifeInv, [Node!Next]_(Node!vars) PROVE NestLifeInv'  OBVIOUS
  <2>1. CASE UNCHANGED Node!vars
    BY <2>1 DEF Node!vars, Node!process, Node!requests, NestLifeInv, Node!TypeOK,
                PoolAt, ServerAt, EndOfProcess
  <2> QED
    BY <2>1, NestStartStep, NestShutdownStep, NestClientStep DEF Node!Next
<1> QED  BY <1>1, NestInitHolds, PTL DEF Node!Spec

-----------------------------------------------------------------------------
(* What every deployment promises. *)

\* A deployment is one of the two processes, beside one that never starts.
LEMMA DeploymentsRunProcesses == LifecyclesSpec => LifespanSpec /\ Node!Spec
<1>1. LifecyclesInit => LifespanInit /\ Node!Init
  BY DEF LifecyclesInit
<1>2. [LifecyclesNext]_allVars => [LifespanNext]_processVars /\ [Node!Next]_(Node!vars)
  BY DEF LifecyclesNext, FastapiRuns, NestRuns, allVars, nodeVars, Node!vars, Node!process,
         Node!requests
<1> QED  BY <1>1, <1>2, PTL DEF LifecyclesSpec, LifespanSpec, Node!Spec

LEMMA LivesAreSound == LifecyclesSpec => [](LifespanInv /\ NestLifeInv)
BY DeploymentsRunProcesses, LifespanInvariant, NestLifeInvariant, PTL

\* A process says "ready" only while it serves and holds what its requests
\* need: lifespan sets and clears app.state.ready around its yield, Readiness
\* between onApplicationBootstrap and onModuleDestroy.
THEOREM ReadinessIsAlwaysTrue == LifecyclesSpec => []ReadinessIsTrue
<1>1. LifespanInv => LifespanTypeOK /\ ReadyIsTrue
  BY TheStacks DEF LifespanInv, WhatIsLeftToUndo, LifespanProgress, ReadyIsTrue, State
<1>2. NestLifeInv => Node!TypeOK /\ Node!ReadyIsTrue
  BY DEF NestLifeInv, PoolAt, Node!ReadyIsTrue, Node!Steps
<1>3. LifespanInv /\ NestLifeInv => ReadinessIsTrue
  BY <1>1, <1>2 DEF ReadinessIsTrue
<1> QED  BY <1>3, LivesAreSound, PTL

\* The engine is disposed under no request but the cancelled, and the worker
\* pool closed under no connection.
THEOREM UsersAlwaysComeFirst == LifecyclesSpec => []UsersComeFirst
<1>1. LifespanInv => OnlyTheCancelledAreLeft
  BY TheStacks DEF LifespanInv, LifespanTypeOK, WhatIsLeftToUndo, LifespanProgress,
                   ServerInsideLifespan, OnlyTheCancelledAreLeft, State
<1>2. NestLifeInv => Node!PoolOutlivesTheConnections
  BY DEF NestLifeInv, Node!TypeOK, Node!Steps, PoolAt, ServerAt, Early,
         Node!PoolOutlivesTheConnections
<1>3. LifespanInv /\ NestLifeInv => UsersComeFirst
  BY <1>1, <1>2 DEF UsersComeFirst
<1> QED  BY <1>3, LivesAreSound, PTL

\* However a process ends, what it opened is closed, once, and the first error
\* is the one that is raised.
THEOREM EverythingIsAlwaysClosed == LifecyclesSpec => []EverythingIsClosed
<1>1. LifespanInv => NothingIsLeft
  BY TheStacks DEF LifespanInv, LifespanTypeOK, WhatIsLeftToUndo, LifespanProgress, NothingIsLeft
<1>2. LifespanInv => TheFirstErrorIsRaised
  BY DEF LifespanInv, LifespanTypeOK, Errors, LifespanProgress, TheFirstErrorIsRaised
<1>3. NestLifeInv => Node!NothingIsLeft
  BY DEF NestLifeInv, Node!TypeOK, Node!Steps, PoolAt, ServerAt, EndOfProcess,
         Node!NothingIsLeft, Node!Leases
<1>4. LifespanInv /\ NestLifeInv => EverythingIsClosed
  BY <1>1, <1>2, <1>3 DEF EverythingIsClosed
<1> QED  BY <1>4, LivesAreSound, PTL


-----------------------------------------------------------------------------
(* The migrations: whatever fails, dies or runs at the same time, the file  *)
(* has the schema of the revision it records, no command loses a row (but   *)
(* by taking the tables away), and none ever fails for a statement of its   *)
(* own.  All the plans there are lie on two roads.                          *)

UpRoad ==
  << <<"create", "alembic_version">>,
     <<"create", "products">>, <<"create", "reservations">>,
     <<"create", "idempotency_keys">>, <<"stamp", "tables">>,
     <<"add_columns", "products">>, <<"fill_columns", "products">>,
     <<"create_copy", "audited">>, <<"fill_copy", "audited">>,
     <<"drop", "products">>, <<"rename_copy", "audited">>, <<"stamp", "audit">> >>

DownRoad ==
  << <<"create_copy", "plain">>, <<"fill_copy", "plain">>,
     <<"drop", "products">>, <<"rename_copy", "plain">>, <<"stamp", "tables">>,
     <<"drop", "idempotency_keys">>, <<"drop", "reservations">>,
     <<"drop", "products">>, <<"stamp", "base">> >>

AllTables == Business \cup {"alembic_version"}
WithCopy == AllTables \cup {"_alembic_tmp_products"}

Content(revision, tables, columns, products, filled, copy_columns, copy, reservations, keys) ==
  [revision |-> revision, tables |-> tables, columns |-> columns,
   products |-> products, filled |-> filled, copy_columns |-> copy_columns, copy |-> copy,
   reservations |-> reservations, keys |-> keys]

\* The file f after i statements of the way up.
UpFile(i, f) ==
  LET P == f.products
      C(revision, tables, columns, products, filled, copy_columns, copy) ==
        Content(revision, tables, columns, products, filled, copy_columns, copy,
                f.reservations, f.keys)
      AV == "alembic_version"
  IN CASE i = 0 -> C("base", {}, "plain", P, {}, "plain", {})
       [] i = 1 -> C("base", {AV}, "plain", P, {}, "plain", {})
       [] i = 2 -> C("base", {AV, "products"}, "plain", P, {}, "plain", {})
       [] i = 3 -> C("base", {AV, "products", "reservations"}, "plain", P, {}, "plain", {})
       [] i = 4 -> C("base", AllTables, "plain", P, {}, "plain", {})
       [] i = 5 -> C("tables", AllTables, "plain", P, {}, "plain", {})
       [] i = 6 -> C("tables", AllTables, "nullable", P, {}, "plain", {})
       [] i = 7 -> C("tables", AllTables, "nullable", P, P, "plain", {})
       [] i = 8 -> C("tables", WithCopy, "nullable", P, P, "audited", {})
       [] i = 9 -> C("tables", WithCopy, "nullable", P, P, "audited", P)
       [] i = 10 -> C("tables", WithCopy \ {"products"}, "plain", {}, {}, "audited", P)
       [] i = 11 -> C("tables", AllTables, "audited", P, P, "plain", {})
       [] i = 12 -> C("audit", AllTables, "audited", P, P, "plain", {})

\* The file f after i statements of the way down.
DownFile(i, f) ==
  LET P == f.products
      R == f.reservations
      K == f.keys
      Two == {"alembic_version", "products"}
      Three == {"alembic_version", "products", "reservations"}
  IN CASE i = 0 -> Content("audit", AllTables, "audited", P, P, "plain", {}, R, K)
       [] i = 1 -> Content("audit", WithCopy, "audited", P, P, "plain", {}, R, K)
       [] i = 2 -> Content("audit", WithCopy, "audited", P, P, "plain", P, R, K)
       [] i = 3 -> Content("audit", WithCopy \ {"products"}, "plain", {}, {}, "plain", P, R, K)
       [] i = 4 -> Content("audit", AllTables, "plain", P, {}, "plain", {}, R, K)
       [] i = 5 -> Content("tables", AllTables, "plain", P, {}, "plain", {}, R, K)
       [] i = 6 -> Content("tables", Three, "plain", P, {}, "plain", {}, R, {})
       [] i = 7 -> Content("tables", Two, "plain", P, {}, "plain", {}, {}, {})
       [] i = 8 -> Content("tables", {"alembic_version"}, "plain", {}, {}, "plain", {}, {}, {})
       [] i = 9 -> Content("base", {"alembic_version"}, "plain", {}, {}, "plain", {}, {}, {})

\* Where on a road the way begins and ends.
UpStart(f) ==
  CASE f.revision = "base" -> IF "alembic_version" \in f.tables THEN 1 ELSE 0
    [] f.revision = "tables" -> 5
    [] f.revision = "audit" -> 12

UpEnd(f, c) ==
  IF c[1] = "downgrade" THEN 1
  ELSE IF c[2] = "audit" \/ f.revision = "audit" THEN 12 ELSE 5

DownStart(f) == IF f.revision = "audit" THEN 0 ELSE 5

GoesUp(f, c) == c[1] = "upgrade" \/ f.revision = "base"

-----------------------------------------------------------------------------
(* The inductive invariant. *)

\* The statements s are those of the road from i to e.
Remains(s, road, i, e) ==
  Len(s) = e - i /\ \A j \in 1..(e - i) : s[j] = road[i + j]

Whole(f) ==
  IF f.revision = "base"
  THEN /\ f.tables \subseteq {"alembic_version"} /\ f.products = {}
       /\ f.reservations = {} /\ f.keys = {}
       /\ f = UpFile(UpStart(f), f)
  ELSE f = UpFile(UpStart(f), f)

\* A transaction has done the statements that are no longer in its plan, to
\* the file as it still is.
UnderWay(p) ==
  LET c == command[p]
  IN  IF GoesUp(file, c)
      THEN \E i \in UpStart(file)..UpEnd(file, c) :
             Remains(plan[p], UpRoad, i, UpEnd(file, c)) /\ work[p] = UpFile(i, file)
      ELSE \E i \in DownStart(file)..9 :
             Remains(plan[p], DownRoad, i, 9) /\ work[p] = DownFile(i, file)

WithReservation(f, x) ==
  [f EXCEPT !.reservations = @ \cup {x}, !.keys = @ \cup {x}]

Reserves(p) ==
  \E x \in Products :
     \/ plan[p] = << <<"reserve", x>> >> /\ work[p] = file
     \/ /\ plan[p] = << >> /\ work[p] = WithReservation(file, x)
        /\ x \in file.products /\ Business \subseteq file.tables

Inputs ==
  /\ \A p \in Processes : command[p] \in CommandsOf(Head_)
  /\ \A p \in container : command[p] = <<"upgrade", Head_>>
  /\ file.revision = "audit" => fastcrud

AllUpgrade == \A p \in Processes : command[p][1] = "upgrade"

Sound(p) ==
  /\ p \in shared <=> pc[p] \in {"migrating", "checked", "reserving"}
  /\ pc[p] \in {"connected", "migrating", "checked"} => enforced[p] = ~fastcrud
  /\ pc[p] \in {"migrating", "checked"} => UnderWay(p)
  /\ pc[p] = "checked" => plan[p] = << >> /\ (fastcrud => Orphans(work[p]) = {})
  /\ pc[p] = "reserving" => Reserves(p)
  /\ exitStatus[p] # "error"
  /\ (AllUpgrade /\ (\/ pc[p] \in {"serving", "reserving"}
                     \/ pc[p] = "ending" /\ exitStatus[p] = "ok" /\ p \in container))
       => file.revision = Head_

FileInv ==
  /\ MigrationTypeOK
  /\ Isolation
  /\ Inputs
  /\ Whole(file)
  /\ Orphans(file) # {} => orphaned
  /\ \A p \in Processes : Sound(p)

-----------------------------------------------------------------------------
(* What the statements do. *)

\* DROP TABLE takes the rows of the table with it.
LEMMA DropMakes ==
  ASSUME NEW rv, NEW ts, NEW cs, NEW ps, NEW fs, NEW cc, NEW cp, NEW rs, NEW ks, NEW table
  PROVE  Effect(<<"drop", table>>, Content(rv, ts, cs, ps, fs, cc, cp, rs, ks)) =
           Content(rv, ts \ {table},
                   IF table = "products" THEN "plain" ELSE cs,
                   IF table = "products" THEN {} ELSE ps,
                   IF table = "products" THEN {} ELSE fs, cc, cp,
                   IF table = "reservations" THEN {} ELSE rs,
                   IF table = "idempotency_keys" THEN {} ELSE ks)
<1> DEFINE f == Content(rv, ts, cs, ps, fs, cc, cp, rs, ks)
           ts1 == ts \ {table}
           ps1 == IF table = "products" THEN {} ELSE ps
           fs1 == IF table = "products" THEN {} ELSE fs
           cs1 == IF table = "products" THEN "plain" ELSE cs
           rs1 == IF table = "reservations" THEN {} ELSE rs
           ks1 == IF table = "idempotency_keys" THEN {} ELSE ks
           f1 == [f EXCEPT !.tables = @ \ {table}]
           f2 == [f1 EXCEPT !.products = IF table = "products" THEN {} ELSE @]
           f3 == [f2 EXCEPT !.filled = IF table = "products" THEN {} ELSE @]
           f4 == [f3 EXCEPT !.columns = IF table = "products" THEN "plain" ELSE @]
           f5 == [f4 EXCEPT !.reservations = IF table = "reservations" THEN {} ELSE @]
           f6 == [f5 EXCEPT !.keys = IF table = "idempotency_keys" THEN {} ELSE @]
<1>1. f1 = Content(rv, ts1, cs, ps, fs, cc, cp, rs, ks)
  BY DEF Content
<1>2. f2 = Content(rv, ts1, cs, ps1, fs, cc, cp, rs, ks)
  <2> HIDE DEF f, ts1, f1
  <2> QED
    BY <1>1 DEF Content
<1>3. f3 = Content(rv, ts1, cs, ps1, fs1, cc, cp, rs, ks)
  <2> HIDE DEF f, ts1, f2, ps1
  <2> QED
    BY <1>2 DEF Content
<1>4. f4 = Content(rv, ts1, cs1, ps1, fs1, cc, cp, rs, ks)
  <2> HIDE DEF f, ts1, f3, ps1, fs1
  <2> QED
    BY <1>3 DEF Content
<1>5. f5 = Content(rv, ts1, cs1, ps1, fs1, cc, cp, rs1, ks)
  <2> HIDE DEF f, ts1, f4, ps1, fs1, cs1
  <2> QED
    BY <1>4 DEF Content
<1>6. f6 = Content(rv, ts1, cs1, ps1, fs1, cc, cp, rs1, ks1)
  <2> HIDE DEF f, ts1, f5, ps1, fs1, cs1, rs1
  <2> QED
    BY <1>5 DEF Content
<1>7. Effect(<<"drop", table>>, f) = f6
  BY DEF Effect
<1>8. QED
  BY <1>6, <1>7

\* The batch's copy is made with the columns asked for,
LEMMA CreateCopyMakes ==
  ASSUME NEW rv, NEW ts, NEW cs, NEW ps, NEW fs, NEW cc, NEW cp, NEW rs, NEW ks, NEW columns,
         NEW ts1, ts1 = ts \cup {"_alembic_tmp_products"}
  PROVE  Effect(<<"create_copy", columns>>, Content(rv, ts, cs, ps, fs, cc, cp, rs, ks)) =
           Content(rv, ts1, cs, ps, fs, columns, cp, rs, ks)
<1> DEFINE f == Content(rv, ts, cs, ps, fs, cc, cp, rs, ks)
           f1 == [f EXCEPT !.tables = @ \cup {"_alembic_tmp_products"}]
           f2 == [f1 EXCEPT !.copy_columns = columns]
<1>1. f1 = Content(rv, ts1, cs, ps, fs, cc, cp, rs, ks)
  BY DEF Content
<1>2. f2 = Content(rv, ts1, cs, ps, fs, columns, cp, rs, ks)
  <2> HIDE DEF f, f1
  <2> QED
    BY <1>1 DEF Content
<1>3. Effect(<<"create_copy", columns>>, f) = f2
  BY DEF Effect
<1>4. QED
  BY <1>2, <1>3

\* and takes the place of the table.
LEMMA RenameCopyMakes ==
  ASSUME NEW rv, NEW ts, NEW cs, NEW ps, NEW fs, NEW cc, NEW cp, NEW rs, NEW ks, NEW columns,
         NEW ts1, ts1 = (ts \ {"_alembic_tmp_products"}) \cup {"products"}
  PROVE  Effect(<<"rename_copy", columns>>, Content(rv, ts, cs, ps, fs, cc, cp, rs, ks)) =
           Content(rv, ts1, cc, cp,
                   IF cc = "audited" THEN cp ELSE {}, "plain", {}, rs, ks)
<1> DEFINE f == Content(rv, ts, cs, ps, fs, cc, cp, rs, ks)
           fs1 == IF cc = "audited" THEN cp ELSE {}
           f1 == [f EXCEPT !.tables = (@ \ {"_alembic_tmp_products"}) \cup {"products"}]
           f2 == [f1 EXCEPT !.columns = f.copy_columns]
           f3 == [f2 EXCEPT !.copy_columns = "plain"]
           f4 == [f3 EXCEPT !.products = f.copy]
           f5 == [f4 EXCEPT !.copy = {}]
           f6 == [f5 EXCEPT !.filled = IF f.copy_columns = "audited" THEN f.copy ELSE {}]
<1>0. f.copy_columns = cc /\ f.copy = cp
  BY DEF Content
<1>1. f1 = Content(rv, ts1, cs, ps, fs, cc, cp, rs, ks)
  BY DEF Content
<1>2. f2 = Content(rv, ts1, cc, ps, fs, cc, cp, rs, ks)
  <2> HIDE DEF f, f1
  <2> QED
    BY <1>0, <1>1 DEF Content
<1>3. f3 = Content(rv, ts1, cc, ps, fs, "plain", cp, rs, ks)
  <2> HIDE DEF f, f2
  <2> QED
    BY <1>2 DEF Content
<1>4. f4 = Content(rv, ts1, cc, cp, fs, "plain", cp, rs, ks)
  <2> HIDE DEF f, f3
  <2> QED
    BY <1>0, <1>3 DEF Content
<1>5. f5 = Content(rv, ts1, cc, cp, fs, "plain", {}, rs, ks)
  <2> HIDE DEF f, f4
  <2> QED
    BY <1>4 DEF Content
<1>6. f6 = Content(rv, ts1, cc, cp, fs1, "plain", {}, rs, ks)
  <2> HIDE DEF f, f5
  <2> QED
    BY <1>0, <1>5 DEF Content
<1>7. Effect(<<"rename_copy", columns>>, f) = f6
  BY DEF Effect
<1>8. QED
  BY <1>6, <1>7

\* Adding and taking away tables.
LEMMA CopyTables ==
  /\ AllTables \cup {"_alembic_tmp_products"} = WithCopy
  /\ ((WithCopy \ {"products"}) \ {"_alembic_tmp_products"}) \cup {"products"} = AllTables
  /\ AllTables \ {"idempotency_keys"} = {"alembic_version", "products", "reservations"}
  /\ {"alembic_version", "products", "reservations"} \ {"reservations"} =
       {"alembic_version", "products"}
  /\ {"alembic_version", "products"} \ {"products"} = {"alembic_version"}
BY DEF AllTables, WithCopy, Business

\* Statement i + 1 of the way up fits the file after i statements, if foreign
\* keys are off where products is dropped, and makes the next.
LEMMA UpStep ==
  ASSUME NEW f, NEW i \in 0..11, NEW keys_on \in BOOLEAN, i = 9 => ~keys_on
  PROVE  /\ Fits(UpRoad[i + 1], UpFile(i, f), keys_on)
         /\ Effect(UpRoad[i + 1], UpFile(i, f)) = UpFile(i + 1, f)
<1> USE DEF UpRoad, UpFile
<1>0. CASE i = 0
  BY <1>0 DEF Fits, Effect, Content, AllTables, Business
<1>1. CASE i = 1
  BY <1>1 DEF Fits, Effect, Content, AllTables, Business
<1>2. CASE i = 2
  BY <1>2 DEF Fits, Effect, Content, AllTables, Business
<1>3. CASE i = 3
  BY <1>3 DEF Fits, Effect, Content, AllTables, Business
<1>4. CASE i = 4
  BY <1>4 DEF Fits, Effect, Content, AllTables, Business
<1>5. CASE i = 5
  BY <1>5 DEF Fits, Effect, Content, AllTables, Business
<1>6. CASE i = 6
  BY <1>6 DEF Fits, Effect, Content, AllTables, Business
<1>7. CASE i = 7
  <2>1. Fits(UpRoad[i + 1], UpFile(i, f), keys_on)
    BY <1>7 DEF Fits, Referenced, Content, AllTables, WithCopy, Business
  <2>2. Effect(UpRoad[i + 1], UpFile(i, f)) = UpFile(i + 1, f)
    BY <1>7, CreateCopyMakes, CopyTables
  <2>3. QED
    BY <2>1, <2>2
<1>8. CASE i = 8
  BY <1>8 DEF Fits, Effect, Content, AllTables, Business
<1>9. CASE i = 9
  <2>1. Fits(UpRoad[i + 1], UpFile(i, f), keys_on)
    BY <1>9 DEF Fits, Referenced, Content, AllTables, WithCopy, Business
  <2>2. Effect(UpRoad[i + 1], UpFile(i, f)) = UpFile(i + 1, f)
    BY <1>9, DropMakes
  <2>3. QED
    BY <2>1, <2>2
<1>10. CASE i = 10
  <2>1. Fits(UpRoad[i + 1], UpFile(i, f), keys_on)
    BY <1>10 DEF Fits, Referenced, Content, AllTables, WithCopy, Business
  <2>2. Effect(UpRoad[i + 1], UpFile(i, f)) = UpFile(i + 1, f)
    BY <1>10, RenameCopyMakes, CopyTables
  <2>3. QED
    BY <2>1, <2>2
<1>11. CASE i = 11
  BY <1>11 DEF Fits, Effect, Content, AllTables, Business
<1> HIDE DEF UpRoad, UpFile
<1>12. QED
  BY <1>0, <1>1, <1>2, <1>3, <1>4, <1>5, <1>6, <1>7, <1>8, <1>9, <1>10, <1>11

LEMMA DownStep ==
  ASSUME NEW f, NEW i \in 0..8, NEW keys_on \in BOOLEAN, i = 2 => ~keys_on
  PROVE  /\ Fits(DownRoad[i + 1], DownFile(i, f), keys_on)
         /\ Effect(DownRoad[i + 1], DownFile(i, f)) = DownFile(i + 1, f)
<1> USE DEF DownRoad, DownFile
<1>0. CASE i = 0
  <2>1. Fits(DownRoad[i + 1], DownFile(i, f), keys_on)
    BY <1>0 DEF Fits, Referenced, Content, AllTables, WithCopy, Business
  <2>2. Effect(DownRoad[i + 1], DownFile(i, f)) = DownFile(i + 1, f)
    BY <1>0, CreateCopyMakes, CopyTables
  <2>3. QED
    BY <2>1, <2>2
<1>1. CASE i = 1
  BY <1>1 DEF Fits, Effect, Content, AllTables, Business
<1>2. CASE i = 2
  <2>1. Fits(DownRoad[i + 1], DownFile(i, f), keys_on)
    BY <1>2 DEF Fits, Referenced, Content, AllTables, WithCopy, Business
  <2>2. Effect(DownRoad[i + 1], DownFile(i, f)) = DownFile(i + 1, f)
    BY <1>2, DropMakes
  <2>3. QED
    BY <2>1, <2>2
<1>3. CASE i = 3
  <2>1. Fits(DownRoad[i + 1], DownFile(i, f), keys_on)
    BY <1>3 DEF Fits, Referenced, Content, AllTables, WithCopy, Business
  <2>2. Effect(DownRoad[i + 1], DownFile(i, f)) = DownFile(i + 1, f)
    BY <1>3, RenameCopyMakes, CopyTables
  <2>3. QED
    BY <2>1, <2>2
<1>4. CASE i = 4
  BY <1>4 DEF Fits, Effect, Content, AllTables, Business
<1>5. CASE i = 5
  <2>1. Fits(DownRoad[i + 1], DownFile(i, f), keys_on)
    BY <1>5 DEF Fits, Referenced, Content, AllTables, WithCopy, Business
  <2>2. Effect(DownRoad[i + 1], DownFile(i, f)) = DownFile(i + 1, f)
    BY <1>5, DropMakes, CopyTables
  <2>3. QED
    BY <2>1, <2>2
<1>6. CASE i = 6
  <2>1. Fits(DownRoad[i + 1], DownFile(i, f), keys_on)
    BY <1>6 DEF Fits, Referenced, Content, AllTables, WithCopy, Business
  <2>2. Effect(DownRoad[i + 1], DownFile(i, f)) = DownFile(i + 1, f)
    BY <1>6, DropMakes, CopyTables
  <2>3. QED
    BY <2>1, <2>2
<1>7. CASE i = 7
  <2>1. Fits(DownRoad[i + 1], DownFile(i, f), keys_on)
    BY <1>7 DEF Fits, Referenced, Content, AllTables, WithCopy, Business
  <2>2. Effect(DownRoad[i + 1], DownFile(i, f)) = DownFile(i + 1, f)
    BY <1>7, DropMakes, CopyTables
  <2>3. QED
    BY <2>1, <2>2
<1>8. CASE i = 8
  BY <1>8 DEF Fits, Effect, Content, AllTables, Business
<1> HIDE DEF DownRoad, DownFile
<1>9. QED
  BY <1>0, <1>1, <1>2, <1>3, <1>4, <1>5, <1>6, <1>7, <1>8

\* What the tables of the two roads say of a file, wherever they lead to.
LEMMA UpFields ==
  ASSUME NEW f \in File, NEW i \in 0..12
  PROVE  /\ UpFile(i, f) \in File
         /\ UpFile(i, f).reservations = f.reservations /\ UpFile(i, f).keys = f.keys
         /\ i # 10 => UpFile(i, f).products = f.products
         /\ UpFile(i, f).revision = IF i < 5 THEN "base" ELSE IF i < 12 THEN "tables" ELSE "audit"
         /\ i = 0 => UpFile(i, f).tables = {}
         /\ i = 1 => UpFile(i, f).tables = {"alembic_version"}
         /\ i \in {5, 12} => UpFile(i, f).tables = AllTables
<1>1. /\ AllTables \in SUBSET Tables /\ WithCopy \in SUBSET Tables
      /\ f.products \in SUBSET Products /\ f.reservations \in SUBSET Products
      /\ f.keys \in SUBSET Products
  BY DEF File, Tables, AllTables, WithCopy, Business
<1>2. \A revision \in Revisions, tables \in SUBSET Tables, columns \in Columns,
         products \in SUBSET Products, filled \in SUBSET Products, copy_columns \in Columns,
         copy \in SUBSET Products :
        Content(revision, tables, columns, products, filled, copy_columns, copy,
                f.reservations, f.keys) \in File
  BY <1>1 DEF Content, File
<1>3. i \in {0, 1, 2, 3, 4, 5, 6, 7, 8, 9, 10, 11, 12}
  OBVIOUS
<1>4. UpFile(i, f) \in File
  BY <1>1, <1>2, <1>3 DEF UpFile, Revisions, Columns, Tables
<1>5. QED
  BY <1>3, <1>4 DEF UpFile, Content

LEMMA DownFields ==
  ASSUME NEW f \in File, NEW i \in 0..9
  PROVE  DownFile(i, f) \in File
<1>1. /\ AllTables \in SUBSET Tables /\ WithCopy \in SUBSET Tables
      /\ f.products \in SUBSET Products /\ f.reservations \in SUBSET Products
      /\ f.keys \in SUBSET Products
  BY DEF File, Tables, AllTables, WithCopy, Business
<1>2. \A revision \in Revisions, tables \in SUBSET Tables, columns \in Columns,
         products \in SUBSET Products, filled \in SUBSET Products, copy_columns \in Columns,
         copy \in SUBSET Products, reservations \in SUBSET Products, keys \in SUBSET Products :
        Content(revision, tables, columns, products, filled, copy_columns, copy,
                reservations, keys) \in File
  BY DEF Content, File
<1>3. i \in {0, 1, 2, 3, 4, 5, 6, 7, 8, 9}
  OBVIOUS
<1>4. QED
  BY <1>1, <1>2, <1>3 DEF DownFile, Revisions, Columns, Tables

\* The ends of the roads are whole files.
LEMMA EndsAreWhole ==
  ASSUME NEW f \in File
  PROVE  /\ \A e \in {5, 12} : Whole(UpFile(e, f))
         /\ f.products = {} /\ f.reservations = {} /\ f.keys = {} =>
              \A e \in {0, 1} : Whole(UpFile(e, f))
         /\ Whole(DownFile(9, f))
<1>1. ASSUME NEW e \in {0, 1, 5, 12}
      PROVE  UpStart(UpFile(e, f)) = e /\ UpFile(e, UpFile(e, f)) = UpFile(e, f)
  <2>1. UpStart(UpFile(e, f)) = e
    BY UpFields DEF UpStart
  <2>2. /\ UpFile(e, f).products = f.products
        /\ UpFile(e, f).reservations = f.reservations /\ UpFile(e, f).keys = f.keys
    BY UpFields
  <2>3. UpFile(e, UpFile(e, f)) = UpFile(e, f)
    BY <2>2 DEF UpFile
  <2>4. QED
    BY <2>1, <2>3
<1>2. \A e \in {5, 12} : Whole(UpFile(e, f))
  BY <1>1, UpFields DEF Whole
<1>3. ASSUME f.products = {}, f.reservations = {}, f.keys = {}, NEW e \in {0, 1}
      PROVE  Whole(UpFile(e, f))
  BY <1>1, <1>3, UpFields DEF Whole
<1>4. Whole(DownFile(9, f))
  <2> DEFINE d == DownFile(9, f)
  <2>1. /\ d.revision = "base" /\ d.tables = {"alembic_version"} /\ d.products = {}
        /\ d.reservations = {} /\ d.keys = {}
        /\ d = Content("base", {"alembic_version"}, "plain", {}, {}, "plain", {}, {}, {})
    BY DEF DownFile, Content
  <2>2. UpStart(d) = 1
    BY <2>1 DEF UpStart
  <2>3. UpFile(1, d) = d
    <3> HIDE DEF d
    <3> QED
      BY <2>1 DEF UpFile
  <2>4. QED
    BY <2>1, <2>2, <2>3 DEF Whole
<1>5. QED
  BY <1>2, <1>3, <1>4

-----------------------------------------------------------------------------
(* The plans lie on the roads. *)

Statements == Verbs \X (Tables \cup Columns \cup Revisions \cup Products)

\* The way from i to m and the way from m to e are the way from i to e.
LEMMA RemainsConcat ==
  ASSUME NEW s \in Seq(Statements), NEW t \in Seq(Statements), NEW road,
         NEW i \in Nat, NEW m \in i..12, NEW e \in m..12,
         Remains(s, road, i, m), Remains(t, road, m, e)
  PROVE  s \o t \in Seq(Statements) /\ Remains(s \o t, road, i, e)
<1>1. /\ s \o t \in Seq(Statements)
      /\ Len(s \o t) = Len(s) + Len(t)
      /\ \A j \in 1..(Len(s) + Len(t)) :
           (s \o t)[j] = IF j <= Len(s) THEN s[j] ELSE t[j - Len(s)]
  BY ConcatProperties
<1>2. Len(s) = m - i /\ Len(t) = e - m
  BY DEF Remains
<1>3. ASSUME NEW j \in 1..(e - i)
      PROVE  (s \o t)[j] = road[i + j]
  <2>1. CASE j <= m - i
    BY <1>1, <1>2, <2>1 DEF Remains
  <2>2. CASE j > m - i
    <3>1. j - (m - i) \in 1..(e - m)
      BY <2>2
    <3>2. t[j - (m - i)] = road[m + (j - (m - i))]
      BY <3>1 DEF Remains
    <3>3. QED
      BY <1>1, <1>2, <2>2, <3>2
  <2>3. j \in Int /\ m - i \in Int
    OBVIOUS
  <2>4. j <= m - i \/ j > m - i
    BY <2>3
  <2>5. QED
    BY <2>1, <2>2, <2>4, Zenon
<1>4. QED
  BY <1>1, <1>2, <1>3 DEF Remains

LEMMA RemainsNone ==
  ASSUME NEW road, NEW i \in Nat
  PROVE  << >> \in Seq(Statements) /\ Remains(<< >>, road, i, i)
BY DEF Remains

\* The next statement of what remains is the next of the road.
LEMMA RemainsTail ==
  ASSUME NEW s \in Seq(Statements), NEW road, NEW i \in Nat, NEW e \in i..12,
         Remains(s, road, i, e)
  PROVE  /\ s = << >> <=> i = e
         /\ s # << >> => /\ i + 1 \in 1..e /\ i < e
                         /\ Head(s) = road[i + 1]
                         /\ Tail(s) \in Seq(Statements)
                         /\ Remains(Tail(s), road, i + 1, e)
<1>1. Len(s) = e - i /\ \A j \in 1..(e - i) : s[j] = road[i + j]
  BY DEF Remains
<1>2. s = << >> <=> Len(s) = 0
  BY EmptySeq
<1>3. ASSUME s # << >>
      PROVE  /\ Head(s) = road[i + 1] /\ i < e
             /\ Tail(s) \in Seq(Statements)
             /\ Remains(Tail(s), road, i + 1, e)
  <2>1. i < e /\ Head(s) = s[1]
    BY <1>1, <1>2, <1>3
  <2>2. /\ Tail(s) \in Seq(Statements) /\ Len(Tail(s)) = Len(s) - 1
        /\ \A j \in 1..Len(Tail(s)) : Tail(s)[j] = s[j + 1]
    BY <1>3, HeadTailProperties
  <2>3. \A j \in 1..(e - (i + 1)) : Tail(s)[j] = road[(i + 1) + j]
    BY <1>1, <2>1, <2>2
  <2>4. QED
    BY <1>1, <2>1, <2>2, <2>3 DEF Remains
<1>4. QED
  BY <1>1, <1>2, <1>3

\* The parts of the plans.
LEMMA PartsOnRoads ==
  /\ << <<"create", "alembic_version">> >> \in Seq(Statements)
  /\ Remains(<< <<"create", "alembic_version">> >>, UpRoad, 0, 1)
  /\ CreateTables \in Seq(Statements) /\ Remains(CreateTables, UpRoad, 1, 5)
  /\ AddAudit \in Seq(Statements) /\ Remains(AddAudit, UpRoad, 5, 12)
  /\ RemoveAudit \in Seq(Statements) /\ Remains(RemoveAudit, DownRoad, 0, 5)
  /\ DropTables \in Seq(Statements) /\ Remains(DropTables, DownRoad, 5, 9)
<1>1. \A v \in Verbs, x \in Tables \cup Columns \cup Revisions : <<v, x>> \in Statements
  BY DEF Statements
<1>2. /\ << <<"create", "alembic_version">> >> \in Seq(Statements)
      /\ Remains(<< <<"create", "alembic_version">> >>, UpRoad, 0, 1)
  BY <1>1 DEF Remains, UpRoad, Verbs, Tables
<1>3. CreateTables \in Seq(Statements) /\ Remains(CreateTables, UpRoad, 1, 5)
  BY <1>1 DEF Remains, UpRoad, CreateTables, Verbs, Tables, Revisions
<1>4. DropTables \in Seq(Statements) /\ Remains(DropTables, DownRoad, 5, 9)
  BY <1>1 DEF Remains, DownRoad, DropTables, Verbs, Tables, Revisions
<1>5. /\ Recreate("audited") \in Seq(Statements) /\ Remains(Recreate("audited"), UpRoad, 7, 11)
      /\ Recreate("plain") \in Seq(Statements) /\ Remains(Recreate("plain"), DownRoad, 0, 4)
  BY <1>1 DEF Remains, UpRoad, DownRoad, Recreate, Verbs, Tables, Columns
<1>6. AddAudit \in Seq(Statements) /\ Remains(AddAudit, UpRoad, 5, 12)
  <2> DEFINE begin == << <<"add_columns", "products">>, <<"fill_columns", "products">> >>
             end == << <<"stamp", "audit">> >>
  <2>1. begin \in Seq(Statements) /\ Remains(begin, UpRoad, 5, 7)
    BY <1>1 DEF Remains, UpRoad, Verbs, Tables
  <2>2. end \in Seq(Statements) /\ Remains(end, UpRoad, 11, 12)
    BY <1>1 DEF Remains, UpRoad, Verbs, Revisions
  <2>3. AddAudit = (begin \o Recreate("audited")) \o end
    BY DEF AddAudit
  <2> HIDE DEF begin, end
  <2> DEFINE most == begin \o Recreate("audited")
  <2>4. most \in Seq(Statements) /\ Remains(most, UpRoad, 5, 11)
    BY <1>5, <2>1, RemainsConcat
  <2>5. AddAudit = most \o end
    BY <2>3
  <2> HIDE DEF most
  <2>6. most \o end \in Seq(Statements) /\ Remains(most \o end, UpRoad, 5, 12)
    BY <2>2, <2>4, RemainsConcat
  <2>7. QED
    BY <2>5, <2>6
<1>7. RemoveAudit \in Seq(Statements) /\ Remains(RemoveAudit, DownRoad, 0, 5)
  <2> DEFINE end == << <<"stamp", "tables">> >>
  <2>1. end \in Seq(Statements) /\ Remains(end, DownRoad, 4, 5)
    BY <1>1 DEF Remains, DownRoad, Verbs, Revisions
  <2>2. RemoveAudit = Recreate("plain") \o end
    BY DEF RemoveAudit
  <2> HIDE DEF end
  <2>3. QED
    BY <1>5, <2>1, <2>2, RemainsConcat
<1>8. QED
  BY <1>2, <1>3, <1>4, <1>6, <1>7

Commands == {<<"upgrade", "tables">>, <<"upgrade", "audit">>, <<"downgrade", "base">>}

\* Every command on every whole file has its plan on a road, from the place
\* of the file there to the place of the revision asked for.
LEMMA PlanOnRoad ==
  ASSUME NEW f \in File, Whole(f), NEW c \in Commands
  PROVE  /\ Plan(f, c[1], c[2]) \in Seq(Statements)
         /\ GoesUp(f, c) =>
              /\ UpStart(f) \in 0..12 /\ UpEnd(f, c) \in UpStart(f)..12
              /\ Remains(Plan(f, c[1], c[2]), UpRoad, UpStart(f), UpEnd(f, c))
         /\ ~GoesUp(f, c) =>
              /\ DownStart(f) \in {0, 5}
              /\ Remains(Plan(f, c[1], c[2]), DownRoad, DownStart(f), 9)
<1> DEFINE from == f.revision
           up == c[1] = "upgrade"
           to == c[2]
           A == If(from = "base" /\ "alembic_version" \notin f.tables,
                   << <<"create", "alembic_version">> >>)
           B == If(up /\ from = "base" /\ to # "base", CreateTables)
           C == If(up /\ from # "audit" /\ to = "audit", AddAudit)
           D == If(~up /\ from = "audit" /\ to # "audit", RemoveAudit)
           E == If(~up /\ from # "base" /\ to = "base", DropTables)
<1>1. Plan(f, c[1], c[2]) = (((A \o B) \o C) \o D) \o E
  BY DEF Plan
<1>2. /\ c[1] \in {"upgrade", "downgrade"} /\ c[2] \in Revisions
      /\ ~up <=> to = "base"
      /\ from \in Revisions
  BY DEF Commands, File, Revisions
<1>3. CASE GoesUp(f, c)
  <2> DEFINE k0 == UpStart(f)
             k1 == IF from = "base" THEN 1 ELSE k0
             k2 == IF up /\ from = "base" THEN 5 ELSE k1
             k3 == UpEnd(f, c)
  <2>1. /\ k0 \in 0..12 /\ k1 \in k0..12 /\ k2 \in k1..12 /\ k3 \in k2..12
        /\ k0 \in Nat /\ k1 \in Nat /\ k2 \in Nat /\ k3 \in Nat
    BY <1>2, <1>3 DEF UpStart, UpEnd, GoesUp, Revisions, Commands
  <2>2. A \in Seq(Statements) /\ Remains(A, UpRoad, k0, k1)
    BY <1>2, <2>1, PartsOnRoads, RemainsNone DEF If, UpStart, Revisions
  <2>3. B \in Seq(Statements) /\ Remains(B, UpRoad, k1, k2)
    BY <1>2, <1>3, <2>1, PartsOnRoads, RemainsNone DEF If, UpStart, Revisions
  <2>4. C \in Seq(Statements) /\ Remains(C, UpRoad, k2, k3)
    <3>1. CASE up /\ from # "audit" /\ to = "audit"
      <4>1. k2 = 5 /\ k3 = 12
        BY <1>2, <3>1 DEF UpStart, UpEnd, Revisions
      <4>2. C = AddAudit
        BY <3>1 DEF If
      <4>3. QED
        BY <4>1, <4>2, PartsOnRoads
    <3>2. CASE ~(up /\ from # "audit" /\ to = "audit")
      <4>1. k2 = k3
        BY <1>2, <1>3, <3>2 DEF UpStart, UpEnd, Revisions, GoesUp
      <4>2. C = << >>
        BY <3>2 DEF If
      <4>3. QED
        BY <2>1, <4>1, <4>2, RemainsNone
    <3>3. QED
      BY <3>1, <3>2
  <2>5. /\ D \in Seq(Statements) /\ Remains(D, UpRoad, k3, k3)
        /\ E \in Seq(Statements) /\ Remains(E, UpRoad, k3, k3)
    <3>1. D = << >> /\ E = << >>
      BY <1>2, <1>3 DEF If, GoesUp
    <3>2. QED
      BY <2>1, <3>1, RemainsNone
  <2> HIDE DEF A, B, C, D, E, k0, k1, k2, k3
  <2>6. A \o B \in Seq(Statements) /\ Remains(A \o B, UpRoad, k0, k2)
    BY <2>1, <2>2, <2>3, RemainsConcat
  <2>7. k2 \in k0..12 /\ k3 \in k0..12 /\ k3 \in k3..12
    BY <2>1
  <2>8. (A \o B) \o C \in Seq(Statements) /\ Remains((A \o B) \o C, UpRoad, k0, k3)
    BY <2>1, <2>4, <2>6, <2>7, RemainsConcat
  <2>9. /\ ((A \o B) \o C) \o D \in Seq(Statements)
        /\ Remains(((A \o B) \o C) \o D, UpRoad, k0, k3)
    BY <2>1, <2>5, <2>7, <2>8, RemainsConcat
  <2>10. /\ (((A \o B) \o C) \o D) \o E \in Seq(Statements)
         /\ Remains((((A \o B) \o C) \o D) \o E, UpRoad, k0, k3)
    BY <2>1, <2>5, <2>7, <2>9, RemainsConcat
  <2>11. QED
    BY <1>1, <1>3, <2>1, <2>7, <2>10 DEF k0, k3
<1>4. CASE ~GoesUp(f, c)
  <2> DEFINE k0 == DownStart(f)
  <2>1. k0 \in {0, 5} /\ k0 \in Nat /\ 5 \in k0..12 /\ k0 \in k0..12 /\ 9 \in 5..12
    BY DEF DownStart
  <2>2. ~up /\ from \in {"tables", "audit"} /\ to = "base"
    BY <1>2, <1>4 DEF GoesUp, Revisions
  <2>3. A = << >> /\ B = << >> /\ C = << >>
    BY <2>2 DEF If
  <2>4. D \in Seq(Statements) /\ Remains(D, DownRoad, k0, 5)
    BY <2>1, <2>2, PartsOnRoads, RemainsNone DEF If, DownStart
  <2>5. E \in Seq(Statements) /\ Remains(E, DownRoad, 5, 9)
    BY <2>2, PartsOnRoads DEF If
  <2>6. << >> \o << >> = << >> /\ << >> \o D = D
    BY <2>4, ConcatEmptySeq
  <2>7. Plan(f, c[1], c[2]) = D \o E
    <3> HIDE DEF A, B, C, D, E
    <3> QED
      BY <1>1, <2>3, <2>6
  <2> HIDE DEF D, E, k0
  <2>8. D \o E \in Seq(Statements) /\ Remains(D \o E, DownRoad, k0, 9)
    BY <2>1, <2>4, <2>5, RemainsConcat
  <2>9. QED
    BY <1>4, <2>1, <2>7, <2>8 DEF k0
<1>5. QED
  BY <1>3, <1>4

-----------------------------------------------------------------------------
(* What a step leaves alone. *)

Untouched(q) ==
  /\ q \in shared' <=> q \in shared
  /\ pc'[q] = pc[q] /\ enforced'[q] = enforced[q] /\ plan'[q] = plan[q]
  /\ work'[q] = work[q] /\ exitStatus'[q] = exitStatus[q]

Others(p) == \A q \in Processes \ {p} : Untouched(q)

\* A process that a step does not touch stays sound if the file stays,
LEMMA FrameProcess ==
  ASSUME NEW q \in Processes, Sound(q), Untouched(q), UNCHANGED <<inputs, file>>
  PROVE  Sound(q)'
<1>1. AllUpgrade' = AllUpgrade /\ Head_' = Head_
  BY DEF AllUpgrade, Head_, inputs
<1>2. UnderWay(q) => UnderWay(q)'
  BY DEF UnderWay, Untouched, inputs
<1>3. Reserves(q) => Reserves(q)'
  BY DEF Reserves, Untouched
<1>4. QED
  BY <1>1, <1>2, <1>3 DEF Sound, Untouched, inputs

\* or if it has not read the file and the revision is not taken from it.
LEMMA FrameReader ==
  ASSUME NEW q \in Processes, Sound(q), Untouched(q), UNCHANGED inputs, q \notin shared,
         AllUpgrade /\ file.revision = Head_ => file'.revision = Head_
  PROVE  Sound(q)'
<1>1. AllUpgrade' = AllUpgrade /\ Head_' = Head_
  BY DEF AllUpgrade, Head_, inputs
<1>2. pc[q] \notin {"migrating", "checked", "reserving"}
  BY DEF Sound
<1>3. QED
  BY <1>1, <1>2 DEF Sound, Untouched, inputs

\* A step of p that leaves the file alone has to answer for p only.
LEMMA FileKept ==
  ASSUME FileInv, NEW p \in Processes, UNCHANGED <<inputs, file, orphaned>>, Others(p),
         MigrationTypeOK', Isolation', Sound(p)'
  PROVE  FileInv'
<1>1. Inputs'
  BY DEF FileInv, Inputs, CommandsOf, Head_, inputs
<1>2. Whole(file)' /\ (Orphans(file)' # {} => orphaned')
  BY DEF FileInv
<1>3. \A q \in Processes : Sound(q)'
  BY FrameProcess DEF FileInv, Others
<1>4. QED
  BY <1>1, <1>2, <1>3 DEF FileInv

\* Letting go of the locks.
LEMMA ReleaseFrame ==
  ASSUME FileInv, NEW p \in Processes, Release(p), UNCHANGED inputs
  PROVE  /\ shared' \in SUBSET Processes /\ writer' \in Processes \cup {Nobody}
         /\ pendingLock' \in BOOLEAN
         /\ plan' \in [Processes -> Seq(Statements)] /\ work' \in [Processes -> File]
         /\ \A q \in Processes \ {p} :
              /\ q \in shared' <=> q \in shared
              /\ plan'[q] = plan[q] /\ work'[q] = work[q]
              /\ writer' = q <=> writer = q
         /\ p \notin shared' /\ writer' # p
         /\ pendingLock' => writer' # Nobody
         /\ writer' # Nobody => writer' \in shared' /\ writer' = writer
<1>1. MigrationTypeOK /\ Isolation
  BY DEF FileInv
<1>2. NewFile \in File /\ << >> \in Seq(Statements)
  BY EmptySeq DEF NewFile, File, Revisions, Tables, Columns
<1>3. p # Nobody /\ \A q \in Processes : q # Nobody
  BY NobodyAssumption
<1>4. /\ plan \in [Processes -> Seq(Statements)] /\ work \in [Processes -> File]
      /\ shared \in SUBSET Processes /\ writer \in Processes \cup {Nobody}
      /\ pendingLock \in BOOLEAN
  BY <1>1 DEF MigrationTypeOK, Statements
<1>5. /\ plan' \in [Processes -> Seq(Statements)] /\ work' \in [Processes -> File]
      /\ \A q \in Processes \ {p} : plan'[q] = plan[q] /\ work'[q] = work[q]
  BY <1>2, <1>4 DEF Release
<1>6. /\ shared' \in SUBSET Processes /\ writer' \in Processes \cup {Nobody}
      /\ pendingLock' \in BOOLEAN
      /\ \A q \in Processes \ {p} : (q \in shared' <=> q \in shared)
      /\ p \notin shared'
  BY <1>4 DEF Release
<1>7. /\ \A q \in Processes \ {p} : (writer' = q <=> writer = q)
      /\ writer' # p
  BY <1>3 DEF Release
<1>8. /\ pendingLock' => writer' # Nobody
      /\ writer' # Nobody => writer' \in shared' /\ writer' = writer
  BY <1>1, <1>3 DEF Release, Isolation
<1>9. QED
  BY <1>5, <1>6, <1>7, <1>8

\* A transaction that is rolled back.
LEMMA GiveUpStep ==
  ASSUME FileInv, NEW p \in Processes, NEW why \in Results, why \notin {"ok"}, GiveUp(p, why),
         pc[p] \in {"connected", "migrating", "checked", "reserving"},
         pc[p] # "reserving" => why # "error"
  PROVE  FileInv'
<1>1. MigrationTypeOK /\ Isolation /\ Sound(p)
  BY DEF FileInv
<1>2. Release(p) /\ UNCHANGED <<inputs, file, enforced, orphaned>>
  BY DEF GiveUp
<1>3. /\ pc' = [pc EXCEPT ![p] = IF pc[p] = "reserving" THEN "serving" ELSE "ending"]
      /\ exitStatus' = IF pc[p] = "reserving" THEN exitStatus ELSE [exitStatus EXCEPT ![p] = why]
  BY DEF GiveUp, Go
<1>4. Others(p)
  BY <1>1, <1>2, <1>3, ReleaseFrame DEF Others, Untouched, MigrationTypeOK
<1>5. MigrationTypeOK'
  <2>1. pc' \in [Processes -> Places] /\ exitStatus' \in [Processes -> Results]
    BY <1>1, <1>3 DEF MigrationTypeOK, Places
  <2>2. QED
    BY <1>1, <1>2, <2>1, ReleaseFrame DEF MigrationTypeOK, Statements, inputs
<1>6. Isolation'
  <2>1. \A q \in Processes : pc'[q] \in {"new", "ended", "serving", "reserving"} => enforced'[q]
    BY <1>1, <1>2, <1>3 DEF Isolation, MigrationTypeOK
  <2>2. \A q \in Processes : q \in shared' /\ writer' # q => work'[q] = file'
    BY <1>1, <1>2, ReleaseFrame DEF Isolation
  <2>3. QED
    BY <1>2, <2>1, <2>2, ReleaseFrame DEF Isolation
<1>7. Sound(p)'
  <2>1. pc'[p] = IF pc[p] = "reserving" THEN "serving" ELSE "ending"
    BY <1>1, <1>3 DEF MigrationTypeOK
  <2>2. exitStatus'[p] = IF pc[p] = "reserving" THEN exitStatus[p] ELSE why
    BY <1>1, <1>3 DEF MigrationTypeOK
  <2>3. p \notin shared'
    BY <1>2, ReleaseFrame
  <2>4. AllUpgrade' = AllUpgrade /\ Head_' = Head_
    BY <1>2 DEF AllUpgrade, Head_, inputs
  <2>5. QED
    BY <1>1, <1>2, <2>1, <2>2, <2>3, <2>4 DEF Sound
<1>8. QED
  BY <1>2, <1>4, <1>5, <1>6, <1>7, FileKept

-----------------------------------------------------------------------------
(* The steps of a command. *)

LEMMA ConnectStep ==
  ASSUME FileInv, NEW p \in Processes, Connect(p)
  PROVE  FileInv'
<1>1. MigrationTypeOK /\ Isolation /\ Sound(p)
  BY DEF FileInv
<1>2. /\ UNCHANGED <<inputs, file, locks, plan, work, orphaned>>
      /\ pc[p] = "new"
      /\ IF p \in given
         THEN /\ pc' = [pc EXCEPT ![p] = "ended"] /\ enforced' = enforced
              /\ exitStatus' = [exitStatus EXCEPT ![p] = "rejected"]
         ELSE /\ pc' = [pc EXCEPT ![p] = "connected"] /\ exitStatus' = exitStatus
              /\ enforced' = [enforced EXCEPT ![p] = ~fastcrud]
  BY DEF Connect, Go
<1>3. Others(p)
  BY <1>1, <1>2 DEF Others, Untouched, MigrationTypeOK, locks
<1>4. MigrationTypeOK'
  <2>1. fastcrud \in BOOLEAN
    BY <1>1 DEF MigrationTypeOK
  <2>2. pc' \in [Processes -> Places] /\ exitStatus' \in [Processes -> Results]
    BY <1>1, <1>2 DEF MigrationTypeOK, Places, Results
  <2>3. enforced' \in [Processes -> BOOLEAN]
    BY <1>1, <1>2 DEF MigrationTypeOK
  <2>4. QED
    BY <1>1, <1>2, <2>2, <2>3 DEF MigrationTypeOK, inputs, locks
<1>5. Isolation'
  BY <1>1, <1>2 DEF Isolation, MigrationTypeOK, locks
<1>6. Sound(p)'
  BY <1>1, <1>2 DEF Sound, MigrationTypeOK, locks, inputs
<1>7. QED
  BY <1>2, <1>3, <1>4, <1>5, <1>6, FileKept

\* The file that BEGIN reads is at its place on the road of the plan.
LEMMA BeginStep ==
  ASSUME FileInv, NEW p \in Processes, BeginMigration(p)
  PROVE  FileInv'
<1> DEFINE c == command[p]
<1>1. MigrationTypeOK /\ Isolation /\ Sound(p) /\ Whole(file) /\ Inputs
  BY DEF FileInv
<1>2. /\ UNCHANGED <<inputs, file, writer, pendingLock, enforced, exitStatus, orphaned>>
      /\ pc[p] = "connected"
      /\ shared' = shared \cup {p}
      /\ work' = [work EXCEPT ![p] = file]
      /\ plan' = [plan EXCEPT ![p] = Plan(file, c[1], c[2])]
      /\ pc' = [pc EXCEPT ![p] = "migrating"]
  BY DEF BeginMigration, Go
<1>3. file \in File /\ c \in Commands
  BY <1>1 DEF MigrationTypeOK, Inputs, Commands, CommandsOf, Head_
<1>4. Others(p)
  BY <1>1, <1>2 DEF Others, Untouched, MigrationTypeOK
<1>5. MigrationTypeOK'
  <2>1. plan' \in [Processes -> Seq(Statements)]
    BY <1>1, <1>2, <1>3, PlanOnRoad DEF MigrationTypeOK, Statements
  <2>2. work' \in [Processes -> File] /\ pc' \in [Processes -> Places]
    BY <1>1, <1>2 DEF MigrationTypeOK, Places
  <2>3. QED
    BY <1>1, <1>2, <2>1, <2>2 DEF MigrationTypeOK, inputs, Statements
<1>6. Isolation'
  BY <1>1, <1>2 DEF Isolation, MigrationTypeOK
<1>7. UnderWay(p)'
  <2>1. /\ plan'[p] = Plan(file, c[1], c[2]) /\ work'[p] = file
        /\ file' = file /\ command' = command
    BY <1>1, <1>2 DEF MigrationTypeOK, inputs
  <2>2. CASE GoesUp(file, c)
    <3>1. /\ UpStart(file) \in UpStart(file)..UpEnd(file, c)
          /\ Remains(plan'[p], UpRoad, UpStart(file), UpEnd(file, c))
      BY <1>1, <1>3, <2>1, <2>2, PlanOnRoad
    <3>2. file = UpFile(UpStart(file), file)
      BY <1>1 DEF Whole
    <3>3. QED
      BY <2>1, <2>2, <3>1, <3>2 DEF UnderWay
  <2>3. CASE ~GoesUp(file, c)
    <3>1. /\ DownStart(file) \in DownStart(file)..9
          /\ Remains(plan'[p], DownRoad, DownStart(file), 9)
      BY <1>1, <1>3, <2>1, <2>3, PlanOnRoad
    <3>2. file.revision \in {"tables", "audit"}
      BY <1>3, <2>3 DEF GoesUp, File, Revisions
    <3>3. file = UpFile(UpStart(file), file)
      BY <1>1 DEF Whole
    <3>4. file = DownFile(DownStart(file), file)
      BY <3>2, <3>3 DEF UpStart, DownStart, UpFile, DownFile
    <3>5. QED
      BY <2>1, <2>3, <3>1, <3>4 DEF UnderWay
  <2>4. QED
    BY <2>2, <2>3
<1>8. Sound(p)'
  BY <1>1, <1>2, <1>7 DEF Sound, MigrationTypeOK, inputs
<1>9. QED
  BY <1>2, <1>4, <1>5, <1>6, <1>8, FileKept

\* The statement that comes next always succeeds, and takes the transaction
\* one step further on its road.
LEMMA NextStatement ==
  ASSUME FileInv, NEW p \in Processes, pc[p] = "migrating", plan[p] # << >>
  PROVE  /\ Fits(Head(plan[p]), work[p], enforced[p])
         /\ Effect(Head(plan[p]), work[p]) \in File
         /\ Tail(plan[p]) \in Seq(Statements)
         /\ GoesUp(file, command[p]) =>
              \E i \in UpStart(file)..UpEnd(file, command[p]) :
                 /\ Remains(Tail(plan[p]), UpRoad, i, UpEnd(file, command[p]))
                 /\ Effect(Head(plan[p]), work[p]) = UpFile(i, file)
         /\ ~GoesUp(file, command[p]) =>
              \E i \in DownStart(file)..9 :
                 /\ Remains(Tail(plan[p]), DownRoad, i, 9)
                 /\ Effect(Head(plan[p]), work[p]) = DownFile(i, file)
<1> DEFINE c == command[p]
           s == plan[p]
<1>1. /\ file \in File /\ s \in Seq(Statements) /\ enforced[p] = ~fastcrud
      /\ enforced[p] \in BOOLEAN /\ fastcrud \in BOOLEAN
  BY DEF FileInv, MigrationTypeOK, Sound, Statements
<1>2. c \in Commands /\ Whole(file) /\ UnderWay(p)
      /\ (file.revision = "audit" => fastcrud) /\ (c[2] = "audit" => fastcrud)
  BY DEF FileInv, Inputs, Commands, CommandsOf, Head_, Sound
<1>3. CASE GoesUp(file, c)
  <2> DEFINE e == UpEnd(file, c)
  <2>1. UpStart(file) \in 0..12 /\ e \in UpStart(file)..12
    BY <1>1, <1>2, <1>3, PlanOnRoad
  <2>2. PICK i \in UpStart(file)..e : Remains(s, UpRoad, i, e) /\ work[p] = UpFile(i, file)
    BY <1>2, <1>3 DEF UnderWay
  <2>3. e = 12 => fastcrud
    BY <1>2, <1>3 DEF UpEnd
  <2> HIDE DEF e, s
  <2>4. i \in Nat /\ e \in i..12 /\ UpStart(file) \in Nat
    BY <2>1
  <2>5. /\ i + 1 \in 1..e /\ i < e /\ Head(s) = UpRoad[i + 1]
        /\ Tail(s) \in Seq(Statements) /\ Remains(Tail(s), UpRoad, i + 1, e)
    <3>1. s # << >>
      BY DEF s
    <3>2. QED
      BY <1>1, <2>2, <2>4, <3>1, RemainsTail
  <2>6. i \in 0..11 /\ i + 1 \in UpStart(file)..e /\ i + 1 \in 0..12
    BY <2>4, <2>5
  <2>7. i = 9 => ~enforced[p]
    <3>1. i = 9 => e = 12
      <4>1. e \in {1, 5, 12}
        BY DEF e, UpEnd
      <4>2. QED
        BY <2>5, <4>1
    <3>2. QED
      BY <1>1, <2>3, <3>1
  <2>8. /\ Fits(Head(s), work[p], enforced[p])
        /\ Effect(Head(s), work[p]) = UpFile(i + 1, file)
    BY <1>1, <2>2, <2>5, <2>6, <2>7, UpStep
  <2>9. UpFile(i + 1, file) \in File
    BY <1>1, <2>6, UpFields
  <2>10. QED
    BY <1>3, <2>5, <2>6, <2>8, <2>9 DEF e, s
<1>4. CASE ~GoesUp(file, c)
  <2>1. DownStart(file) \in {0, 5} /\ (DownStart(file) = 0 => fastcrud)
    BY <1>1, <1>2, <1>4 DEF DownStart
  <2>2. PICK i \in DownStart(file)..9 : Remains(s, DownRoad, i, 9) /\ work[p] = DownFile(i, file)
    BY <1>2, <1>4 DEF UnderWay
  <2> HIDE DEF s
  <2>3. i \in Nat /\ 9 \in i..12 /\ DownStart(file) \in Nat
    BY <2>1
  <2>4. /\ i + 1 \in 1..9 /\ i < 9 /\ Head(s) = DownRoad[i + 1]
        /\ Tail(s) \in Seq(Statements) /\ Remains(Tail(s), DownRoad, i + 1, 9)
    <3> DEFINE e == 9
    <3>1. s # << >>
      BY DEF s
    <3>2. e = 9
      OBVIOUS
    <3> HIDE DEF e
    <3>3. i \in Nat /\ e \in i..12 /\ Remains(s, DownRoad, i, e)
      BY <2>2, <2>3, <3>2
    <3>4. /\ i + 1 \in 1..e /\ i < e /\ Head(s) = DownRoad[i + 1]
          /\ Tail(s) \in Seq(Statements) /\ Remains(Tail(s), DownRoad, i + 1, e)
      BY <1>1, <3>1, <3>3, RemainsTail
    <3>5. QED
      BY <3>2, <3>4
  <2>5. i \in 0..8 /\ i + 1 \in DownStart(file)..9 /\ i + 1 \in 0..9
    BY <2>1, <2>3, <2>4
  <2>6. i = 2 => ~enforced[p]
    <3>1. i = 2 => DownStart(file) = 0
      BY <2>1
    <3>2. QED
      BY <1>1, <2>1, <3>1
  <2>7. /\ Fits(Head(s), work[p], enforced[p])
        /\ Effect(Head(s), work[p]) = DownFile(i + 1, file)
    BY <1>1, <2>2, <2>4, <2>5, <2>6, DownStep
  <2>8. DownFile(i + 1, file) \in File
    BY <1>1, <2>5, DownFields
  <2>9. QED
    BY <1>4, <2>4, <2>5, <2>7, <2>8 DEF s
<1>5. QED
  BY <1>3, <1>4

\* A request's one statement succeeds when its product is there: the process
\* enforces foreign keys again.
LEMMA ReserveMakes ==
  ASSUME NEW f \in File, NEW x \in Products
  PROVE  /\ Effect(<<"reserve", x>>, f) = WithReservation(f, x)
         /\ WithReservation(f, x) \in File
         /\ Fits(<<"reserve", x>>, f, TRUE) => x \in f.products /\ Business \subseteq f.tables
<1>1. Effect(<<"reserve", x>>, f) = WithReservation(f, x)
  BY DEF Effect, WithReservation
<1>2. WithReservation(f, x) \in File
  <2> DEFINE f1 == [f EXCEPT !.reservations = @ \cup {x}]
  <2>1. f1 \in File
    BY DEF File
  <2>2. [f1 EXCEPT !.keys = @ \cup {x}] \in File
    <3> HIDE DEF f1
    <3> QED
      BY <2>1 DEF File
  <2>3. QED
    BY <2>2 DEF WithReservation
<1>3. Fits(<<"reserve", x>>, f, TRUE) => x \in f.products /\ Business \subseteq f.tables
  BY DEF Fits
<1>4. QED
  BY <1>1, <1>2, <1>3

LEMMA ExecuteStep ==
  ASSUME FileInv, NEW p \in Processes, ExecuteStatement(p)
  PROVE  FileInv'
<1> DEFINE e == Effect(Head(plan[p]), work[p])
           t == Tail(plan[p])
<1>1. MigrationTypeOK /\ Isolation /\ Sound(p)
  BY DEF FileInv
<1>2. /\ UNCHANGED <<inputs, file, shared, pendingLock, pc, enforced, exitStatus, orphaned>>
      /\ pc[p] \in {"migrating", "reserving"} /\ plan[p] # << >>
      /\ writer \in {p, Nobody} /\ writer' = p
      /\ Fits(Head(plan[p]), work[p], enforced[p])
      /\ work' = [work EXCEPT ![p] = e]
      /\ plan' = [plan EXCEPT ![p] = t]
  BY DEF ExecuteStatement, InTransaction
<1>3. p # Nobody /\ \A q \in Processes : q # Nobody
  BY NobodyAssumption
<1>4. Others(p)
  BY <1>1, <1>2 DEF Others, Untouched, MigrationTypeOK
<1>5. Isolation'
  <2>1. p \in shared
    BY <1>1, <1>2 DEF Sound
  <2>2. \A q \in Processes \ {p} : q \in shared => work'[q] = file
    BY <1>1, <1>2, <1>3 DEF Isolation, MigrationTypeOK
  <2>3. QED
    BY <1>1, <1>2, <1>3, <2>1, <2>2 DEF Isolation
<1>6. /\ e \in File /\ t \in Seq(Statements) /\ work'[p] = e /\ plan'[p] = t
      /\ Sound(p)'
  <2>1. plan'[p] = t /\ work'[p] = e
    BY <1>1, <1>2 DEF MigrationTypeOK
  <2>2. CASE pc[p] = "migrating"
    <3>1. UnderWay(p)' /\ e \in File /\ t \in Seq(Statements)
      <4>1. /\ file' = file /\ command' = command
        BY <1>2 DEF inputs
      <4> HIDE DEF e, t
      <4>2. /\ e \in File /\ t \in Seq(Statements)
            /\ GoesUp(file, command[p]) =>
                 \E j \in UpStart(file)..UpEnd(file, command[p]) :
                    /\ Remains(t, UpRoad, j, UpEnd(file, command[p]))
                    /\ e = UpFile(j, file)
            /\ ~GoesUp(file, command[p]) =>
                 \E j \in DownStart(file)..9 : Remains(t, DownRoad, j, 9) /\ e = DownFile(j, file)
        BY <1>2, <2>2, NextStatement DEF e, t
      <4>3. QED
        BY <2>1, <4>1, <4>2 DEF UnderWay
    <3>2. QED
      BY <1>1, <1>2, <2>1, <2>2, <3>1 DEF Sound, inputs, AllUpgrade, Head_
  <2>3. CASE pc[p] = "reserving"
    <3>1. Reserves(p) /\ enforced[p] = TRUE /\ file \in File
      BY <1>1, <2>3 DEF Sound, Isolation, MigrationTypeOK
    <3>2. PICK x \in Products : plan[p] = << <<"reserve", x>> >> /\ work[p] = file
      BY <1>2, <3>1 DEF Reserves
    <3>3. Head(plan[p]) = <<"reserve", x>> /\ t = << >>
      BY <3>2
    <3>4. e = WithReservation(file, x) /\ e \in File
      BY <3>1, <3>2, <3>3, ReserveMakes
    <3>5. x \in file.products /\ Business \subseteq file.tables
      BY <1>2, <3>1, <3>2, <3>3, ReserveMakes
    <3>6. Reserves(p)'
      <4> HIDE DEF e, t
      <4> QED
        BY <1>2, <2>1, <3>3, <3>4, <3>5 DEF Reserves
    <3>7. t \in Seq(Statements)
      BY <3>3, EmptySeq
    <3>8. QED
      BY <1>1, <1>2, <2>1, <2>3, <3>4, <3>6, <3>7 DEF Sound, inputs, AllUpgrade, Head_
  <2>4. QED
    BY <1>2, <2>2, <2>3
<1>7. MigrationTypeOK'
  <2> HIDE DEF e, t
  <2>1. work' \in [Processes -> File] /\ plan' \in [Processes -> Seq(Statements)]
    BY <1>1, <1>2, <1>6 DEF MigrationTypeOK, Statements
  <2>2. QED
    BY <1>1, <1>2, <2>1 DEF MigrationTypeOK, inputs, Statements
<1>8. QED
  BY <1>2, <1>4, <1>5, <1>6, <1>7, FileKept

LEMMA RollbackSteps ==
  ASSUME FileInv, NEW p \in Processes,
         \/ BeginTimesOut(p) \/ StatementFails(p) \/ WriteIsBusy(p) \/ CheckFails(p)
         \/ CommitTimesOut(p)
  PROVE  FileInv'
<1>1. /\ "busy" \in Results /\ "violations" \in Results /\ "error" \in Results
  BY DEF Results
<1>2. CASE BeginTimesOut(p)
  BY <1>1, <1>2, GiveUpStep DEF BeginTimesOut
<1>3. CASE StatementFails(p)
  <2>1. pc[p] # "migrating"
    BY <1>3, NextStatement DEF StatementFails
  <2>2. pc[p] = "reserving" /\ GiveUp(p, "error")
    BY <1>3, <2>1 DEF StatementFails, InTransaction
  <2>3. QED
    BY <1>1, <2>2, GiveUpStep
<1>4. CASE WriteIsBusy(p)
  BY <1>1, <1>4, GiveUpStep DEF WriteIsBusy, InTransaction
<1>5. CASE CheckFails(p)
  BY <1>1, <1>5, GiveUpStep DEF CheckFails
<1>6. CASE CommitTimesOut(p)
  BY <1>1, <1>6, GiveUpStep DEF CommitTimesOut, AtFileCommit
<1>7. QED
  BY <1>2, <1>3, <1>4, <1>5, <1>6

LEMMA CheckStep ==
  ASSUME FileInv, NEW p \in Processes, Check(p)
  PROVE  FileInv'
<1>1. MigrationTypeOK /\ Isolation /\ Sound(p)
  BY DEF FileInv
<1>2. /\ UNCHANGED <<inputs, file, locks, enforced, plan, work, exitStatus, orphaned>>
      /\ pc[p] = "migrating" /\ pc' = [pc EXCEPT ![p] = "checked"]
      /\ plan[p] = << >> /\ (fastcrud => Orphans(work[p]) = {})
  BY DEF Check, Go
<1>3. Others(p)
  BY <1>1, <1>2 DEF Others, Untouched, MigrationTypeOK, locks
<1>4. MigrationTypeOK'
  BY <1>1, <1>2 DEF MigrationTypeOK, inputs, locks, Places
<1>5. Isolation'
  BY <1>1, <1>2 DEF Isolation, MigrationTypeOK, locks
<1>6. UnderWay(p)'
  BY <1>1, <1>2 DEF Sound, UnderWay, inputs
<1>7. Sound(p)'
  BY <1>1, <1>2, <1>6 DEF Sound, MigrationTypeOK, locks, inputs, AllUpgrade, Head_
<1>8. QED
  BY <1>2, <1>3, <1>4, <1>5, <1>7, FileKept

LEMMA CommitWaitsStep ==
  ASSUME FileInv, NEW p \in Processes, CommitWaits(p)
  PROVE  FileInv'
<1>1. MigrationTypeOK /\ Isolation /\ Sound(p)
  BY DEF FileInv
<1>2. /\ UNCHANGED <<inputs, file, shared, writer, local, orphaned>>
      /\ writer = p /\ pendingLock' = TRUE
  BY DEF CommitWaits
<1>3. Others(p) /\ Untouched(p)
  BY <1>2 DEF Others, Untouched, local
<1>4. MigrationTypeOK'
  BY <1>1, <1>2 DEF MigrationTypeOK, inputs, local
<1>5. Isolation'
  BY <1>1, <1>2, NobodyAssumption DEF Isolation, local
<1>6. Sound(p)'
  BY <1>1, <1>2, <1>3, FrameProcess
<1>7. QED
  BY <1>2, <1>3, <1>4, <1>5, <1>6, FileKept

LEMMA FinishStep ==
  ASSUME FileInv, NEW p \in Processes, FinishCommand(p)
  PROVE  FileInv'
<1>1. MigrationTypeOK /\ Isolation /\ Sound(p)
  BY DEF FileInv
<1>2. /\ UNCHANGED <<inputs, file, locks, plan, work, exitStatus, orphaned>>
      /\ pc[p] = "ending" /\ enforced' = [enforced EXCEPT ![p] = TRUE]
      /\ pc' = [pc EXCEPT ![p] = IF exitStatus[p] = "ok" /\ p \in container
                                 THEN "serving" ELSE "ended"]
  BY DEF FinishCommand, Go
<1>3. Others(p)
  BY <1>1, <1>2 DEF Others, Untouched, MigrationTypeOK, locks
<1>4. MigrationTypeOK'
  <2>1. pc' \in [Processes -> Places] /\ enforced' \in [Processes -> BOOLEAN]
    BY <1>1, <1>2 DEF MigrationTypeOK, Places
  <2>2. QED
    BY <1>1, <1>2, <2>1 DEF MigrationTypeOK, inputs, locks
<1>5. Isolation'
  BY <1>1, <1>2 DEF Isolation, MigrationTypeOK, locks
<1>6. Sound(p)'
  <2>1. AllUpgrade' = AllUpgrade /\ Head_' = Head_
    BY <1>2 DEF AllUpgrade, Head_, inputs
  <2>2. pc'[p] = IF exitStatus[p] = "ok" /\ p \in container THEN "serving" ELSE "ended"
    BY <1>1, <1>2 DEF MigrationTypeOK
  <2>3. /\ p \notin shared' /\ exitStatus'[p] # "error"
        /\ AllUpgrade /\ pc'[p] = "serving" => file'.revision = Head_
    BY <1>1, <1>2, <2>2 DEF Sound, locks
  <2>4. pc'[p] \in {"serving", "ended"}
    BY <2>2
  <2>5. QED
    BY <2>1, <2>3, <2>4 DEF Sound
<1>7. QED
  BY <1>2, <1>3, <1>4, <1>5, <1>6, FileKept

LEMMA RequestStep ==
  ASSUME FileInv, NEW p \in Processes, NEW product \in Products, Request(p, product)
  PROVE  FileInv'
<1> DEFINE s == << <<"reserve", product>> >>
<1>1. MigrationTypeOK /\ Isolation /\ Sound(p)
  BY DEF FileInv
<1>2. /\ UNCHANGED <<inputs, file, pendingLock, enforced, exitStatus, orphaned>>
      /\ pc[p] = "serving" /\ pc' = [pc EXCEPT ![p] = "reserving"]
      /\ writer = Nobody /\ writer' = p /\ shared' = shared \cup {p}
      /\ work' = [work EXCEPT ![p] = file]
      /\ plan' = [plan EXCEPT ![p] = s]
  BY DEF Request, Go
<1>3. Others(p)
  BY <1>1, <1>2 DEF Others, Untouched, MigrationTypeOK
<1>4. s \in Seq(Statements)
  <2>1. <<"reserve", product>> \in Statements
    BY DEF Statements, Verbs
  <2>2. QED
    BY <2>1
<1>5. MigrationTypeOK'
  <2> HIDE DEF s
  <2>1. /\ pc' \in [Processes -> Places] /\ work' \in [Processes -> File]
        /\ plan' \in [Processes -> Seq(Statements)]
    BY <1>1, <1>2, <1>4 DEF MigrationTypeOK, Places, Statements
  <2>2. QED
    BY <1>1, <1>2, <2>1 DEF MigrationTypeOK, inputs, Statements
<1>6. Isolation'
  BY <1>1, <1>2, NobodyAssumption DEF Isolation, MigrationTypeOK
<1>7. Reserves(p)'
  BY <1>1, <1>2 DEF Reserves, MigrationTypeOK
<1>8. Sound(p)'
  BY <1>1, <1>2, <1>7 DEF Sound, MigrationTypeOK, inputs, AllUpgrade, Head_
<1>9. QED
  BY <1>2, <1>3, <1>5, <1>6, <1>8, FileKept

LEMMA DieStep ==
  ASSUME FileInv, NEW p \in Processes, Die(p)
  PROVE  FileInv'
<1>1. MigrationTypeOK /\ Isolation /\ Sound(p)
  BY DEF FileInv
<1>2. /\ Release(p) /\ UNCHANGED <<inputs, file, enforced, exitStatus, orphaned>>
      /\ pc' = [pc EXCEPT ![p] = "dead"]
  BY DEF Die, Go
<1>3. Others(p)
  BY <1>1, <1>2, ReleaseFrame DEF Others, Untouched, MigrationTypeOK
<1>4. MigrationTypeOK'
  <2>1. pc' \in [Processes -> Places]
    BY <1>1, <1>2 DEF MigrationTypeOK, Places
  <2>2. QED
    BY <1>1, <1>2, <2>1, ReleaseFrame DEF MigrationTypeOK, Statements, inputs
<1>5. Isolation'
  <2>1. \A q \in Processes : pc'[q] \in {"new", "ended", "serving", "reserving"} => enforced'[q]
    BY <1>1, <1>2 DEF Isolation, MigrationTypeOK
  <2>2. \A q \in Processes : q \in shared' /\ writer' # q => work'[q] = file'
    BY <1>1, <1>2, ReleaseFrame DEF Isolation
  <2>3. QED
    BY <1>2, <2>1, <2>2, ReleaseFrame DEF Isolation
<1>6. Sound(p)'
  <2>1. p \notin shared'
    BY <1>2, ReleaseFrame
  <2>2. QED
    BY <1>1, <1>2, <2>1 DEF Sound, MigrationTypeOK
<1>7. QED
  BY <1>2, <1>3, <1>4, <1>5, <1>6, FileKept

-----------------------------------------------------------------------------
(* The steps that change the file. *)

Plain(P, R, K) == Content("tables", AllTables, "plain", P, {}, "plain", {}, R, K)
Audited(P, R, K) == Content("audit", AllTables, "audited", P, P, "plain", {}, R, K)

\* A file that has been migrated is determined by its rows.
LEMMA WholeIs ==
  ASSUME NEW f, Whole(f)
  PROVE  /\ f.revision = "tables" => f = Plain(f.products, f.reservations, f.keys)
         /\ f.revision = "audit" => f = Audited(f.products, f.reservations, f.keys)
<1>1. ASSUME f.revision = "tables"
      PROVE  f = Plain(f.products, f.reservations, f.keys)
  <2>1. UpStart(f) = 5 /\ f = UpFile(UpStart(f), f)
    BY <1>1 DEF Whole, UpStart
  <2>2. QED
    BY <2>1 DEF UpFile, Plain
<1>2. ASSUME f.revision = "audit"
      PROVE  f = Audited(f.products, f.reservations, f.keys)
  <2>1. UpStart(f) = 12 /\ f = UpFile(UpStart(f), f)
    BY <1>2 DEF Whole, UpStart
  <2>2. QED
    BY <2>1 DEF UpFile, Audited
<1>3. QED
  BY <1>1, <1>2

\* Any rows do.
LEMMA RowsAreFree ==
  ASSUME NEW P \in SUBSET Products, NEW R \in SUBSET Products, NEW K \in SUBSET Products
  PROVE  /\ Plain(P, R, K) \in File /\ Whole(Plain(P, R, K))
         /\ Plain(P, R, K).revision = "tables" /\ Plain(P, R, K).products = P
         /\ Plain(P, R, K).reservations = R /\ Plain(P, R, K).keys = K
         /\ Audited(P, R, K) \in File /\ Whole(Audited(P, R, K))
         /\ Audited(P, R, K).revision = "audit" /\ Audited(P, R, K).products = P
         /\ Audited(P, R, K).reservations = R /\ Audited(P, R, K).keys = K
<1>1. AllTables \in SUBSET Tables
  BY DEF AllTables, Tables, Business
<1>2. /\ Plain(P, R, K) \in File
      /\ Plain(P, R, K).revision = "tables" /\ Plain(P, R, K).products = P
      /\ Plain(P, R, K).reservations = R /\ Plain(P, R, K).keys = K
  BY <1>1 DEF Plain, Content, File, Revisions, Columns
<1>3. /\ Audited(P, R, K) \in File
      /\ Audited(P, R, K).revision = "audit" /\ Audited(P, R, K).products = P
      /\ Audited(P, R, K).reservations = R /\ Audited(P, R, K).keys = K
  BY <1>1 DEF Audited, Content, File, Revisions, Columns
<1>4. Whole(Plain(P, R, K))
  <2>1. UpStart(Plain(P, R, K)) = 5
    BY <1>2 DEF UpStart
  <2>2. UpFile(5, Plain(P, R, K)) = Plain(P, R, K)
    <3> DEFINE f == Plain(P, R, K)
    <3>1. f.products = P /\ f.reservations = R /\ f.keys = K
      BY <1>2
    <3>2. Plain(P, R, K) = Plain(f.products, f.reservations, f.keys)
      BY <3>1
    <3>3. QED
      <4> HIDE DEF f
      <4> QED
        BY <3>2 DEF UpFile, Plain, f
  <2>3. QED
    BY <1>2, <2>1, <2>2 DEF Whole
<1>5. Whole(Audited(P, R, K))
  <2>1. UpStart(Audited(P, R, K)) = 12
    BY <1>3 DEF UpStart
  <2>2. UpFile(12, Audited(P, R, K)) = Audited(P, R, K)
    <3> DEFINE f == Audited(P, R, K)
    <3>1. f.products = P /\ f.reservations = R /\ f.keys = K
      BY <1>3
    <3>2. Audited(P, R, K) = Audited(f.products, f.reservations, f.keys)
      BY <3>1
    <3>3. QED
      <4> HIDE DEF f
      <4> QED
        BY <3>2 DEF UpFile, Audited, f
  <2>3. QED
    BY <1>3, <2>1, <2>2 DEF Whole
<1>6. QED
  BY <1>2, <1>3, <1>4, <1>5

\* The updates of the rows.
LEMMA ReservationUpdates ==
  ASSUME NEW P, NEW R, NEW K, NEW x, NEW R1, NEW K1, R1 = R \cup {x}, K1 = K \cup {x}
  PROVE  /\ WithReservation(Plain(P, R, K), x) = Plain(P, R1, K1)
         /\ WithReservation(Audited(P, R, K), x) = Audited(P, R1, K1)
<1>1. WithReservation(Plain(P, R, K), x) = Plain(P, R1, K1)
  <2> DEFINE f1 == [Plain(P, R, K) EXCEPT !.reservations = @ \cup {x}]
  <2>1. f1 = Plain(P, R1, K)
    BY DEF Plain, Content
  <2>2. [f1 EXCEPT !.keys = @ \cup {x}] = Plain(P, R1, K1)
    <3> HIDE DEF f1
    <3> QED
      BY <2>1 DEF Plain, Content
  <2>3. QED
    BY <2>2 DEF WithReservation
<1>2. WithReservation(Audited(P, R, K), x) = Audited(P, R1, K1)
  <2> DEFINE f1 == [Audited(P, R, K) EXCEPT !.reservations = @ \cup {x}]
  <2>1. f1 = Audited(P, R1, K)
    BY DEF Audited, Content
  <2>2. [f1 EXCEPT !.keys = @ \cup {x}] = Audited(P, R1, K1)
    <3> HIDE DEF f1
    <3> QED
      BY <2>1 DEF Audited, Content
  <2>3. QED
    BY <2>2 DEF WithReservation
<1>3. QED
  BY <1>1, <1>2

\* What is committed: a whole file again, with no dangling reference that was
\* not there, whose rows are still there unless the tables have been given up.
Succeeds(f, g) ==
  /\ g \in File /\ Whole(g)
  /\ Orphans(g) \subseteq Orphans(f)
  /\ g.revision # "base" =>
       f.products \subseteq g.products /\ f.reservations \subseteq g.reservations
         /\ f.keys \subseteq g.keys

LEMMA ReservationSucceeds ==
  ASSUME NEW f \in File, Whole(f), NEW x \in f.products, Business \subseteq f.tables
  PROVE  /\ Succeeds(f, WithReservation(f, x))
         /\ WithReservation(f, x).revision = f.revision
<1> DEFINE P == f.products
           R == f.reservations
           K == f.keys
           R1 == R \cup {x}
           K1 == K \cup {x}
           g == WithReservation(f, x)
<1>1. /\ P \in SUBSET Products /\ R \in SUBSET Products /\ K \in SUBSET Products
      /\ R1 \in SUBSET Products /\ K1 \in SUBSET Products
  BY DEF File
<1>2. f.revision \in {"tables", "audit"}
  BY DEF Whole, File, Revisions, Business
<1>3. \/ f.revision = "tables" /\ f = Plain(P, R, K) /\ g = Plain(P, R1, K1)
      \/ f.revision = "audit" /\ f = Audited(P, R, K) /\ g = Audited(P, R1, K1)
  <2>1. /\ f.revision = "tables" => f = Plain(P, R, K)
        /\ f.revision = "audit" => f = Audited(P, R, K)
    BY WholeIs
  <2>2. R1 = R \cup {x} /\ K1 = K \cup {x}
    OBVIOUS
  <2> HIDE DEF P, R, K, R1, K1, g
  <2>3. /\ WithReservation(Plain(P, R, K), x) = Plain(P, R1, K1)
        /\ WithReservation(Audited(P, R, K), x) = Audited(P, R1, K1)
    BY <2>2, ReservationUpdates
  <2>4. g = WithReservation(f, x)
    BY DEF g
  <2>5. QED
    BY <1>2, <2>1, <2>3, <2>4
<1>4. /\ g \in File /\ Whole(g) /\ g.revision = f.revision
      /\ g.products = P /\ g.reservations = R1 /\ g.keys = K1
  <2> HIDE DEF P, R, K, R1, K1, g
  <2> QED
    BY <1>1, <1>3, RowsAreFree
<1>5. /\ Orphans(g) \subseteq Orphans(f)
      /\ P \subseteq g.products /\ R \subseteq g.reservations /\ K \subseteq g.keys
  <2> HIDE DEF g
  <2> QED
    BY <1>4 DEF Orphans
<1>6. QED
  BY <1>4, <1>5 DEF Succeeds

\* A command that has come to the end of its road has a file to commit.
LEMMA MigrationSucceeds ==
  ASSUME FileInv, NEW p \in Processes, pc[p] \in {"migrating", "checked"}, plan[p] = << >>
  PROVE  /\ Succeeds(file, work[p])
         /\ work[p].revision = "audit" => fastcrud
         /\ command[p] = <<"upgrade", Head_>> => work[p].revision = Head_
         /\ command[p][1] = "upgrade" /\ file.revision = Head_ => work[p].revision = Head_
<1> DEFINE c == command[p]
<1>1. /\ file \in File /\ Whole(file) /\ c \in Commands /\ UnderWay(p)
      /\ plan[p] \in Seq(Statements)
      /\ file.revision = "audit" => fastcrud
      /\ c \in {<<"upgrade", Head_>>, <<"upgrade", "tables">>, <<"downgrade", "base">>}
      /\ fastcrud \in BOOLEAN
  BY DEF FileInv, MigrationTypeOK, Inputs, Commands, CommandsOf, Head_, Sound, Statements
<1>2. CASE GoesUp(file, c)
  <2> DEFINE e == UpEnd(file, c)
  <2>1. UpStart(file) \in 0..12 /\ e \in UpStart(file)..12
    BY <1>1, <1>2, PlanOnRoad
  <2>2. PICK i \in UpStart(file)..e :
          Remains(plan[p], UpRoad, i, e) /\ work[p] = UpFile(i, file)
    BY <1>1, <1>2 DEF UnderWay
  <2>3. i = e
    <3> HIDE DEF e
    <3>1. i \in Int /\ e \in Int
      BY <2>1
    <3>2. QED
      BY <1>1, <2>2, <3>1 DEF Remains
  <2>4. work[p] = UpFile(e, file)
    BY <2>2, <2>3
  <2>5. e \in {1, 5, 12} /\ e \in 0..12 /\ (e = 1 => file.revision = "base")
    BY <1>1, <1>2 DEF UpEnd, GoesUp, Commands
  <2>6. Whole(UpFile(e, file))
    <3>1. CASE e \in {5, 12}
      <4> HIDE DEF e
      <4> QED
        BY <1>1, <3>1, EndsAreWhole
    <3>2. CASE e = 1
      <4>1. file.products = {} /\ file.reservations = {} /\ file.keys = {}
        BY <1>1, <2>5, <3>2 DEF Whole
      <4> HIDE DEF e
      <4>2. QED
        BY <1>1, <3>2, <4>1, EndsAreWhole
    <3>3. QED
      BY <2>5, <3>1, <3>2
  <2>7. /\ UpFile(e, file) \in File /\ UpFile(e, file).products = file.products
        /\ UpFile(e, file).reservations = file.reservations
        /\ UpFile(e, file).keys = file.keys
        /\ UpFile(e, file).revision = IF e = 1 THEN "base" ELSE IF e = 5 THEN "tables" ELSE "audit"
    <3> HIDE DEF e
    <3> QED
      BY <1>1, <2>5, UpFields
  <2>8. Succeeds(file, work[p])
    <3> HIDE DEF e
    <3> QED
      BY <2>4, <2>6, <2>7 DEF Succeeds, Orphans
  <2>9. work[p].revision = "audit" => fastcrud
    <3>1. e = 12 => c[2] = "audit" \/ file.revision = "audit"
      BY DEF UpEnd
    <3>2. c[2] = "audit" => fastcrud
      BY <1>1 DEF Head_
    <3>3. work[p].revision = "audit" => e = 12
      <4> HIDE DEF e
      <4> QED
        BY <2>4, <2>5, <2>7
    <3>4. QED
      BY <1>1, <3>1, <3>2, <3>3
  <2>10. c = <<"upgrade", Head_>> \/ (c[1] = "upgrade" /\ file.revision = Head_) =>
           work[p].revision = Head_
    <3>1. ASSUME c = <<"upgrade", Head_>> \/ (c[1] = "upgrade" /\ file.revision = Head_)
          PROVE  e = IF fastcrud THEN 12 ELSE 5
      BY <1>1, <3>1 DEF UpEnd, Head_
    <3>2. (e = IF fastcrud THEN 12 ELSE 5) => work[p].revision = Head_
      <4> HIDE DEF e
      <4> QED
        BY <2>4, <2>7 DEF Head_
    <3>3. QED
      BY <3>1, <3>2
  <2>11. QED
    BY <1>1, <2>8, <2>9, <2>10
<1>3. CASE ~GoesUp(file, c)
  <2>1. DownStart(file) \in {0, 5}
    BY DEF DownStart
  <2>2. PICK i \in DownStart(file)..9 :
          Remains(plan[p], DownRoad, i, 9) /\ work[p] = DownFile(i, file)
    BY <1>1, <1>3 DEF UnderWay
  <2>3. i = 9
    BY <1>1, <2>1, <2>2 DEF Remains
  <2>4. work[p] = DownFile(9, file)
    BY <2>2, <2>3
  <2>5. /\ DownFile(9, file) \in File /\ Whole(DownFile(9, file))
        /\ DownFile(9, file).revision = "base" /\ Orphans(DownFile(9, file)) = {}
    <3>1. DownFile(9, file) \in File /\ Whole(DownFile(9, file))
      BY <1>1, DownFields, EndsAreWhole
    <3>2. DownFile(9, file).revision = "base" /\ Orphans(DownFile(9, file)) = {}
      BY DEF DownFile, Content, Orphans
    <3>3. QED
      BY <3>1, <3>2
  <2>6. Succeeds(file, work[p])
    BY <2>4, <2>5 DEF Succeeds
  <2>7. c[1] # "upgrade" /\ c # <<"upgrade", Head_>>
    BY <1>3 DEF GoesUp
  <2>8. QED
    BY <1>1, <2>4, <2>5, <2>6, <2>7
<1>4. QED
  BY <1>2, <1>3

\* Any commit leaves the file a whole one.
LEMMA CommitSucceeds ==
  ASSUME FileInv, NEW p \in Processes, CommitFile(p)
  PROVE  /\ file' = work[p]
         /\ Succeeds(file, file')
         /\ file'.revision = "audit" => fastcrud
         /\ AllUpgrade /\ file.revision = Head_ => file'.revision = Head_
         /\ pc[p] = "checked" =>
              /\ command[p] = <<"upgrade", Head_>> => file'.revision = Head_
              /\ fastcrud => Orphans(file') = {}
<1>1. /\ Sound(p) /\ Isolation /\ file \in File /\ Whole(file) /\ Inputs
  BY DEF FileInv, MigrationTypeOK
<1>2. /\ pc[p] \in {"checked", "reserving"} /\ plan[p] = << >>
      /\ file' = IF writer = p THEN work[p] ELSE file
  BY DEF CommitFile, AtFileCommit
<1>3. file' = work[p]
  <2>1. p \in shared
    BY <1>1, <1>2 DEF Sound
  <2>2. QED
    BY <1>1, <1>2, <2>1 DEF Isolation
<1>4. CASE pc[p] = "checked"
  BY <1>1, <1>2, <1>3, <1>4, MigrationSucceeds DEF AllUpgrade, Sound
<1>5. CASE pc[p] = "reserving"
  <2>1. PICK x \in Products :
          work[p] = WithReservation(file, x) /\ x \in file.products /\ Business \subseteq file.tables
    BY <1>1, <1>2, <1>5 DEF Sound, Reserves
  <2>2. Succeeds(file, work[p]) /\ work[p].revision = file.revision
    BY <1>1, <2>1, ReservationSucceeds
  <2>3. QED
    BY <1>1, <1>3, <1>5, <2>2 DEF Inputs
<1>6. QED
  BY <1>2, <1>4, <1>5

LEMMA CommitFileStep ==
  ASSUME FileInv, NEW p \in Processes, CommitFile(p)
  PROVE  FileInv'
<1>1. MigrationTypeOK /\ Isolation /\ Sound(p) /\ Inputs
  BY DEF FileInv
<1>2. /\ Release(p) /\ UNCHANGED <<inputs, enforced, orphaned>>
      /\ pc[p] \in {"checked", "reserving"}
      /\ writer = p => shared = {p}
      /\ file' = IF writer = p THEN work[p] ELSE file
      /\ pc' = [pc EXCEPT ![p] = IF pc[p] = "reserving" THEN "serving" ELSE "ending"]
      /\ exitStatus' = IF pc[p] = "reserving" THEN exitStatus ELSE [exitStatus EXCEPT ![p] = "ok"]
  BY DEF CommitFile, AtFileCommit, Go
<1>3. /\ file' \in File /\ Whole(file') /\ Orphans(file') \subseteq Orphans(file)
      /\ file'.revision = "audit" => fastcrud
      /\ AllUpgrade /\ file.revision = Head_ => file'.revision = Head_
      /\ pc[p] = "checked" /\ command[p] = <<"upgrade", Head_>> => file'.revision = Head_
  BY CommitSucceeds DEF Succeeds
<1>4. Others(p)
  BY <1>1, <1>2, ReleaseFrame DEF Others, Untouched, MigrationTypeOK
<1>5. MigrationTypeOK'
  <2>1. pc' \in [Processes -> Places] /\ exitStatus' \in [Processes -> Results]
    BY <1>1, <1>2 DEF MigrationTypeOK, Places, Results
  <2>2. QED
    BY <1>1, <1>2, <1>3, <2>1, ReleaseFrame DEF MigrationTypeOK, Statements, inputs
<1>6. Isolation'
  <2>1. \A q \in Processes : pc'[q] \in {"new", "ended", "serving", "reserving"} => enforced'[q]
    BY <1>1, <1>2 DEF Isolation, MigrationTypeOK
  <2>2. \A q \in Processes : q \in shared' /\ writer' # q => work'[q] = file'
    <3>1. SUFFICES ASSUME NEW q \in Processes, q \in shared', writer' # q
                   PROVE  work'[q] = file'
      OBVIOUS
    <3>2. q # p /\ q \in shared /\ writer # q /\ work'[q] = work[q]
      BY <1>2, <3>1, ReleaseFrame
    <3>3. writer # p
      BY <1>2, <3>2
    <3>4. QED
      BY <1>1, <1>2, <3>2, <3>3 DEF Isolation
  <2>3. QED
    BY <1>2, <2>1, <2>2, ReleaseFrame DEF Isolation
<1>7. Inputs'
  BY <1>1, <1>2, <1>3 DEF Inputs, CommandsOf, Head_, inputs
<1>8. Orphans(file)' # {} => orphaned'
  <2>1. Orphans(file) # {} => orphaned
    BY DEF FileInv
  <2>2. QED
    BY <1>2, <1>3, <2>1
<1>9. ASSUME NEW q \in Processes \ {p}
      PROVE  Sound(q)'
  <2>1. Sound(q) /\ Untouched(q)
    BY <1>4 DEF FileInv, Others
  <2>2. CASE writer = p
    <3>1. q \notin shared
      BY <1>2, <2>2
    <3>2. QED
      BY <1>2, <1>3, <2>1, <3>1, FrameReader
  <2>3. CASE writer # p
    BY <1>2, <2>1, <2>3, FrameProcess
  <2>4. QED
    BY <2>2, <2>3
<1>10. Sound(p)'
  <2>1. AllUpgrade' = AllUpgrade /\ Head_' = Head_
    BY <1>2 DEF AllUpgrade, Head_, inputs
  <2>2. p \notin shared'
    BY <1>2, ReleaseFrame
  <2>3. CASE pc[p] = "reserving"
    <3>1. pc'[p] = "serving" /\ exitStatus'[p] = exitStatus[p] /\ exitStatus[p] # "error"
      BY <1>1, <1>2, <2>3 DEF MigrationTypeOK, Sound
    <3>2. AllUpgrade => file.revision = Head_
      BY <1>1, <2>3 DEF Sound
    <3>3. QED
      BY <1>3, <2>1, <2>2, <3>1, <3>2 DEF Sound
  <2>4. CASE pc[p] = "checked"
    <3>1. pc'[p] = "ending" /\ exitStatus'[p] = "ok"
      BY <1>1, <1>2, <2>4 DEF MigrationTypeOK
    <3>2. p \in container => command[p] = <<"upgrade", Head_>>
      BY <1>1 DEF Inputs
    <3>3. container' = container
      BY <1>2 DEF inputs
    <3>4. QED
      BY <1>3, <2>1, <2>2, <2>4, <3>1, <3>2, <3>3 DEF Sound
  <2>5. QED
    BY <1>2, <2>3, <2>4
<1>11. QED
  BY <1>3, <1>5, <1>6, <1>7, <1>8, <1>9, <1>10 DEF FileInv

\* Rows that others write keep the file whole.
LEMMA NewProductSucceeds ==
  ASSUME NEW f \in File, Whole(f), NEW x \in Products
  PROVE  /\ f.revision = "tables" =>
              LET g == [f EXCEPT !.products = @ \cup {x}]
              IN  Succeeds(f, g) /\ g.revision = "tables"
         /\ f.revision = "audit" =>
              LET g == [f EXCEPT !.products = @ \cup {x}, !.filled = @ \cup {x}]
              IN  Succeeds(f, g) /\ g.revision = "audit"
<1> DEFINE P == f.products
           R == f.reservations
           K == f.keys
           P1 == P \cup {x}
<1>1. /\ P \in SUBSET Products /\ R \in SUBSET Products /\ K \in SUBSET Products
      /\ P1 \in SUBSET Products
  BY DEF File
<1>2. ASSUME NEW g \in File, Whole(g), g.products = P1, g.reservations = R, g.keys = K
      PROVE  Succeeds(f, g)
  BY <1>2 DEF Succeeds, Orphans
<1>3. ASSUME f.revision = "tables"
      PROVE  LET g == [f EXCEPT !.products = @ \cup {x}]
             IN  Succeeds(f, g) /\ g.revision = "tables"
  <2>1. f = Plain(P, R, K)
    BY <1>3, WholeIs
  <2>2. P1 = P \cup {x}
    OBVIOUS
  <2> DEFINE g == [f EXCEPT !.products = @ \cup {x}]
  <2>3. g = Plain(P1, R, K)
    <3>1. [Plain(P, R, K) EXCEPT !.products = @ \cup {x}] = Plain(P1, R, K)
      <4> HIDE DEF P, R, K, P1
      <4> QED
        BY <2>2 DEF Plain, Content
    <3> HIDE DEF P1, R, K, P
    <3>2. QED
      BY <2>1, <3>1
  <2>4. /\ Plain(P1, R, K) \in File /\ Whole(Plain(P1, R, K))
        /\ Plain(P1, R, K).revision = "tables" /\ Plain(P1, R, K).products = P1
        /\ Plain(P1, R, K).reservations = R /\ Plain(P1, R, K).keys = K
    <3> HIDE DEF P1, R, K, P
    <3> QED
      BY <1>1, RowsAreFree
  <2>5. Succeeds(f, g) /\ g.revision = "tables"
    <3> HIDE DEF P1, R, K, P, g
    <3> QED
      BY <1>2, <2>3, <2>4
  <2>6. QED
    BY <2>5
<1>4. ASSUME f.revision = "audit"
      PROVE  LET g == [f EXCEPT !.products = @ \cup {x}, !.filled = @ \cup {x}]
             IN  Succeeds(f, g) /\ g.revision = "audit"
  <2>1. f = Audited(P, R, K)
    BY <1>4, WholeIs
  <2>2. P1 = P \cup {x}
    OBVIOUS
  <2> DEFINE g == [f EXCEPT !.products = @ \cup {x}, !.filled = @ \cup {x}]
  <2>3. g = Audited(P1, R, K)
    <3>1. [Audited(P, R, K) EXCEPT !.products = @ \cup {x}, !.filled = @ \cup {x}] =
            Audited(P1, R, K)
      <4> DEFINE f1 == [Audited(P, R, K) EXCEPT !.products = @ \cup {x}]
      <4> HIDE DEF P, R, K, P1
      <4>1. f1 = Content("audit", AllTables, "audited", P1, P, "plain", {}, R, K)
        BY <2>2 DEF Audited, Content
      <4>2. [f1 EXCEPT !.filled = @ \cup {x}] = Audited(P1, R, K)
        <5> HIDE DEF f1
        <5> QED
          BY <2>2, <4>1 DEF Audited, Content
      <4>3. QED
        BY <4>2
    <3> HIDE DEF P1, R, K, P
    <3>2. QED
      BY <2>1, <3>1
  <2>4. /\ Audited(P1, R, K) \in File /\ Whole(Audited(P1, R, K))
        /\ Audited(P1, R, K).revision = "audit" /\ Audited(P1, R, K).products = P1
        /\ Audited(P1, R, K).reservations = R /\ Audited(P1, R, K).keys = K
    <3> HIDE DEF P1, R, K, P
    <3> QED
      BY <1>1, RowsAreFree
  <2>5. Succeeds(f, g) /\ g.revision = "audit"
    <3> HIDE DEF P1, R, K, P, g
    <3> QED
      BY <1>2, <2>3, <2>4
  <2>6. QED
    BY <2>5
<1>5. QED
  BY <1>3, <1>4

LEMMA SeedSucceeds ==
  ASSUME FileInv, NEW product \in Products, Seed(product)
  PROVE  Succeeds(file, file') /\ file'.revision = file.revision
<1>1. file \in File /\ Whole(file) /\ file.revision = Head_ /\ fastcrud \in BOOLEAN
  BY DEF FileInv, MigrationTypeOK, Seed
<1>2. CASE fastcrud
  <2>1. file.revision = "audit"
    BY <1>1, <1>2 DEF Head_
  <2>2. file' = [file EXCEPT !.products = @ \cup {product}, !.filled = @ \cup {product}]
    BY <1>2 DEF Seed
  <2>3. QED
    BY <1>1, <2>1, <2>2, NewProductSucceeds
<1>3. CASE ~fastcrud
  <2>1. file.revision = "tables"
    BY <1>1, <1>3 DEF Head_
  <2> DEFINE f1 == [file EXCEPT !.products = @ \cup {product}]
  <2>2. file' = [f1 EXCEPT !.filled = @]
    BY <1>3 DEF Seed
  <2>3. Succeeds(file, f1) /\ f1.revision = "tables"
    BY <1>1, <2>1, NewProductSucceeds
  <2>4. file' = f1
    <3> HIDE DEF f1
    <3> QED
      BY <2>2, <2>3 DEF Succeeds, File
  <2>5. QED
    BY <2>1, <2>3, <2>4
<1>4. QED
  BY <1>1, <1>2, <1>3

\* A dangling reference of others changes no more than the rows.
LEMMA OrphanIsRow ==
  ASSUME NEW f \in File, Whole(f), f.revision = "tables", NEW x \in Products
  PROVE  LET g == [f EXCEPT !.reservations = @ \cup {x}]
         IN  /\ g \in File /\ Whole(g) /\ g.revision = "tables"
             /\ f.products \subseteq g.products /\ f.reservations \subseteq g.reservations
             /\ f.keys \subseteq g.keys
<1> DEFINE P == f.products
           R == f.reservations
           K == f.keys
           R1 == R \cup {x}
           g == [f EXCEPT !.reservations = @ \cup {x}]
<1>1. /\ P \in SUBSET Products /\ R \in SUBSET Products /\ K \in SUBSET Products
      /\ R1 \in SUBSET Products /\ R \subseteq R1
  BY DEF File
<1>2. f = Plain(P, R, K)
  BY WholeIs
<1>3. g = Plain(P, R1, K)
  <2>1. [Plain(P, R, K) EXCEPT !.reservations = @ \cup {x}] = Plain(P, R1, K)
    <3>1. R1 = R \cup {x}
      OBVIOUS
    <3> HIDE DEF P, R, K, R1
    <3>2. QED
      BY <3>1 DEF Plain, Content
  <2> HIDE DEF P, R, K, R1
  <2>2. QED
    BY <1>2, <2>1
<1>4. /\ g \in File /\ Whole(g) /\ g.revision = "tables"
      /\ g.products = P /\ g.reservations = R1 /\ g.keys = K
  <2> HIDE DEF P, R, K, R1, g
  <2> QED
    BY <1>1, <1>3, RowsAreFree
<1>5. /\ P \subseteq g.products /\ R \subseteq g.reservations /\ K \subseteq g.keys
  <2> HIDE DEF P, R, K, R1, g
  <2> QED
    BY <1>1, <1>4
<1>6. QED
  BY <1>4, <1>5

LEMMA LegacyRowSucceeds ==
  ASSUME FileInv, NEW product \in Products, LegacyRow(product)
  PROVE  /\ file' \in File /\ Whole(file') /\ file'.revision = file.revision
         /\ file.products \subseteq file'.products
         /\ file.reservations \subseteq file'.reservations /\ file.keys \subseteq file'.keys
         /\ \/ Orphans(file') \subseteq Orphans(file) /\ orphaned' = orphaned
            \/ orphaned' = TRUE
<1>1. file \in File /\ Whole(file) /\ file.revision = "tables"
  BY DEF FileInv, MigrationTypeOK, LegacyRow
<1>2. CASE file' = [file EXCEPT !.products = @ \cup {product}] /\ UNCHANGED orphaned
  BY <1>1, <1>2, NewProductSucceeds DEF Succeeds
<1>3. CASE file' = [file EXCEPT !.reservations = @ \cup {product}] /\ orphaned' = TRUE
  BY <1>1, <1>3, OrphanIsRow
<1>4. QED
  BY <1>2, <1>3 DEF LegacyRow

LEMMA OthersWrite ==
  ASSUME FileInv, NEW product \in Products, Seed(product) \/ LegacyRow(product)
  PROVE  FileInv'
<1>1. MigrationTypeOK /\ Isolation /\ Inputs /\ (Orphans(file) # {} => orphaned)
  BY DEF FileInv
<1>2. UNCHANGED <<inputs, locks, local>> /\ shared = {}
  BY DEF Seed, LegacyRow
<1>3. /\ file' \in File /\ Whole(file') /\ file'.revision = file.revision
      /\ orphaned' \in BOOLEAN
      /\ \/ Orphans(file') \subseteq Orphans(file) /\ orphaned' = orphaned
         \/ orphaned' = TRUE
  <2>1. CASE Seed(product)
    BY <1>1, <2>1, SeedSucceeds DEF Succeeds, Seed, MigrationTypeOK
  <2>2. CASE LegacyRow(product)
    BY <1>1, <2>2, LegacyRowSucceeds DEF MigrationTypeOK
  <2>3. QED
    BY <2>1, <2>2
<1>4. MigrationTypeOK'
  BY <1>1, <1>2, <1>3 DEF MigrationTypeOK, inputs, locks, local
<1>5. Isolation'
  BY <1>1, <1>2 DEF Isolation, locks, local
<1>6. Inputs'
  BY <1>1, <1>2, <1>3 DEF Inputs, CommandsOf, Head_, inputs
<1>7. \A q \in Processes : Sound(q)'
  <2>1. TAKE q \in Processes
  <2>2. Sound(q) /\ Untouched(q) /\ q \notin shared
    BY <1>2 DEF FileInv, Untouched, locks, local
  <2>3. AllUpgrade /\ file.revision = Head_ => file'.revision = Head_
    BY <1>3
  <2>4. QED
    BY <1>2, <2>2, <2>3, FrameReader
<1>8. Orphans(file)' # {} => orphaned'
  BY <1>1, <1>3
<1>9. QED
  BY <1>3, <1>4, <1>5, <1>6, <1>7, <1>8 DEF FileInv

-----------------------------------------------------------------------------
(* The invariant. *)

LEMMA MigrationInitially == MigrationInit => FileInv
<1> SUFFICES ASSUME MigrationInit
             PROVE  FileInv
  OBVIOUS
<1>1. /\ fastcrud \in BOOLEAN /\ command \in [Processes -> CommandsOf(Head_)]
      /\ container \in SUBSET {p \in Processes : command[p] = <<"upgrade", Head_>>}
      /\ given \in SUBSET Processes
  BY DEF MigrationInit
<1>2. NewFile \in File /\ << >> \in Seq(Statements)
  BY EmptySeq DEF NewFile, File, Revisions, Tables, Columns
<1>3. /\ NewFile.revision = "base" /\ NewFile.tables = {} /\ NewFile.products = {}
      /\ NewFile.reservations = {} /\ NewFile.keys = {}
      /\ NewFile = Content("base", {}, "plain", {}, {}, "plain", {}, {}, {})
  BY DEF NewFile, Content
<1>4. MigrationTypeOK
  <2>1. command \in [Processes -> {"upgrade", "downgrade"} \X Revisions]
    BY <1>1 DEF CommandsOf, Head_, Revisions
  <2>2. plan \in [Processes -> Seq(Statements)] /\ work \in [Processes -> File] /\ file \in File
    BY <1>2 DEF MigrationInit
  <2>3. QED
    BY <1>1, <2>1, <2>2 DEF MigrationInit, MigrationTypeOK, Statements, Places, Results
<1>5. Isolation
  BY DEF MigrationInit, Isolation
<1>6. Inputs
  BY <1>1, <1>3 DEF MigrationInit, Inputs
<1>7. Whole(file)
  <2>1. UpStart(NewFile) = 0
    BY <1>3 DEF UpStart
  <2>2. UpFile(0, NewFile) = NewFile
    <3> DEFINE f == NewFile
    <3> HIDE DEF f
    <3>1. f.products = {} /\ f.reservations = {} /\ f.keys = {}
      BY <1>3 DEF f
    <3>2. UpFile(0, f) = Content("base", {}, "plain", {}, {}, "plain", {}, {}, {})
      BY <3>1 DEF UpFile
    <3>3. QED
      BY <1>3, <3>2 DEF f
  <2>3. QED
    BY <1>3, <2>1, <2>2 DEF MigrationInit, Whole
<1>8. Orphans(file) = {}
  BY <1>3 DEF MigrationInit, Orphans
<1>9. \A p \in Processes : Sound(p)
  BY DEF MigrationInit, Sound
<1>10. QED
  BY <1>4, <1>5, <1>6, <1>7, <1>8, <1>9 DEF FileInv

LEMMA MigrationInductive == FileInv /\ [MigrationNext]_migrationVars => FileInv'
<1> SUFFICES ASSUME FileInv, [MigrationNext]_migrationVars
             PROVE  FileInv'
  OBVIOUS
<1>1. ASSUME NEW p \in Processes, ProcessStep(p)
      PROVE  FileInv'
  BY <1>1, ConnectStep, BeginStep, ExecuteStep, RollbackSteps, CheckStep, CommitWaitsStep,
     CommitFileStep, FinishStep DEF ProcessStep
<1>2. ASSUME NEW p \in Processes, Die(p) \/ \E product \in Products : Request(p, product)
      PROVE  FileInv'
  BY <1>2, DieStep, RequestStep
<1>3. ASSUME NEW product \in Products, Seed(product) \/ LegacyRow(product)
      PROVE  FileInv'
  BY <1>3, OthersWrite
<1>4. CASE UNCHANGED migrationVars
  <2>1. /\ MigrationTypeOK' /\ Isolation' /\ Inputs' /\ Whole(file)' /\ (Orphans(file)' # {} => orphaned')
    <3>1. MigrationTypeOK'
      BY <1>4 DEF FileInv, MigrationTypeOK, migrationVars, inputs, locks, local
    <3>2. Isolation' /\ Inputs'
      BY <1>4 DEF FileInv, Isolation, Inputs, CommandsOf, Head_, migrationVars, inputs, locks, local
    <3>3. QED
      BY <1>4, <3>1, <3>2 DEF FileInv, migrationVars
  <2>2. \A q \in Processes : Sound(q)'
    <3>1. TAKE q \in Processes
    <3>2. Sound(q) /\ Untouched(q) /\ UNCHANGED <<inputs, file>>
      BY <1>4 DEF FileInv, Untouched, migrationVars, locks, local
    <3>3. QED
      BY <3>2, FrameProcess
  <2>3. QED
    BY <2>1, <2>2 DEF FileInv
<1>5. QED
  BY <1>1, <1>2, <1>3, <1>4 DEF MigrationNext

\* What the processes know of the file and of each other (env.py: one
\* transaction for the whole command, its foreign keys off and on again) holds
\* for any number of processes: MigrationInv.
THEOREM MigrationsAreSound == MigrationSpec => []MigrationInv
<1>1. FileInv => MigrationInv
  BY DEF FileInv, MigrationInv
<1>2. QED
  BY <1>1, MigrationInitially, MigrationInductive, PTL DEF MigrationSpec

\* Whatever died, failed or lost a race, the file has exactly the schema of
\* the revision it records, and a server the one it was built for
\* (versions/*.py, env.py, start.sh): SchemaMatchesRevision.
THEOREM SchemaIsSound == MigrationSpec => []SchemaMatchesRevision
<1>1. FileInv => FileIsWhole
  <2> SUFFICES ASSUME FileInv
               PROVE  FileIsWhole
    OBVIOUS
  <2>1. file \in File /\ Whole(file) /\ file.revision \in Revisions
    BY DEF FileInv, MigrationTypeOK, File
  <2>2. CASE file.revision = "base"
    <3>1. Orphans(file) = {}
      BY <2>1, <2>2 DEF Whole, Orphans
    <3>2. /\ file.tables \subseteq {"alembic_version"} /\ UpStart(file) \in {0, 1}
          /\ file = UpFile(UpStart(file), file)
      BY <2>1, <2>2 DEF Whole, UpStart
    <3>3. file.copy = {}
      BY <3>2 DEF UpFile, Content
    <3>4. QED
      BY <2>2, <3>1, <3>2, <3>3 DEF FileIsWhole, Business
  <2>3. CASE file.revision = "tables"
    <3> DEFINE P == file.products
               R == file.reservations
               K == file.keys
    <3>1. file = Plain(P, R, K)
      BY <2>1, <2>3, WholeIs
    <3>2. /\ file.tables = AllTables /\ file.copy = {} /\ file.columns = "plain"
          /\ file.filled = {}
      <4> HIDE DEF P, R, K
      <4> QED
        BY <3>1 DEF Plain, Content
    <3>3. QED
      BY <2>3, <3>2 DEF FileIsWhole, AllTables, Business
  <2>4. CASE file.revision = "audit"
    <3> DEFINE P == file.products
               R == file.reservations
               K == file.keys
    <3>1. file = Audited(P, R, K)
      BY <2>1, <2>4, WholeIs
    <3>2. /\ file.tables = AllTables /\ file.copy = {} /\ file.columns = "audited"
          /\ file.filled = P
      <4> HIDE DEF P, R, K
      <4> QED
        BY <3>1 DEF Audited, Content
    <3>3. QED
      BY <2>4, <3>2 DEF FileIsWhole, AllTables, Business
  <2>5. QED
    BY <2>1, <2>2, <2>3, <2>4 DEF Revisions
<1>2. FileInv => ServersFindTheirSchema
  BY DEF FileInv, Sound, AllUpgrade, ServersFindTheirSchema
<1>3. FileInv => SchemaMatchesRevision
  BY <1>1, <1>2 DEF SchemaMatchesRevision
<1>4. QED
  BY <1>3, MigrationInitially, MigrationInductive, PTL DEF MigrationSpec

\* A command that is let at the file never fails with an error of a statement,
\* whatever the file holds (versions/*.py): OnlyHindrancesFail.
THEOREM StatementsSucceed == MigrationSpec => []OnlyHindrancesFail
<1>1. FileInv => OnlyHindrancesFail
  BY DEF FileInv, Sound, OnlyHindrancesFail
<1>2. QED
  BY <1>1, MigrationInitially, MigrationInductive, PTL DEF MigrationSpec

\* Only a commit and the others' writes change the file.
LEMMA FileWriters ==
  ASSUME FileInv, [MigrationNext]_migrationVars, file' # file
  PROVE  \/ \E p \in Processes : CommitFile(p)
         \/ \E product \in Products : Seed(product) \/ LegacyRow(product)
<1>1. ASSUME NEW p \in Processes, ProcessStep(p)
      PROVE  CommitFile(p)
  BY <1>1 DEF ProcessStep, Connect, BeginMigration, BeginTimesOut, ExecuteStatement, StatementFails, WriteIsBusy, Check,
     CheckFails, CommitWaits, CommitTimesOut, FinishCommand, GiveUp
<1>2. ASSUME NEW p \in Processes, NEW product \in Products, Request(p, product)
      PROVE  FALSE
  BY <1>2 DEF Request
<1>3. ASSUME NEW p \in Processes, Die(p)
      PROVE  FALSE
  BY <1>3 DEF Die
<1>4. UNCHANGED migrationVars => FALSE
  BY DEF migrationVars
<1>5. QED
  BY <1>1, <1>2, <1>3, <1>4 DEF MigrationNext

\* A command never loses a row, not even one committed while it was on its
\* way (batch_alter_table's copy, one transaction per command): RowsSurvive.
THEOREM NoRowIsLost == MigrationSpec => RowsSurvive
<1> DEFINE Kept == file'.revision # "base" =>
                     /\ file.products \subseteq file'.products
                     /\ file.reservations \subseteq file'.reservations
                     /\ file.keys \subseteq file'.keys
<1>1. ASSUME FileInv, [MigrationNext]_migrationVars, file' # file
      PROVE  Kept
  <2>1. CASE \E p \in Processes : CommitFile(p)
    BY <1>1, <2>1, CommitSucceeds DEF Succeeds
  <2>2. CASE \E product \in Products : Seed(product)
    BY <1>1, <2>2, SeedSucceeds DEF Succeeds
  <2>3. CASE \E product \in Products : LegacyRow(product)
    BY <1>1, <2>3, LegacyRowSucceeds
  <2>4. QED
    BY <1>1, <2>1, <2>2, <2>3, FileWriters
<1>2. FileInv /\ [MigrationNext]_migrationVars => [Kept]_file
  BY <1>1
<1>3. QED
  BY <1>2, MigrationInitially, MigrationInductive, PTL DEF MigrationSpec, RowsSurvive

\* How a command can have ended with a step.
LEMMA ResultWriters ==
  ASSUME FileInv, [MigrationNext]_migrationVars, NEW p \in Processes, exitStatus[p] = "none"
  PROVE  /\ exitStatus'[p] = "ok" => CommitFile(p) /\ pc[p] = "checked"
         /\ exitStatus'[p] = "violations" => CheckFails(p)
<1>1. MigrationTypeOK /\ pc[p] \in Places
  BY DEF FileInv, MigrationTypeOK
<1>2. ASSUME NEW q \in Processes, ProcessStep(q)
      PROVE  /\ exitStatus'[p] = "ok" => CommitFile(p) /\ pc[p] = "checked"
             /\ exitStatus'[p] = "violations" => CheckFails(p)
  <2>1. CASE Connect(q)
    BY <1>1, <2>1 DEF Connect, MigrationTypeOK
  <2>2. CASE BeginMigration(q) \/ ExecuteStatement(q) \/ Check(q) \/ FinishCommand(q)
    BY <2>2 DEF BeginMigration, ExecuteStatement, Check, FinishCommand
  <2>3. CASE BeginTimesOut(q) \/ WriteIsBusy(q) \/ CommitTimesOut(q)
    <3>1. GiveUp(q, "busy")
      BY <2>3 DEF BeginTimesOut, WriteIsBusy, CommitTimesOut
    <3>2. QED
      BY <1>1, <3>1 DEF GiveUp, MigrationTypeOK
  <2>4. CASE StatementFails(q)
    BY <1>1, <2>4 DEF StatementFails, GiveUp, MigrationTypeOK
  <2>5. CASE CheckFails(q)
    <3>1. GiveUp(q, "violations")
      BY <2>5 DEF CheckFails
    <3>2. q # p => exitStatus'[p] = exitStatus[p]
      BY <1>1, <3>1 DEF GiveUp, MigrationTypeOK
    <3>3. q = p => exitStatus'[p] \in {exitStatus[p], "violations"}
      BY <1>1, <3>1 DEF GiveUp, MigrationTypeOK
    <3>4. QED
      BY <2>5, <3>2, <3>3
  <2>6. CASE CommitWaits(q)
    BY <2>6 DEF CommitWaits, local
  <2>7. CASE CommitFile(q)
    <3>1. /\ pc[q] \in {"checked", "reserving"}
          /\ exitStatus' = IF pc[q] = "reserving" THEN exitStatus ELSE [exitStatus EXCEPT ![q] = "ok"]
      BY <2>7 DEF CommitFile, AtFileCommit
    <3>2. exitStatus'[p] = IF q = p /\ pc[p] = "checked" THEN "ok" ELSE exitStatus[p]
      BY <1>1, <3>1 DEF MigrationTypeOK
    <3>3. QED
      BY <2>7, <3>2
  <2>8. QED
    BY <1>2, <2>1, <2>2, <2>3, <2>4, <2>5, <2>6, <2>7 DEF ProcessStep
<1>3. ASSUME NEW q \in Processes, Die(q) \/ \E product \in Products : Request(q, product)
      PROVE  exitStatus' = exitStatus
  BY <1>3 DEF Die, Request
<1>4. ASSUME NEW product \in Products, Seed(product) \/ LegacyRow(product)
      PROVE  exitStatus' = exitStatus
  BY <1>4 DEF Seed, LegacyRow, local
<1>5. UNCHANGED migrationVars => exitStatus' = exitStatus
  BY DEF migrationVars, local
<1>6. QED
  BY <1>2, <1>3, <1>4, <1>5 DEF MigrationNext

\* A FastCRUD command that succeeds leaves no dangling reference in the file,
\* whoever wrote it; one that finds some leaves the file as it was; and nobody
\* but a foreign tool ever makes one (env.py: PRAGMA foreign_key_check):
\* ReferencesAreChecked.
THEOREM ReferencesHold == MigrationSpec => ReferencesAreChecked
<1> DEFINE Checked ==
             /\ \A p \in Processes :
                  /\ fastcrud /\ exitStatus[p] = "none" /\ exitStatus'[p] = "ok" => Orphans(file') = {}
                  /\ exitStatus[p] = "none" /\ exitStatus'[p] = "violations" =>
                       orphaned /\ file' = file
             /\ Orphans(file') \subseteq Orphans(file) \/ orphaned'
<1>1. ASSUME FileInv, [MigrationNext]_migrationVars
      PROVE  Checked
  <2>1. ASSUME NEW p \in Processes, fastcrud, exitStatus[p] = "none", exitStatus'[p] = "ok"
        PROVE  Orphans(file') = {}
    BY <1>1, <2>1, ResultWriters, CommitSucceeds
  <2>2. ASSUME NEW p \in Processes, exitStatus[p] = "none", exitStatus'[p] = "violations"
        PROVE  orphaned /\ file' = file
    <3>1. CheckFails(p)
      BY <1>1, <2>2, ResultWriters
    <3>2. Orphans(work[p]) # {} /\ file' = file
      BY <3>1 DEF CheckFails, GiveUp
    <3>3. Orphans(work[p]) \subseteq Orphans(file)
      BY <1>1, <3>1, MigrationSucceeds DEF CheckFails, Succeeds
    <3>4. QED
      BY <1>1, <3>2, <3>3 DEF FileInv
  <2>3. Orphans(file') \subseteq Orphans(file) \/ orphaned'
    <3>1. CASE file' = file
      BY <3>1
    <3>2. CASE \E p \in Processes : CommitFile(p)
      BY <1>1, <3>2, CommitSucceeds DEF Succeeds
    <3>3. CASE \E product \in Products : Seed(product)
      BY <1>1, <3>3, SeedSucceeds DEF Succeeds
    <3>4. CASE \E product \in Products : LegacyRow(product)
      BY <1>1, <3>4, LegacyRowSucceeds
    <3>5. QED
      BY <1>1, <3>1, <3>2, <3>3, <3>4, FileWriters
  <2>4. QED
    BY <2>1, <2>2, <2>3
<1>2. FileInv /\ [MigrationNext]_migrationVars => [Checked]_migrationVars
  BY <1>1
<1>3. QED
  BY <1>2, MigrationInitially, MigrationInductive, PTL DEF MigrationSpec, ReferencesAreChecked

=============================================================================
