------------------------ MODULE RetryingClientProofs ------------------------
(***************************************************************************)
(* What a client that retries may believe (RetryingClient), for any number *)
(* of clients and tries and for each table from errors to answers.  The    *)
(* clients only add to the contract: every step of theirs is one of its    *)
(* steps or leaves it alone, so its theorems hold for them too.            *)
(***************************************************************************)
EXTENDS RetryingClient, ReservationContractProofs

-----------------------------------------------------------------------------
(* The clients: the inductive invariant, on top of the contract's. *)

\* The tries of a client ask for the same.
SameWork == \A a, b \in Attempts : a[1] = b[1] => request[a] = request[b]

Decided(a) == decision[a].kind # "undecided"

\* What two refusals say of every attempt that asks for the same, not only of
\* the one that was refused: with the product sold out nobody binds the key to
\* it any more, and a conflict is with a reservation of another product.
RefusalHolds(a) ==
  /\ decision[a].kind = "sold_out" =>
       \A b \in Attempts : request[b] = request[a] => ledger[KeyOf(b)] # b
  /\ decision[a].kind = "conflict" =>
       /\ ledger[KeyOf(a)] # NoAttempt
       /\ ProductOf(ledger[KeyOf(a)]) # ProductOf(a)

\* Every verdict goes back to one decision on one of the client's tries.
VerdictHasGrounds(c) ==
  /\ verdict[c].told = "SOLD_OUT" =>
       \E a \in TriesOf(c) : decision[a].kind = "sold_out"
  /\ verdict[c].told = "IDEMPOTENCY_CONFLICT" =>
       \E a \in TriesOf(c) : decision[a].kind = "conflict"
  /\ verdict[c].told = "CREATED" =>
       \E a \in TriesOf(c) :
          Succeeded(decision[a]) /\ decision[a].reservation = verdict[c].reservation

BeliefInv ==
  /\ ClientTypeOK /\ SameWork
  /\ \A a \in Attempts :
       /\ Decided(a) \/ decision[a] = Undecided
       /\ RefusalHolds(a)
       /\ answer[a].retryAfter => decision[a].kind \in {"busy", "pool_timeout"}
  /\ \A c \in Clients : VerdictHasGrounds(c)

-----------------------------------------------------------------------------
(* The tables from errors to answers. *)

Kinds == CleanRefusals \cup {"failed"}

\* What a table has to keep apart: an answer is well formed, never "created",
\* "sold out" and "conflict" are only said of what they name, and Retry-After
\* only of what was certainly not applied.
Tells(reply, kind) ==
  /\ reply \in Answers /\ reply.code # "CREATED"
  /\ reply.code = "SOLD_OUT" => kind = "sold_out"
  /\ reply.code = "IDEMPOTENCY_CONFLICT" => kind = "conflict"
  /\ reply.retryAfter => kind \in {"busy", "pool_timeout"}

LEMMA FastapiTells == ASSUME NEW kind \in Kinds PROVE Tells(FastapiAnswer(kind), kind)
BY DEF Tells, FastapiAnswer, Answer, RetryLater, Answers, Codes, Kinds, CleanRefusals

LEMMA SpringTells == ASSUME NEW kind \in Kinds PROVE Tells(SpringAnswer(kind), kind)
BY DEF Tells, SpringAnswer, Answer, RetryLater, Answers, Codes, Kinds, CleanRefusals

LEMMA EachAnswerTells ==
  /\ Tells(Answer(500, "INTERNAL_ERROR"), "failed")
  /\ Tells(Answer(404, "PRODUCT_NOT_FOUND"), "not_found")
  /\ Tells(Answer(409, "SOLD_OUT"), "sold_out")
  /\ Tells(Answer(409, "IDEMPOTENCY_CONFLICT"), "conflict")
  /\ Tells(RetryLater("DATABASE_BUSY"), "busy")
  /\ Tells(RetryLater("DATABASE_POOL_TIMEOUT"), "pool_timeout")
BY DEF Tells, Answer, RetryLater, Answers, Codes

LEMMA NestTells == ASSUME NEW kind \in Kinds PROVE Tells(NestAnswer(kind), kind)
<1> DEFINE application == [not_found |-> <<404, "PRODUCT_NOT_FOUND">>,
                      sold_out |-> <<409, "SOLD_OUT">>,
                      conflict |-> <<409, "IDEMPOTENCY_CONFLICT">>,
                      busy |-> <<503, "DATABASE_BUSY">>,
                      pool_timeout |-> <<503, "DATABASE_POOL_TIMEOUT">>]
<1>1. NestAnswer(kind) = IF kind \notin DOMAIN application THEN Answer(500, "INTERNAL_ERROR")
                         ELSE IF application[kind][1] = 503
                                THEN RetryLater(application[kind][2])
                         ELSE Answer(application[kind][1], application[kind][2])
  BY DEF NestAnswer
<1>2. /\ DOMAIN application = CleanRefusals
      /\ application["not_found"] = <<404, "PRODUCT_NOT_FOUND">>
      /\ application["sold_out"] = <<409, "SOLD_OUT">>
      /\ application["conflict"] = <<409, "IDEMPOTENCY_CONFLICT">>
      /\ application["busy"] = <<503, "DATABASE_BUSY">>
      /\ application["pool_timeout"] = <<503, "DATABASE_POOL_TIMEOUT">>
  BY DEF CleanRefusals
<1> HIDE DEF application
<1>3. CASE kind = "failed"
  <2>1. NestAnswer(kind) = Answer(500, "INTERNAL_ERROR")
    BY <1>1, <1>2, <1>3 DEF CleanRefusals
  <2>2. QED
    BY <1>3, <2>1, EachAnswerTells
<1>4. CASE kind = "not_found"
  <2>1. NestAnswer(kind) = Answer(404, "PRODUCT_NOT_FOUND")
    BY <1>1, <1>2, <1>4 DEF CleanRefusals
  <2>2. QED
    BY <1>4, <2>1, EachAnswerTells
<1>5. CASE kind = "sold_out"
  <2>1. NestAnswer(kind) = Answer(409, "SOLD_OUT")
    BY <1>1, <1>2, <1>5 DEF CleanRefusals
  <2>2. QED
    BY <1>5, <2>1, EachAnswerTells
<1>6. CASE kind = "conflict"
  <2>1. NestAnswer(kind) = Answer(409, "IDEMPOTENCY_CONFLICT")
    BY <1>1, <1>2, <1>6 DEF CleanRefusals
  <2>2. QED
    BY <1>6, <2>1, EachAnswerTells
<1>7. CASE kind = "busy"
  <2>1. NestAnswer(kind) = RetryLater("DATABASE_BUSY")
    BY <1>1, <1>2, <1>7 DEF CleanRefusals
  <2>2. QED
    BY <1>7, <2>1, EachAnswerTells
<1>8. CASE kind = "pool_timeout"
  <2>1. NestAnswer(kind) = RetryLater("DATABASE_POOL_TIMEOUT")
    BY <1>1, <1>2, <1>8 DEF CleanRefusals
  <2>2. QED
    BY <1>8, <2>1, EachAnswerTells
<1>9. QED
  BY <1>3, <1>4, <1>5, <1>6, <1>7, <1>8 DEF Kinds, CleanRefusals

LEMMA AnswersTell ==
  ASSUME server \in Servers, NEW d \in Decisions, d.kind # "undecided"
  PROVE  /\ Succeeded(d) => AnswerTo(d) = Answer(201, "CREATED")
         /\ ~Succeeded(d) => Tells(AnswerTo(d), d.kind)
<1>1. ASSUME ~Succeeded(d)
      PROVE  Tells(AnswerTo(d), d.kind)
  <2>1. d.kind \in Kinds
    BY <1>1 DEF Decisions, Succeeded, Kinds
  <2>2. AnswerTo(d) \in {FastapiAnswer(d.kind), NestAnswer(d.kind), SpringAnswer(d.kind)}
    BY <1>1 DEF AnswerTo, Servers
  <2>3. QED
    BY <2>1, <2>2, FastapiTells, NestTells, SpringTells
<1>2. QED
  BY <1>1 DEF AnswerTo

-----------------------------------------------------------------------------
(* The clients use the contract and add nothing to it. *)

LEMMA ClientInitIsInit == ClientInit => Init
BY DEF ClientInit

LEMMA ClientStepIsStep == [ClientNext]_<<vars, clientVars>> => [Next]_vars
<1>1. \A a \in Attempts : Serve(a) => Next
  BY DEF Serve, Next
<1>2. \A p \in Products : Seed(p) => Next
  BY DEF Seed, Next
<1>3. QED
  BY <1>1, <1>2 DEF ClientNext, Send, Receive

\* Clients that retry, give up and retry again are users of the contract: what
\* it promises to every attempt it promises to theirs.
THEOREM ClientsUseTheContract == ClientSpec => Spec
BY ClientInitIsInit, ClientStepIsStep, PTL DEF ClientSpec, Spec

-----------------------------------------------------------------------------
(* What a step of the contract does to attempts. *)

\* A decision is final.
LEMMA DecisionsAreFinal ==
  ASSUME TypeOK, Next, NEW a \in Attempts, decision[a] # Undecided
  PROVE  decision'[a] = decision[a]
<1>1. ASSUME NEW b \in Attempts, NEW d, Decide(b, d)
      PROVE  decision'[a] = decision[a]
  BY <1>1 DEF Decide, TypeOK
<1>2. QED
  BY <1>1 DEF Next, AttemptStep, List, Reserve, Replay, Conflict, SoldOut, NotFound, Fail

\* Who binds a key is its own first attempt.
LEMMA BindingStep ==
  ASSUME TypeOK, Next, NEW a \in Attempts, ledger[KeyOf(a)] # a, ledger'[KeyOf(a)] = a
  PROVE  ledger[KeyOf(a)] = NoAttempt /\ available[ProductOf(a)] > 0
<1>1. PICK b \in Attempts : Reserve(b)
  BY DEF Next, AttemptStep, List, Replay, Conflict, SoldOut, NotFound, Fail
<1>2. a = b
  BY <1>1 DEF Reserve, TypeOK, Requests, KeyOf
<1>3. QED
  BY <1>1, <1>2 DEF Reserve

\* What a decision says of the moment it was made.
LEMMA DecidingStep ==
  ASSUME TypeOK, Next, NEW a \in Attempts, decision[a] = Undecided, decision'[a] # Undecided
  PROVE  /\ decision'[a].kind # "undecided"
         /\ UNCHANGED <<request, listed>>
         /\ decision'[a].kind = "sold_out" =>
              ledger[KeyOf(a)] = NoAttempt /\ ledger' = ledger
         /\ decision'[a].kind = "conflict" =>
              /\ ledger' = ledger
              /\ ledger[KeyOf(a)] # NoAttempt
              /\ ProductOf(ledger[KeyOf(a)]) # ProductOf(a)
<1>1. ASSUME NEW b \in Attempts, NEW d, Decide(b, d)
      PROVE  a = b /\ decision'[a] = d
  BY <1>1 DEF Decide, TypeOK
<1>2. PICK b \in Attempts : AttemptStep(b)
  BY DEF Next, List
<1>3. CASE Reserve(b)
  <2>1. decision'[a] \in {Created(a), Refused("failed")} /\ UNCHANGED <<request, listed>>
    BY <1>1, <1>3 DEF Reserve
  <2>2. QED
    BY <2>1 DEF Created, Refused
<1>4. CASE Replay(b)
  <2>1. decision'[a] = Replayed(ledger[KeyOf(a)]) /\ UNCHANGED <<request, listed>>
    BY <1>1, <1>4 DEF Replay
  <2>2. QED
    BY <2>1 DEF Replayed
<1>5. CASE Conflict(b)
  <2>1. /\ a = b /\ decision'[a] = Refused("conflict") /\ UNCHANGED <<request, listed, ledger>>
    BY <1>1, <1>5 DEF Conflict
  <2>2. QED
    BY <1>5, <2>1 DEF Conflict, Refused
<1>6. CASE SoldOut(b)
  <2>1. /\ a = b /\ decision'[a] = Refused("sold_out") /\ UNCHANGED <<request, listed, ledger>>
    BY <1>1, <1>6 DEF SoldOut
  <2>2. QED
    BY <1>6, <2>1 DEF SoldOut, Refused
<1>7. CASE NotFound(b)
  <2>1. decision'[a] = Refused("not_found") /\ UNCHANGED <<request, listed>>
    BY <1>1, <1>7 DEF NotFound
  <2>2. QED
    BY <2>1 DEF Refused
<1>8. CASE Fail(b)
  <2>1. PICK kind \in {"busy", "pool_timeout", "failed"} : decision'[a] = Refused(kind)
    BY <1>1, <1>8 DEF Fail
  <2>2. UNCHANGED <<request, listed>>
    BY <1>8 DEF Fail
  <2>3. QED
    BY <2>1, <2>2 DEF Refused
<1>9. QED
  BY <1>2, <1>3, <1>4, <1>5, <1>6, <1>7, <1>8 DEF AttemptStep

LEMMA KeysStayBound ==
  ASSUME TypeOK, Next
  PROVE  /\ request' = request
         /\ \A k \in Keys : ledger[k] # NoAttempt => ledger'[k] = ledger[k]
<1>1. CASE \E a \in Attempts : Reserve(a)
  BY <1>1 DEF Reserve, TypeOK
<1>2. CASE \A a \in Attempts : ~Reserve(a)
  BY <1>2, OthersKeepLedger
<1>3. QED
  BY <1>1, <1>2

-----------------------------------------------------------------------------
(* The invariant is kept. *)

\* The server works on a try, or a product is seeded.
LEMMA ServerStep ==
  ASSUME BeliefInv, PromiseInv, TypeOK', Next, UNCHANGED clientVars
  PROVE  BeliefInv'
<1>1. /\ ClientTypeOK /\ SameWork /\ TypeOK /\ request' = request
      /\ UNCHANGED <<server, tries, answer, verdict>>
  BY KeysStayBound DEF BeliefInv, ClientTypeOK, clientVars
<1>2. ClientTypeOK' /\ SameWork'
  BY <1>1 DEF ClientTypeOK, SameWork
<1>3. \A a \in Attempts : Decided(a) => decision'[a] = decision[a]
  BY <1>1, DecisionsAreFinal DEF Decided, Undecided
<1>4. ASSUME NEW a \in Attempts
      PROVE  Decided(a)' \/ decision'[a] = Undecided
  <2>1. CASE Decided(a)
    BY <1>3, <2>1 DEF Decided
  <2>2. CASE decision[a] = Undecided
    BY <1>1, <2>2, DecidingStep DEF Decided
  <2>3. QED
    BY <2>1, <2>2 DEF BeliefInv
<1>5. ASSUME NEW a \in Attempts
      PROVE  RefusalHolds(a)'
  <2>1. RefusalHolds(a) /\ (Decided(a) \/ decision[a] = Undecided)
    BY DEF BeliefInv
  <2>2. \A b \in Attempts : KeyOf(b)' = KeyOf(b) /\ ProductOf(b)' = ProductOf(b) /\ KeyOf(b) \in Keys
    BY <1>1 DEF KeyOf, ProductOf, TypeOK, Requests
  <2>3. CASE Decided(a)
    <3>1. decision'[a] = decision[a]
      BY <1>3, <2>3
    <3>2. ASSUME decision[a].kind = "sold_out", NEW b \in Attempts, request[b] = request[a]
          PROVE  ledger'[KeyOf(b)] # b
      <4>1. available[ProductOf(b)] = 0 /\ ledger[KeyOf(b)] # b
        BY <2>1, <3>2 DEF RefusalHolds, PromiseInv, SoldOutIsTrue, ProductOf
      <4>2. QED
        BY <1>1, <4>1, BindingStep
    <3>3. ASSUME decision[a].kind = "conflict"
          PROVE  /\ ledger'[KeyOf(a)] # NoAttempt
                 /\ ProductOf(ledger'[KeyOf(a)]) # ProductOf(a)
      <4>1. ledger[KeyOf(a)] # NoAttempt /\ ProductOf(ledger[KeyOf(a)]) # ProductOf(a)
        BY <2>1, <3>3 DEF RefusalHolds
      <4>2. ledger'[KeyOf(a)] = ledger[KeyOf(a)]
        BY <1>1, <2>2, <4>1, KeysStayBound
      <4>3. QED
        BY <1>1, <4>1, <4>2 DEF ProductOf
    <3>4. QED
      BY <1>1, <2>2, <3>1, <3>2, <3>3 DEF RefusalHolds, ProductOf
  <2>4. CASE decision[a] = Undecided /\ decision'[a] # Undecided
    <3>1. ASSUME decision'[a].kind = "sold_out", NEW b \in Attempts, request[b] = request[a]
          PROVE  ledger'[KeyOf(b)] # b
      <4>1. ledger[KeyOf(a)] = NoAttempt /\ ledger' = ledger
        BY <1>1, <2>4, <3>1, DecidingStep
      <4>2. KeyOf(b) = KeyOf(a) /\ b # NoAttempt
        BY <3>1, ContractAssumption DEF KeyOf
      <4>3. QED
        BY <4>1, <4>2
    <3>2. ASSUME decision'[a].kind = "conflict"
          PROVE  /\ ledger'[KeyOf(a)] # NoAttempt
                 /\ ProductOf(ledger'[KeyOf(a)]) # ProductOf(a)
      <4>1. /\ ledger[KeyOf(a)] # NoAttempt /\ ProductOf(ledger[KeyOf(a)]) # ProductOf(a)
            /\ ledger' = ledger
        BY <1>1, <2>4, <3>2, DecidingStep
      <4>2. QED
        BY <1>1, <4>1 DEF ProductOf
    <3>3. QED
      BY <1>1, <2>2, <3>1, <3>2 DEF RefusalHolds, ProductOf
  <2>5. CASE decision'[a] = Undecided
    BY <2>5 DEF RefusalHolds, Undecided
  <2>6. QED
    BY <2>1, <2>3, <2>4, <2>5
<1>6. ASSUME NEW a \in Attempts, answer'[a].retryAfter
      PROVE  decision'[a].kind \in {"busy", "pool_timeout"}
  <2>1. decision[a].kind \in {"busy", "pool_timeout"}
    BY <1>1, <1>6 DEF BeliefInv
  <2>2. QED
    BY <1>3, <2>1 DEF Decided
<1>7. ASSUME NEW c \in Clients
      PROVE  VerdictHasGrounds(c)'
  <2>1. \A a \in TriesOf(c) : /\ a \in Attempts
                              /\ Succeeded(decision[a]) => Decided(a)
    BY DEF TriesOf, Succeeded, Decided
  <2>2. VerdictHasGrounds(c) /\ TriesOf(c)' = TriesOf(c)
    BY DEF BeliefInv, TriesOf
  <2>3. /\ verdict[c].told = "SOLD_OUT" =>
             \E a \in TriesOf(c) : decision'[a].kind = "sold_out"
        /\ verdict[c].told = "IDEMPOTENCY_CONFLICT" =>
             \E a \in TriesOf(c) : decision'[a].kind = "conflict"
    BY <1>3, <2>1, <2>2 DEF VerdictHasGrounds, Decided
  <2>4. verdict[c].told = "CREATED" =>
          \E a \in TriesOf(c) :
             Succeeded(decision'[a]) /\ decision'[a].reservation = verdict[c].reservation
    BY <1>3, <2>1, <2>2 DEF VerdictHasGrounds
  <2>5. QED
    BY <1>1, <2>2, <2>3, <2>4 DEF VerdictHasGrounds, Succeeded
<1>8. QED
  BY <1>2, <1>4, <1>5, <1>6, <1>7 DEF BeliefInv

\* A client sends a try.
LEMMA SendStep ==
  ASSUME BeliefInv, NEW c \in Clients, Send(c)
  PROVE  BeliefInv'
<1>1. /\ UNCHANGED <<request, listed, available, ledger, decision>>
      /\ UNCHANGED <<server, answer, verdict>>
      /\ tries[c] < MaxTries /\ tries' = [tries EXCEPT ![c] = tries[c] + 1]
  BY DEF Send, vars
<1>2. ClientTypeOK /\ SameWork
  BY DEF BeliefInv
<1>3. tries' \in [Clients -> 0..MaxTries]
  BY <1>1, <1>2, ClientAssumption DEF ClientTypeOK
<1>4. ClientTypeOK' /\ SameWork'
  BY <1>1, <1>2, <1>3 DEF ClientTypeOK, TypeOK, SameWork
<1>5. \A a \in Attempts : RefusalHolds(a) => RefusalHolds(a)'
  BY <1>1 DEF RefusalHolds, KeyOf, ProductOf
<1>6. \A d \in Clients : VerdictHasGrounds(d) => VerdictHasGrounds(d)'
  BY <1>1 DEF VerdictHasGrounds, TriesOf, Succeeded
<1>7. QED
  BY <1>1, <1>4, <1>5, <1>6 DEF BeliefInv, Decided

\* A client receives the answer to a try.
LEMMA ReceiveStep ==
  ASSUME BeliefInv, NEW a \in Attempts, Receive(a)
  PROVE  BeliefInv'
<1> DEFINE c == a[1]
           d == decision[a]
           reply == AnswerTo(d)
           belief == IF reply.code = "CREATED" THEN Reserved(d.reservation)
                     ELSE IF reply.code \in FinalCodes THEN Rejected(reply.code)
                     ELSE Open
<1>1. /\ UNCHANGED <<request, listed, available, ledger, decision>>
      /\ UNCHANGED <<server, tries>> /\ d # Undecided
      /\ answer' = [answer EXCEPT ![a] = reply]
      /\ verdict' = [verdict EXCEPT ![c] = belief]
  BY DEF Receive, vars
<1>2. /\ ClientTypeOK /\ SameWork /\ c \in Clients /\ a \in TriesOf(c)
      /\ d \in Decisions /\ d.kind # "undecided" /\ server \in Servers
  BY <1>1, ClientAssumption DEF BeliefInv, ClientTypeOK, TypeOK, TriesOf, Decided
<1>3. /\ Succeeded(d) => reply = Answer(201, "CREATED")
      /\ ~Succeeded(d) => Tells(reply, d.kind)
  BY <1>2, AnswersTell
<1>4. /\ reply \in Answers
      /\ reply.code = "CREATED" <=> Succeeded(d)
      /\ reply.code = "SOLD_OUT" => d.kind = "sold_out"
      /\ reply.code = "IDEMPOTENCY_CONFLICT" => d.kind = "conflict"
      /\ reply.retryAfter => d.kind \in {"busy", "pool_timeout"}
  <2>1. /\ Answer(201, "CREATED") \in Answers /\ Answer(201, "CREATED").code = "CREATED"
        /\ ~Answer(201, "CREATED").retryAfter
    BY DEF Answer, Answers, Codes
  <2>2. CASE Succeeded(d)
    BY <1>3, <2>1, <2>2
  <2>3. CASE ~Succeeded(d)
    BY <1>3, <2>3 DEF Tells
  <2>4. QED
    BY <2>2, <2>3
<1> HIDE DEF reply
<1>5. /\ belief \in [told: {"nothing", "CREATED"} \cup FinalCodes,
                     reservation: Attempts \cup {NoAttempt}]
      /\ belief.told = "SOLD_OUT" => d.kind = "sold_out"
      /\ belief.told = "IDEMPOTENCY_CONFLICT" => d.kind = "conflict"
      /\ belief.told = "CREATED" => Succeeded(d) /\ d.reservation = belief.reservation
  BY <1>2, <1>4 DEF Reserved, Rejected, Open, FinalCodes, Decisions
<1> HIDE DEF belief
<1>6. ClientTypeOK' /\ SameWork'
  <2>1. /\ answer' \in [Attempts -> Answers \cup {NoAnswer}]
        /\ verdict' \in [Clients -> [told: {"nothing", "CREATED"} \cup FinalCodes,
                                     reservation: Attempts \cup {NoAttempt}]]
    BY <1>1, <1>2, <1>4, <1>5 DEF ClientTypeOK
  <2>2. QED
    BY <1>1, <1>2, <2>1 DEF ClientTypeOK, TypeOK, SameWork
<1>7. \A b \in Attempts : RefusalHolds(b)'
  BY <1>1 DEF BeliefInv, RefusalHolds, KeyOf, ProductOf
<1>8. ASSUME NEW b \in Attempts, answer'[b].retryAfter
      PROVE  decision'[b].kind \in {"busy", "pool_timeout"}
  <2>1. CASE b = a
    BY <1>1, <1>2, <1>4, <1>8, <2>1 DEF ClientTypeOK
  <2>2. CASE b # a
    BY <1>1, <1>2, <1>8, <2>2 DEF ClientTypeOK, BeliefInv
  <2>3. QED
    BY <2>1, <2>2
<1>9. ASSUME NEW e \in Clients
      PROVE  VerdictHasGrounds(e)'
  <2>1. CASE e = c
    <3>1. verdict'[c] = belief /\ TriesOf(c)' = TriesOf(c) /\ decision' = decision
      BY <1>1, <1>2 DEF ClientTypeOK, TriesOf
    <3>2. QED
      BY <1>2, <1>5, <2>1, <3>1 DEF VerdictHasGrounds, Succeeded
  <2>2. CASE e # c
    <3>1. verdict'[e] = verdict[e] /\ TriesOf(e)' = TriesOf(e) /\ decision' = decision
      BY <1>1, <1>2, <2>2 DEF ClientTypeOK, TriesOf
    <3>2. VerdictHasGrounds(e)
      BY DEF BeliefInv
    <3>3. QED
      BY <3>1, <3>2 DEF VerdictHasGrounds, Succeeded
  <2>3. QED
    BY <2>1, <2>2
<1>10. QED
  BY <1>1, <1>6, <1>7, <1>8, <1>9 DEF BeliefInv, Decided

-----------------------------------------------------------------------------
(* The theorems. *)

LEMMA BeliefsAreGrounded == ClientSpec => []BeliefInv
<1>1. ClientInit => BeliefInv
  <2> SUFFICES ASSUME ClientInit PROVE BeliefInv
    OBVIOUS
  <2>1. TypeOK
    BY ContractAssumption DEF ClientInit, Init, TypeOK, Requests, Decisions, Undecided
  <2>2. ClientTypeOK /\ SameWork
    BY <2>1, ClientAssumption DEF ClientInit, ClientTypeOK, SameWork, Open
  <2>3. ASSUME NEW a \in Attempts
        PROVE  decision[a] = Undecided /\ RefusalHolds(a) /\ ~answer[a].retryAfter
    BY DEF ClientInit, Init, RefusalHolds, Undecided, NoAnswer
  <2>4. \A c \in Clients : VerdictHasGrounds(c)
    BY DEF ClientInit, VerdictHasGrounds, Open
  <2>5. QED
    BY <2>2, <2>3, <2>4 DEF BeliefInv
<1>2. BeliefInv /\ PromiseInv /\ TypeOK' /\ [ClientNext]_<<vars, clientVars>> => BeliefInv'
  <2> SUFFICES ASSUME BeliefInv, PromiseInv, TypeOK', [ClientNext]_<<vars, clientVars>>
               PROVE  BeliefInv'
    OBVIOUS
  <2>1. ASSUME NEW a \in Attempts, Serve(a)
        PROVE  BeliefInv'
    BY <2>1, ServerStep DEF Serve, Next
  <2>2. ASSUME NEW p \in Products, Seed(p)
        PROVE  BeliefInv'
    BY <2>2, ServerStep DEF Seed, Next
  <2>3. CASE UNCHANGED <<vars, clientVars>>
    <3>1. /\ UNCHANGED <<request, listed, available, ledger, decision>>
          /\ UNCHANGED <<server, tries, answer, verdict>>
      BY <2>3 DEF vars, clientVars
    <3>2. ClientTypeOK' /\ SameWork'
      BY <3>1 DEF BeliefInv, ClientTypeOK, TypeOK, SameWork
    <3>3. /\ \A a \in Attempts : RefusalHolds(a) => RefusalHolds(a)'
          /\ \A c \in Clients : VerdictHasGrounds(c) => VerdictHasGrounds(c)'
      BY <3>1 DEF RefusalHolds, KeyOf, ProductOf, VerdictHasGrounds, TriesOf, Succeeded
    <3>4. QED
      BY <3>1, <3>2, <3>3 DEF BeliefInv, Decided
  <2>4. QED
    BY <2>1, <2>2, <2>3, SendStep, ReceiveStep DEF ClientNext
<1>3. QED
  BY <1>1, <1>2, ClientsUseTheContract, TypeCorrect, PromiseInvariant, PTL DEF ClientSpec

\* A client that was told "sold out" or "conflict" has no reservation, one
\* that was told of a reservation has that one, and Retry-After is only ever
\* said of what was not applied.
THEOREM ClientsAreToldTheTruth == ClientSpec => []ClientInv
<1>1. ASSUME BeliefInv, PromiseInv
      PROVE  ClientInv
  <2>1. ClientTypeOK /\ SameWork /\ TypeOK
    BY <1>1 DEF BeliefInv, ClientTypeOK
  <2>2. RejectedHasNothing
    <3> SUFFICES ASSUME NEW c \in Clients, NEW b \in TriesOf(c), ledger[KeyOf(b)] = b,
                        verdict[c].told \in {"SOLD_OUT", "IDEMPOTENCY_CONFLICT"}
                 PROVE  FALSE
      BY DEF RejectedHasNothing
    <3>1. PICK a \in TriesOf(c) : decision[a].kind \in {"sold_out", "conflict"}
      BY <1>1 DEF BeliefInv, VerdictHasGrounds
    <3>2. a \in Attempts /\ b \in Attempts /\ request[b] = request[a] /\ RefusalHolds(a)
      BY <1>1, <2>1 DEF TriesOf, SameWork, BeliefInv
    <3>3. QED
      BY <3>1, <3>2 DEF RefusalHolds, KeyOf, ProductOf
  <2>3. ReservedHasOne
    <3> SUFFICES ASSUME NEW c \in Clients, verdict[c].told = "CREATED",
                        NEW a, a = CHOOSE b \in TriesOf(c) : TRUE
                 PROVE  /\ ledger[KeyOf(a)] = verdict[c].reservation
                        /\ ProductOf(verdict[c].reservation) = ProductOf(a)
      BY DEF ReservedHasOne
    <3>1. PICK b \in TriesOf(c) :
             Succeeded(decision[b]) /\ decision[b].reservation = verdict[c].reservation
      BY <1>1 DEF BeliefInv, VerdictHasGrounds
    <3>2. a \in TriesOf(c)
      BY <3>1
    <3>3. b \in Attempts /\ request[a] = request[b]
      BY <2>1, <3>1, <3>2 DEF TriesOf, SameWork
    <3>4. /\ ledger[KeyOf(b)] = decision[b].reservation
          /\ ProductOf(decision[b].reservation) = ProductOf(b)
      BY <1>1, <3>1, <3>3 DEF PromiseInv, SuccessIsRecorded
    <3>5. QED
      BY <3>1, <3>3, <3>4 DEF KeyOf, ProductOf
  <2>4. RetryAfterIsSafe
    BY <1>1 DEF RetryAfterIsSafe, BeliefInv, PromiseInv, CleanRefusalLeavesNothing, CleanRefusals
  <2>5. QED
    BY <2>1, <2>2, <2>3, <2>4 DEF ClientInv
<1>2. QED
  BY <1>1, BeliefsAreGrounded, ClientsUseTheContract, PromiseInvariant, PTL

=============================================================================
