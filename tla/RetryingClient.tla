--------------------------- MODULE RetryingClient ---------------------------
(***************************************************************************)
(* The reservation contract as a client sees it: through status codes, in  *)
(* several tries, some of which it gives up waiting for while the server   *)
(* still works on them.                                                    *)
(*                                                                         *)
(* A client wants one product, under one key.  It keeps to the documented  *)
(* rule (service-guide.md:70-71): the same work is retried under the same  *)
(* key, 4xx answers are final.  The clients are not part of the            *)
(* repository.  The servers are the contract (ReservationContract) behind  *)
(* each implementation's table from errors to answers.                     *)
(***************************************************************************)
EXTENDS ReservationContract

CONSTANTS Clients, MaxTries

ASSUME ClientAssumption ==
  /\ MaxTries \in Nat \ {0}
  /\ Attempts = Clients \X (1..MaxTries)

VARIABLES
  server,   \* the implementation; fixed
  tries,    \* how many tries each client has made
  answer,   \* the answer to each try
  verdict   \* what each client has come to believe

clientVars == <<server, tries, answer, verdict>>

-----------------------------------------------------------------------------
(* From decisions to answers. *)

Answer(status, code) ==
  [status |-> status, code |-> code, retryAfter |-> FALSE]

RetryLater(code) == [status |-> 503, code |-> code, retryAfter |-> TRUE]

Codes == {"CREATED", "PRODUCT_NOT_FOUND", "SOLD_OUT", "IDEMPOTENCY_CONFLICT",
          "DATABASE_BUSY", "DATABASE_POOL_TIMEOUT", "INTERNAL_ERROR"}

Answers == [status: {201, 404, 409, 500, 503}, code: Codes, retryAfter: BOOLEAN]

NoAnswer == [status |-> 0, code |-> "NONE", retryAfter |-> FALSE]

\* FastAPI and FastCRUD: one handler for each exception class.
FastapiAnswer(kind) ==
  CASE kind = "not_found"    -> Answer(404, "PRODUCT_NOT_FOUND")
    [] kind = "sold_out"     -> Answer(409, "SOLD_OUT")
    [] kind = "conflict"     -> Answer(409, "IDEMPOTENCY_CONFLICT")
    [] kind = "busy"         -> RetryLater("DATABASE_BUSY")
    [] kind = "pool_timeout" -> RetryLater("DATABASE_POOL_TIMEOUT")
    [] kind = "failed"       -> Answer(500, "INTERNAL_ERROR")

\* Mutant: whatever fails in the database is called busy.
NestAnswerBusy(kind) ==
  LET application == [not_found |-> <<404, "PRODUCT_NOT_FOUND">>,
                      sold_out |-> <<409, "SOLD_OUT">>,
                      conflict |-> <<409, "IDEMPOTENCY_CONFLICT">>,
                      pool_timeout |-> <<503, "DATABASE_POOL_TIMEOUT">>]
  IN  IF kind \notin DOMAIN application THEN RetryLater("DATABASE_BUSY")
      ELSE IF application[kind][1] = 503 THEN RetryLater(application[kind][2])
      ELSE Answer(application[kind][1], application[kind][2])

\* NestJS: a table of application errors, Retry-After with every 503 of it,
\* and 500 for the rest.
NestAnswer(kind) ==
  LET application == [not_found |-> <<404, "PRODUCT_NOT_FOUND">>,
                      sold_out |-> <<409, "SOLD_OUT">>,
                      conflict |-> <<409, "IDEMPOTENCY_CONFLICT">>,
                      busy |-> <<503, "DATABASE_BUSY">>,
                      pool_timeout |-> <<503, "DATABASE_POOL_TIMEOUT">>]
  IN  IF kind \notin DOMAIN application THEN Answer(500, "INTERNAL_ERROR")
      ELSE IF application[kind][1] = 503 THEN RetryLater(application[kind][2])
      ELSE Answer(application[kind][1], application[kind][2])

\* Spring (Java and Kotlin): the reason of a ReservationFailure is the code.
SpringAnswer(kind) ==
  LET reason == [not_found |-> "PRODUCT_NOT_FOUND", sold_out |-> "SOLD_OUT",
                 conflict |-> "IDEMPOTENCY_CONFLICT"]
  IN  IF kind \in DOMAIN reason
        THEN Answer(IF kind = "not_found" THEN 404 ELSE 409, reason[kind])
      ELSE IF kind = "busy" THEN RetryLater("DATABASE_BUSY")
      ELSE IF kind = "pool_timeout" THEN RetryLater("DATABASE_POOL_TIMEOUT")
      ELSE Answer(500, "INTERNAL_ERROR")

Servers == {"fastapi", "nestjs", "spring"}

AnswerTo(d) ==
  IF Succeeded(d) THEN Answer(201, "CREATED")
  ELSE CASE server = "fastapi" -> FastapiAnswer(d.kind)
         [] server = "nestjs"  -> NestAnswer(d.kind)
         [] server = "spring"  -> SpringAnswer(d.kind)

-----------------------------------------------------------------------------
(* Clients. *)

Open == [told |-> "nothing", reservation |-> NoAttempt]
Reserved(b) == [told |-> "CREATED", reservation |-> b]
Rejected(code) == [told |-> code, reservation |-> NoAttempt]

FinalCodes == {"PRODUCT_NOT_FOUND", "SOLD_OUT", "IDEMPOTENCY_CONFLICT"}

TriesOf(c) == {a \in Attempts : a[1] = c}

Sent(a) == a[2] <= tries[a[1]]

ClientTypeOK ==
  /\ TypeOK
  /\ server \in Servers
  /\ tries \in [Clients -> 0..MaxTries]
  /\ answer \in [Attempts -> Answers \cup {NoAnswer}]
  /\ verdict \in [Clients -> [told: {"nothing", "CREATED"} \cup FinalCodes,
                              reservation: Attempts \cup {NoAttempt}]]

ClientInit ==
  /\ Init
  /\ \A a, b \in Attempts : a[1] = b[1] => request[a] = request[b]
  /\ server \in Servers
  /\ tries = [c \in Clients |-> 0]
  /\ answer = [a \in Attempts |-> NoAnswer]
  /\ verdict = [c \in Clients |-> Open]

\* The first try; another after a 5xx answer, or after waiting long enough.
Send(c) ==
  /\ verdict[c] = Open
  /\ tries[c] < MaxTries
  /\ tries' = [tries EXCEPT ![c] = @ + 1]
  /\ UNCHANGED <<vars, server, answer, verdict>>

\* The answer to the try the client is waiting for; it may also be lost.
Receive(a) ==
  LET c == a[1]
      reply == AnswerTo(decision[a])
  IN  /\ a[2] = tries[c]
      /\ answer[a] = NoAnswer
      /\ decision[a] # Undecided
      /\ answer' = [answer EXCEPT ![a] = reply]
      /\ verdict' = [verdict EXCEPT ![c] =
                       IF reply.code = "CREATED" THEN Reserved(decision[a].reservation)
                       ELSE IF reply.code \in FinalCodes THEN Rejected(reply.code)
                       ELSE Open]
      /\ UNCHANGED <<vars, server, tries>>

\* The server works on every try it was sent, abandoned ones included.
Serve(a) ==
  /\ Sent(a)
  /\ AttemptStep(a)
  /\ UNCHANGED clientVars

Seed(p) == List(p) /\ UNCHANGED clientVars

ClientNext ==
  \/ \E c \in Clients : Send(c)
  \/ \E a \in Attempts : Serve(a) \/ Receive(a)
  \/ \E p \in Products : Seed(p)

ClientSpec == ClientInit /\ [][ClientNext]_<<vars, clientVars>>

-----------------------------------------------------------------------------
(* Safety. *)

\* A client that was told "sold out" or "conflict" has no reservation, not
\* even by an earlier try of its own that it had given up on: the replay
\* lookup comes before the stock is looked at (services/reservations.py:33).
\* A 404 gives no such promise: the product may be seeded while an abandoned
\* try is still at work.
RejectedHasNothing ==
  \A c \in Clients :
     verdict[c].told \in {"SOLD_OUT", "IDEMPOTENCY_CONFLICT"}
       => \A a \in TriesOf(c) : ledger[KeyOf(a)] # a

\* A client that was told of a reservation was told of the one its key is
\* bound to, of the product it wanted, even when it was made by a try it had
\* given up on or by another client (services/reservations.py:33-48).
ReservedHasOne ==
  \A c \in Clients :
     verdict[c].told = "CREATED" =>
       LET a == CHOOSE b \in TriesOf(c) : TRUE
       IN  /\ ledger[KeyOf(a)] = verdict[c].reservation
           /\ ProductOf(verdict[c].reservation) = ProductOf(a)

\* An answer with Retry-After means that the try it answers changed nothing
\* (http/database.py:9-18, problem.filter.ts:71, ApiExceptionHandler.kt:46-55).
RetryAfterIsSafe ==
  \A a \in Attempts : answer[a].retryAfter => ledger[KeyOf(a)] # a

\* What a client was told is so, and an invitation to try again is harmless.
ClientInv == ClientTypeOK /\ RejectedHasNothing /\ ReservedHasOne /\ RetryAfterIsSafe
=============================================================================
