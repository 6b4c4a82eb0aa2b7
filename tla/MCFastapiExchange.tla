-------------------------- MODULE MCFastapiExchange --------------------------
(* Three views of the exchanges of one process: two that are no            *)
(* reservations with a scrape beside them; three reservations as far as    *)
(* their sessions go; and two reservations with a scrape, one of them to   *)
(* its end.                                                                *)
EXTENDS FastapiExchange, TLC

CONSTANTS r1, r2, r3, c1, c2, s1

VARIABLE watched  \* the exchanges looked at to their end; fixed

ThreeRequests == {r1, r2, r3}
TwoRecords == {c1, c2}
OneScrape == {s1}

Symmetry == Permutations(Requests) \cup Permutations(Records)

ViewInit ==
  /\ ExchangeInit
  /\ watched \in SUBSET Requests
  /\ \/ reserving = {} /\ Cardinality(watched) = 2 /\ excluded # Requests
     \/ reserving = Requests /\ watched = {}
     \/ Cardinality(reserving) = 2 /\ watched \subseteq reserving /\ Cardinality(watched) = 1
  /\ excluded \subseteq watched

\* One client leaves at most, and none beside a scrape.  The exchanges that are not watched never arrive,
\* or get no further than an answer of no interest, uncancelled beside watched ones.
Viewed ==
  /\ \E r \in Requests : \A q \in Requests \ {r} : client[q] = "there"
  /\ (\E r \in Requests : client[r] = "gone") => \A s \in Scrapes : scrape[s] = Http!Unread
  /\ \A r \in Requests \ watched :
       /\ serverLine[r] = "waiting"
       /\ stage[r] \in {"new", "running"} /\ answer[r] \in {"none", "500"}
       /\ ~sending[r] /\ client[r] = "there" /\ seen[r] = Http!Unseen
  /\ \A r \in Requests \ (watched \cup reserving) : stage[r] = "new"
  /\ reserving # {} => cancelled \subseteq watched \/ watched = {}
  /\ watched = {} => \A s \in Scrapes : scrape[s] = Http!Unread

ViewNext == ExchangeNext /\ UNCHANGED watched /\ Viewed'

ViewSpec == ViewInit /\ [][ViewNext]_<<exchangeVars, watched>>
=============================================================================
