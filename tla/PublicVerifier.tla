--------------------------- MODULE PublicVerifier ---------------------------
(***************************************************************************)
(* The two public routes (src/api/base-transaction.ts and                  *)
(* src/api/x402-intent.ts): requests about one transaction share the check *)
(* that is under way, a check has a deadline, and the edge network keeps   *)
(* the answers of the first route for a few seconds.  Every deployed       *)
(* instance of a route is a server with a memory of its own.               *)
(*                                                                         *)
(* Of a check this module knows what TransactionReport promises; time is   *)
(* counted in ticks, and what is older than anything refers to is as old   *)
(* as Horizon.  A request that is not well formed changes nothing.         *)
(***************************************************************************)
EXTENDS Naturals, FiniteSets

CONSTANTS
  Client,         \* those who ask, one request at a time
  Tx,             \* the transactions they ask about
  Terms,          \* recipient and amount
  BaseServer,     \* instances of the transaction route
  IntentServer,   \* instances of the x402 requirement route
  Fate,           \* the outcome each transaction will have, or None
  Pays,           \* the terms of the payment it makes
  MaxInFlight,    \* MAX_IN_FLIGHT_HASHES
  Deadline,       \* PUBLIC_BASE_TRANSACTION_DEADLINE_MS
  Ttl,            \* PUBLIC_BASE_TRANSACTION_CDN_TTL_SECONDS
  TransientTtl,   \* PUBLIC_BASE_TRANSACTION_TRANSIENT_CDN_TTL_SECONDS
  None

Server == BaseServer \cup IntentServer
Horizon == Deadline + Ttl + 1

VARIABLES
  finalFor,   \* the ticks since the outcome of a transaction is final, or None
  inFlight,   \* the Map of each server: who started the check of a transaction
  flight,     \* the check a client started
  request,    \* what a client asked and whose check it waits for
  edge,       \* the status the edge keeps of a transaction, and for how long
  answer,     \* the answers given in the last step
  told        \* history: whose outcome a server has reported

vars == <<finalFor, inFlight, flight, request, edge, answer, told>>

Check(f) == INSTANCE TransactionReport WITH
  outcome <- IF finalFor[f.tx] = None THEN None ELSE Fate[f.tx],
  began <- f.began,
  report <- None

Outcomes == {"confirmed", "multiple", "not_eip3009_usdc", "reverted"}
Statuses == Outcomes \cup {"not_observed", "pending_finality", "contradiction", "failed"}

ASSUME FateAssumption == Fate \in [Tx -> Outcomes \cup {None}] /\ Pays \in [Tx -> Terms]
ASSUME LimitAssumption ==
  /\ MaxInFlight \in Nat \ {0} /\ Deadline \in Nat \ {0}
  /\ TransientTtl \in Nat \ {0} /\ Ttl \in Nat /\ TransientTtl <= Ttl

(* What the Map, a handler that waits, the edge and a response hold.       *)
Flights == [server : Server, tx : Tx, age : 0..Deadline, began : Outcomes \cup {None}]
Requests == [server : Server, tx : Tx, terms : Terms \cup {None}, on : Client]
Copies == [status : Statuses, left : 1..Ttl]
Verdicts == Statuses \cup
  {"settlement_terms_matched", "settlement_terms_mismatch", "multiple_payments_observed"}
Answers == [by : Server \cup {"edge"}, tx : Tx, terms : Terms \cup {None},
            status : Statuses, verdict : Verdicts]

(* Nothing is none of them, and the edge is not a server.                  *)
ASSUME NoneAssumption ==
  /\ None \notin Client /\ None \notin Outcomes /\ None \notin Nat
  /\ None \notin Flights /\ None \notin Requests /\ None \notin Copies /\ None \notin Answers
  /\ "edge" \notin Server

Nobody == [c \in Client |-> None]

Init ==
  /\ finalFor = [x \in Tx |-> None]
  /\ inFlight = [s \in Server |-> [x \in Tx |-> None]]
  /\ flight = Nobody
  /\ request = Nobody
  /\ edge = [x \in Tx |-> None]
  /\ answer = Nobody
  /\ told = [s \in Server |-> {}]

-----------------------------------------------------------------------------
(* What is answered.                                                       *)

(* The verdict on a requirement, given what was observed.                  *)
EvaluateRequirement(status, x, terms) ==
  CASE status = "confirmed" -> IF Pays[x] = terms THEN "settlement_terms_matched"
                               ELSE "settlement_terms_mismatch"
    [] status = "multiple" -> "multiple_payments_observed"
    [] status \in {"not_eip3009_usdc", "reverted", "not_observed"} -> "not_observed"
    [] OTHER -> status

Answer(s, x, terms, status) ==
  [by |-> s, tx |-> x, terms |-> terms, status |-> status,
   verdict |-> IF s \in IntentServer THEN EvaluateRequirement(status, x, terms) ELSE status]

(* Mutation: what was not observed is kept as long as what is final.       *)
CachedAlike(x, status) ==
  IF status \in {"contradiction", "failed"} THEN edge[x] ELSE [status |-> status, left |-> Ttl]

(* What the edge keeps of an answer of the transaction route.              *)
Cached(x, status) ==
  IF status \in {"contradiction", "failed"} THEN edge[x]
  ELSE [status |-> status,
        left |-> IF status \in {"pending_finality", "not_observed"} THEN TransientTtl ELSE Ttl]

-----------------------------------------------------------------------------
(* A client asks.                                                          *)

Running(s) == {x \in Tx : inFlight[s][x] # None}

Observing(c, s, x, terms) ==
  /\ flight' = [flight EXCEPT ![c] =
       [server |-> s, tx |-> x, age |-> 0, began |-> IF finalFor[x] = None THEN None ELSE Fate[x]]]
  /\ inFlight' = [inFlight EXCEPT ![s][x] = c]
  /\ request' = [request EXCEPT ![c] = [server |-> s, tx |-> x, terms |-> terms, on |-> c]]
  /\ answer' = Nobody

(* Mutation: a request never joins the check that is under way.            *)
StartAlways(c, s, x, terms) ==
  /\ Cardinality(Running(s)) < MaxInFlight \/ inFlight[s][x] # None
  /\ Observing(c, s, x, terms)

Start(c, s, x, terms) ==
  /\ inFlight[s][x] = None /\ Cardinality(Running(s)) < MaxInFlight
  /\ Observing(c, s, x, terms)

(* The request waits for the check of the transaction that is under way.   *)
Join(c, s, x, terms) ==
  /\ inFlight[s][x] # None
  /\ request' = [request EXCEPT ![c] = [server |-> s, tx |-> x, terms |-> terms, on |-> inFlight[s][x]]]
  /\ answer' = Nobody
  /\ UNCHANGED <<flight, inFlight>>

Busy(c, s, x, terms) ==
  /\ inFlight[s][x] = None /\ Cardinality(Running(s)) >= MaxInFlight
  /\ answer' = [Nobody EXCEPT ![c] = Answer(s, x, terms, "failed")]
  /\ UNCHANGED <<flight, inFlight, request>>

StartOrJoin(c, s, x, terms) ==
  Join(c, s, x, terms) \/ Start(c, s, x, terms) \/ Busy(c, s, x, terms)

Ask(c, s, x, terms) ==
  /\ request[c] = None
  /\ s \in BaseServer => edge[x] = None
  /\ StartOrJoin(c, s, x, terms)
  /\ UNCHANGED <<finalFor, edge, told>>

AskEdge(c, x) ==
  /\ request[c] = None /\ edge[x] # None
  /\ answer' = [Nobody EXCEPT ![c] = Answer("edge", x, None, edge[x].status)]
  /\ UNCHANGED <<finalFor, inFlight, flight, request, edge, told>>

-----------------------------------------------------------------------------
(* A check ends, or its deadline does, and everybody who waits for it is    *)
(* answered, each about the terms asked for.  The Map forgets it first:    *)
(* clear is registered before anybody awaits the promise.                  *)

(* Mutation: the verdict on the terms of the first goes to all.            *)
RespondAlike(c, status) ==
  LET waiting == {w \in Client : request[w] # None /\ request[w].on = c}
      To(w) == Answer(request[w].server, request[w].tx, request[w].terms, status)
  IN  /\ answer' = [w \in Client |->
             IF w \in waiting THEN [To(w) EXCEPT !.verdict = To(c).verdict] ELSE None]
      /\ request' = [w \in Client |-> IF w \in waiting THEN None ELSE request[w]]

(* Mutation: only who started the check is answered.                       *)
RespondFirst(c, status) ==
  /\ answer' = [Nobody EXCEPT ![c] = Answer(request[c].server, request[c].tx, request[c].terms, status)]
  /\ request' = [request EXCEPT ![c] = None]

Respond(c, status) ==
  LET waiting == {w \in Client : request[w] # None /\ request[w].on = c}
  IN  /\ answer' = [w \in Client |->
             IF w \in waiting
             THEN Answer(request[w].server, request[w].tx, request[w].terms, status) ELSE None]
      /\ request' = [w \in Client |-> IF w \in waiting THEN None ELSE request[w]]

Settle(c, status) ==
  LET s == flight[c].server
      x == flight[c].tx
  IN  /\ flight[c] # None
      /\ Check(flight[c])!Promised(status)
      /\ Respond(c, status)
      /\ flight' = [flight EXCEPT ![c] = None]
      /\ inFlight' = IF inFlight[s][x] = c THEN [inFlight EXCEPT ![s][x] = None] ELSE inFlight
      /\ edge' = IF s \in BaseServer THEN [edge EXCEPT ![x] = Cached(x, status)] ELSE edge
      /\ told' = IF status \in Outcomes THEN [told EXCEPT ![s] = @ \cup {x}] ELSE told
      /\ UNCHANGED finalFor

(* The abort of the deadline, at the latest; the other failures are Settle.*)
Expire(c) == flight[c] # None /\ flight[c].age = Deadline /\ Settle(c, "failed")

-----------------------------------------------------------------------------
(* The world.                                                              *)

Finalize(x) ==
  /\ finalFor[x] = None /\ Fate[x] # None
  /\ finalFor' = [finalFor EXCEPT ![x] = 0]
  /\ answer' = Nobody
  /\ UNCHANGED <<inFlight, flight, request, edge, told>>

Older(age) == IF age < Horizon THEN age + 1 ELSE Horizon

Tick ==
  /\ \A c \in Client : flight[c] # None => flight[c].age < Deadline
  /\ finalFor' = [x \in Tx |-> IF finalFor[x] = None THEN None ELSE Older(finalFor[x])]
  /\ flight' = [c \in Client |-> IF flight[c] = None THEN None ELSE [flight[c] EXCEPT !.age = @ + 1]]
  /\ edge' = [x \in Tx |-> IF edge[x] = None \/ edge[x].left = 1 THEN None
                           ELSE [edge[x] EXCEPT !.left = @ - 1]]
  /\ answer' = Nobody
  /\ UNCHANGED <<inFlight, request, told>>

Next ==
  \/ \E c \in Client, x \in Tx :
       \/ \E s \in BaseServer : Ask(c, s, x, None)
       \/ \E s \in IntentServer, terms \in Terms : Ask(c, s, x, terms)
       \/ AskEdge(c, x)
  \/ \E c \in Client, status \in Statuses : Settle(c, status)
  \/ \E c \in Client : Expire(c)
  \/ \E x \in Tx : Finalize(x)
  \/ Tick

Fairness == WF_vars(Tick) /\ \A c \in Client : WF_vars(Expire(c))

Spec == Init /\ [][Next]_vars /\ Fairness

-----------------------------------------------------------------------------
(* Properties.                                                             *)

(* Whoever is told that a transaction was not observed, by a server or by  *)
(* the edge, after joining however late, is told of a time less than one   *)
(* deadline and the short life of such an answer ago.                      *)
UnobservedIsRecent ==
  \A c \in Client :
    answer[c] # None /\ answer[c].status = "not_observed" /\ finalFor[answer[c].tx] # None
      => finalFor[answer[c].tx] < Deadline + TransientTtl

(* A server that has reported an outcome never says again that it did not  *)
(* observe the transaction: no older check of it is left to be answered.   *)
VerdictsDoNotGoBack ==
  \A c \in Client :
    answer[c] # None /\ answer[c].status = "not_observed"
      => \A s \in Server : answer[c].by = s => answer[c].tx \notin told[s]

(* A match or a mismatch is about the terms of the client who asked, even  *)
(* if the check was started by another, and about a payment that is final. *)
MatchedOwnTerms ==
  \A c \in Client :
    answer[c] # None /\ answer[c].verdict \in {"settlement_terms_matched", "settlement_terms_mismatch"}
      => /\ finalFor[answer[c].tx] # None /\ Fate[answer[c].tx] = "confirmed"
         /\ answer[c].verdict = "settlement_terms_matched" <=> Pays[answer[c].tx] = answer[c].terms

(* The checks under way are those the Maps name, and no more than allowed: *)
(* a check that has ended is never joined, none runs unaccounted.          *)
ChecksAccounted ==
  /\ \A s \in Server : Cardinality({c \in Client : flight[c] # None /\ flight[c].server = s}) <= MaxInFlight
  /\ \A c \in Client, s \in Server, x \in Tx :
       inFlight[s][x] = c <=> flight[c] # None /\ flight[c].server = s /\ flight[c].tx = x

(* Every request is answered, even if no source ever is: joiners included. *)
EveryRequestAnswered == \A c \in Client : request[c] # None ~> request[c] = None
=============================================================================
