------------------------ MODULE PublicVerifierProofs ------------------------
(***************************************************************************)
(* Proofs about PublicVerifier: for any number of clients, transactions,   *)
(* terms and instances of the routes, whatever the limits and the times,   *)
(* the four invariants the run checks.                                     *)
(*                                                                         *)
(* None is inductive.  An answer is only as good as the check it comes     *)
(* from, so the invariant says of a check under way how old it can be if   *)
(* the outcome is final and it did not see it (SeenInTime), that it began  *)
(* after what its server has already reported (BegunLater), and that the   *)
(* Map, the checks and the requests that wait for them tell of each other  *)
(* (Accounted).  Of a copy at the edge it says that the time left to it    *)
(* makes up for the age of what it hides (FreshCopies).                    *)
(***************************************************************************)
EXTENDS PublicVerifier, FiniteSetTheorems, TLAPS

Age == 0..Horizon

TypeInv ==
  /\ finalFor \in [Tx -> Age \cup {None}]
  /\ inFlight \in [Server -> [Tx -> Client \cup {None}]]
  /\ flight \in [Client -> Flights \cup {None}]
  /\ request \in [Client -> Requests \cup {None}]
  /\ edge \in [Tx -> Copies \cup {None}]
  /\ answer \in [Client -> Answers \cup {None}]
  /\ told \in [Server -> SUBSET Tx]

On(s) == {c \in Client : flight[c] # None /\ flight[c].server = s}

(* The Map names the checks under way, each request waits for a check of   *)
(* its server and transaction, and who started a check waits for it.       *)
Accounted ==
  /\ \A c \in Client : flight[c] # None =>
       /\ inFlight[flight[c].server][flight[c].tx] = c
       /\ request[c] # None /\ request[c].on = c
  /\ \A s \in Server, x \in Tx : inFlight[s][x] # None =>
       LET f == flight[inFlight[s][x]] IN f # None /\ f.server = s /\ f.tx = x
  /\ \A w \in Client : request[w] # None =>
       LET f == flight[request[w].on]
       IN  f # None /\ f.server = request[w].server /\ f.tx = request[w].tx

(* There are as many checks as entries of the Map.                         *)
Limited ==
  \A s \in Server :
    /\ IsFiniteSet(On(s)) /\ IsFiniteSet(Running(s))
    /\ Cardinality(On(s)) = Cardinality(Running(s))
    /\ Cardinality(On(s)) <= MaxInFlight

OutcomesKnown ==
  /\ \A x \in Tx : finalFor[x] # None => Fate[x] # None
  /\ \A s \in Server, x \in Tx : x \in told[s] => finalFor[x] # None

SeenInTime ==
  \A c \in Client :
    flight[c] # None /\ flight[c].began = None /\ finalFor[flight[c].tx] # None
      => finalFor[flight[c].tx] <= flight[c].age

BegunLater ==
  \A c \in Client :
    flight[c] # None /\ flight[c].tx \in told[flight[c].server] => flight[c].began # None

FreshCopies ==
  \A x \in Tx :
    edge[x] # None /\ edge[x].status = "not_observed" =>
      /\ edge[x].left <= TransientTtl
      /\ finalFor[x] # None => finalFor[x] + edge[x].left <= Deadline + TransientTtl

AnswersSound == UnobservedIsRecent /\ VerdictsDoNotGoBack /\ MatchedOwnTerms

IInv ==
  /\ TypeInv /\ Accounted /\ Limited /\ OutcomesKnown
  /\ SeenInTime /\ BegunLater /\ FreshCopies /\ AnswersSound

-----------------------------------------------------------------------------
(* What the steps have in common.                                          *)

LEMMA PromisedIs ==
  ASSUME NEW f, NEW status, Check(f)!Promised(status)
  PROVE  /\ status \in Outcomes => finalFor[f.tx] # None /\ Fate[f.tx] = status
         /\ status = "not_observed" => f.began = None
  BY NoneAssumption DEF Check!Promised, Check!Outcomes, Outcomes

LEMMA TypesOfRecords ==
  /\ \A f \in Flights : /\ f.server \in Server /\ f.tx \in Tx /\ f.age \in 0..Deadline
                        /\ f.began \in Outcomes \cup {None}
                        /\ f # None
  /\ \A r \in Requests : /\ r.server \in Server /\ r.tx \in Tx /\ r.terms \in Terms \cup {None}
                         /\ r.on \in Client
                         /\ r # None
  /\ \A k \in Copies : k.status \in Statuses /\ k.left \in 1..Ttl /\ k # None
  /\ \A a \in Answers : a # None
  BY NoneAssumption DEF Flights, Requests, Copies, Answers

(* A status is not one of the verdicts on terms, so those come from a      *)
(* payment that was confirmed.                                             *)
LEMMA VerdictIs ==
  ASSUME NEW x \in Tx, NEW terms, NEW status \in Statuses
  PROVE  LET v == EvaluateRequirement(status, x, terms)
         IN  /\ v \in Verdicts
             /\ v \in {"settlement_terms_matched", "settlement_terms_mismatch"} =>
                  /\ status = "confirmed"
                  /\ v = "settlement_terms_matched" <=> Pays[x] = terms
<1>1. CASE status = "confirmed"
  BY <1>1 DEF EvaluateRequirement, Verdicts
<1>2. CASE status = "multiple"
  BY <1>2 DEF EvaluateRequirement, Verdicts
<1>3. CASE status \in {"not_eip3009_usdc", "reverted", "not_observed"}
  BY <1>3 DEF EvaluateRequirement, Verdicts, Statuses, Outcomes
<1>4. CASE status \in {"pending_finality", "contradiction", "failed"}
  BY <1>4 DEF EvaluateRequirement, Verdicts, Statuses, Outcomes
<1> QED BY <1>1, <1>2, <1>3, <1>4 DEF Statuses, Outcomes

LEMMA AnswerIs ==
  ASSUME NEW by \in Server \cup {"edge"}, NEW x \in Tx, NEW terms \in Terms \cup {None},
         NEW status \in Statuses
  PROVE  LET a == Answer(by, x, terms, status)
         IN  /\ a \in Answers /\ a # None
             /\ a.by = by /\ a.tx = x /\ a.terms = terms /\ a.status = status
             /\ a.verdict \in {"settlement_terms_matched", "settlement_terms_mismatch"} =>
                  /\ status = "confirmed"
                  /\ a.verdict = "settlement_terms_matched" <=> Pays[x] = terms
<1> DEFINE v == EvaluateRequirement(status, x, terms)
           u == IF by \in IntentServer THEN v ELSE status
           a == [by |-> by, tx |-> x, terms |-> terms, status |-> status, verdict |-> u]
<1>1. /\ v \in Verdicts
      /\ v \in {"settlement_terms_matched", "settlement_terms_mismatch"} =>
           /\ status = "confirmed"
           /\ v = "settlement_terms_matched" <=> Pays[x] = terms
  BY VerdictIs
<1>2. /\ status \in Verdicts
      /\ status \notin {"settlement_terms_matched", "settlement_terms_mismatch"}
  BY DEF Verdicts, Statuses, Outcomes
<1>3. Answer(by, x, terms, status) = a
  BY DEF Answer
<1>4. u \in Verdicts
  BY <1>1, <1>2
<1> HIDE DEF v
<1>5. a \in Answers
  <2> HIDE DEF u
  <2> QED BY <1>4 DEF Answers
<1> QED BY <1>1, <1>2, <1>3, <1>5, TypesOfRecords

(* When nobody is answered there is nothing to be wrong about.             *)
LEMMA SilenceIsSound ==
  ASSUME answer' = Nobody
  PROVE  AnswersSound' /\ answer' \in [Client -> Answers \cup {None}]
  BY DEF AnswersSound, UnobservedIsRecent, VerdictsDoNotGoBack, MatchedOwnTerms, Nobody

-----------------------------------------------------------------------------
(* A client asks.                                                          *)

LEMMA InitIInv == Init => IInv
<1> SUFFICES ASSUME Init PROVE IInv
  OBVIOUS
<1> USE DEF Init, Nobody
<1>1. TypeInv
  BY DEF TypeInv
<1>2. Accounted
  BY DEF Accounted
<1>3. Limited
  <2> SUFFICES ASSUME NEW s \in Server
               PROVE  /\ IsFiniteSet(On(s)) /\ IsFiniteSet(Running(s))
                      /\ Cardinality(On(s)) = Cardinality(Running(s))
                      /\ Cardinality(On(s)) <= MaxInFlight
    BY DEF Limited
  <2>1. On(s) = {} /\ Running(s) = {}
    BY DEF On, Running
  <2> QED BY <2>1, FS_EmptySet, LimitAssumption
<1>4. OutcomesKnown /\ SeenInTime /\ BegunLater /\ FreshCopies
  BY DEF OutcomesKnown, SeenInTime, BegunLater, FreshCopies
<1>5. AnswersSound
  BY DEF AnswersSound, UnobservedIsRecent, VerdictsDoNotGoBack, MatchedOwnTerms
<1> QED BY <1>1, <1>2, <1>3, <1>4, <1>5 DEF IInv

(* A check that a client starts is the first of that transaction there.    *)
LEMMA StartStep ==
  ASSUME IInv, NEW c \in Client, NEW s \in Server, NEW x \in Tx,
         NEW terms \in Terms \cup {None}, request[c] = None, Start(c, s, x, terms),
         UNCHANGED <<finalFor, edge, told>>
  PROVE  IInv'
<1> DEFINE f == [server |-> s, tx |-> x, age |-> 0,
                 began |-> IF finalFor[x] = None THEN None ELSE Fate[x]]
           r == [server |-> s, tx |-> x, terms |-> terms, on |-> c]
<1>1. /\ flight' = [flight EXCEPT ![c] = f]
      /\ inFlight' = [inFlight EXCEPT ![s][x] = c]
      /\ request' = [request EXCEPT ![c] = r]
      /\ answer' = Nobody
      /\ inFlight[s][x] = None /\ Cardinality(Running(s)) < MaxInFlight
  BY DEF Start, Observing
<1>2. TypeInv /\ Accounted /\ OutcomesKnown
  BY DEF IInv
<1>3. f \in Flights /\ f.server = s /\ f.tx = x /\ f.age = 0
      /\ (f.began = None => finalFor[x] = None)
  BY <1>2, FateAssumption, LimitAssumption, NoneAssumption DEF Flights, OutcomesKnown
<1>4. r \in Requests /\ r.server = s /\ r.tx = x /\ r.on = c
  BY DEF Requests
<1> HIDE DEF f, r
<1>5. f # None /\ r # None /\ c # None
  BY <1>3, <1>4, TypesOfRecords, NoneAssumption
<1>6. flight[c] = None
  BY <1>2 DEF Accounted
<1>7. /\ \A d \in Client : flight'[d] = IF d = c THEN f ELSE flight[d]
      /\ \A d \in Client : request'[d] = IF d = c THEN r ELSE request[d]
      /\ \A t \in Server, y \in Tx :
           inFlight'[t][y] = IF t = s /\ y = x THEN c ELSE inFlight[t][y]
  BY <1>1, <1>2 DEF TypeInv
<1>8. TypeInv'
  BY <1>1, <1>2, <1>3, <1>4, SilenceIsSound DEF TypeInv
<1>9. Accounted'
  <2>1. \A d \in Client : flight'[d] # None =>
          /\ inFlight'[flight'[d].server][flight'[d].tx] = d
          /\ request'[d] # None /\ request'[d].on = d
    <3> SUFFICES ASSUME NEW d \in Client, flight'[d] # None
                 PROVE  /\ inFlight'[flight'[d].server][flight'[d].tx] = d
                        /\ request'[d] # None /\ request'[d].on = d
      OBVIOUS
    <3>1. CASE d = c
      BY <1>3, <1>4, <1>5, <1>7, <3>1
    <3>2. CASE d # c
      <4>1. flight'[d] = flight[d] /\ flight[d] # None /\ request'[d] = request[d]
        BY <1>7, <3>2
      <4>2. flight[d].server \in Server /\ flight[d].tx \in Tx
        BY <1>2, <4>1, TypesOfRecords DEF TypeInv
      <4>3. inFlight[flight[d].server][flight[d].tx] = d /\ request[d] # None /\ request[d].on = d
        BY <1>2, <4>1 DEF Accounted
      <4>4. d # None
        BY NoneAssumption
      <4> QED BY <1>1, <1>7, <4>1, <4>2, <4>3, <4>4
    <3> QED BY <3>1, <3>2
  <2>2. \A t \in Server, y \in Tx : inFlight'[t][y] # None =>
          LET g == flight'[inFlight'[t][y]] IN g # None /\ g.server = t /\ g.tx = y
    BY <1>2, <1>3, <1>5, <1>6, <1>7 DEF Accounted, TypeInv
  <2>3. \A w \in Client : request'[w] # None =>
          LET g == flight'[request'[w].on]
          IN  g # None /\ g.server = request'[w].server /\ g.tx = request'[w].tx
    BY <1>2, <1>3, <1>4, <1>5, <1>6, <1>7, TypesOfRecords DEF Accounted, TypeInv
  <2> QED BY <2>1, <2>2, <2>3 DEF Accounted
<1>10. Limited'
  <2> SUFFICES ASSUME NEW t \in Server
               PROVE  /\ IsFiniteSet(On(t)') /\ IsFiniteSet(Running(t)')
                      /\ Cardinality(On(t)') = Cardinality(Running(t)')
                      /\ Cardinality(On(t)') <= MaxInFlight
    BY DEF Limited
  <2>1. /\ IsFiniteSet(On(t)) /\ IsFiniteSet(Running(t))
        /\ Cardinality(On(t)) = Cardinality(Running(t))
        /\ Cardinality(On(t)) <= MaxInFlight
    BY DEF IInv, Limited
  <2>2. CASE t # s
    <3>1. On(t)' = On(t)
      BY <1>3, <1>6, <1>7, <2>2 DEF On
    <3>2. Running(t)' = Running(t)
      BY <1>7, <2>2 DEF Running
    <3> QED BY <2>1, <3>1, <3>2
  <2>3. CASE t = s
    <3>1. On(t)' = On(t) \cup {c} /\ c \notin On(t)
      BY <1>3, <1>5, <1>6, <1>7, <2>3 DEF On
    <3>2. Running(t)' = Running(t) \cup {x} /\ x \notin Running(t)
      BY <1>1, <1>5, <1>7, <2>3 DEF Running
    <3>3. Cardinality(On(t)') = Cardinality(On(t)) + 1 /\ IsFiniteSet(On(t)')
      BY <2>1, <3>1, FS_AddElement
    <3>4. Cardinality(Running(t)') = Cardinality(Running(t)) + 1 /\ IsFiniteSet(Running(t)')
      BY <2>1, <3>2, FS_AddElement
    <3> QED BY <1>1, <2>1, <2>3, <3>3, <3>4, FS_CardinalityType, LimitAssumption
  <2> QED BY <2>2, <2>3
<1>11. OutcomesKnown' /\ FreshCopies'
  BY DEF IInv, OutcomesKnown, FreshCopies
<1>12. SeenInTime'
  BY <1>3, <1>6, <1>7 DEF IInv, SeenInTime
<1>13. BegunLater'
  <2>1. x \in told[s] => f.began # None
    BY <1>2, <1>3 DEF OutcomesKnown
  <2> QED BY <1>3, <1>6, <1>7, <2>1 DEF IInv, BegunLater
<1> QED BY <1>1, <1>8, <1>9, <1>10, <1>11, <1>12, <1>13, SilenceIsSound DEF IInv

(* One that is under way and has been told of nothing serves another.      *)
LEMMA JoinStep ==
  ASSUME IInv, NEW c \in Client, NEW s \in Server, NEW x \in Tx,
         NEW terms \in Terms \cup {None}, request[c] = None, Join(c, s, x, terms),
         UNCHANGED <<finalFor, edge, told>>
  PROVE  IInv'
<1> DEFINE r == [server |-> s, tx |-> x, terms |-> terms, on |-> inFlight[s][x]]
<1>1. /\ request' = [request EXCEPT ![c] = r]
      /\ answer' = Nobody
      /\ inFlight[s][x] # None
      /\ UNCHANGED <<flight, inFlight>>
  BY DEF Join
<1>2. TypeInv /\ Accounted
  BY DEF IInv
<1>3. r \in Requests /\ r.server = s /\ r.tx = x /\ r.on = inFlight[s][x]
  BY <1>1, <1>2 DEF Requests, TypeInv
<1> HIDE DEF r
<1>4. \A d \in Client : request'[d] = IF d = c THEN r ELSE request[d]
  BY <1>1, <1>2 DEF TypeInv
<1>5. TypeInv'
  BY <1>1, <1>2, <1>3, SilenceIsSound DEF TypeInv
<1>6. Accounted'
  <2>1. flight[c] = None
    BY <1>2 DEF Accounted
  <2> QED BY <1>1, <1>2, <1>3, <1>4, <2>1, TypesOfRecords DEF Accounted
<1>7. Limited'
  BY <1>1 DEF IInv, Limited, On, Running
<1>8. OutcomesKnown' /\ FreshCopies' /\ SeenInTime' /\ BegunLater'
  BY <1>1 DEF IInv, OutcomesKnown, FreshCopies, SeenInTime, BegunLater
<1> QED BY <1>1, <1>5, <1>6, <1>7, <1>8, SilenceIsSound DEF IInv

(* An answer that changes nothing else.                                    *)
LEMMA AnswerOnly ==
  ASSUME IInv, UNCHANGED <<finalFor, inFlight, flight, request, edge, told>>,
         answer' \in [Client -> Answers \cup {None}], AnswersSound'
  PROVE  IInv'
<1>1. TypeInv' /\ Accounted' /\ OutcomesKnown'
  BY DEF IInv, TypeInv, Accounted, OutcomesKnown
<1>2. SeenInTime' /\ BegunLater' /\ FreshCopies'
  BY DEF IInv, SeenInTime, BegunLater, FreshCopies
<1>3. Limited'
  BY DEF IInv, Limited, On, Running
<1> QED BY <1>1, <1>2, <1>3 DEF IInv

LEMMA BusyStep ==
  ASSUME IInv, NEW c \in Client, NEW s \in Server, NEW x \in Tx,
         NEW terms \in Terms \cup {None}, Busy(c, s, x, terms),
         UNCHANGED <<finalFor, edge, told>>
  PROVE  IInv'
<1> DEFINE a == Answer(s, x, terms, "failed")
<1>1. answer' = [Nobody EXCEPT ![c] = a] /\ UNCHANGED <<flight, inFlight, request>>
  BY DEF Busy
<1>2. a \in Answers /\ a.status = "failed"
      /\ a.verdict \notin {"settlement_terms_matched", "settlement_terms_mismatch"}
  BY AnswerIs DEF Statuses
<1> HIDE DEF a
<1>3. answer' \in [Client -> Answers \cup {None}]
  BY <1>1, <1>2 DEF Nobody
<1>4. \A d \in Client : answer'[d] = IF d = c THEN a ELSE None
  BY <1>1 DEF Nobody
<1>5. AnswersSound'
  BY <1>2, <1>4 DEF AnswersSound, UnobservedIsRecent, VerdictsDoNotGoBack, MatchedOwnTerms
<1> QED BY <1>1, <1>3, <1>5, AnswerOnly

(* What the edge says is fresh enough, and no server says it.              *)
LEMMA AskEdgeStep ==
  ASSUME IInv, NEW c \in Client, NEW x \in Tx, AskEdge(c, x)
  PROVE  IInv'
<1> DEFINE a == Answer("edge", x, None, edge[x].status)
<1>1. answer' = [Nobody EXCEPT ![c] = a] /\ edge[x] # None
      /\ UNCHANGED <<finalFor, inFlight, flight, request, edge, told>>
  BY DEF AskEdge
<1>2. edge[x] \in Copies /\ edge[x].status \in Statuses /\ edge[x].left \in 1..Ttl
  BY <1>1, TypesOfRecords DEF IInv, TypeInv
<1>3. /\ a \in Answers /\ a.by = "edge" /\ a.tx = x /\ a.status = edge[x].status
      /\ a.verdict = edge[x].status
      /\ edge[x].status \notin {"settlement_terms_matched", "settlement_terms_mismatch"}
  <2>1. a \in Answers /\ a.by = "edge" /\ a.tx = x /\ a.status = edge[x].status
    BY <1>2, AnswerIs
  <2>2. a.verdict = edge[x].status
    BY NoneAssumption DEF Answer, Server
  <2> QED BY <1>2, <2>1, <2>2 DEF Statuses, Outcomes
<1> HIDE DEF a
<1>4. answer' \in [Client -> Answers \cup {None}]
  BY <1>1, <1>3 DEF Nobody
<1>5. \A d \in Client : answer'[d] = IF d = c THEN a ELSE None
  BY <1>1 DEF Nobody
<1>6. a.status = "not_observed" /\ finalFor[x] # None =>
        finalFor[x] < Deadline + TransientTtl
  <2>1. a.status = "not_observed" /\ finalFor[x] # None =>
          finalFor[x] + edge[x].left <= Deadline + TransientTtl
    BY <1>1, <1>3 DEF IInv, FreshCopies
  <2>2. finalFor[x] # None => finalFor[x] \in Nat
    BY LimitAssumption DEF IInv, TypeInv, Age, Horizon
  <2> QED BY <1>2, <2>1, <2>2, LimitAssumption
<1>7. UnobservedIsRecent'
  BY <1>1, <1>3, <1>5, <1>6 DEF UnobservedIsRecent
<1>8. VerdictsDoNotGoBack'
  BY <1>3, <1>5, NoneAssumption DEF VerdictsDoNotGoBack
<1>9. MatchedOwnTerms'
  BY <1>3, <1>5 DEF MatchedOwnTerms
<1> QED BY <1>1, <1>4, <1>7, <1>8, <1>9, AnswerOnly DEF AnswersSound

LEMMA AskStep ==
  ASSUME IInv, NEW c \in Client, NEW s \in Server, NEW x \in Tx,
         NEW terms \in Terms \cup {None}, Ask(c, s, x, terms)
  PROVE  IInv'
<1>1. /\ request[c] = None
      /\ UNCHANGED <<finalFor, edge, told>>
      /\ Join(c, s, x, terms) \/ Start(c, s, x, terms) \/ Busy(c, s, x, terms)
  BY DEF Ask, StartOrJoin
<1> QED BY <1>1, JoinStep, StartStep, BusyStep

-----------------------------------------------------------------------------
(* A check ends.                                                           *)

LEMMA SettleStep ==
  ASSUME IInv, NEW c \in Client, NEW status \in Statuses, Settle(c, status)
  PROVE  IInv'
<1> DEFINE f == flight[c]
           s == flight[c].server
           x == flight[c].tx
           waiting == {w \in Client : request[w] # None /\ request[w].on = c}
           To(w) == Answer(request[w].server, request[w].tx, request[w].terms, status)
<1>1. /\ f # None
      /\ Check(f)!Promised(status)
      /\ answer' = [w \in Client |-> IF w \in waiting THEN To(w) ELSE None]
      /\ request' = [w \in Client |-> IF w \in waiting THEN None ELSE request[w]]
      /\ flight' = [flight EXCEPT ![c] = None]
      /\ inFlight' = IF inFlight[s][x] = c THEN [inFlight EXCEPT ![s][x] = None] ELSE inFlight
      /\ edge' = IF s \in BaseServer THEN [edge EXCEPT ![x] = Cached(x, status)] ELSE edge
      /\ told' = IF status \in Outcomes THEN [told EXCEPT ![s] = @ \cup {x}] ELSE told
      /\ finalFor' = finalFor
  BY DEF Settle, Respond
<1>2. TypeInv /\ Accounted /\ OutcomesKnown /\ SeenInTime /\ BegunLater /\ FreshCopies /\ Limited
  BY DEF IInv
<1>3. f \in Flights /\ s \in Server /\ x \in Tx /\ f.age \in 0..Deadline
  BY <1>1, <1>2, TypesOfRecords DEF TypeInv
<1>4. /\ status \in Outcomes => finalFor[x] # None /\ Fate[x] = status
      /\ status = "not_observed" => f.began = None
  BY <1>1, PromisedIs
<1>5. inFlight[s][x] = c /\ c \in waiting
  BY <1>1, <1>2 DEF Accounted
<1>6. c # None
  BY NoneAssumption
<1>7. \A w \in waiting : /\ request[w] \in Requests
                         /\ request[w].server = s /\ request[w].tx = x
                         /\ request[w].terms \in Terms \cup {None}
  BY <1>2, TypesOfRecords DEF Accounted, TypeInv
<1>8. \A w \in waiting :
        /\ To(w) \in Answers /\ To(w).by = s /\ To(w).tx = x
        /\ To(w).terms = request[w].terms /\ To(w).status = status
        /\ To(w).verdict \in {"settlement_terms_matched", "settlement_terms_mismatch"} =>
             /\ status = "confirmed"
             /\ To(w).verdict = "settlement_terms_matched" <=> Pays[x] = To(w).terms
  BY <1>3, <1>7, AnswerIs
<1>9. finalFor[x] # None => finalFor[x] \in Nat /\ finalFor[x] <= Horizon
  BY <1>2, <1>3, LimitAssumption DEF TypeInv, Age, Horizon
<1>10. status = "not_observed" /\ finalFor[x] # None => finalFor[x] <= Deadline
  <2>1. status = "not_observed" /\ finalFor[x] # None => finalFor[x] <= f.age
    BY <1>1, <1>2, <1>4 DEF SeenInTime
  <2> QED BY <1>3, <1>9, <2>1, LimitAssumption
<1> HIDE DEF f, s, x, waiting, To
<1>11. /\ \A d \in Client : flight'[d] = IF d = c THEN None ELSE flight[d]
       /\ \A w \in Client : request'[w] = IF w \in waiting THEN None ELSE request[w]
       /\ \A t \in Server, y \in Tx :
            inFlight'[t][y] = IF t = s /\ y = x THEN None ELSE inFlight[t][y]
       /\ \A w \in Client : answer'[w] = IF w \in waiting THEN To(w) ELSE None
       /\ \A t \in Server, y \in Tx :
            y \in told'[t] <=> y \in told[t] \/ (status \in Outcomes /\ t = s /\ y = x)
  BY <1>1, <1>2, <1>3, <1>5 DEF TypeInv
<1>12. Cached(x, status) \in Copies \cup {None}
       /\ (status = "not_observed" =>
             Cached(x, status).left = TransientTtl)
       /\ (Cached(x, status) # None /\ Cached(x, status).status = "not_observed" =>
             status = "not_observed" \/ Cached(x, status) = edge[x])
  <2>1. CASE status \in {"contradiction", "failed"}
    BY <1>2, <1>3, <2>1 DEF Cached, TypeInv
  <2>2. CASE status \in {"not_observed", "pending_finality"}
    BY <2>2, LimitAssumption DEF Cached, Copies
  <2>3. CASE status \in Outcomes
    BY <2>3, LimitAssumption DEF Cached, Copies, Outcomes, Statuses
  <2> QED BY <2>1, <2>2, <2>3 DEF Statuses
<1>13. TypeInv'
  <2>1. flight' \in [Client -> Flights \cup {None}]
    BY <1>1, <1>2 DEF TypeInv
  <2>2. request' \in [Client -> Requests \cup {None}]
    BY <1>1, <1>2 DEF TypeInv
  <2>3. inFlight' \in [Server -> [Tx -> Client \cup {None}]]
    BY <1>1, <1>2, <1>3 DEF TypeInv
  <2>4. edge' \in [Tx -> Copies \cup {None}]
    BY <1>1, <1>2, <1>12 DEF TypeInv
  <2>5. answer' \in [Client -> Answers \cup {None}]
    BY <1>1, <1>8
  <2>6. told' \in [Server -> SUBSET Tx]
    BY <1>1, <1>2, <1>3 DEF TypeInv
  <2> QED BY <1>1, <1>2, <2>1, <2>2, <2>3, <2>4, <2>5, <2>6 DEF TypeInv
<1>14. Accounted'
  <2>1. \A d \in Client : flight'[d] # None =>
          /\ inFlight'[flight'[d].server][flight'[d].tx] = d
          /\ request'[d] # None /\ request'[d].on = d
    <3> SUFFICES ASSUME NEW d \in Client, flight'[d] # None
                 PROVE  /\ inFlight'[flight'[d].server][flight'[d].tx] = d
                        /\ request'[d] # None /\ request'[d].on = d
      OBVIOUS
    <3>1. d # c /\ flight'[d] = flight[d] /\ flight[d] # None
      BY <1>11
    <3>2. flight[d].server \in Server /\ flight[d].tx \in Tx
      BY <1>2, <3>1, TypesOfRecords DEF TypeInv
    <3>3. inFlight[flight[d].server][flight[d].tx] = d /\ request[d] # None /\ request[d].on = d
      BY <1>2, <3>1 DEF Accounted
    <3>4. d \notin waiting
      BY <3>1, <3>3 DEF waiting
    <3> QED BY <1>5, <1>11, <3>1, <3>2, <3>3, <3>4
  <2>2. \A t \in Server, y \in Tx : inFlight'[t][y] # None =>
          LET g == flight'[inFlight'[t][y]] IN g # None /\ g.server = t /\ g.tx = y
    <3> SUFFICES ASSUME NEW t \in Server, NEW y \in Tx, inFlight'[t][y] # None
                 PROVE  LET g == flight'[inFlight'[t][y]] IN g # None /\ g.server = t /\ g.tx = y
      OBVIOUS
    <3>1. ~(t = s /\ y = x) /\ inFlight'[t][y] = inFlight[t][y]
      BY <1>11
    <3>2. inFlight[t][y] \in Client
      BY <1>2, <3>1 DEF TypeInv
    <3>3. LET g == flight[inFlight[t][y]] IN g # None /\ g.server = t /\ g.tx = y
      BY <1>2, <3>1 DEF Accounted
    <3>4. inFlight[t][y] # c
      BY <3>1, <3>3 DEF s, x
    <3> QED BY <1>11, <3>1, <3>2, <3>3, <3>4
  <2>3. \A w \in Client : request'[w] # None =>
          LET g == flight'[request'[w].on]
          IN  g # None /\ g.server = request'[w].server /\ g.tx = request'[w].tx
    <3> SUFFICES ASSUME NEW w \in Client, request'[w] # None
                 PROVE  LET g == flight'[request'[w].on]
                        IN  g # None /\ g.server = request'[w].server /\ g.tx = request'[w].tx
      OBVIOUS
    <3>1. w \notin waiting /\ request'[w] = request[w]
      BY <1>11
    <3>2. request[w].on # c /\ request[w].on \in Client
      BY <1>2, <3>1, TypesOfRecords DEF waiting, TypeInv
    <3> QED BY <1>2, <1>11, <3>1, <3>2 DEF Accounted
  <2> QED BY <2>1, <2>2, <2>3 DEF Accounted
<1>15. Limited'
  <2> SUFFICES ASSUME NEW t \in Server
               PROVE  /\ IsFiniteSet(On(t)') /\ IsFiniteSet(Running(t)')
                      /\ Cardinality(On(t)') = Cardinality(Running(t)')
                      /\ Cardinality(On(t)') <= MaxInFlight
    BY DEF Limited
  <2>1. /\ IsFiniteSet(On(t)) /\ IsFiniteSet(Running(t))
        /\ Cardinality(On(t)) = Cardinality(Running(t))
        /\ Cardinality(On(t)) <= MaxInFlight
    BY <1>2 DEF Limited
  <2>2. CASE t # s
    <3>1. On(t)' = On(t)
      BY <1>11, <2>2 DEF On, s
    <3>2. Running(t)' = Running(t)
      BY <1>11, <2>2 DEF Running
    <3> QED BY <2>1, <3>1, <3>2
  <2>3. CASE t = s
    <3>1. On(t)' = On(t) \ {c} /\ c \in On(t)
      BY <1>1, <1>11, <2>3 DEF On, s, f
    <3>2. Running(t)' = Running(t) \ {x} /\ x \in Running(t)
      BY <1>3, <1>5, <1>6, <1>11, <2>3 DEF Running
    <3>3. Cardinality(On(t)') = Cardinality(On(t)) - 1 /\ IsFiniteSet(On(t)')
      BY <2>1, <3>1, FS_RemoveElement
    <3>4. Cardinality(Running(t)') = Cardinality(Running(t)) - 1 /\ IsFiniteSet(Running(t)')
      BY <2>1, <3>2, FS_RemoveElement
    <3> QED BY <2>1, <3>3, <3>4, FS_CardinalityType, LimitAssumption
  <2> QED BY <2>2, <2>3
<1>16. OutcomesKnown'
  BY <1>1, <1>2, <1>4, <1>11 DEF OutcomesKnown
<1>17. SeenInTime'
  BY <1>1, <1>2, <1>11 DEF SeenInTime
<1>18. BegunLater'
  <2> SUFFICES ASSUME NEW d \in Client, flight'[d] # None,
                      flight'[d].tx \in told'[flight'[d].server]
               PROVE  flight'[d].began # None
    BY DEF BegunLater
  <2>1. d # c /\ flight'[d] = flight[d] /\ flight[d] # None
    BY <1>11
  <2>2. flight[d].server \in Server /\ flight[d].tx \in Tx
    BY <1>2, <2>1, TypesOfRecords DEF TypeInv
  <2>3. inFlight[flight[d].server][flight[d].tx] = d
    BY <1>2, <2>1 DEF Accounted
  <2>4. ~(flight[d].server = s /\ flight[d].tx = x)
    BY <1>5, <2>1, <2>3
  <2>5. flight[d].tx \in told[flight[d].server]
    BY <1>11, <2>1, <2>2, <2>4
  <2> QED BY <1>2, <2>1, <2>5 DEF BegunLater
<1>19. FreshCopies'
  <2> SUFFICES ASSUME NEW y \in Tx, edge'[y] # None, edge'[y].status = "not_observed"
               PROVE  /\ edge'[y].left <= TransientTtl
                      /\ finalFor[y] # None =>
                           finalFor[y] + edge'[y].left <= Deadline + TransientTtl
    BY <1>1 DEF FreshCopies
  <2>1. CASE edge'[y] = edge[y]
    BY <1>2, <2>1 DEF FreshCopies
  <2>2. CASE edge'[y] # edge[y]
    <3>1. y = x /\ edge'[y] = Cached(x, status)
      BY <1>1, <1>2, <2>2 DEF TypeInv
    <3>2. status = "not_observed" /\ edge'[y].left = TransientTtl
      BY <1>12, <2>2, <3>1
    <3> QED BY <1>9, <1>10, <3>1, <3>2, LimitAssumption
  <2> QED BY <2>1, <2>2
<1>20. UnobservedIsRecent'
  BY <1>1, <1>8, <1>9, <1>10, <1>11, LimitAssumption DEF UnobservedIsRecent
<1>21. VerdictsDoNotGoBack'
  <2> SUFFICES ASSUME NEW w \in Client, answer'[w] # None, answer'[w].status = "not_observed",
                      NEW t \in Server, answer'[w].by = t, answer'[w].tx \in told'[t]
               PROVE  FALSE
    BY DEF VerdictsDoNotGoBack
  <2>1. status = "not_observed" /\ t = s /\ answer'[w].tx = x
    BY <1>8, <1>11
  <2>2. x \in told[s]
    BY <1>3, <1>11, <2>1 DEF Outcomes
  <2> QED BY <1>1, <1>2, <1>4, <2>1, <2>2 DEF BegunLater, f, s, x
<1>22. MatchedOwnTerms'
  BY <1>1, <1>4, <1>8, <1>11 DEF MatchedOwnTerms, Outcomes
<1> QED BY <1>13, <1>14, <1>15, <1>16, <1>17, <1>18, <1>19, <1>20, <1>21, <1>22
        DEF IInv, AnswersSound

-----------------------------------------------------------------------------
(* The world.                                                              *)

LEMMA FinalizeStep ==
  ASSUME IInv, NEW x \in Tx, Finalize(x)
  PROVE  IInv'
<1>1. /\ finalFor[x] = None /\ Fate[x] # None
      /\ finalFor' = [finalFor EXCEPT ![x] = 0]
      /\ answer' = Nobody
      /\ UNCHANGED <<inFlight, flight, request, edge, told>>
  BY DEF Finalize
<1>2. TypeInv /\ Accounted /\ OutcomesKnown /\ SeenInTime /\ BegunLater /\ FreshCopies /\ Limited
  BY DEF IInv
<1>3. \A y \in Tx : finalFor'[y] = IF y = x THEN 0 ELSE finalFor[y]
  BY <1>1, <1>2 DEF TypeInv
<1>4. 0 \in Age /\ 0 # None
  BY LimitAssumption, NoneAssumption DEF Age, Horizon
<1>5. TypeInv'
  BY <1>1, <1>2, <1>4, SilenceIsSound DEF TypeInv
<1>6. Accounted'
  BY <1>1, <1>2 DEF Accounted
<1>7. Limited'
  BY <1>1, <1>2 DEF Limited, On, Running
<1>8. OutcomesKnown'
  BY <1>1, <1>2, <1>3, <1>4 DEF OutcomesKnown
<1>9. SeenInTime'
  <2> SUFFICES ASSUME NEW c \in Client, flight[c] # None, flight[c].began = None,
                      finalFor'[flight[c].tx] # None
               PROVE  finalFor'[flight[c].tx] <= flight[c].age
    BY <1>1 DEF SeenInTime
  <2>1. flight[c].tx \in Tx /\ flight[c].age \in Nat
    BY <1>2, TypesOfRecords, LimitAssumption DEF TypeInv
  <2> QED BY <1>2, <1>3, <2>1 DEF SeenInTime
<1>10. BegunLater'
  BY <1>1, <1>2 DEF BegunLater
<1>11. FreshCopies'
  <2> SUFFICES ASSUME NEW y \in Tx, edge[y] # None, edge[y].status = "not_observed"
               PROVE  /\ edge[y].left <= TransientTtl
                      /\ finalFor'[y] # None =>
                           finalFor'[y] + edge[y].left <= Deadline + TransientTtl
    BY <1>1 DEF FreshCopies
  <2>1. CASE y = x
    <3>1. edge[x].left \in Nat /\ edge[x].left <= TransientTtl
      BY <1>2, <2>1, TypesOfRecords, LimitAssumption DEF TypeInv, FreshCopies
    <3> QED BY <1>3, <2>1, <3>1, LimitAssumption
  <2>2. CASE y # x
    BY <1>2, <1>3, <2>2 DEF FreshCopies
  <2> QED BY <2>1, <2>2
<1> QED BY <1>1, <1>5, <1>6, <1>7, <1>8, <1>9, <1>10, <1>11, SilenceIsSound DEF IInv

LEMMA TickStep ==
  ASSUME IInv, Tick
  PROVE  IInv'
<1>1. /\ \A c \in Client : flight[c] # None => flight[c].age < Deadline
      /\ finalFor' = [x \in Tx |-> IF finalFor[x] = None THEN None ELSE Older(finalFor[x])]
      /\ flight' = [c \in Client |-> IF flight[c] = None THEN None
                                     ELSE [flight[c] EXCEPT !.age = @ + 1]]
      /\ edge' = [x \in Tx |-> IF edge[x] = None \/ edge[x].left = 1 THEN None
                               ELSE [edge[x] EXCEPT !.left = @ - 1]]
      /\ answer' = Nobody
      /\ UNCHANGED <<inFlight, request, told>>
  BY DEF Tick
<1>2. TypeInv /\ Accounted /\ OutcomesKnown /\ SeenInTime /\ BegunLater /\ FreshCopies /\ Limited
  BY DEF IInv
<1>3. \A x \in Tx :
        /\ finalFor'[x] = None <=> finalFor[x] = None
        /\ finalFor[x] # None => /\ finalFor[x] \in Nat /\ finalFor'[x] \in Age
                                 /\ finalFor'[x] <= finalFor[x] + 1
  <2> SUFFICES ASSUME NEW x \in Tx
               PROVE  /\ finalFor'[x] = None <=> finalFor[x] = None
                      /\ finalFor[x] # None =>
                           /\ finalFor[x] \in Nat /\ finalFor'[x] \in Age
                           /\ finalFor'[x] <= finalFor[x] + 1
    OBVIOUS
  <2>1. CASE finalFor[x] = None
    BY <1>1, <2>1
  <2>2. CASE finalFor[x] # None
    <3>1. finalFor[x] \in Age
      BY <1>2, <2>2 DEF TypeInv
    <3>2. finalFor'[x] = Older(finalFor[x])
      BY <1>1, <2>2
    <3>3. finalFor'[x] \in Age /\ finalFor'[x] <= finalFor[x] + 1 /\ finalFor[x] \in Nat
      BY <3>1, <3>2, LimitAssumption DEF Older, Age, Horizon
    <3>4. finalFor'[x] # None
      BY <3>3, NoneAssumption, LimitAssumption DEF Age, Horizon
    <3> QED BY <2>2, <3>3, <3>4
  <2> QED BY <2>1, <2>2
<1>4. \A c \in Client :
        /\ flight[c] = None => flight'[c] = None
        /\ flight[c] # None => /\ flight'[c] # None /\ flight'[c] \in Flights
                               /\ flight'[c].server = flight[c].server
                               /\ flight'[c].tx = flight[c].tx
                               /\ flight'[c].began = flight[c].began
                               /\ flight[c].age \in Nat /\ flight'[c].age = flight[c].age + 1
                               /\ flight[c].tx \in Tx
  <2> SUFFICES ASSUME NEW c \in Client, flight[c] # None
               PROVE  /\ flight'[c] # None /\ flight'[c] \in Flights
                      /\ flight'[c].server = flight[c].server
                      /\ flight'[c].tx = flight[c].tx
                      /\ flight'[c].began = flight[c].began
                      /\ flight[c].age \in Nat /\ flight'[c].age = flight[c].age + 1
                      /\ flight[c].tx \in Tx
    BY <1>1
  <2>1. flight[c] \in Flights /\ flight[c].age < Deadline
    BY <1>1, <1>2 DEF TypeInv
  <2>2. flight'[c] = [flight[c] EXCEPT !.age = @ + 1]
    BY <1>1
  <2>3. /\ flight'[c] \in Flights
        /\ flight'[c].server = flight[c].server
        /\ flight'[c].tx = flight[c].tx
        /\ flight'[c].began = flight[c].began
        /\ flight[c].age \in Nat /\ flight'[c].age = flight[c].age + 1
        /\ flight[c].tx \in Tx
    BY <2>1, <2>2, LimitAssumption DEF Flights
  <2> QED BY <2>3, TypesOfRecords
<1>5. \A x \in Tx :
        edge'[x] # None => /\ edge[x] # None /\ edge'[x] \in Copies
                           /\ edge'[x].status = edge[x].status
                           /\ edge[x].left \in Nat /\ edge'[x].left = edge[x].left - 1
  <2> SUFFICES ASSUME NEW x \in Tx, edge'[x] # None
               PROVE  /\ edge[x] # None /\ edge'[x] \in Copies
                      /\ edge'[x].status = edge[x].status
                      /\ edge[x].left \in Nat /\ edge'[x].left = edge[x].left - 1
    OBVIOUS
  <2>1. edge[x] # None /\ edge[x].left # 1 /\ edge'[x] = [edge[x] EXCEPT !.left = @ - 1]
    BY <1>1
  <2>2. edge[x] \in Copies
    BY <1>2, <2>1 DEF TypeInv
  <2> QED BY <2>1, <2>2, LimitAssumption DEF Copies
<1>6. TypeInv'
  <2>1. finalFor' \in [Tx -> Age \cup {None}]
    BY <1>1, <1>3
  <2>2. flight' \in [Client -> Flights \cup {None}]
    BY <1>1, <1>4
  <2>3. edge' \in [Tx -> Copies \cup {None}]
    BY <1>1, <1>5
  <2> QED BY <1>1, <1>2, <2>1, <2>2, <2>3, SilenceIsSound DEF TypeInv
<1>7. Accounted'
  <2>1. \A c \in Client : flight'[c] # None =>
          /\ inFlight'[flight'[c].server][flight'[c].tx] = c
          /\ request'[c] # None /\ request'[c].on = c
    BY <1>1, <1>2, <1>4 DEF Accounted
  <2>2. \A s \in Server, x \in Tx : inFlight'[s][x] # None =>
          LET f == flight'[inFlight'[s][x]] IN f # None /\ f.server = s /\ f.tx = x
    <3> SUFFICES ASSUME NEW s \in Server, NEW x \in Tx, inFlight'[s][x] # None
                 PROVE  LET f == flight'[inFlight'[s][x]] IN f # None /\ f.server = s /\ f.tx = x
      OBVIOUS
    <3>1. inFlight'[s][x] = inFlight[s][x] /\ inFlight[s][x] \in Client
      BY <1>1, <1>2 DEF TypeInv
    <3>2. LET f == flight[inFlight[s][x]] IN f # None /\ f.server = s /\ f.tx = x
      BY <1>2, <3>1 DEF Accounted
    <3> QED BY <1>4, <3>1, <3>2
  <2>3. \A w \in Client : request'[w] # None =>
          LET f == flight'[request'[w].on]
          IN  f # None /\ f.server = request'[w].server /\ f.tx = request'[w].tx
    <3> SUFFICES ASSUME NEW w \in Client, request'[w] # None
                 PROVE  LET f == flight'[request'[w].on]
                        IN  f # None /\ f.server = request'[w].server /\ f.tx = request'[w].tx
      OBVIOUS
    <3>1. request'[w] = request[w] /\ request[w].on \in Client
      BY <1>1, <1>2, TypesOfRecords DEF TypeInv
    <3>2. LET f == flight[request[w].on]
          IN  f # None /\ f.server = request[w].server /\ f.tx = request[w].tx
      BY <1>2, <3>1 DEF Accounted
    <3> QED BY <1>4, <3>1, <3>2
  <2> QED BY <2>1, <2>2, <2>3 DEF Accounted
<1>8. Limited'
  <2>1. \A s \in Server : On(s)' = On(s) /\ Running(s)' = Running(s)
    BY <1>1, <1>4 DEF On, Running
  <2> QED BY <1>2, <2>1 DEF Limited
<1>9. OutcomesKnown'
  BY <1>1, <1>2, <1>3 DEF OutcomesKnown
<1>10. SeenInTime'
  <2> SUFFICES ASSUME NEW c \in Client, flight'[c] # None, flight'[c].began = None,
                      finalFor'[flight'[c].tx] # None
               PROVE  finalFor'[flight'[c].tx] <= flight'[c].age
    BY DEF SeenInTime
  <2> DEFINE x == flight[c].tx
  <2>1. /\ flight[c] # None /\ flight[c].began = None /\ x \in Tx /\ flight'[c].tx = x
        /\ flight[c].age \in Nat /\ flight'[c].age = flight[c].age + 1
    BY <1>4
  <2>2. /\ finalFor[x] # None /\ finalFor[x] \in Nat /\ finalFor'[x] \in Age
        /\ finalFor'[x] <= finalFor[x] + 1
    BY <1>3, <2>1
  <2>3. finalFor[x] <= flight[c].age
    BY <1>2, <2>1, <2>2 DEF SeenInTime
  <2>4. finalFor'[x] \in Nat
    BY <2>2, LimitAssumption DEF Age, Horizon
  <2> HIDE DEF x
  <2> QED BY <2>1, <2>2, <2>3, <2>4
<1>11. BegunLater'
  BY <1>1, <1>2, <1>4 DEF BegunLater
<1>12. FreshCopies'
  <2> SUFFICES ASSUME NEW x \in Tx, edge'[x] # None, edge'[x].status = "not_observed"
               PROVE  /\ edge'[x].left <= TransientTtl
                      /\ finalFor'[x] # None =>
                           finalFor'[x] + edge'[x].left <= Deadline + TransientTtl
    BY DEF FreshCopies
  <2>1. /\ edge[x] # None /\ edge[x].status = "not_observed"
        /\ edge[x].left \in Nat /\ edge'[x].left = edge[x].left - 1
    BY <1>5
  <2>2. edge[x].left <= TransientTtl
        /\ (finalFor[x] # None => finalFor[x] + edge[x].left <= Deadline + TransientTtl)
    BY <1>2, <2>1 DEF FreshCopies
  <2>3. finalFor'[x] # None => /\ finalFor[x] # None /\ finalFor[x] \in Nat /\ finalFor'[x] \in Nat
                               /\ finalFor'[x] <= finalFor[x] + 1
    BY <1>3, LimitAssumption DEF Age, Horizon
  <2> QED BY <2>1, <2>2, <2>3, LimitAssumption
<1> QED BY <1>1, <1>6, <1>7, <1>8, <1>9, <1>10, <1>11, <1>12, SilenceIsSound DEF IInv

-----------------------------------------------------------------------------
(* Whatever the clients ask, the servers keep the invariant: whoever is    *)
(* answered is answered for a check that is accounted for.                 *)
THEOREM VerifierInvariance == Spec => []IInv
<1>1. IInv /\ [Next]_vars => IInv'
  <2> SUFFICES ASSUME IInv, [Next]_vars PROVE IInv'
    OBVIOUS
  <2>1. ASSUME NEW c \in Client, NEW x \in Tx, NEW s \in BaseServer, Ask(c, s, x, None)
        PROVE  IInv'
    BY <2>1, AskStep DEF Server
  <2>2. ASSUME NEW c \in Client, NEW x \in Tx, NEW s \in IntentServer, NEW terms \in Terms,
               Ask(c, s, x, terms)
        PROVE  IInv'
    BY <2>2, AskStep DEF Server
  <2>3. ASSUME NEW c \in Client, NEW x \in Tx, AskEdge(c, x)
        PROVE  IInv'
    BY <2>3, AskEdgeStep
  <2>4. ASSUME NEW c \in Client, NEW status \in Statuses, Settle(c, status)
        PROVE  IInv'
    BY <2>4, SettleStep
  <2>5. ASSUME NEW c \in Client, Expire(c)
        PROVE  IInv'
    BY <2>5, SettleStep DEF Expire, Statuses
  <2>6. ASSUME NEW x \in Tx, Finalize(x)
        PROVE  IInv'
    BY <2>6, FinalizeStep
  <2>7. CASE Tick
    BY <2>7, TickStep
  <2>8. CASE UNCHANGED vars
    <3>1. answer' \in [Client -> Answers \cup {None}] /\ AnswersSound'
      BY <2>8 DEF IInv, TypeInv, AnswersSound, UnobservedIsRecent, VerdictsDoNotGoBack,
                  MatchedOwnTerms, vars
    <3> QED BY <2>8, <3>1, AnswerOnly DEF vars
  <2> QED BY <2>1, <2>2, <2>3, <2>4, <2>5, <2>6, <2>7, <2>8 DEF Next
<1> QED BY <1>1, InitIInv, PTL DEF Spec

(* "Not observed" is never older news than a deadline and the short life   *)
(* of a copy, whoever says it and however late the client joined: the      *)
(* handler of src/api/base-transaction.ts and the edge before it.          *)
THEOREM UnobservedSound == Spec => []UnobservedIsRecent
<1>1. IInv => UnobservedIsRecent
  BY DEF IInv, AnswersSound
<1> QED BY <1>1, VerifierInvariance, PTL

(* A server does not take back what it has reported as an outcome, in      *)
(* either of the routes and whichever checks overlap.                      *)
THEOREM VerdictsSound == Spec => []VerdictsDoNotGoBack
<1>1. IInv => VerdictsDoNotGoBack
  BY DEF IInv, AnswersSound
<1> QED BY <1>1, VerifierInvariance, PTL

(* Of the terms of a payment everybody is told about their own, also who   *)
(* joined a check that another client of src/api/x402-intent.ts started.   *)
THEOREM TermsOwn == Spec => []MatchedOwnTerms
<1>1. IInv => MatchedOwnTerms
  BY DEF IInv, AnswersSound
<1> QED BY <1>1, VerifierInvariance, PTL

(* The checks under way are those the Maps name, each of them once, and    *)
(* never more than MAX_IN_FLIGHT_HASHES on a server.                       *)
THEOREM ChecksSound == Spec => []ChecksAccounted
<1>1. IInv => ChecksAccounted
  <2> SUFFICES ASSUME IInv PROVE ChecksAccounted
    OBVIOUS
  <2>1. \A s \in Server :
          Cardinality({c \in Client : flight[c] # None /\ flight[c].server = s}) <= MaxInFlight
    BY DEF IInv, Limited, On
  <2>2. ASSUME NEW c \in Client, NEW s \in Server, NEW x \in Tx, inFlight[s][x] = c
        PROVE  flight[c] # None /\ flight[c].server = s /\ flight[c].tx = x
    BY <2>2, NoneAssumption DEF IInv, Accounted
  <2>3. ASSUME NEW c \in Client, NEW s \in Server, NEW x \in Tx,
               flight[c] # None, flight[c].server = s, flight[c].tx = x
        PROVE  inFlight[s][x] = c
    BY <2>3 DEF IInv, Accounted
  <2> QED BY <2>1, <2>2, <2>3 DEF ChecksAccounted
<1> QED BY <1>1, VerifierInvariance, PTL
=============================================================================
