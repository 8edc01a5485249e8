------------------------------- MODULE PaidPath -------------------------------
(***************************************************************************)
(* The paid path canary (src/src/paid-path.ts, verifyPaidPath) and the     *)
(* proxy between its payment adapter and the paid endpoint                 *)
(* (src/src/payment-proxy.ts).  An operator runs the canary, and runs it   *)
(* again; the endpoint answers each request as it likes, so the challenge  *)
(* that was checked is not the one that is paid; a run fails, times out or *)
(* dies while the authorization it signed is on its way.                   *)
(*                                                                         *)
(* External: the endpoint; the adapter (src/src/agentcash.ts is a stub that*)
(* throws), which asks through the proxy only, signs in when it is asked   *)
(* to, pays by the header of a 402 and signs one authorization a call; the *)
(* chain and the business effect; operators, who pay anew after a run that *)
(* did not attempt to, or once the evidence kernel calls it safe.          *)
(* Abstractions: CORS is whether the response passes the check; what the   *)
(* paid response exposes and the delivery check only add to the checks of a*)
(* run that is `unknown' and not passed already, so they are left out.     *)
(***************************************************************************)
EXTENDS X402Challenge, Integers

CONSTANTS
  Payment,                \* [payee, cap]
  Url, PollUrl,
  CorsOrigin,             \* the contract names a browser origin
  Polls,                  \* the contract has a poll section
  Interval, PollTimeout,
  Responses,              \* [status, header, cors]
  Fail,                   \* a fetch that throws or times out
  Nonces,
  MaxRuns                 \* bound

(* A poll section that was parsed.                                         *)
ParsedPoll == {Interval, PollTimeout} \subseteq Nat \ {0}

ASSUME ContractAssumption ==
  DOMAIN Payment = {"payee", "cap"} /\ ParsedPayment(Payment) /\ ParsedPoll

ASSUME ResponsesAssumption ==
  /\ Fail \notin Responses
  /\ \A r \in Responses :
       /\ DOMAIN r = {"status", "header", "cors"}
       /\ r.header # None => DOMAIN r.header = {"resource", "accepts", "canonical", "signIn"}

ASSUME NoncesAssumption == None \notin Nonces \cup {"unknown", "lost"}

VARIABLES
  phase, options, passed,
  remaining,      \* time to the deadline of the poll
  outcome,        \* what the last run that was to pay reported, "lost" if it died
  runs,
  signedIn, nonce, asked, answer,   \* the call of the adapter
  signed,         \* history: [nonce, requirement, resource] of each authorization
  received,       \* authorizations that have reached the endpoint
  settled, served, over

run == <<phase, options, passed, remaining, outcome, runs>>
call == <<signedIn, nonce, asked, answer>>
world == <<settled, served, over>>
vars == <<run, call, signed, received, world>>

NoCall == signedIn' = FALSE /\ nonce' = None /\ asked' = None /\ answer' = None

Init ==
  /\ phase = "idle" /\ options = [pay |-> FALSE, paidFetch |-> FALSE]
  /\ passed = FALSE /\ remaining = 0 /\ outcome = None /\ runs = 0
  /\ signedIn = FALSE /\ nonce = None /\ asked = None /\ answer = None
  /\ signed = {} /\ received = {} /\ settled = {} /\ served = {} /\ over = {}

-----------------------------------------------------------------------------
(* The operator.                                                           *)

(* What the kernel's safe fresh authorization promises (EvidenceKernel,    *)
(* FreshPaysOnce): what was signed never settles and has no effect.        *)
Reconciled == \A a \in signed : a.nonce \in over \ (settled \cup served)

MayPay == outcome \in {None, "not-attempted"} \/ Reconciled

Start(pay, paidFetch) ==
  /\ phase = "idle" /\ runs < MaxRuns
  /\ pay => MayPay
  /\ phase' = "challenge" /\ options' = [pay |-> pay, paidFetch |-> paidFetch]
  /\ passed' = FALSE /\ runs' = runs + 1
  /\ UNCHANGED <<remaining, outcome, call, signed, received, world>>

-----------------------------------------------------------------------------
(* A run.                                                                  *)
Complete(paymentStatus) ==
  /\ phase' = "idle"
  /\ outcome' = IF options.pay THEN paymentStatus ELSE outcome

ChallengeCheck(response) ==
  response.status = 402 /\ ValidatePaymentRequired(response.header, Payment, Url)

Challenge ==
  /\ phase = "challenge" /\ phase' = "preflight"
  /\ \E response \in Responses \cup {Fail} :
       passed' = (response # Fail /\ ChallengeCheck(response) /\ (CorsOrigin => response.cors))
  /\ UNCHANGED <<options, remaining, outcome, runs, call, signed, received, world>>

(* Nothing has been paid before this, and nothing is without it.           *)
ReadyToPay(checked) == options.pay /\ checked /\ options.paidFetch

Preflight ==
  /\ phase = "preflight"
  /\ passed' \in {passed, passed /\ ~CorsOrigin}
  /\ IF ReadyToPay(passed')
     THEN phase' = "paying" /\ UNCHANGED outcome
     ELSE Complete("not-attempted")
  /\ UNCHANGED <<options, remaining, runs, call, signed, received, world>>

(* Mutation: a call that threw did not pay.                                *)
PayFailsUnattempted ==
  /\ phase = "paying" /\ passed' = FALSE
  /\ Complete("not-attempted") /\ NoCall
  /\ UNCHANGED <<options, remaining, runs, signed, received, world>>

(* The adapter throws or fails.                                            *)
PayFails ==
  /\ phase = "paying" /\ passed' = FALSE
  /\ Complete("unknown") /\ NoCall
  /\ UNCHANGED <<options, remaining, runs, signed, received, world>>

(* Without a status, the operation is as good as pending.                  *)
PollOn(status, left) ==
  /\ remaining' = left
  /\ IF status = "pending" /\ left > 0
     THEN phase' = "sleeping" /\ UNCHANGED outcome
     ELSE Complete("unknown")

(* The settlement is not verified, so the run fails whatever follows; it   *)
(* polls if the response says where, at an origin that is allowed.         *)
PaySucceeds ==
  /\ phase = "paying" /\ passed' = FALSE
  /\ \/ Complete("unknown") /\ UNCHANGED remaining
     \/ Polls /\ \E status \in {"pending", "terminal"} : PollOn(status, PollTimeout)
  /\ NoCall
  /\ UNCHANGED <<options, runs, signed, received, world>>

Sleep == IF Interval < remaining THEN Interval ELSE remaining

(* A timer fires when it is due or later.                                  *)
Wake ==
  /\ phase = "sleeping"
  /\ \E left \in 0..(remaining - Sleep) :
       /\ remaining' = left
       /\ IF left > 0 THEN phase' = "polling" /\ UNCHANGED outcome ELSE Complete("unknown")
  /\ UNCHANGED <<options, passed, runs, call, signed, received, world>>

(* Mutation: every poll has the whole time.                                *)
PollEndsAnew ==
  /\ phase = "polling"
  /\ \/ Complete("unknown") /\ UNCHANGED remaining
     \/ \E status \in {"pending", "terminal"} : PollOn(status, PollTimeout)
  /\ NoCall
  /\ UNCHANGED <<options, passed, runs, signed, received, world>>

(* The call throws, fails or reports a payment, or the deadline has passed;*)
(* or it brings another status.                                            *)
PollEnds ==
  /\ phase = "polling"
  /\ \/ Complete("unknown") /\ UNCHANGED remaining
     \/ \E status \in {"pending", "terminal"}, left \in 0..remaining : PollOn(status, left)
  /\ NoCall
  /\ UNCHANGED <<options, passed, runs, signed, received, world>>

Crash ==
  /\ phase # "idle"
  /\ Complete("lost") /\ NoCall
  /\ UNCHANGED <<options, passed, remaining, runs, signed, received, world>>

-----------------------------------------------------------------------------
(* The adapter and the proxy, in a call to pay or to poll.                 *)
Calling == phase \in {"paying", "polling"}
Terms == IF phase = "polling" THEN [Payment EXCEPT !.cap = 0] ELSE Payment
Target == IF phase = "polling" THEN PollUrl ELSE Url

(* `same' says that method and body are those of the contract.             *)
Ask(same) ==
  /\ Calling /\ asked = None /\ answer = None
  /\ asked' = [signIn |-> signedIn, nonce |-> nonce, same |-> same, sent |-> FALSE]
  /\ UNCHANGED <<run, signedIn, nonce, answer, signed, received, world>>

Refusal == [status |-> 502, header |-> None, cors |-> FALSE]

Reply(response) ==
  /\ answer' = response /\ asked' = None
  /\ UNCHANGED <<run, signedIn, nonce, signed, received, world>>

Refuse == asked # None /\ ~asked.same /\ Reply(Refusal)

Forward ==
  /\ asked # None /\ asked.same /\ ~asked.sent
  /\ asked' = [asked EXCEPT !.sent = TRUE]
  /\ received' = received \cup ({asked.nonce} \ {None})
  /\ UNCHANGED <<run, signedIn, nonce, answer, signed, world>>

(* Mutation: whoever is asked to sign in sees the challenge as it is.      *)
FilteredLoosely(response) ==
  IF response.status # 402 \/ response.header = None THEN response
  ELSE IF HasSiwxExtension(response.header) THEN response
  ELSE IF ValidatePaymentRequired(response.header, Terms, Target)
  THEN [response EXCEPT !.header = SingleRequirementHeader(@, Terms)]
  ELSE Refusal

Filtered(response) ==
  IF response.status # 402 \/ response.header = None THEN response
  ELSE IF ~asked.signIn /\ HasSiwxExtension(response.header) THEN response
  ELSE IF ValidatePaymentRequired(response.header, Terms, Target)
  THEN [response EXCEPT !.header = SingleRequirementHeader(@, Terms)]
  ELSE Refusal

ProxyRequest ==
  /\ asked # None /\ asked.same
  /\ \/ Reply(Refusal)
     \/ /\ asked.sent
        /\ \E response \in Responses :
             Reply(IF response.status \in 300..399 THEN Refusal ELSE Filtered(response))

Challenged == Calling /\ answer # None /\ answer.status = 402 /\ answer.header # None

SignIn ==
  /\ Challenged /\ answer.header.signIn /\ ~signedIn
  /\ signedIn' = TRUE /\ answer' = None
  /\ UNCHANGED <<run, nonce, asked, signed, received, world>>

Authorize(fresh) ==
  /\ Challenged /\ (answer.header.signIn => signedIn) /\ nonce = None
  /\ \A a \in signed : a.nonce # fresh
  /\ \E i \in DOMAIN answer.header.accepts :
       signed' = signed \cup {[nonce |-> fresh, requirement |-> answer.header.accepts[i],
                               resource |-> answer.header.resource]}
  /\ nonce' = fresh /\ answer' = None
  /\ UNCHANGED <<run, signedIn, asked, received, world>>

-----------------------------------------------------------------------------
(* What becomes of an authorization that the endpoint has.                 *)
Settle(n) ==
  /\ n \in received \ over
  /\ settled' = settled \cup {n}
  /\ UNCHANGED <<run, call, signed, received, served, over>>

Serve(n) ==
  /\ n \in received \ over
  /\ served' = served \cup {n}
  /\ UNCHANGED <<run, call, signed, received, settled, over>>

(* It is void, and its operation closed to effects.                        *)
Expire(n) ==
  /\ \E a \in signed : a.nonce = n
  /\ n \notin over /\ over' = over \cup {n}
  /\ UNCHANGED <<run, call, signed, received, settled, served>>

(* What has a time limit: fetches and timers of the run, and calls to poll.*)
Timed == Challenge \/ Preflight \/ Wake \/ PollEnds
Pay == PayFails \/ PaySucceeds

Next ==
  \/ \E pay, paidFetch \in BOOLEAN : Start(pay, paidFetch)
  \/ Timed \/ Pay \/ Crash
  \/ \E same \in BOOLEAN : Ask(same)
  \/ Refuse \/ Forward \/ ProxyRequest \/ SignIn
  \/ \E n \in Nonces : Authorize(n) \/ Settle(n) \/ Serve(n) \/ Expire(n)

(* Fetches have timeouts and timers fire.  A call to poll is given the time*)
(* that is left, and the adapter is taken to keep to it; the call to pay is*)
(* given none and may never return.                                        *)
Spec == Init /\ [][Next]_vars /\ WF_vars(Timed)

-----------------------------------------------------------------------------
(* Properties.                                                             *)

(* However often the canary is run and wherever a run ends, at most one    *)
(* authorization settles, and the operation is carried out for one of them.*)
PaysOnce == \A m, n \in Nonces : {m, n} \subseteq settled \/ {m, n} \subseteq served => m = n

(* Whatever the endpoint offers after the challenge that was checked, an   *)
(* authorization is for the contracted payee and resource and within the   *)
(* cap, and polling pays nothing.                                          *)
TermsContracted ==
  \A a \in signed : ValidRequirement(a.requirement, Payment) /\ a.resource = Url

(* A run ends, or comes to the paid call, which may hang; and once that has*)
(* returned it ends, even if the endpoint says `pending' for ever.         *)
RunsEnd ==
  /\ phase \in {"challenge", "preflight"} ~> phase \in {"paying", "idle"}
  /\ phase \in {"sleeping", "polling"} ~> phase = "idle"
=============================================================================
