--------------------------- MODULE PaidPathProofs ---------------------------
(***************************************************************************)
(* Proofs about PaidPath: for every contract, every set of responses and   *)
(* any number of runs, the canary pays once at most (PaysOnceSound), and   *)
(* only by the terms of its contract (TermsSound).                         *)
(*                                                                         *)
(* Neither is inductive.  That a run which starts may pay is decided on    *)
(* what the last one reported, so the invariant says what a report rests   *)
(* on: as long as no authorization was signed since everything signed was  *)
(* known to be harmless, nothing else was signed (Unpaid).  That what is   *)
(* signed is contracted is decided on an answer that the proxy let through *)
(* earlier, so the invariant says what an answer that waits for the        *)
(* adapter can be (AnswerSafe).                                            *)
(***************************************************************************)
EXTENDS PaidPath, TLAPS

Phases == {"idle", "challenge", "preflight", "paying", "sleeping", "polling"}

SignedNonces == {a.nonce : a \in signed}

Harmless(n) == n \in over \ (settled \cup served)

RunTyped ==
  /\ phase \in Phases
  /\ options \in [pay : BOOLEAN, paidFetch : BOOLEAN]
  /\ phase \in {"paying", "sleeping", "polling"} => options.pay

CallTyped ==
  /\ signedIn \in BOOLEAN /\ nonce \in SignedNonces \cup {None}
  /\ asked # None =>
       /\ asked \in [signIn : BOOLEAN, nonce : SignedNonces \cup {None},
                     same : BOOLEAN, sent : BOOLEAN]
       /\ asked.signIn = signedIn
       /\ answer = None
  /\ ~Calling => asked = None /\ answer = None

Offers(header, url) ==
  /\ header.resource = url
  /\ \A i \in DOMAIN header.accepts : ValidRequirement(header.accepts[i], Payment)

(* A challenge that waits for the adapter asks it to sign in first, or     *)
(* offers the contracted terms for the paid request.                       *)
AnswerSafe ==
  answer # None /\ answer.status = 402 /\ answer.header # None =>
    \/ answer.header.signIn /\ ~signedIn
    \/ phase = "paying" /\ Offers(answer.header, Url)

SentSigned == received \subseteq SignedNonces /\ settled \cup served \subseteq received

(* Of what was signed, one authorization at most can still do anything.    *)
OneLive ==
  \A a, b \in signed : Harmless(a.nonce) \/ Harmless(b.nonce) \/ a.nonce = b.nonce

(* A run that has not paid yet, or a report that none did, rests on that   *)
(* everything that was signed is harmless.                                 *)
Unpaid ==
  /\ outcome \in {None, "not-attempted"} /\ (phase = "idle" \/ ~options.pay) => Reconciled
  /\ options.pay /\ phase \in {"challenge", "preflight"} => Reconciled
  /\ phase = "paying" /\ nonce = None => Reconciled

IInv ==
  /\ RunTyped /\ CallTyped /\ AnswerSafe /\ SentSigned /\ TermsContracted /\ OneLive /\ Unpaid

-----------------------------------------------------------------------------
(* Challenges.                                                             *)

(* A header that was narrowed down offers the contracted terms alone.      *)
LEMMA NarrowedOffers ==
  ASSUME NEW header, DOMAIN header = {"resource", "accepts", "canonical", "signIn"},
         NEW url, ValidatePaymentRequired(header, Payment, url)
  PROVE  Offers(SingleRequirementHeader(header, Payment), url)
<1> DEFINE i == CHOOSE i \in DOMAIN header.accepts : i \in Compatible(header, Payment)
           narrowed == [header EXCEPT !.accepts = <<header.accepts[i]>>]
<1>1. i \in Compatible(header, Payment)
  BY DEF ValidatePaymentRequired
<1>2. ValidRequirement(header.accepts[i], Payment)
  BY <1>1 DEF Compatible
<1>3. header.resource = url
  BY DEF ValidatePaymentRequired
<1>4. narrowed.resource = header.resource /\ narrowed.accepts = <<header.accepts[i]>>
  OBVIOUS
<1>5. \A j \in DOMAIN narrowed.accepts : narrowed.accepts[j] = header.accepts[i]
  BY <1>4
<1> QED
  BY <1>2, <1>3, <1>4, <1>5 DEF Offers, SingleRequirementHeader

(* Nobody is offered anything by the terms of a poll, which has no cap.    *)
LEMMA PollPaysNothing ==
  ASSUME phase = "polling", NEW header, NEW url
  PROVE  ~ValidatePaymentRequired(header, Terms, url)
<1>1. Terms.cap = 0
  BY ContractAssumption DEF Terms
<1> QED
  BY <1>1 DEF ValidatePaymentRequired, ValidPaymentPolicy

(* What the proxy lets through of a response.                              *)
LEMMA FilteredSafe ==
  ASSUME Calling, NEW response \in Responses
  PROVE  LET f == Filtered(response)
         IN  f.status = 402 /\ f.header # None =>
               \/ f.header.signIn /\ ~asked.signIn
               \/ phase = "paying" /\ Offers(f.header, Url)
<1> DEFINE narrowed == [response EXCEPT !.header = SingleRequirementHeader(@, Terms)]
<1>1. CASE response.status # 402 \/ response.header = None
  BY <1>1 DEF Filtered
<1>2. CASE response.status = 402 /\ response.header # None
  <2>1. CASE ~asked.signIn /\ HasSiwxExtension(response.header)
    BY <1>2, <2>1 DEF Filtered, HasSiwxExtension
  <2>2. CASE /\ ~(~asked.signIn /\ HasSiwxExtension(response.header))
             /\ ValidatePaymentRequired(response.header, Terms, Target)
    <3>1. phase = "paying"
      BY <2>2, PollPaysNothing DEF Calling
    <3>2. Terms = Payment /\ Target = Url
      BY <3>1 DEF Terms, Target
    <3>3. Offers(SingleRequirementHeader(response.header, Payment), Url)
      BY <1>2, <2>2, <3>2, NarrowedOffers, ResponsesAssumption
    <3>4. narrowed.header = SingleRequirementHeader(response.header, Terms)
      BY ResponsesAssumption
    <3>5. Filtered(response) = narrowed
      BY <1>2, <2>2 DEF Filtered
    <3> QED
      BY <3>1, <3>2, <3>3, <3>4, <3>5
  <2>3. CASE /\ ~(~asked.signIn /\ HasSiwxExtension(response.header))
             /\ ~ValidatePaymentRequired(response.header, Terms, Target)
    <3>1. Filtered(response) = Refusal
      BY <1>2, <2>3 DEF Filtered
    <3> QED
      BY <3>1 DEF Refusal
  <2> QED
    BY <2>1, <2>2, <2>3
<1> QED
  BY <1>1, <1>2

-----------------------------------------------------------------------------
LEMMA InitIInv == Init => IInv
<1> SUFFICES ASSUME Init PROVE IInv
  OBVIOUS
<1> USE DEF Init
<1>1. RunTyped /\ SentSigned /\ TermsContracted /\ OneLive
  BY DEF RunTyped, Phases, SentSigned, SignedNonces, TermsContracted, OneLive
<1>2. CallTyped /\ AnswerSafe /\ Unpaid
  BY DEF CallTyped, Calling, AnswerSafe, Unpaid, Reconciled, SignedNonces
<1> QED
  BY <1>1, <1>2 DEF IInv

-----------------------------------------------------------------------------
(* A run.                                                                  *)

(* As long as nobody signs and the world stands still.                     *)
LEMMA WorldStands ==
  ASSUME IInv, UNCHANGED <<signed, received, world>>
  PROVE  /\ SentSigned' /\ TermsContracted' /\ OneLive'
         /\ SignedNonces' = SignedNonces /\ Reconciled' = Reconciled
<1> USE DEF IInv, world
<1>1. SignedNonces' = SignedNonces
  BY DEF SignedNonces
<1>2. SentSigned'
  BY <1>1 DEF SentSigned
<1>3. TermsContracted'
  BY DEF TermsContracted
<1>4. OneLive' /\ Reconciled' = Reconciled
  BY DEF OneLive, Harmless, Reconciled
<1> QED
  BY <1>1, <1>2, <1>3, <1>4

(* A step of a run that ends no call, in a phase without one.              *)
LEMMA BetweenCalls ==
  ASSUME IInv, UNCHANGED <<call, signed, received, world>>, ~Calling,
         RunTyped', Unpaid'
  PROVE  IInv'
<1>1. CallTyped' /\ AnswerSafe'
  BY WorldStands DEF IInv, CallTyped, AnswerSafe, Calling, call
<1> QED
  BY <1>1, WorldStands DEF IInv

(* ... and one that ends a call.                                           *)
LEMMA CallEnds ==
  ASSUME IInv, NoCall, UNCHANGED <<signed, received, world>>, RunTyped', Unpaid'
  PROVE  IInv'
<1>1. CallTyped' /\ AnswerSafe'
  BY DEF CallTyped, AnswerSafe, NoCall
<1> QED
  BY <1>1, WorldStands DEF IInv

LEMMA StartStep == ASSUME IInv, NEW pay \in BOOLEAN, NEW paidFetch \in BOOLEAN,
                          Start(pay, paidFetch)
                   PROVE  IInv'
<1> USE DEF Start
<1>1. RunTyped'
  BY DEF IInv, RunTyped, Phases
<1>2. UNCHANGED <<signed, received, world>> /\ ~Calling
  BY DEF Calling
<1>3. Unpaid'
  BY <1>2, WorldStands DEF IInv, Unpaid, MayPay
<1> QED
  BY <1>1, <1>2, <1>3, BetweenCalls

LEMMA ChallengeStep == IInv /\ Challenge => IInv'
<1> SUFFICES ASSUME IInv, Challenge PROVE IInv'
  OBVIOUS
<1>1. phase = "challenge" /\ phase' = "preflight" /\ UNCHANGED <<options, outcome>>
  BY DEF Challenge
<1>2. UNCHANGED <<call, signed, received, world>> /\ ~Calling
  BY <1>1 DEF Challenge, Calling
<1>3. RunTyped'
  BY <1>1 DEF IInv, RunTyped, Phases
<1>4. Unpaid'
  BY <1>1, <1>2, WorldStands DEF IInv, Unpaid
<1> QED
  BY <1>2, <1>3, <1>4, BetweenCalls

LEMMA PreflightStep == IInv /\ Preflight => IInv'
<1> SUFFICES ASSUME IInv, Preflight PROVE IInv'
  OBVIOUS
<1>1. UNCHANGED <<call, signed, received, world>> /\ ~Calling /\ UNCHANGED options
  BY DEF Preflight, Calling
<1>2. Reconciled' = Reconciled
  BY <1>1, WorldStands
<1>3. CASE options.pay /\ phase' = "paying" /\ UNCHANGED outcome
  <2>1. RunTyped'
    BY <1>1, <1>3 DEF IInv, RunTyped, Phases
  <2>2. Unpaid'
    BY <1>1, <1>2, <1>3 DEF IInv, Unpaid, Preflight
  <2> QED
    BY <1>1, <2>1, <2>2, BetweenCalls
<1>4. CASE phase' = "idle" /\ outcome' = (IF options.pay THEN "not-attempted" ELSE outcome)
  <2>1. RunTyped'
    BY <1>1, <1>4 DEF IInv, RunTyped, Phases
  <2>2. Unpaid'
    BY <1>1, <1>2, <1>4 DEF IInv, Unpaid, Preflight
  <2> QED
    BY <1>1, <2>1, <2>2, BetweenCalls
<1> QED
  BY <1>3, <1>4 DEF Preflight, ReadyToPay, Complete

(* Whatever ends in a run that paid, its report says that it may have.     *)
LEMMA PaidCallEnds ==
  ASSUME IInv, NoCall, UNCHANGED <<options, signed, received, world>>,
         phase \in {"paying", "polling"},
         \/ Complete("unknown")
         \/ phase' = "sleeping" /\ UNCHANGED outcome
  PROVE  IInv'
<1>1. options.pay
  BY DEF IInv, RunTyped
<1>2. RunTyped'
  BY <1>1 DEF IInv, RunTyped, Phases, Complete
<1>3. Unpaid'
  BY <1>1, NoncesAssumption DEF Unpaid, Complete
<1> QED
  BY <1>2, <1>3, CallEnds

LEMMA PayFailsStep == IInv /\ PayFails => IInv'
BY PaidCallEnds DEF PayFails

LEMMA PaySucceedsStep == IInv /\ PaySucceeds => IInv'
BY PaidCallEnds DEF PaySucceeds, PollOn

LEMMA PollEndsStep == IInv /\ PollEnds => IInv'
BY PaidCallEnds DEF PollEnds, PollOn

LEMMA WakeStep == IInv /\ Wake => IInv'
<1> SUFFICES ASSUME IInv, Wake PROVE IInv'
  OBVIOUS
<1>1. UNCHANGED <<call, signed, received, world>> /\ ~Calling /\ UNCHANGED options
  BY DEF Wake, Calling
<1>2. /\ options.pay
      /\ \/ phase' = "polling" /\ UNCHANGED outcome
         \/ phase' = "idle" /\ outcome' = "unknown"
  BY DEF IInv, RunTyped, Wake, Complete
<1>3. RunTyped'
  BY <1>1, <1>2 DEF IInv, RunTyped, Phases
<1>4. Unpaid'
  BY <1>1, <1>2, NoncesAssumption DEF Unpaid
<1> QED
  BY <1>1, <1>3, <1>4, BetweenCalls

LEMMA CrashStep == IInv /\ Crash => IInv'
<1> SUFFICES ASSUME IInv, Crash PROVE IInv'
  OBVIOUS
<1>1. /\ NoCall /\ UNCHANGED <<options, signed, received, world>>
      /\ phase # "idle" /\ phase' = "idle"
      /\ outcome' = (IF options.pay THEN "lost" ELSE outcome)
  BY DEF Crash, Complete
<1>2. RunTyped'
  BY <1>1 DEF IInv, RunTyped, Phases
<1>3. Reconciled' = Reconciled
  BY <1>1, WorldStands
<1>4. Unpaid'
  BY <1>1, <1>3, NoncesAssumption DEF IInv, Unpaid
<1> QED
  BY <1>1, <1>2, <1>4, CallEnds

-----------------------------------------------------------------------------
(* The adapter and the proxy.                                              *)
LEMMA AskStep == ASSUME IInv, NEW same \in BOOLEAN, Ask(same) PROVE IInv'
<1>1. /\ UNCHANGED <<phase, options, outcome, signedIn, nonce, answer, signed, received, world>>
      /\ Calling /\ answer = None
      /\ asked' = [signIn |-> signedIn, nonce |-> nonce, same |-> same, sent |-> FALSE]
  BY DEF Ask, run
<1>2. RunTyped' /\ AnswerSafe'
  BY <1>1 DEF IInv, RunTyped, AnswerSafe
<1>3. CallTyped'
  <2>1. asked' \in [signIn : BOOLEAN, nonce : SignedNonces \cup {None},
                    same : BOOLEAN, sent : BOOLEAN]
    BY <1>1 DEF IInv, CallTyped
  <2>2. asked'.signIn = signedIn'
    BY <1>1
  <2> QED
    BY <1>1, <2>1, <2>2, WorldStands DEF IInv, CallTyped, Calling
<1>4. Unpaid'
  BY <1>1, WorldStands DEF IInv, Unpaid
<1> QED
  BY <1>1, <1>2, <1>3, <1>4, WorldStands DEF IInv

(* An answer that is safe to show to the adapter.                          *)
LEMMA ReplyStep ==
  ASSUME IInv, NEW response, Reply(response), asked # None,
         response.status = 402 /\ response.header # None =>
           \/ response.header.signIn /\ ~asked.signIn
           \/ phase = "paying" /\ Offers(response.header, Url)
  PROVE  IInv'
<1>1. /\ UNCHANGED <<phase, options, outcome, signedIn, nonce, signed, received, world>>
      /\ answer' = response /\ asked' = None
  BY DEF Reply, run
<1>2. Calling
  BY DEF IInv, CallTyped
<1>3. RunTyped' /\ AnswerSafe'
  BY <1>1 DEF IInv, RunTyped, CallTyped, AnswerSafe, Offers
<1>4. CallTyped'
  BY <1>1, <1>2, WorldStands DEF IInv, CallTyped, Calling
<1>5. Unpaid'
  BY <1>1, WorldStands DEF IInv, Unpaid
<1> QED
  BY <1>1, <1>3, <1>4, <1>5, WorldStands DEF IInv

LEMMA RefusalStep == ASSUME IInv, asked # None, Reply(Refusal) PROVE IInv'
<1>1. Refusal.status # 402
  BY DEF Refusal
<1> QED
  BY <1>1, ReplyStep

LEMMA RefuseStep == IInv /\ Refuse => IInv'
BY RefusalStep DEF Refuse

LEMMA ProxyRequestStep == IInv /\ ProxyRequest => IInv'
<1> SUFFICES ASSUME IInv, ProxyRequest PROVE IInv'
  OBVIOUS
<1>1. asked # None /\ Calling
  BY DEF ProxyRequest, IInv, CallTyped
<1>2. CASE Reply(Refusal)
  BY <1>1, <1>2, RefusalStep
<1>3. ASSUME NEW response \in Responses, Reply(Filtered(response))
      PROVE  IInv'
  BY <1>1, <1>3, ReplyStep, FilteredSafe
<1> QED
  BY <1>2, <1>3 DEF ProxyRequest

LEMMA ForwardStep == IInv /\ Forward => IInv'
<1> SUFFICES ASSUME IInv, Forward PROVE IInv'
  OBVIOUS
<1>1. /\ UNCHANGED <<phase, options, outcome, signedIn, nonce, answer, signed, world>>
      /\ asked # None /\ asked' = [asked EXCEPT !.sent = TRUE]
      /\ received' = received \cup ({asked.nonce} \ {None})
  BY DEF Forward, run
<1>2. asked \in [signIn : BOOLEAN, nonce : SignedNonces \cup {None},
                 same : BOOLEAN, sent : BOOLEAN]
  BY <1>1 DEF IInv, CallTyped
<1>3. SignedNonces' = SignedNonces /\ Reconciled' = Reconciled
  BY <1>1 DEF SignedNonces, Reconciled, world
<1>4. RunTyped' /\ AnswerSafe' /\ TermsContracted'
  BY <1>1 DEF IInv, RunTyped, AnswerSafe, TermsContracted
<1>5. CallTyped'
  <2>1. /\ asked' \in [signIn : BOOLEAN, nonce : SignedNonces \cup {None},
                       same : BOOLEAN, sent : BOOLEAN]
        /\ asked'.signIn = asked.signIn
    BY <1>1, <1>2
  <2> QED
    BY <1>1, <1>3, <2>1 DEF IInv, CallTyped, Calling
<1>6. SentSigned'
  BY <1>1, <1>2, <1>3 DEF IInv, SentSigned, world
<1>7. OneLive' /\ Unpaid'
  BY <1>1, <1>3 DEF IInv, OneLive, Harmless, Unpaid, world
<1> QED
  BY <1>4, <1>5, <1>6, <1>7 DEF IInv

LEMMA SignInStep == IInv /\ SignIn => IInv'
<1> SUFFICES ASSUME IInv, SignIn PROVE IInv'
  OBVIOUS
<1>1. /\ UNCHANGED <<phase, options, outcome, nonce, asked, signed, received, world>>
      /\ Calling /\ answer # None /\ answer' = None /\ signedIn' = TRUE
  BY DEF SignIn, Challenged, run
<1>2. asked = None
  BY <1>1 DEF IInv, CallTyped
<1>3. RunTyped' /\ AnswerSafe'
  BY <1>1 DEF IInv, RunTyped, AnswerSafe
<1>4. CallTyped'
  BY <1>1, <1>2, WorldStands DEF IInv, CallTyped, Calling
<1>5. Unpaid'
  BY <1>1, WorldStands DEF IInv, Unpaid
<1> QED
  BY <1>1, <1>3, <1>4, <1>5, WorldStands DEF IInv

(* An authorization is signed for a requirement that was let through, and  *)
(* only when everything signed before is harmless.                         *)
LEMMA AuthorizeStep == ASSUME IInv, NEW fresh \in Nonces, Authorize(fresh) PROVE IInv'
<1>1. PICK i \in DOMAIN answer.header.accepts :
        signed' = signed \cup {[nonce |-> fresh, requirement |-> answer.header.accepts[i],
                                resource |-> answer.header.resource]}
  BY DEF Authorize
<1> DEFINE new == [nonce |-> fresh, requirement |-> answer.header.accepts[i],
                   resource |-> answer.header.resource]
<1>2. /\ UNCHANGED <<phase, options, outcome, signedIn, asked, received, world>>
      /\ Calling /\ answer # None /\ nonce = None /\ nonce' = fresh /\ answer' = None
      /\ signed' = signed \cup {new}
  BY <1>1 DEF Authorize, Challenged, run
<1>3. phase = "paying" /\ Offers(answer.header, Url)
  BY <1>2 DEF IInv, AnswerSafe, Authorize, Challenged, CallTyped
<1>4. Reconciled
  BY <1>2, <1>3 DEF IInv, Unpaid
<1>5. asked = None
  BY <1>2 DEF IInv, CallTyped
<1>6. new.nonce = fresh /\ new.requirement = answer.header.accepts[i] /\ new.resource = Url
  BY <1>3 DEF Offers
<1>7. SignedNonces' = SignedNonces \cup {fresh}
  BY <1>2, <1>6 DEF SignedNonces
<1>8. RunTyped' /\ AnswerSafe'
  BY <1>2 DEF IInv, RunTyped, AnswerSafe
<1>9. CallTyped' /\ SentSigned'
  BY <1>2, <1>5, <1>7 DEF IInv, CallTyped, Calling, SentSigned, world
<1>10. TermsContracted'
  BY <1>2, <1>3, <1>6 DEF IInv, TermsContracted, Offers
<1>11. OneLive'
  <2>1. \A a \in signed : Harmless(a.nonce)'
    BY <1>2, <1>4 DEF Reconciled, Harmless, world
  <2> QED
    BY <1>2, <2>1 DEF OneLive
<1>12. Unpaid'
  <2>1. fresh # None
    BY NoncesAssumption
  <2> QED
    BY <1>2, <1>3, <2>1 DEF IInv, RunTyped, Unpaid
<1> QED
  BY <1>8, <1>9, <1>10, <1>11, <1>12 DEF IInv

-----------------------------------------------------------------------------
(* What is harmless stays so, and nothing becomes harmful.                 *)
LEMMA WorldStep ==
  ASSUME IInv, NEW n \in Nonces, Settle(n) \/ Serve(n) \/ Expire(n)
  PROVE  IInv'
<1>1. /\ UNCHANGED <<phase, options, outcome, signedIn, nonce, asked, answer, signed, received>>
      /\ over \subseteq over'
      /\ \/ n \in received \ over /\ settled' \cup served' \subseteq settled \cup served \cup {n}
         \/ UNCHANGED <<settled, served>>
  BY DEF Settle, Serve, Expire, run, call
<1>2. \A m : Harmless(m) => Harmless(m)'
  BY <1>1 DEF Harmless
<1>3. Reconciled => Reconciled'
  BY <1>1, <1>2 DEF Reconciled, Harmless
<1>4. SignedNonces' = SignedNonces
  BY <1>1 DEF SignedNonces
<1>5. RunTyped' /\ CallTyped' /\ AnswerSafe' /\ TermsContracted'
  BY <1>1, <1>4 DEF IInv, RunTyped, CallTyped, Calling, AnswerSafe, TermsContracted
<1>6. SentSigned'
  BY <1>1, <1>4 DEF IInv, SentSigned
<1>7. OneLive'
  BY <1>1, <1>2 DEF IInv, OneLive
<1>8. Unpaid'
  BY <1>1, <1>3 DEF IInv, Unpaid
<1> QED
  BY <1>5, <1>6, <1>7, <1>8 DEF IInv

LEMMA StutterStep == IInv /\ UNCHANGED vars => IInv'
<1> SUFFICES ASSUME IInv, UNCHANGED vars PROVE IInv'
  OBVIOUS
<1> USE DEF vars, run, call, world
<1>1. RunTyped' /\ CallTyped' /\ AnswerSafe'
  BY DEF IInv, RunTyped, CallTyped, Calling, AnswerSafe, SignedNonces
<1>2. Unpaid'
  BY WorldStands DEF IInv, Unpaid
<1> QED
  BY <1>1, <1>2, WorldStands DEF IInv

-----------------------------------------------------------------------------
(* The invariant holds of every run of the canary, whatever the endpoint   *)
(* answers and wherever runs end.                                          *)
THEOREM PaidPathInvariance == Spec => []IInv
<1>1. IInv /\ [Next]_vars => IInv'
  <2> SUFFICES ASSUME IInv, [Next]_vars PROVE IInv'
    OBVIOUS
  <2>1. CASE \E pay, paidFetch \in BOOLEAN : Start(pay, paidFetch)
    BY <2>1, StartStep
  <2>2. CASE Timed \/ Pay
    BY <2>2, ChallengeStep, PreflightStep, PayFailsStep, PaySucceedsStep, WakeStep,
       PollEndsStep DEF Timed, Pay
  <2>3. CASE Crash
    BY <2>3, CrashStep
  <2>4. CASE \E same \in BOOLEAN : Ask(same)
    BY <2>4, AskStep
  <2>5. CASE Refuse \/ Forward \/ ProxyRequest \/ SignIn
    BY <2>5, RefuseStep, ForwardStep, ProxyRequestStep, SignInStep
  <2>6. CASE \E n \in Nonces : Authorize(n) \/ Settle(n) \/ Serve(n) \/ Expire(n)
    BY <2>6, AuthorizeStep, WorldStep
  <2>7. CASE UNCHANGED vars
    BY <2>7, StutterStep
  <2> QED
    BY <2>1, <2>2, <2>3, <2>4, <2>5, <2>6, <2>7 DEF Next
<1> QED
  BY InitIInv, <1>1, PTL DEF Spec

(* However often the canary is run and wherever its runs fail, time out or *)
(* die (src/src/paid-path.ts:360), one authorization settles at most, and  *)
(* the operation is carried out for one at most.                           *)
THEOREM PaysOnceSound == Spec => []PaysOnce
<1>1. IInv => PaysOnce
  <2> SUFFICES ASSUME IInv, NEW m \in Nonces, NEW n \in Nonces,
                      {m, n} \subseteq settled \/ {m, n} \subseteq served
               PROVE  m = n
    BY DEF PaysOnce
  <2>1. {m, n} \subseteq SignedNonces
    BY DEF IInv, SentSigned
  <2>2. PICK a \in signed, b \in signed : a.nonce = m /\ b.nonce = n
    BY <2>1 DEF SignedNonces
  <2> QED
    BY <2>2 DEF IInv, OneLive, Harmless
<1> QED
  BY PaidPathInvariance, <1>1, PTL

(* Whatever challenge follows the one that was checked, an authorization   *)
(* is for the contracted payee and resource and within the cap             *)
(* (src/src/payment-proxy.ts:137), and a poll pays nothing.                *)
THEOREM TermsSound == Spec => []TermsContracted
<1>1. IInv => TermsContracted
  BY DEF IInv
<1> QED
  BY PaidPathInvariance, <1>1, PTL
=============================================================================
