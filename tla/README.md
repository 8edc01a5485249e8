# Verification of x402-canary

TLA+ models of x402-canary, the TLC runs that check them and the TLAPS proofs about them.
Source paths below are relative to the repository root (`src/evidence/journal.ts`,
`api/base-transaction.ts`); `PROJECT.json` maps every definition to its lines.

## 1. Inventory

x402-canary watches paid HTTP routes and keeps evidence of what happened to a payment: was it
attempted, did it settle on Base, did it have the promised effect. It is one TypeScript code
base, used as command-line tools over a journal and an artifact directory, and as a few
stateless HTTP routes.

| Component | State | Operations | What is hard |
|---|---|---|---|
| Evidence journal (`evidence/journal.ts`) | a JSONL file, a metadata file, a writer-lock sentinel; in memory the records, the promise queue, the poison flag, the per-process set of open paths | `create`, `openExisting`, `openOrCreate`, `append`, `appendAtHead`, `appendOnceAtHead`, `close`, `readAll` | several processes and several handles; a crash or a power loss between any two file operations; appends that fail with unknown effect; retries |
| Artifact store (`evidence/artifact-store.ts`) | files named by the hash of their content | `put`, `get`, `inspect` | concurrent puts of one artifact; torn or undurable files; temporary names |
| Journal-bound closure (`evidence/journal-bundle.ts`) | none of its own: two journal commits and the artifacts they name | close, verify, recover a receipt, audit | the journal and the store change between its awaits; a close that dies between its two commits; exact replay |
| Shadow runner (`evidence/shadow-runner.ts`, `shadow-run-cli.ts`) | none of its own | one close command: check, replay or collect, close, verify, audit | the command is repeated after a crash or a lost output, with another clock and other chain state |
| Evidence kernel (`evidence/kernel.ts`, `reconciliation-policy.ts`) | pure | attempt, reconciliation, effect -> terminal state | a matrix of contradictory, partial and stale observations |
| Effect evidence (`evidence/effect.ts`) | pure | observations, absence confirmations | minimum confirmations, contradictions |
| Base settlement (`evidence/base-settlement.ts`) | pure | receipts, authorization state, finality -> settlement | a case split over several sources |
| Base collector (`evidence/base-rpc.ts`) | pure given the answers | heads of several sources, a common anchor, receipts at it | sources that disagree, lag or lie; time limits |
| Effect authority (`evidence/effect-authority.ts`) | the derived registry | derive a registry, resolve a query, verify a signed statement, turn it into observations | reading, signing, verifying and using a statement are apart in time; keys run out, are revoked and leak; rows go on being committed |
| Public Base verifier (`api/base-transaction.ts`, `public-base-transaction.ts`) | a map of checks in flight, keyed by transaction hash | one GET | coalescing, a full map, deadlines, stale answers |
| Public x402 verifier (`api/x402-intent.ts`, `public-x402-intent.ts`) | the same | one POST | the same |
| Paid path canary (`paid-path.ts`, `payment-proxy.ts`, `x402-challenge.ts`, `load-contract.ts`) | one run; the proxy keeps nothing between requests | challenge, preflight, one payment through the proxy, polling, delivery checks | the payment's outcome is unknown when the process that pays fails; the challenge that is paid is not the one that was checked; one payment at most |
| Canonical JSON, reports, CLIs, browser page | none | formatting | none that a model reaches |

Interactions: the shadow runner opens the journal and the store, calls the closure, which calls
the journal (`appendOnceAtHead`, `readAll`, `head`) and the store (`put`, `get`, `inspect`); the
runner also calls the Base collector and the effect authority, whose results are evaluated by
base-settlement, effect and kernel. An operator whose paid run ended with an unknown outcome
asks the kernel whether a fresh authorization is safe before running the canary again. The two public
routes use the transaction check of `evidence/base-transaction.ts`, not the collector. Applications
append the events of an attempt to the journal themselves.

What makes each component correct:

* journal: one writer; what was acknowledged survives; one record per expected head; a file the
  writer leaves is a file the reader accepts; closing rules hold across restarts; close and
  open settle;
* store: a name is a whole, durable, unchanging artifact or nothing; a receipt is for ever;
* closure: a commit only refers to what is durable; an operation is closed once, over one
  input; a repeated close replays or completes what is there and nothing else;
* runner: a result is about the closure in the journal, fresh once; every run gives the
  journal back;
* collector and evaluators: a positive verdict is about one anchored block every source agrees
  on; contradictions dominate; no evidence is never taken for absence;
* public verifiers: an answer is never older than the check it reports, never more than the
  bound in flight, every request answered;
* effect authority: a verified commit happened, a verified absence is one for ever, and both are
  about the contract, operation and start that were asked for;
* paid path: one payment at most, on the contracted terms, and an outcome that is not known is
  never reported as not paid; every run ends, or waits for the paid call.

The hazards, each at its line and with the properties that watch it, are in `PROJECT.json`.

## 2. Plan

1. `EvidenceJournal` over `JournalLifecycle`, shown to implement `EvidenceLog`: done, proved.
2. `ArtifactStore`, shown to implement `EvidenceStore`: done, proved.
3. `JournalBundle` over the promises of 1 and 2, shown to implement `ClosureRegistry`; and
   `ShadowRunner` over `JournalBundle`, shown to use it as its callers may: done, proved.
4. `BaseChain`, `BaseSettlement` and `BaseCollection`, shown to implement `SettlementReport`:
   done, proved.
5. `EvidenceKernel` with `EffectEvidence` and `ReconciliationPolicy`, over the promise of 4:
   done, proved.
6. `BaseTransactionCheck`, shown to implement `TransactionReport`: done, proved. `BaseReaders`,
   which composes it with the collector, and `PublicVerifier`, the two public routes over its
   promise: done, proved.
7. `EffectAuthority`, shown to implement `EffectReport`, and `EvidenceKernel` changed to start
   from that promise instead of the assumption that the authority is right: done, proved.
8. `PaidPath` over `X402Challenge`: the canary and its proxy, run again and again: done, proved.
9. Every invariant, action property and refinement that a run checks is now a theorem as well; the
   liveness properties stay with TLC (section 5). `JournalBundle` writes the log and the store out
   (a prefix in memory, visible and durable artifacts) where the kernel and the routes instantiate
   the abstract specification; that it stays within `EvidenceLog` and `EvidenceStore` is proved.

How the modules compose:

```
EvidenceLog   <== EvidenceJournal (JournalLifecycle)
EvidenceStore <== ArtifactStore
      |
      v
JournalBundle ==> ClosureRegistry
      |
      v
ShadowRunner

SettlementReport <== BaseCollection (BaseSettlement, BaseChain)
EffectReport     <== EffectAuthority
      |
      v
EvidenceKernel (EffectEvidence, ReconciliationPolicy)
      |
      v
PaidPath (X402Challenge)

TransactionReport <== BaseTransactionCheck (BaseChain)
      |
      v                    BaseReaders: BaseCollection and BaseTransactionCheck at once
PublicVerifier
```

`A <== B` reads: B is shown to implement the abstract specification A. An arrow down reads: the
upper module's promise is all the lower module uses. `JournalBundle` writes the
journal and the store out at the level of their abstract specifications (a durable log with a
prefix in memory; durable and visible artifacts), and its theorems `BundlesKeepJournalPromise` and
`BundlesKeepStorePromise` show that it is a behaviour of both; `EvidenceKernel` and `PublicVerifier` use
`SettlementReport`, `EffectReport` and `TransactionReport` themselves; `PaidPath` takes the
theorem `FreshSound` about the kernel as the rule of the operator (`Reconciled`).

## 3. How the modules correspond to the code

**EvidenceJournal.** A handle is one `EvidenceJournal` object or one call of `openInternal` on its
way to become one; every `await` that something can fall on is an action, in source order:
`StartOpen`, `AcquireLock`, `InspectFiles`, `PublishMetadata`, `SyncMetadata`, `OpenFile`,
`Validate`, `SyncOpen`; for an append `Call` (the queueing), `Begin` or `Reject` or `Replay`,
`CheckSize`, `WriteSome`, `WriteRest`, `SyncAppend`, `Acknowledge`, with `Poison` for the catch
block; `StartClose`, `CloseFile`, `FinishClose`. `dir` and `disk` are the directory as processes
see it and as it survives a power loss, `synced` how much of the file is durable, `torn` whether
bytes follow the last newline. A head is the sequence of the events before it, which is what a
hash chain stands for. `RemoveStaleLock` is the operator doing what the lock error asks for: only
when no live handle believes it holds the lock.

**ArtifactStore.** `put` step by step: look for the final name, write and sync a temporary file,
link it, sync the directory, remove the temporary name. A name under which no link was made
durable disappears in a power loss; unsynced content is torn.

**JournalBundle.** `Start` is everything `closeJournalBoundEvidenceBundle` does before its first
write; then `Store` once per artifact, `Commit` or `Replay` or `CommitUncertain` for each of the
two anchors, `StoreBundle`, `Verify`; `Abandon` is every throw. `Recover` and `AuditStatus` are
the two functions of the same names. A hash stands for what it hashes.

**ShadowRunner.** One run of the close command; an action per await of `runJournalBoundShadow`,
with `closeShadow` around it (`Begin`, `EndRun`). The crash of the run, lost output and the
application that journals attempts are the environment.

**BaseChain, BaseCollection, BaseSettlement.** The chain holds the blocks that are or will be
final. Honest sources lag behind it, each in its own way, and answer truly about what they hold
final; above that they may show blocks that will be abandoned. Other sources answer anything and
change their minds. In `BaseCollection` every answer of every source is an action, every
`Promise.all` a barrier; `BaseSettlement` is the pure evaluation, reason by reason.

**EffectAuthority.** `registry` is the branded registry of the verifying process, `signed` the
statements anybody holds, `verified` what `verifyEffectAttestation` let through. `Repin` is
`deriveEffectAuthorityRegistry`, `Queries` what `resolveEffectQuery` can return, `Verify` one call
of `verifyEffectAttestation` with its checks in source order (`KeyAuthorized`, `PayloadBound`,
`KeyValid`, `InOrder`, `HorizonReached`, `CommitsInOrder`), `ObservationsFor` the conversion. The
system of record (`Commit`, `Close`), its adapter (`Read`, then `Sign` at any later time) and the
operator are the environment, taken as the contract policy of the code demands them: one
linearizable read of rows and closure marker (`validateContractPolicy` refuses anything else), no
new effect of a closed operation, and no retired key pinned again. Whoever signs with a retired
key, or for the contract of another authority, signs anything with any dates (`Missign`).

**EvidenceKernel.** `Collect` is one collection (by its promise), `Observe` one verified statement
(by the promise of `EffectReport`) or a rumour, `Evaluate` one call of `evaluateEvidenceKernel`.
`EffectEvidence` and `ReconciliationPolicy` are the pure functions.

**X402Challenge, PaidPath.** One run is `Start`, `Challenge`, `Preflight`, then `PayFails` or
`PaySucceeds`, then `Wake` and `PollEnds` for every round of `pollUntilTerminal`; `outcome` is the
payment status the last paying run reported, or that it died (`Crash`). The call of the adapter
inside a run goes through the proxy: `Ask` is a request to it, `Refuse`, `Forward` and
`ProxyRequest` are `proxyRequest` before, at and after its fetch, `Filtered` is what it does to a
402. The adapter itself is external (`agentcash.ts` is a stub that throws): it asks through the
proxy only, signs in when asked to, pays by the header of a 402 and signs one authorization a
call. What was signed settles or is served at any time after it has reached the endpoint, until it
is void; the operator pays again after a report of `not-attempted`, or when everything signed is
known to be harmless.

**BaseTransactionCheck.** `collectBaseTransactionObservation` in the same world. The difference
to the collector that matters: receipt and head are asked for in one round, so `GiveHead` and
`GiveReceipt` happen in either order.

**BaseReaders.** Both readers over one chain and one set of sources: `Public` is a step of the
check, `Operator` one of the collector, `Around` one of the world. A collection starts alone or
after a check that found the outcome.

**PublicVerifier.** `inFlight` is the Map of a route instance, `flight` the checks under way,
`request` who awaits which promise, `edge` what the network keeps by the `Cache-Control` header
the route sets. `Ask` is the handler up to its first `await`, with the three outcomes of
`startOrJoinObservation`; `Settle` is the settling of the promise with everything that hangs on
it: the Map forgets it first, then everybody who awaits it is answered. `Expire` is the abort of
the deadline. Of the check itself only the promise of `TransactionReport` is used.

## 4. Runs

Times are of two workers. Every passing run explores its whole state space.

| Run | Instance and bounds | What it shows |
|---|---|---|
| `journal_race` | 3 handles in 2 processes, 3 events (two that compete for a head, one that reuses an id), queues of 2 | nothing acknowledged is lost, each expected head is won once, memory is a durable prefix of the file, the lock names its holder, metadata precedes the journal, what a writer leaves a reader accepts |
| `journal_lifecycle` | 1 handle, 4 events that make a whole closure, queues of 2; `appendOnceAtHead`, by which a closure commits (`append` and `appendAtHead` are in `journal_race`) | the closing rules hold in what is durable, through restarts; `EvidenceLog` is implemented; every close ends, whatever is queued behind an append that failed; every open ends, with the journal open or with the in-process guard given up |
| `artifact_store` | 3 puts of 2 artifacts | no torn artifact; `EvidenceStore` is implemented, whose receipts survive and whose artifacts stay |
| `bundle_rivals` | 2 concurrent calls of 3 that close 2 operations, two of them rival evaluations of one operation; symmetric in the calls | receipts stay good, commits are backed by durable artifacts, a lone input admits its own bundle only; `ClosureRegistry` is implemented |
| `runner_commands` | 3 commands (the pinned one, one with other facts, one pinned a record late), 2 times and collections, 3 closes | results are about the closure in the journal, at most one is fresh, every run gives the journal back |
| `collection_liar` | 2 sources of which one lies, 3 blocks, times 0..3, expiry at 2 | with one honest source a confirmed settlement happened, absence is for ever; `SettlementReport` is implemented |
| `readers_honest` | 2 honest sources, 3 blocks, times 0..2, both readers | a final transaction gets its verdict from both readers however the sources lag, and both tell one story; `TransactionReport` is implemented |
| `kernel_bundles` | 2 effects with 2 payloads, 4 rumours, 5 stories, 2 observations, 1 bundle | what a bundle says stays true when it is acted upon later: a fresh authorization pays once, delivered happened, failed never settles |
| `verifier` | 2 clients, an instance of each route, 2 transactions, 1 check in flight per instance, deadline 2, edge life 2 and 1 | `not_observed` is less than a deadline and a short edge life old, no instance goes back on an outcome, each is judged by its own terms, the Map is exact, everybody is answered |
| `effect_authority` | 2 contracts of one authority, 1 operation, 2 keys, 4 manifests (2 of them refused), 2 effects, times 0..3, 1 statement kept and 1 verified | a verified absence is one for ever, a verified commit happened; `EffectReport` is implemented |
| `paid_path` | 8 responses, 3 authorizations, 4 runs, poll interval 2 and deadline 5 | one authorization settles or is served at most, what is signed is contracted, every run ends or waits for the paid call |
| `collection_mixed` | 2 honest sources, 3 blocks | violation, finding 1 |

Why the bounds are enough to see the cases the hazards name: two processes and a third handle
make a race, a refused in-process open and a stale lock possible; a queue of two holds a call
behind one that fails; three blocks hold a block that is final for both sources, one that is for
one of them, and one for none, with an expiry in between; two sources are what the public registry
demands and the least the collector accepts; two calls are enough for one to overtake another
between any two steps, and a third for a repeat; one place in the Map makes the route busy with
two transactions; one statement is enough because `Verify` judges each by itself, and times 0..3
hold an instant before the start, the start, the instant a contract is final and one after the
key has run out (that a statement about another *operation* is of no use is left to the theorems
of `EffectAuthorityProofs`: two operations beside two contracts and two rows are beyond TLC, and
that a link never replaces a durable file is left to `FirstLinkWins`); the responses are the
contracted terms beside others, with and without a sign-in, a price above the cap, two that fit, another resource, no challenge, a redirect and an
answer, and a third authorization is one more than a wrong rule needs to pay twice. What is proved
does not depend on these bounds.

`CHECK_DEADLOCK FALSE` is said where a behaviour ends by itself: a collection or a check that has
been evaluated, an operator who does not run the canary again.

Every property of a passing run has a mutant in `PROJECT.json`, a change of one mapped definition
as a plausible bug would make it (an omitted sync, a check left out, the highest head for the
lowest), which makes TLC find the property violated. The mutations stand beside the definitions
they change and are marked `Mutation:`.

**Fairness.** `FairSpec` of the journal: the file operation a handle awaits settles, one way or
the other, for opening, serving the queue and closing; nothing is assumed of callers, crashes or
operators. `RunnerFairSpec`: the run in progress goes on, because each promise it awaits settles.
`Spec` of `PublicVerifier`: time passes and the timer of the deadline fires (`Tick`, `Expire`);
nothing is assumed of the sources. `Spec` of `PaidPath`: a run that is not killed goes
on (`Timed`) where the code puts a time limit on what it awaits: the fetches of the challenge and
the preflight have an `AbortSignal.timeout`, timers fire, and the call of a poll is told the time
that is left (`runnerTimeoutMs`, `paid-path.ts:239-247`). That an adapter keeps that limit is an
assumption, since the repository has no adapter. The paid call (`paid-path.ts:356-359`) is given no
limit: nothing is assumed of it, and `RunsEnd` claims nothing of a run that waits there. Nothing
is assumed of the endpoint, the adapter's requests or the operator. No strong fairness is used.

## 5. Proofs

All theorems are checked by TLAPS for every value of the constants that satisfies the named
assumptions of the modules (`ASSUME ...Assumption`, which TLC evaluates in every run): what they
say is the shape of the parameters - which handle lives in which process, at least two sources,
positive confirmations, a null answer that is no receipt, what a story or a rumour is, a contract
that was parsed, a placeholder (`None`) that is no client and no record, event ids of applications
that are not the ids a closure derives from hashes (`CommitIds`) - and, for the effects, that a rumour about the operation is never authoritative
and that operators pin each key to the authority that holds it.

* `EvidenceJournalProofs`. The invariant (`IInv`): types; whoever holds is named by the lock;
  entries become durable in order (metadata before the journal, the journal before its content);
  the memory of a live handle is a durable prefix of the file, and all of it as long as no append
  has failed; at most one record is in doubt; the file is valid; what is acknowledged is durable
  and stands where it was asked to. None of the safety properties is inductive alone: that an
  acknowledged record survives needs that appends are decided on memory that agrees with the
  file, which needs the lock. From it: `TypeCorrect`, `SingleWriter`, `MemoryAgrees`, `AcknowledgedSurvives`,
  `OneWinnerPerHead`, `Reopens`, `ClosuresFinal`, `MetadataFirst`, and `ImplementsEvidenceLog`
  under the mapping of the log to the durable prefix.
* `ArtifactStoreProofs`. What is synced is whole, what is linked is synced, what is durable is
  visible, and what each call has reached when it is where it is. From it `NoTornArtifact`,
  `ReceiptsSurvive`, `FirstLinkWins`, `ImplementsEvidenceStore`.
* `EvidenceClosureProofs`, about `JournalBundle`. The invariant (`BundleInv`): every record was
  admitted after the records before it (`LogAdmitted`); an input commit sits right after the head
  its manifest names, over durable artifacts and an attempt that was under control, and a bundle
  commit right after its input (`LogCommits`); and what a call has made durable or committed by
  the time it is where it is (`CallInv`). `CommitsBacked` is not inductive: it is the call that
  stored before it commits, and the head it names that makes the commit sit where it says.
  `ExactRepeat` needs that a lone input leaves its operation no other record, which the lifecycle
  gives and `LogAdmitted` remembers. From it `ReceiptsHoldForever`, `CommitsAreBacked`,
  `RepeatsAreExact` and `BundlesImplementRegistry`, the refinement of `ClosureRegistry`: one
  step of the journal adds one closure at most, of an operation that had none. Two more
  refinements tie the close to the modules below it: `BundlesKeepJournalPromise` (the log, with the
  bundle commits that receipts hand out as its acknowledgements, is one of `EvidenceLog`) and
  `BundlesKeepStorePromise` (what is durable, with the receipts, is one of `EvidenceStore`). TLC
  does not check these two: the events of all closures, over every head, are no finite set.
* The same module, about `ShadowRunner`. `RunnerInv` adds that nobody but the run closes and that
  it closes one operation (`OneCloser`), that a fresh close is only under way for an operation no
  result is about and a replay only where the bundle is committed (`RunFacts`), and what a result
  rests on (`ResultInv`). `RunnerImplementsBundle`: every step of the command is a step of
  `JournalBundle`, so its theorems hold for the command; `ResultsHoldForever` and
  `ClosedFreshOnce` follow, the latter because two bundle commits of one operation are never
  admitted.
* `BaseReadersProofs`, about one collection. What an honest source has answered is
  true of a final block at or below its head; what all sources agree on is therefore true as soon
  as one is honest. From it `ConfirmedSound`, `AbsenceSound`, `ConsistencySound` and
  `CollectionKeepsPromise`, the refinement of `SettlementReport`. When no source lies (`ReportInv`)
  no round finds a disagreement about what is final at the anchor and every source has given its
  one receipt; the evaluation of that receipt, case by case, is `ReportComplete`.
* The same module, about the check. The receipt may be older or newer than
  the head: what is kept of it is that an honest source which held the transaction final when the
  check began has answered with its true receipt. From it `CheckSound`, `CheckComplete` and
  `CheckKeepsTransactionPromise`, the refinement of `TransactionReport`.
* The same module, about both (`ReadersInv`). Neither disturbs the other: every behaviour of the
  readers is one of the collector (`ReadersCollect`), and the invariant of the check is kept by
  steps of the collector and by a world that goes on after the check (`ReadersCheckComplete`,
  `ReadersKeepPromise`). A collection that starts after a final verdict has no head below the
  anchor of the check (`NotBelow`), so the transaction is final at its anchor too and
  `ReadersAgreeAlways` follows from the two readings of one receipt.
* `PublicVerifierProofs`. None of the four invariants is inductive. An answer is as good as the
  check it comes from: how old a check is that missed an outcome which is final now (`SeenInTime`),
  that a check began after all its server has reported before (`BegunLater`), that the Map, the
  checks and the requests that wait tell of each other (`Accounted`) and are equally many
  (`Limited`), and that the time left to a copy at the edge makes up for its age (`FreshCopies`).
  Of the check itself only the promise of `TransactionReport` is used. From it `UnobservedSound`,
  `VerdictsSound`, `TermsOwn` and `ChecksSound`.
* `EffectAuthorityProofs`. A statement by a key that is still in force was read, as it stands, from
  the system of record under its own contract; rows only come and closures only advance; what was
  retired is out of force. A verified absence therefore covers a closure at or past `finalAfter`
  that was read together with the empty rows. From it `AbsenceSound`, `CommitSound` and
  `ImplementsReport`, the refinement of `EffectReport`.
* `EvidenceKernelProofs`. Starting from `SettlementReport` and `EffectReport`: every bundle is tied to facts of the
  world that never change back. From it `FreshSound`, `DeliveredSound`, `FailedSound`.
* `PaidPathProofs`. Neither property is inductive: that a run may pay is decided on what the last
  one reported, so the invariant says what a report rests on (`Unpaid`: nothing was signed since
  all that was signed was known to be harmless); what is signed is decided on an answer the proxy
  let through earlier, so it says what a waiting answer can be (`AnswerSafe`: a request to sign in
  that the adapter has not followed, or the one contracted offer, in the paying phase only). From
  it `PaysOnceSound` and `TermsSound`.

Only model-checked: liveness (`CloseSettles`, `OpenSettles`, `RunSettles`,
`EveryRequestAnswered`, `RunsEnd`), which with fairness and ENABLED is out of the prover's reach.
No recursive definition is used. `TypeCorrect`, `ReceiptsSurvive`, `FirstLinkWins` and
`ConsistencySound` are proved and not listed in a run: the runs check the stronger properties
beside them. The inductive invariants of the closure, of the command, of the routes and of the
readers were checked by TLC on the instances of the runs before they were proved.

## 6. What is not modelled

* Input checks that change nothing: normalisation and size limits of events and records, parsing
  of pins, manifests and requests, derivation of registries.
* Encodings and hashes: a hash stands for what it hashes. Collisions are out.
* Lines of a journal other than whole ones and a torn tail; a disk that loses synced data.
* Which reason a settlement or requirement mismatch is given, only whether there is one.
* The format of registry manifests and signed envelopes, and Ed25519: a statement can only be
  changed by who can sign. A system of record that breaks its own closure, or an operator who pins
  a leaked key, is outside what the code can notice.
* The payment adapter: `agentcash.ts` is a stub that throws. `evaluateNoSpendResponse` is used by
  fixtures only. `paidResponseCors` and the delivery check only add to the checks of a run that
  has failed already, because settlement is never verified (`paid-path.ts:391`).
* More than one edge location, and caches that disobey the header.
* Reports, status routes, command-line tools that print, the browser page: no state.

## 7. Findings

One violated property, against a statement of the repository:

1. `collection_mixed`, `ConfirmedShowsUse`: `docs/evidence-kernel-v0.1.md:42` requires the
   `AuthorizationUsed` event. A receipt whose events are each wrong in another field gives no
   reason, and is confirmed with its exact transfer (`base-settlement.ts:391`).

Observations that no run states:

* `docs/journal-bound-bundles-v0.2.md:68` says that repeating the exact close after an uncertain
  same-process return replays both anchors. The handle is poisoned and refuses every call
  (`journal.ts:783`); the replay works once the journal is closed and opened again.
* `docs/shadow-runner-v0.1.md:178` says that a close whose output was lost is replayed by running
  it again. An orphan that another operation's crashed close left in the shared store fails the
  audit of every replay (`shadow-runner.ts:1057`).
* Verified statements of one operation under two contracts always contradict each other in
  `evaluateEffectEvidence`: the query key is hashed with the contract (`effect-authority.ts:766`).
* A challenge that asks to sign in passes the proxy unfiltered (`payment-proxy.ts:134`), and so
  does the body of every 402: that nothing else is paid rests on an adapter which signs in first
  and pays by the header.
* An attempt declared `preflightPassed: false` with no transmission recorded is called
  `not_attempted` although its settlement is confirmed: `attemptContradiction` (`kernel.ts:216`)
  compares the settlement with three of the declarations, not with this one.
* The collector anchors at the lowest head, so the depth of the anchor below that head is 1:
  `absent` is unreachable from `collectBaseEvidence` when `minimumConfirmations` is above 1, and
  a highest-head anchor would not be noticed by the evaluator's own checks.
* `authorization_rejected` and the `zero_*` states of the policy are unreachable from the kernel;
  `rejected_before_authorization` is reached only when an authorization was created.
* `shadow-runner.ts:584` accepts a minimum of up to 1,000,000 confirmations, the kernel refuses
  more than 100,000 (`kernel.ts:153`): such a run fails after it has collected.
* The public check asks for the receipt in the round of the heads (`base-transaction.ts:462`). A
  transaction that becomes final in that round may be answered with `not_observed` or with
  `RECEIPT_PRESENCE_CONTRADICTION` although both sources are honest; `FinalWhenAsked` holds for
  what was final when the check began. Two instances, or the two routes, may differ in this for
  less than a deadline and the short edge life.
* A paid call that never returns keeps a run open for ever: `paid-path.ts:356` passes the
  contract's request, and a parsed contract has no `runnerTimeoutMs` (`load-contract.ts:141`).
* A Circle upgrade of the USDC code makes every public check a contradiction until the allowed
  hashes are changed; that is the documented choice.
* A torn tail, a crash between publishing the metadata and creating the journal, and a lock whose
  release failed all leave a journal closed until an operator acts (fail-closed). A second
  concurrent `close()` returns before the first has finished. Orphans of other users of an
  artifact root make audits incomplete for ever.

