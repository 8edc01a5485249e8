--------------------------- MODULE JournalBundle ---------------------------
(***************************************************************************)
(* Closing an operation (src/src/evidence/journal-bundle.ts): a close call *)
(* stores its artifacts, commits a kernel input to the journal, stores the *)
(* bundle, commits it at the very next record and verifies what it wrote.  *)
(* Calls run concurrently in the process that holds the journal, other     *)
(* events are appended in between, and the process dies anywhere.          *)
(*                                                                         *)
(* The journal and the store are taken at the level of what they promise   *)
(* (EvidenceLog, EvidenceStore): `log' is the durable journal, of which    *)
(* the open handle has the first `known' records in memory; `visible' are  *)
(* the artifacts that can be read, `durable' those a power loss spares.    *)
(*                                                                         *)
(* Abstractions.  An input is everything a call brings that is already     *)
(* branded, timed and checked; an input that fails those synchronous       *)
(* checks changes nothing and is left out.  The evaluation is a function   *)
(* of the evaluator input and has no name of its own.  A hash stands for   *)
(* what it hashes, so an artifact is a record of its content, the id of a  *)
(* commit is the artifact it is derived from, and, the log being append    *)
(* only, a source head is its sequence number.                             *)
(***************************************************************************)
EXTENDS Naturals, Sequences

CONSTANTS
  Call,         \* calls of closeJournalBoundEvidenceBundle in flight
  Inputs,       \* what calls close: [op, auth, core, base, effects, created, transmitted]
  OtherEvents,  \* what else is appended to the journal
  MaxCalls,     \* bound: close calls ever made
  NoAuth,       \* an event without an authorization id
  NoCall        \* no call in flight

ASSUME InputsAssumption ==
  \A in \in Inputs :
    /\ DOMAIN in = {"op", "auth", "core", "base", "effects", "created", "transmitted"}
    /\ in.created \in BOOLEAN /\ in.transmitted \in BOOLEAN
    /\ Len(in.effects) \in Nat

ASSUME MaxCallsAssumption == MaxCalls \in Nat

(* The ids of the two commits of a close are derived from what they commit *)
(* (deterministicEventId); applications give their events other ids, and   *)
(* append through the lifecycle's other kinds only.                        *)
CommitIds ==
  [namespace : {"kernel-input-manifest", "kernel-bundle"}, input : Inputs, head : Nat]

ASSUME OtherEventsAssumption ==
  \A e \in OtherEvents :
    /\ DOMAIN e = {"id", "op", "auth", "kind"}
    /\ e.id \notin CommitIds
    /\ e.kind \in {"attempt_opened", "authorization_recorded", "authorization_transmitted",
                   "settlement_observed", "effect_observed", "attempt_closed"}

VARIABLES
  log,          \* the committed journal events
  known,        \* how many of them the open journal has in memory
  open,         \* is the journal open?
  poisoned,     \* has an append of the open journal failed?
  visible,      \* the artifacts that can be read
  durable,      \* the artifacts that survive a power loss
  temporary,    \* is a temporary name left in the store?
  pc,           \* where each call is
  call,         \* what each call closes, and how many artifacts it stored
  made,         \* history: how many calls were made
  receipts      \* history: the closures a receipt was returned for

journalVars == <<log, known, open, poisoned>>
storeVars == <<visible, durable, temporary>>
vars == <<log, known, open, poisoned, visible, durable, temporary, pc, call, made, receipts>>

-----------------------------------------------------------------------------
(* The artifacts of a closure, in the order they are stored, and its two   *)
(* journal events.                                                         *)
AttemptArtifact(in) == [namespace |-> "operation-attempt", op |-> in.op, core |-> in.core]
BaseArtifact(in) == [namespace |-> "base-collection", auth |-> in.auth, base |-> in.base]
EffectArtifact(in, i) == [namespace |-> "effect-attestation", effect |-> in.effects[i]]
EvaluatorInput(in) == [namespace |-> "kernel-evaluator-input", input |-> in]
Manifest(in, head) == [namespace |-> "kernel-input-manifest", input |-> in, head |-> head]
BundleArtifact(in, head) == [namespace |-> "kernel-bundle", input |-> in, head |-> head]

InputArtifacts(in, head) ==
  <<AttemptArtifact(in), BaseArtifact(in)>>
    \o [i \in 1..Len(in.effects) |-> EffectArtifact(in, i)]
    \o <<EvaluatorInput(in), Manifest(in, head)>>

ManifestArtifacts(in, head) ==
  {InputArtifacts(in, head)[i] : i \in 1..Len(InputArtifacts(in, head))}

InputEvent(in, head) ==
  [id |-> Manifest(in, head), op |-> in.op, auth |-> in.auth, kind |-> "kernel_input_committed"]
BundleEvent(in, head) ==
  [id |-> BundleArtifact(in, head), op |-> in.op, auth |-> in.auth,
   kind |-> "kernel_bundle_committed"]

KernelEvent(in, head) == {InputEvent(in, head), BundleEvent(in, head)}

INSTANCE JournalLifecycle WITH
  Events <- OtherEvents \cup UNION {KernelEvent(in, head) : in \in Inputs, head \in Nat}

Memory == SubSeq(log, 1, known)
IsInput(e) == e.kind = "kernel_input_committed"
IsBundle(e) == e.kind = "kernel_bundle_committed"

Init ==
  /\ log = <<>> /\ known = 0 /\ open = FALSE /\ poisoned = FALSE
  /\ visible = {} /\ durable = {} /\ temporary = FALSE
  /\ pc = [c \in Call |-> "idle"]
  /\ call = [c \in Call |-> NoCall]
  /\ made = 0 /\ receipts = {}

-----------------------------------------------------------------------------
(* The checks of a call before it writes anything.                         *)

(* Mutation: only the current head is accepted, never an exact replay.     *)
SourceHeadOrReplayCurrent(in, head) == head = known

SourceHeadOrReplay(in, head) ==
  \/ head = known
  \/ /\ head < known
     /\ IsInput(log[head + 1]) /\ log[head + 1].op = in.op /\ log[head + 1].auth = in.auth

CountIs(S, one) == IF one THEN ExactlyOne(S) ELSE S = {}

(* One opening of the operation, not closed; the authorization it declares *)
(* is journaled once, after the opening and before its transmission.       *)
ControlledAttempt(es, in) ==
  LET opened == Positions(es, in.op, {"attempt_opened"})
      recorded == Positions(es, in.op, {"authorization_recorded"})
      transmitted == Positions(es, in.op, {"authorization_transmitted"})
  IN  /\ ExactlyOne(opened)
      /\ Positions(es, in.op, {"attempt_closed"}) = {}
      /\ \A i \in opened : es[i].auth \in {NoAuth, in.auth}
      /\ \A i \in recorded \cup transmitted : es[i].auth = in.auth
      /\ \A i \in opened, j \in recorded \cup transmitted : i < j
      /\ \A i \in recorded, j \in transmitted : i < j
      /\ CountIs(recorded, in.created)
      /\ CountIs(transmitted, in.transmitted)

Accepts(in, head) == SourceHeadOrReplay(in, head) /\ ControlledAttempt(Memory, in)

Start(c, in, head) ==
  /\ open /\ pc[c] = "idle"
  /\ Accepts(in, head)
  /\ pc' = [pc EXCEPT ![c] = "storing"]
  /\ call' = [call EXCEPT ![c] = [input |-> in, head |-> head, next |-> 1]]
  /\ made < MaxCalls /\ made' = made + 1
  /\ UNCHANGED <<journalVars, storeVars, receipts>>

Finish(c) == pc' = [pc EXCEPT ![c] = "idle"] /\ call' = [call EXCEPT ![c] = NoCall]

-----------------------------------------------------------------------------
(* Storing.  A put that returns made the artifact durable; it may leave    *)
(* its temporary name behind.                                              *)
Stored(artifact) ==
  /\ visible' = visible \cup {artifact}
  /\ durable' = durable \cup {artifact}
  /\ temporary' \in {temporary, TRUE}

NextArtifact(c) == InputArtifacts(call[c].input, call[c].head)[call[c].next]
AllStored(c) == call[c].next > Len(InputArtifacts(call[c].input, call[c].head))

(* Mutation: the artifacts of the input are written but never synced.      *)
StoreUndurable(c) ==
  /\ pc[c] = "storing" /\ ~AllStored(c)
  /\ visible' = visible \cup {NextArtifact(c)}
  /\ temporary' \in {temporary, TRUE}
  /\ call' = [call EXCEPT ![c].next = @ + 1]
  /\ UNCHANGED <<journalVars, durable, pc, made, receipts>>

Store(c) ==
  /\ pc[c] = "storing" /\ ~AllStored(c)
  /\ Stored(NextArtifact(c))
  /\ call' = [call EXCEPT ![c].next = @ + 1]
  /\ UNCHANGED <<journalVars, pc, made, receipts>>

(* Everything is stored: each artifact is read back before the commit.     *)
Reread(c) ==
  /\ pc[c] = "storing" /\ AllStored(c)
  /\ ManifestArtifacts(call[c].input, call[c].head) \subseteq visible
  /\ pc' = [pc EXCEPT ![c] = "committingInput"]
  /\ UNCHANGED <<journalVars, storeVars, call, made, receipts>>

(* Mutation: the bundle is written but never synced.                       *)
StoreBundleUndurable(c) ==
  /\ pc[c] = "storingBundle"
  /\ visible' = visible \cup {BundleArtifact(call[c].input, call[c].head)}
  /\ temporary' \in {temporary, TRUE}
  /\ pc' = [pc EXCEPT ![c] = "committingBundle"]
  /\ UNCHANGED <<journalVars, durable, call, made, receipts>>

(* The evaluator input is read back and evaluated, the bundle is stored    *)
(* and read back.                                                          *)
StoreBundle(c) ==
  /\ pc[c] = "storingBundle"
  /\ EvaluatorInput(call[c].input) \in visible
  /\ Stored(BundleArtifact(call[c].input, call[c].head))
  /\ pc' = [pc EXCEPT ![c] = "committingBundle"]
  /\ UNCHANGED <<journalVars, call, made, receipts>>

(* A put that fails may have got as far as the final name.                 *)
PutFails(c) ==
  /\ pc[c] \in {"storing", "storingBundle"} /\ (pc[c] = "storing" => ~AllStored(c))
  /\ LET artifact == IF pc[c] = "storing" THEN NextArtifact(c)
                     ELSE BundleArtifact(call[c].input, call[c].head)
     IN  visible' \in {visible, visible \cup {artifact}}
  /\ temporary' \in {temporary, TRUE}
  /\ Finish(c)
  /\ UNCHANGED <<journalVars, durable, made, receipts>>

-----------------------------------------------------------------------------
(* Committing: appendOnceAtHead, as EvidenceJournal serves it.             *)
EventOf(c) == IF pc[c] = "committingInput" THEN InputEvent(call[c].input, call[c].head)
              ELSE BundleEvent(call[c].input, call[c].head)
HeadOf(c) == IF pc[c] = "committingInput" THEN call[c].head ELSE call[c].head + 1
After(c) == IF pc[c] = "committingInput" THEN "storingBundle" ELSE "verifying"

Recorded(event) == ~FreshId(Memory, event)
Replays(event, head) == head < known /\ log[head + 1] = event
Admits(event, head) ==
  /\ ~Recorded(event) /\ ~poisoned
  /\ head = known
  /\ LifecycleAdmits(Memory, event)

Committing(c) == pc[c] \in {"committingInput", "committingBundle"} /\ open

Replay(c) ==
  /\ Committing(c) /\ Replays(EventOf(c), HeadOf(c))
  /\ pc' = [pc EXCEPT ![c] = After(c)]
  /\ UNCHANGED <<journalVars, storeVars, call, made, receipts>>

Commit(c) ==
  /\ Committing(c) /\ Admits(EventOf(c), HeadOf(c))
  /\ log' = Append(log, EventOf(c))
  /\ known' = known + 1
  /\ pc' = [pc EXCEPT ![c] = After(c)]
  /\ UNCHANGED <<open, poisoned, storeVars, call, made, receipts>>

(* The append fails: the record is in the journal or it is not, and the    *)
(* handle refuses every later append.                                      *)
CommitUncertain(c) ==
  /\ Committing(c) /\ Admits(EventOf(c), HeadOf(c))
  /\ log' \in {log, Append(log, EventOf(c))}
  /\ poisoned' = TRUE
  /\ Finish(c)
  /\ UNCHANGED <<known, open, storeVars, made, receipts>>

(* A rejected commit, a failed read, or a check that does not hold.        *)
Abandon(c) ==
  /\ pc[c] # "idle"
  /\ Finish(c)
  /\ UNCHANGED <<journalVars, storeVars, made, receipts>>

-----------------------------------------------------------------------------
(* verifyJournalBoundBundleIntegrity, of the receipt of a closure.         *)
Committed(in, head) ==
  /\ head + 2 <= Len(log)
  /\ log[head + 1] = InputEvent(in, head)
  /\ log[head + 2] = BundleEvent(in, head)

Verified(in, head) ==
  /\ head + 2 <= known /\ Committed(in, head)
  /\ ManifestArtifacts(in, head) \cup {BundleArtifact(in, head)} \subseteq visible

Closure(in, head) == [input |-> in, head |-> head]

Verify(c) ==
  /\ pc[c] = "verifying"
  /\ Verified(call[c].input, call[c].head)
  /\ receipts' = receipts \cup {Closure(call[c].input, call[c].head)}
  /\ Finish(c)
  /\ UNCHANGED <<journalVars, storeVars, made>>

(* Mutation: a receipt is recovered from the artifacts, whether or not the *)
(* bundle commit is in the journal.                                        *)
RecoverableArtifacts(s) ==
  /\ s - 1 \in 1..known /\ IsInput(log[s - 1])
  /\ BundleArtifact(log[s - 1].id.input, log[s - 1].id.head) \in visible

(* recoverJournalBoundClosureReceipt, of the bundle commit at sequence s.  *)
Recoverable(s) ==
  /\ s \in 2..known
  /\ IsInput(log[s - 1]) /\ IsBundle(log[s])
  /\ log[s].op = log[s - 1].op /\ log[s].auth = log[s - 1].auth
  /\ Verified(log[s - 1].id.input, log[s - 1].id.head)

Recover ==
  /\ open
  /\ \E s \in 2..(known + 1) :
       /\ Recoverable(s)
       /\ receipts' = receipts \cup {Closure(log[s - 1].id.input, log[s - 1].id.head)}
  /\ UNCHANGED <<journalVars, storeVars, pc, call, made>>

-----------------------------------------------------------------------------
(* auditJournalBoundBundleRecovery, of the first n records.                *)
CommitsOf(n, kind) == {i \in 1..n : log[i].kind = kind}

Pending(n) ==
  {i \in CommitsOf(n, "kernel_input_committed") :
     ~(i < n /\ IsBundle(log[i + 1]) /\ log[i + 1].op = log[i].op)}

InputIssues(n) ==
  {i \in CommitsOf(n, "kernel_input_committed") :
     LET m == log[i].id
     IN  ~(m.head = i - 1 /\ ManifestArtifacts(m.input, m.head) \subseteq visible)}
BundleIssues(n) ==
  {i \in CommitsOf(n, "kernel_bundle_committed") : log[i].id \notin visible \/ ~Recoverable(i)}

Referenced(n) ==
  UNION {{log[i].id} \cup (IF log[i].id \in visible
                            THEN ManifestArtifacts(log[i].id.input, log[i].id.head) ELSE {})
           : i \in CommitsOf(n, "kernel_input_committed")}
    \cup {log[i].id : i \in CommitsOf(n, "kernel_bundle_committed")}
Orphans(n) == visible \ Referenced(n)

AuditStatus(n) ==
  IF InputIssues(n) \cup BundleIssues(n) # {} THEN "invalid"
  ELSE IF Pending(n) # {} \/ Orphans(n) # {} \/ temporary THEN "incomplete"
  ELSE "clean"

-----------------------------------------------------------------------------
(* Whatever else happens to the journal and the machine.                   *)
AppendOther ==
  /\ open /\ ~poisoned
  /\ \E e \in OtherEvents :
       /\ FreshId(Memory, e) /\ LifecycleAdmits(Memory, e)
       /\ log' = Append(log, e)
  /\ known' = known + 1
  /\ UNCHANGED <<open, poisoned, storeVars, pc, call, made, receipts>>

OpenJournal ==
  /\ ~open
  /\ open' = TRUE /\ known' = Len(log) /\ poisoned' = FALSE
  /\ UNCHANGED <<log, storeVars, pc, call, made, receipts>>

CloseJournal ==
  /\ open /\ \A c \in Call : pc[c] = "idle"
  /\ open' = FALSE
  /\ UNCHANGED <<log, known, poisoned, storeVars, pc, call, made, receipts>>

Die ==
  /\ open' = FALSE
  /\ pc' = [c \in Call |-> "idle"] /\ call' = [c \in Call |-> NoCall]
  /\ UNCHANGED <<log, known, poisoned, made, receipts>>

Crash == open /\ Die /\ UNCHANGED storeVars

PowerLoss ==
  /\ Die
  /\ \E lost \in SUBSET (visible \ durable) : visible' = visible \ lost
  /\ durable' = visible'
  /\ temporary' \in {temporary, FALSE}

Step(c) ==
  \/ Store(c) \/ Reread(c) \/ StoreBundle(c) \/ PutFails(c)
  \/ Replay(c) \/ Commit(c) \/ CommitUncertain(c) \/ Verify(c) \/ Abandon(c)

Next ==
  \/ \E c \in Call : \/ \E in \in Inputs, head \in 0..known : Start(c, in, head)
                     \/ Step(c)
  \/ Recover \/ AppendOther \/ OpenJournal \/ CloseJournal \/ Crash \/ PowerLoss

Spec == Init /\ [][Next]_vars

-----------------------------------------------------------------------------
(* Properties                                                              *)

(* A receipt stays good: the two commits it points to are adjacent records *)
(* of the journal and every artifact it reaches survives a power loss, so  *)
(* it verifies again after any crash.                                      *)
ReceiptsHold ==
  \A r \in receipts :
    /\ Committed(r.input, r.head)
    /\ ManifestArtifacts(r.input, r.head) \cup {BundleArtifact(r.input, r.head)} \subseteq durable

(* What the journal refers to was durable before it was referred to: an    *)
(* input commit sits right after the source head its manifest names, with  *)
(* the whole manifest stored, and a bundle commit has its bundle.          *)
CommitsBacked ==
  \A i \in 1..Len(log) :
    /\ IsInput(log[i]) =>
         /\ log[i].id.head = i - 1
         /\ ManifestArtifacts(log[i].id.input, i - 1) \subseteq durable
    /\ IsBundle(log[i]) => log[i].id \in durable

(* An input commit is a promise to its exact repetition and to nobody else.*)
(* On a sound handle the call that is repeated is accepted and replays its *)
(* input commit; its bundle replays if it is committed, and otherwise is   *)
(* the only event the journal would append for any call or application.    *)
ExactRepeat ==
  open /\ ~poisoned => \A i \in CommitsOf(known, "kernel_input_committed") :
    LET in == log[i].id.input
        head == log[i].id.head
        bundle == BundleEvent(in, head)
    IN  /\ Accepts(in, head)
        /\ Replays(InputEvent(in, head), head)
        /\ i < known => Replays(bundle, head + 1)
        /\ i = known =>
             /\ Admits(bundle, head + 1)
             /\ \A e \in OtherEvents : ~LifecycleAdmits(Memory, e)
             /\ \A c \in Call :
                  Committing(c) /\ Admits(EventOf(c), HeadOf(c)) => EventOf(c) = bundle

(* Operations are closed once, over one input, and receipts tell no lie.   *)
Registry == INSTANCE ClosureRegistry WITH
  closed <- {Closure(log[i].id.input, log[i].id.head) :
               i \in CommitsOf(Len(log), "kernel_bundle_committed")},
  receipts <- receipts
ImplementsRegistry == Registry!RegistrySpec
=============================================================================
