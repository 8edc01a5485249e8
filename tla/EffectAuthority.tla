--------------------------- MODULE EffectAuthority ---------------------------
(***************************************************************************)
(* The effect authority (src/src/evidence/effect-authority.ts): an operator*)
(* pins a registry of effect contracts and of the keys that may sign for   *)
(* them; the adapter of a system of record reads it and signs what it saw; *)
(* a process of the operator resolves a query from the registry and the    *)
(* journaled start of an operation and verifies statements against it.     *)
(*                                                                         *)
(* Reading, signing and verifying are apart in time: statements wait, are  *)
(* used again, overtake each other and outlive the key or the registry they*)
(* were made under, while the system of record goes on committing.  External:*)
(* the system of record, which closes a contract through some instant and  *)
(* from then on commits no new effect of an operation that was to be final *)
(* by it; its adapter, which reads rows and closure in one linearizable    *)
(* read; operators, who never again put a retired key in force; who signs  *)
(* with a retired key, or for a contract of another authority, signs       *)
(* anything with any dates.                                                *)
(*                                                                         *)
(* Abstractions: hashes, brands and signatures are what they stand for, so *)
(* a statement is only changed by whoever can sign; adapter, environment,  *)
(* tenant, effect type, projection and query key are the contract and the  *)
(* operation; what is refused leaves nothing behind.                       *)
(***************************************************************************)
EXTENDS Naturals, FiniteSets

CONSTANTS
  Contracts, Policy,      \* [authority, marker, delay, maxSign, maxAge] of each contract
  Operations, StartedAt,  \* when each operation was opened, as its journal says
  Keys, Holder,           \* the authority that holds each key
  Manifests,              \* [contracts, keys: key -> [authority, from, until, revoked, allowed]]
  Effects, Payloads,
  Claims,                 \* what is signed by who is no authority for it
  Starts,                 \* the starts callers resolve queries with
  Contract, Operation,    \* whose observations implement EffectReport
  None,
  MaxTime, MaxRows, MaxSigned, MaxVerified  \* bounds

ASSUME TimesAssumption ==
  /\ \A c \in Contracts : {Policy[c].delay, Policy[c].maxSign, Policy[c].maxAge} \subseteq Nat
  /\ \A o \in Operations : StartedAt[o] \in Nat
  /\ Starts \subseteq Nat

(* Operators know who holds the keys they pin.                             *)
ASSUME ManifestsAssumption ==
  \A m \in Manifests :
    /\ m.contracts \subseteq Contracts /\ DOMAIN m.keys \subseteq Keys
    /\ \A k \in DOMAIN m.keys : /\ m.keys[k].authority = Holder[k]
                                /\ {m.keys[k].from, m.keys[k].until} \subseteq Nat

ASSUME JudgedAssumption ==
  /\ Contract \in Contracts /\ Operation \in Operations
  /\ StartedAt[Operation] + Policy[Contract].delay > 0

VARIABLES
  now,
  held,      \* [contract][operation]: every row the system of record holds or held
  closure,   \* of each marker: the instant it is closed through
  registry,  \* the registry the verifying process has derived
  retired,   \* keys that are not kept any more
  draft,     \* what the adapter read and has not signed
  signed,    \* statements
  verified   \* history: [query, statement]

worldVars == <<now, held, closure>>
vars == <<now, held, closure, registry, retired, draft, signed, verified>>

Markers == {Policy[c].marker : c \in Contracts}

FinalAfter(c, start) == start + Policy[c].delay

-----------------------------------------------------------------------------
(* The registry.                                                           *)
WellFormed(m) ==
  /\ m.contracts # {} /\ DOMAIN m.keys # {}
  /\ \A k \in DOMAIN m.keys :
       /\ m.keys[k].from < m.keys[k].until
       /\ m.keys[k].allowed # {}
       /\ \A c \in m.keys[k].allowed : c \in m.contracts /\ Policy[c].authority = m.keys[k].authority
  /\ \A c \in m.contracts : \E k \in DOMAIN m.keys : c \in m.keys[k].allowed

(* What verifying with the registry may still accept the key for.          *)
InForce(m, k) == k \in DOMAIN m.keys /\ ~m.keys[k].revoked /\ now < m.keys[k].until

Init ==
  /\ now = 0
  /\ held = [c \in Contracts |-> [o \in Operations |-> {}]]
  /\ closure = [m \in Markers |-> 0]
  /\ registry \in {m \in Manifests : WellFormed(m)}
  /\ retired = {} /\ draft = None
  /\ signed = {} /\ verified = {}

Repin(m) ==
  /\ WellFormed(m)
  /\ \A k \in retired : ~InForce(m, k)
  /\ registry' = m
  /\ UNCHANGED <<worldVars, retired, draft, signed, verified>>

Retire(k) ==
  /\ k \notin retired /\ ~InForce(registry, k)
  /\ retired' = retired \cup {k}
  /\ UNCHANGED <<worldVars, registry, draft, signed, verified>>

-----------------------------------------------------------------------------
(* The system of record.                                                   *)
Tick ==
  /\ now < MaxTime /\ now' = now + 1
  /\ UNCHANGED <<held, closure, registry, retired, draft, signed, verified>>

Closed(c, o) == closure[Policy[c].marker] >= FinalAfter(c, StartedAt[o])

(* A row of a new effect, or the payload of one that is there.             *)
Commit(c, o, effect, payload) ==
  /\ StartedAt[o] <= now
  /\ ~Closed(c, o) \/ \E row \in held[c][o] : row.effect = effect
  /\ held' = [held EXCEPT ![c][o] = @ \cup {[effect |-> effect, payload |-> payload, at |-> now]}]
  /\ Cardinality(UNION {held'[d][p] : d \in Contracts, p \in Operations}) <= MaxRows
  /\ UNCHANGED <<now, closure, registry, retired, draft, signed, verified>>

Close(marker, through) ==
  /\ closure[marker] < through /\ through <= now
  /\ closure' = [closure EXCEPT ![marker] = through]
  /\ UNCHANGED <<now, held, registry, retired, draft, signed, verified>>

-----------------------------------------------------------------------------
(* The adapter of the authority.                                           *)
Outcome(kind, rows, marker, through, closedAt) ==
  [kind |-> kind, rows |-> rows, marker |-> marker, through |-> through, closedAt |-> closedAt]

Outcomes(c, o) ==
  {Outcome("one", {row}, None, 0, 0) : row \in held[c][o]}
    \cup {Outcome("multiple", p, None, 0, 0) : p \in
            {{a, b} : a, b \in held[c][o]} \ {{a} : a \in held[c][o]}}
    \cup (LET marker == Policy[c].marker
           IN  {Outcome("zero", {}, marker, closure[marker], t) :
                  t \in {t \in closure[marker]..now : held[c][o] = {}}})
    \cup {Outcome("unknown", {}, None, 0, 0)}

Read(c, o) ==
  /\ Cardinality(signed) < MaxSigned
  /\ \E outcome \in Outcomes(c, o) :
       draft' = [contract |-> c, op |-> o, start |-> StartedAt[o], observedAt |-> now,
                 outcome |-> outcome]
  /\ UNCHANGED <<worldVars, registry, retired, signed, verified>>

Speaks(k, c) == k \notin retired /\ Holder[k] = Policy[c].authority

Statement(k, d, signedAt, m) ==
  [key |-> k, registry |-> m, contract |-> d.contract, op |-> d.op, start |-> d.start,
   observedAt |-> d.observedAt, signedAt |-> signedAt, outcome |-> d.outcome]

Send(statement) ==
  /\ signed' = signed \cup {statement}
  /\ Cardinality(signed') <= MaxSigned
  /\ UNCHANGED <<worldVars, registry, retired, verified>>

Sign(k) ==
  /\ draft # None
  /\ Speaks(k, draft.contract)
  /\ draft' = None
  /\ Send(Statement(k, draft, now, registry))

(* Somebody else, who has nothing to say about the contract, signs.        *)
Missign(k, claim) ==
  /\ ~Speaks(k, claim.contract)
  /\ Send(Statement(k, claim, claim.signedAt, registry))
  /\ UNCHANGED draft

-----------------------------------------------------------------------------
(* The process that verifies.                                              *)
(* Of a contract of the registry and an operation, by what its journal says.*)
Queries ==
  [contract : registry.contracts, op : Operations, start : Starts]

FinalAfterOf(q) == FinalAfter(q.contract, q.start)

OutcomeValid(outcome) ==
  LET rows == outcome.rows
  IN  CASE outcome.kind = "one" -> \E a \in rows : rows = {a}
        [] outcome.kind = "multiple" ->
             \E a, b \in rows : rows = {a, b} /\ a.effect # b.effect
        [] OTHER -> outcome.kind \in {"zero", "unknown"} /\ rows = {}

KeyAuthorized(q, s) ==
  /\ s.key \in DOMAIN registry.keys
  /\ registry.keys[s.key].authority = Policy[q.contract].authority
  /\ q.contract \in registry.keys[s.key].allowed

(* Mutation: the payload is bound to the operation, not to the contract.   *)
BoundToOperation(q, s) ==
  /\ s.registry = registry
  /\ s.op = q.op /\ s.start = q.start

PayloadBound(q, s) ==
  /\ s.registry = registry
  /\ s.contract = q.contract /\ s.op = q.op
  /\ s.start = q.start

(* Mutation: the key was in its window when the statement says so.         *)
KeyValidWhenSigned(s) ==
  /\ ~registry.keys[s.key].revoked
  /\ \A t \in {s.observedAt, s.signedAt} :
       registry.keys[s.key].from <= t /\ t < registry.keys[s.key].until

KeyValid(s) ==
  /\ ~registry.keys[s.key].revoked
  /\ \A t \in {s.observedAt, s.signedAt, now} :
       registry.keys[s.key].from <= t /\ t < registry.keys[s.key].until

InOrder(q, s) ==
  /\ q.start <= s.observedAt /\ s.observedAt <= s.signedAt /\ s.signedAt <= now
  /\ s.signedAt <= s.observedAt + Policy[q.contract].maxSign
  /\ now <= s.signedAt + Policy[q.contract].maxAge

(* Mutation: an absence that was observed after finalAfter is final.       *)
HorizonObserved(q, s) ==
  /\ s.outcome.marker = Policy[q.contract].marker
  /\ FinalAfterOf(q) <= s.observedAt
  /\ s.outcome.through <= s.outcome.closedAt /\ s.outcome.closedAt <= s.observedAt

HorizonReached(q, s) ==
  /\ s.outcome.marker = Policy[q.contract].marker
  /\ FinalAfterOf(q) <= s.observedAt /\ FinalAfterOf(q) <= s.outcome.through
  /\ s.outcome.through <= s.outcome.closedAt /\ s.outcome.closedAt <= s.observedAt

CommitsInOrder(q, s) == \A row \in s.outcome.rows : q.start <= row.at /\ row.at <= s.observedAt

Verify(q, s) ==
  /\ OutcomeValid(s.outcome)
  /\ KeyAuthorized(q, s) /\ PayloadBound(q, s)
  /\ KeyValid(s) /\ InOrder(q, s)
  /\ s.outcome.kind = "zero" => HorizonReached(q, s)
  /\ CommitsInOrder(q, s)
  /\ verified' = verified \cup {[query |-> q, statement |-> s]}
  /\ Cardinality(verified') <= MaxVerified
  /\ UNCHANGED <<worldVars, registry, retired, draft, signed>>

(* What the kernel is given of a verified statement.                       *)
ObservationsFor(v) ==
  LET outcome == v.statement.outcome
      Seen(status, authoritative, effect, payload) ==
        [op |-> v.query.op, contract |-> v.query.contract, status |-> status,
         authoritative |-> authoritative,
         late |-> status = "absent" /\ FinalAfterOf(v.query) <= v.statement.observedAt,
         effect |-> effect, payload |-> payload]
  IN  CASE outcome.kind = "zero" -> {Seen("absent", TRUE, "none", "none")}
        [] outcome.kind = "unknown" -> {Seen("unknown", FALSE, "none", "none")}
        [] OTHER -> {Seen("committed", TRUE, row.effect, row.payload) : row \in outcome.rows}

Next ==
  \/ Tick
  \/ \E m \in Manifests : Repin(m)
  \/ \E k \in Keys : Retire(k)
  \/ \E c \in Contracts, o \in Operations, e \in Effects, p \in Payloads : Commit(c, o, e, p)
  \/ \E marker \in Markers, through \in 1..MaxTime : Close(marker, through)
  \/ \E c \in Contracts, o \in Operations : Read(c, o)
  \/ \E k \in Keys : Sign(k)
  \/ \E k \in Keys, claim \in Claims : Missign(k, claim)
  \/ \E q \in Queries, s \in signed : Verify(q, s)

Spec == Init /\ [][Next]_vars

-----------------------------------------------------------------------------
(* Properties.                                                             *)

(* An absence that was verified is one for ever: no effect of the operation*)
(* is there under the contract, and none ever comes.                       *)
AbsenceIsFinal ==
  \A v \in verified :
    v.statement.outcome.kind = "zero" => held[v.query.contract][v.query.op] = {}

(* A commit that was verified happened, under that contract, after the     *)
(* operation was opened.                                                   *)
CommitsHappened ==
  \A v \in verified : \A row \in v.statement.outcome.rows :
    row \in held[v.query.contract][v.query.op] /\ StartedAt[v.query.op] <= row.at

(* What is verified of one operation under one contract is what            *)
(* EffectReport promises.                                                  *)
Judged == {v \in verified : v.query.contract = Contract /\ v.query.op = Operation}

EffectPromise ==
  INSTANCE EffectReport WITH
    Records <- [effect : Effects, payload : Payloads],
    held <- {[effect |-> row.effect, payload |-> row.payload] : row \in held[Contract][Operation]},
    final <- Closed(Contract, Operation),
    observations <- UNION {ObservationsFor(v) : v \in Judged}

ImplementsEffectReport == EffectPromise!EffectSpec
=============================================================================
