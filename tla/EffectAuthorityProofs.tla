------------------------ MODULE EffectAuthorityProofs ------------------------
(***************************************************************************)
(* Proofs about EffectAuthority, for any contracts, keys, manifests and    *)
(* claims.                                                                 *)
(*                                                                         *)
(* What was verified is not inductive: it rests on what was signed by those*)
(* who speak for the contract (SignedTrue), which was read from the system *)
(* of record (DraftTrue) and stays true because rows and closures only grow*)
(* (WorldMoves); and on the keys in force being those of such signers      *)
(* (RetiredOut).                                                           *)
(***************************************************************************)
EXTENDS EffectAuthority, TLAPS

Rows == [effect : Effects, payload : Payloads, at : Nat]

TypesOK ==
  /\ now \in Nat
  /\ held \in [Contracts -> [Operations -> SUBSET Rows]]
  /\ closure \in [Markers -> Nat]
  /\ registry \in Manifests /\ WellFormed(registry)

Truthful(c, o, outcome) ==
  /\ outcome.rows \subseteq held[c][o]
  /\ outcome.kind = "zero" =>
       /\ outcome.through \in Nat /\ outcome.through <= closure[Policy[c].marker]
       /\ outcome.through >= FinalAfter(c, StartedAt[o]) => held[c][o] = {}

Reads(d) ==
  /\ d.contract \in Contracts /\ d.op \in Operations /\ d.start = StartedAt[d.op]
  /\ Truthful(d.contract, d.op, d.outcome)

DraftTrue == draft # None => Reads(draft)

SignedTrue == \A s \in signed : Speaks(s.key, s.contract) => Reads(s)

RetiredOut == \A k \in retired : ~InForce(registry, k)

Holds(v) ==
  /\ v.query.contract \in Contracts /\ v.query.op \in Operations
  /\ v.statement.outcome.rows \subseteq held[v.query.contract][v.query.op]
  /\ \A row \in v.statement.outcome.rows : StartedAt[v.query.op] <= row.at
  /\ v.statement.outcome.kind = "zero" =>
       Closed(v.query.contract, v.query.op) /\ held[v.query.contract][v.query.op] = {}

VerifiedTrue == \A v \in verified : Holds(v)

IInv == TypesOK /\ DraftTrue /\ SignedTrue /\ RetiredOut /\ VerifiedTrue

-----------------------------------------------------------------------------
(* The world moves in one direction: rows are added, closures advance, and *)
(* what is closed without a row stays without one.                         *)
WorldMoves ==
  /\ \A c \in Contracts, o \in Operations :
       /\ held[c][o] \subseteq held'[c][o]
       /\ Closed(c, o) /\ held[c][o] = {} => held'[c][o] = {}
  /\ \A c \in Contracts : closure[Policy[c].marker] <= closure'[Policy[c].marker]

LEMMA ClosureTyped ==
  ASSUME TypesOK, NEW c \in Contracts, NEW o \in Operations
  PROVE  closure[Policy[c].marker] \in Nat /\ FinalAfter(c, StartedAt[o]) \in Nat
<1>1. Policy[c].marker \in Markers
  BY DEF Markers
<1>2. Policy[c].delay \in Nat /\ StartedAt[o] \in Nat
  BY TimesAssumption
<1> QED
  BY <1>1, <1>2 DEF TypesOK, FinalAfter

LEMMA StillWorld ==
  ASSUME TypesOK, UNCHANGED <<held, closure>>
  PROVE  WorldMoves
<1>1. \A c \in Contracts : closure[Policy[c].marker] \in Nat
  BY DEF TypesOK, Markers
<1> QED
  BY <1>1 DEF WorldMoves

LEMMA MovesOn ==
  ASSUME TypesOK, [Next]_vars
  PROVE  WorldMoves
<1>1. ASSUME NEW c \in Contracts, NEW o \in Operations, NEW e \in Effects, NEW p \in Payloads,
             Commit(c, o, e, p)
      PROVE  WorldMoves
  <2>1. \A d \in Contracts : closure'[Policy[d].marker] = closure[Policy[d].marker]
                             /\ closure[Policy[d].marker] \in Nat
    BY <1>1 DEF Commit, TypesOK, Markers
  <2>2. \A d \in Contracts, q \in Operations :
          held'[d][q] = IF d = c /\ q = o
                        THEN held[c][o] \cup {[effect |-> e, payload |-> p, at |-> now]}
                        ELSE held[d][q]
    BY <1>1 DEF Commit, TypesOK
  <2>3. ~(Closed(c, o) /\ held[c][o] = {})
    BY <1>1 DEF Commit
  <2> QED
    BY <2>1, <2>2, <2>3 DEF WorldMoves
<1>2. ASSUME NEW marker \in Markers, NEW through \in 1..MaxTime, Close(marker, through)
      PROVE  WorldMoves
  <2>1. ASSUME NEW c \in Contracts
        PROVE  closure[Policy[c].marker] <= closure'[Policy[c].marker]
    <3>1. Policy[c].marker \in Markers
      BY DEF Markers
    <3>2. closure'[Policy[c].marker] = IF Policy[c].marker = marker THEN through
                                       ELSE closure[Policy[c].marker]
      BY <1>2, <3>1 DEF Close, TypesOK
    <3>3. closure[marker] < through /\ through <= now
      BY <1>2 DEF Close
    <3> QED
      BY <3>1, <3>2, <3>3 DEF TypesOK
  <2>2. held' = held
    BY <1>2 DEF Close
  <2> QED
    BY <2>1, <2>2 DEF WorldMoves
<1>3. CASE UNCHANGED <<held, closure>>
  BY <1>3, StillWorld
<1>4. Tick => UNCHANGED <<held, closure>>
  BY DEF Tick
<1>5. \A m \in Manifests : Repin(m) => UNCHANGED <<held, closure>>
  BY DEF Repin, worldVars
<1>6. \A k \in Keys : Retire(k) => UNCHANGED <<held, closure>>
  BY DEF Retire, worldVars
<1>7. \A c \in Contracts, o \in Operations : Read(c, o) => UNCHANGED <<held, closure>>
  BY DEF Read, worldVars
<1>8. \A k \in Keys : Sign(k) => UNCHANGED <<held, closure>>
  BY DEF Sign, Send, worldVars
<1>9. \A k \in Keys, claim \in Claims : Missign(k, claim) => UNCHANGED <<held, closure>>
  BY DEF Missign, Send, worldVars
<1>10. \A q \in Queries, s \in signed : Verify(q, s) => UNCHANGED <<held, closure>>
  BY DEF Verify, worldVars
<1> QED
  BY <1>1, <1>2, <1>3, <1>4, <1>5, <1>6, <1>7, <1>8, <1>9, <1>10 DEF Next, vars

(* What was read stays true.                                               *)
LEMMA ReadsLast ==
  ASSUME TypesOK, WorldMoves, NEW d, Reads(d), TypesOK'
  PROVE  Reads(d)'
<1> DEFINE c == d.contract  o == d.op  outcome == d.outcome
<1>1. c \in Contracts /\ o \in Operations /\ Truthful(c, o, outcome)
  BY DEF Reads
<1>2. /\ closure[Policy[c].marker] \in Nat /\ closure'[Policy[c].marker] \in Nat
      /\ FinalAfter(c, StartedAt[o]) \in Nat
  BY <1>1, ClosureTyped, TimesAssumption DEF TypesOK, Markers
<1>3. outcome.rows \subseteq held'[c][o]
  BY <1>1 DEF WorldMoves, Truthful
<1>4. ASSUME outcome.kind = "zero"
      PROVE  /\ outcome.through \in Nat /\ outcome.through <= closure'[Policy[c].marker]
             /\ outcome.through >= FinalAfter(c, StartedAt[o]) => held'[c][o] = {}
  <2>1. /\ outcome.through \in Nat /\ outcome.through <= closure[Policy[c].marker]
        /\ outcome.through >= FinalAfter(c, StartedAt[o]) => held[c][o] = {}
    BY <1>1, <1>4 DEF Truthful
  <2>2. outcome.through <= closure'[Policy[c].marker]
    BY <1>1, <1>2, <2>1 DEF WorldMoves
  <2>3. outcome.through >= FinalAfter(c, StartedAt[o]) => Closed(c, o)
    BY <1>2, <2>1 DEF Closed
  <2> QED
    BY <1>1, <2>1, <2>2, <2>3 DEF WorldMoves
<1> QED
  BY <1>3, <1>4 DEF Reads, Truthful, FinalAfter

LEMMA HoldsLast ==
  ASSUME TypesOK, WorldMoves, NEW v, Holds(v), TypesOK'
  PROVE  Holds(v)'
<1> DEFINE c == v.query.contract  o == v.query.op
<1>1. c \in Contracts /\ o \in Operations
  BY DEF Holds
<1>2. /\ closure[Policy[c].marker] \in Nat /\ closure'[Policy[c].marker] \in Nat
      /\ FinalAfter(c, StartedAt[o]) \in Nat
  BY <1>1, ClosureTyped, TimesAssumption DEF TypesOK, Markers
<1>3. closure[Policy[c].marker] <= closure'[Policy[c].marker]
  BY <1>1 DEF WorldMoves
<1>4. Closed(c, o) => closure'[Policy[c].marker] >= FinalAfter(c, StartedAt[o])
  BY <1>2, <1>3 DEF Closed
<1>5. held[c][o] \subseteq held'[c][o] /\ (Closed(c, o) /\ held[c][o] = {} => held'[c][o] = {})
  BY <1>1 DEF WorldMoves
<1> QED
  BY <1>4, <1>5 DEF Holds, Closed, FinalAfter

-----------------------------------------------------------------------------
(* What an adapter reads is so when it reads it.                           *)
LEMMA ReadIsTrue ==
  ASSUME TypesOK, NEW c \in Contracts, NEW o \in Operations, NEW outcome \in Outcomes(c, o)
  PROVE  Truthful(c, o, outcome)
<1> DEFINE marker == Policy[c].marker
<1>1. CASE outcome \in {Outcome("one", {row}, None, 0, 0) : row \in held[c][o]}
  BY <1>1 DEF Outcome, Truthful
<1>2. CASE outcome \in {Outcome("multiple", p, None, 0, 0) :
                          p \in {{a, b} : a, b \in held[c][o]} \ {{a} : a \in held[c][o]}}
  BY <1>2 DEF Outcome, Truthful
<1>3. CASE outcome \in {Outcome("zero", {}, marker, closure[marker], t) :
                          t \in {t \in closure[marker]..now : held[c][o] = {}}}
  <2>1. closure[marker] \in Nat
    BY ClosureTyped
  <2>2. held[c][o] = {} /\ \E t : outcome = Outcome("zero", {}, marker, closure[marker], t)
    BY <1>3
  <2> QED
    BY <2>1, <2>2 DEF Outcome, Truthful
<1>4. CASE outcome \in {Outcome("unknown", {}, None, 0, 0)}
  BY <1>4 DEF Outcome, Truthful
<1> QED
  BY <1>1, <1>2, <1>3, <1>4 DEF Outcomes

(* A key that is in force for a query belongs to somebody who speaks for   *)
(* its contract, so what was signed with it and is bound to the query is   *)
(* true.                                                                   *)
LEMMA AcceptedHolds ==
  ASSUME IInv, NEW q \in Queries, NEW s \in signed, Verify(q, s)
  PROVE  Holds([query |-> q, statement |-> s])
<1> DEFINE c == q.contract  o == q.op
<1>1. c \in Contracts /\ o \in Operations
  BY ManifestsAssumption DEF IInv, TypesOK, Queries
<1>2. s.contract = c /\ s.op = o /\ s.start = q.start
  BY DEF Verify, PayloadBound
<1>3. InForce(registry, s.key)
  BY DEF Verify, KeyAuthorized, KeyValid, InForce
<1>4. Speaks(s.key, c)
  BY <1>3, ManifestsAssumption DEF IInv, TypesOK, RetiredOut, Verify, KeyAuthorized, Speaks
<1>5. Reads(s)
  BY <1>2, <1>4 DEF IInv, SignedTrue
<1>6. q.start = StartedAt[o] /\ Truthful(c, o, s.outcome)
  BY <1>2, <1>5 DEF Reads
<1>7. \A row \in s.outcome.rows : StartedAt[o] <= row.at
  BY <1>6 DEF Verify, CommitsInOrder
<1>8. ASSUME s.outcome.kind = "zero"
      PROVE  Closed(c, o) /\ held[c][o] = {}
  <2>1. FinalAfter(c, StartedAt[o]) <= s.outcome.through
    BY <1>6, <1>8 DEF Verify, HorizonReached, FinalAfterOf
  <2>2. s.outcome.through \in Nat /\ s.outcome.through <= closure[Policy[c].marker]
    BY <1>6, <1>8 DEF Truthful
  <2>3. closure[Policy[c].marker] \in Nat /\ FinalAfter(c, StartedAt[o]) \in Nat
    BY <1>1, ClosureTyped DEF IInv
  <2>4. held[c][o] = {}
    BY <1>6, <1>8, <2>1, <2>2, <2>3 DEF Truthful
  <2> QED
    BY <2>1, <2>2, <2>3, <2>4 DEF Closed
<1> QED
  BY <1>1, <1>6, <1>7, <1>8 DEF Holds, Truthful

-----------------------------------------------------------------------------
LEMMA TypesLast ==
  ASSUME TypesOK, [Next]_vars
  PROVE  TypesOK'
<1>1. CASE Tick
  BY <1>1 DEF Tick, TypesOK, WellFormed
<1>2. ASSUME NEW m \in Manifests, Repin(m) PROVE TypesOK'
  BY <1>2 DEF Repin, worldVars, TypesOK, WellFormed
<1>3. ASSUME NEW c \in Contracts, NEW o \in Operations, NEW e \in Effects, NEW p \in Payloads,
             Commit(c, o, e, p)
      PROVE  TypesOK'
  <2>1. [effect |-> e, payload |-> p, at |-> now] \in Rows
    BY DEF Rows, TypesOK
  <2> HIDE DEF Rows
  <2>2. held' \in [Contracts -> [Operations -> SUBSET Rows]]
    BY <1>3, <2>1 DEF Commit, TypesOK
  <2> QED
    BY <1>3, <2>2 DEF Commit, TypesOK, WellFormed
<1>4. ASSUME NEW marker \in Markers, NEW through \in 1..MaxTime, Close(marker, through)
      PROVE  TypesOK'
  <2>1. closure' \in [Markers -> Nat]
    BY <1>4 DEF Close, TypesOK
  <2> QED
    BY <1>4, <2>1 DEF Close, TypesOK, WellFormed
<1>5. CASE UNCHANGED <<now, held, closure, registry>>
  BY <1>5 DEF TypesOK, WellFormed
<1>6. \A k \in Keys : Retire(k) => UNCHANGED <<now, held, closure, registry>>
  BY DEF Retire, worldVars
<1>7. \A c \in Contracts, o \in Operations : Read(c, o) => UNCHANGED <<now, held, closure, registry>>
  BY DEF Read, worldVars
<1>8. \A k \in Keys : Sign(k) => UNCHANGED <<now, held, closure, registry>>
  BY DEF Sign, Send, worldVars
<1>9. \A k \in Keys, claim \in Claims :
        Missign(k, claim) => UNCHANGED <<now, held, closure, registry>>
  BY DEF Missign, Send, worldVars
<1>10. \A q \in Queries, s \in signed :
         Verify(q, s) => UNCHANGED <<now, held, closure, registry>>
  BY DEF Verify, worldVars
<1>11. UNCHANGED vars => UNCHANGED <<now, held, closure, registry>>
  BY DEF vars
<1> QED
  BY <1>1, <1>2, <1>3, <1>4, <1>5, <1>6, <1>7, <1>8, <1>9, <1>10, <1>11 DEF Next

(* No step puts a retired key back in force.                               *)
LEMMA RetiredLast ==
  ASSUME TypesOK, RetiredOut, [Next]_vars
  PROVE  RetiredOut'
<1>1. CASE Tick
  <2>1. ASSUME NEW k \in retired, InForce(registry, k)'
        PROVE  InForce(registry, k)
    <3>1. /\ registry' = registry /\ now' = now + 1
          /\ k \in DOMAIN registry.keys
          /\ ~registry.keys[k].revoked /\ now' < registry.keys[k].until
      BY <1>1, <2>1 DEF Tick, InForce
    <3>2. now \in Nat /\ registry.keys[k].until \in Nat
      BY <3>1, ManifestsAssumption DEF TypesOK
    <3> QED
      BY <3>1, <3>2 DEF InForce
  <2> QED
    BY <1>1, <2>1 DEF Tick, RetiredOut
<1>2. ASSUME NEW m \in Manifests, Repin(m) PROVE RetiredOut'
  BY <1>2 DEF Repin, worldVars, RetiredOut, InForce
<1>3. ASSUME NEW k \in Keys, Retire(k) PROVE RetiredOut'
  BY <1>3 DEF Retire, worldVars, RetiredOut, InForce
<1>4. CASE UNCHANGED <<now, registry, retired>>
  BY <1>4 DEF RetiredOut, InForce
<1>5. \A c \in Contracts, o \in Operations, e \in Effects, p \in Payloads :
        Commit(c, o, e, p) => UNCHANGED <<now, registry, retired>>
  BY DEF Commit
<1>6. \A marker \in Markers, through \in 1..MaxTime :
        Close(marker, through) => UNCHANGED <<now, registry, retired>>
  BY DEF Close
<1>7. \A c \in Contracts, o \in Operations : Read(c, o) => UNCHANGED <<now, registry, retired>>
  BY DEF Read, worldVars
<1>8. \A k \in Keys : Sign(k) => UNCHANGED <<now, registry, retired>>
  BY DEF Sign, Send, worldVars
<1>9. \A k \in Keys, claim \in Claims : Missign(k, claim) => UNCHANGED <<now, registry, retired>>
  BY DEF Missign, Send, worldVars
<1>10. \A q \in Queries, s \in signed : Verify(q, s) => UNCHANGED <<now, registry, retired>>
  BY DEF Verify, worldVars
<1>11. UNCHANGED vars => UNCHANGED <<now, registry, retired>>
  BY DEF vars
<1> QED
  BY <1>1, <1>2, <1>3, <1>4, <1>5, <1>6, <1>7, <1>8, <1>9, <1>10, <1>11 DEF Next

(* The three stages of a statement.                                        *)
LEMMA DraftLast ==
  ASSUME IInv, TypesOK', [Next]_vars
  PROVE  DraftTrue'
<1>1. WorldMoves
  BY MovesOn DEF IInv
<1>2. ASSUME NEW c \in Contracts, NEW o \in Operations, Read(c, o)
      PROVE  DraftTrue'
  <2>1. PICK outcome \in Outcomes(c, o) :
          draft' = [contract |-> c, op |-> o, start |-> StartedAt[o], observedAt |-> now,
                    outcome |-> outcome]
    BY <1>2 DEF Read
  <2>2. Truthful(c, o, outcome)
    BY ReadIsTrue DEF IInv
  <2>3. held' = held /\ closure' = closure
    BY <1>2 DEF Read, worldVars
  <2> QED
    BY <2>1, <2>2, <2>3 DEF DraftTrue, Reads, Truthful, FinalAfter
<1>3. ASSUME NEW k \in Keys, Sign(k)
      PROVE  DraftTrue'
  BY <1>3 DEF Sign, DraftTrue
<1>4. ASSUME draft' = draft
      PROVE  DraftTrue'
  <2>1. PICK d : d = draft
    OBVIOUS
  <2>2. d # None => Reads(d)
    BY <2>1 DEF IInv, DraftTrue
  <2>3. d # None => Reads(d)'
    BY <1>1, <2>2, ReadsLast DEF IInv
  <2> QED
    BY <1>4, <2>1, <2>3 DEF DraftTrue, Reads, Truthful
<1>5. Tick => draft' = draft
  BY DEF Tick
<1>6. \A m \in Manifests : Repin(m) => draft' = draft
  BY DEF Repin, worldVars
<1>7. \A k \in Keys : Retire(k) => draft' = draft
  BY DEF Retire, worldVars
<1>8. \A c \in Contracts, o \in Operations, e \in Effects, p \in Payloads :
        Commit(c, o, e, p) =>
        draft' = draft
  BY DEF Commit
<1>9. \A marker \in Markers, through \in 1..MaxTime : Close(marker, through) =>
        draft' = draft
  BY DEF Close
<1>10. \A k \in Keys, claim \in Claims : Missign(k, claim) => draft' = draft
  BY DEF Missign, Send, worldVars
<1>11. \A q \in Queries, s \in signed : Verify(q, s) => draft' = draft
  BY DEF Verify, worldVars
<1>12. UNCHANGED vars => draft' = draft
  BY DEF vars
<1> QED
  BY <1>2, <1>3, <1>4, <1>5, <1>6, <1>7, <1>8, <1>9, <1>10, <1>11, <1>12 DEF Next

LEMMA SignedLast ==
  ASSUME IInv, TypesOK', DraftTrue', [Next]_vars
  PROVE  SignedTrue'
<1>1. WorldMoves
  BY MovesOn DEF IInv
<1>2. \A s \in signed : Speaks(s.key, s.contract) => Reads(s)'
  BY <1>1, ReadsLast DEF IInv, SignedTrue
<1>3. retired \subseteq retired'
  <2>1. Tick => retired \subseteq retired'
    BY DEF Tick
  <2>2. \A m \in Manifests : Repin(m) => retired \subseteq retired'
    BY DEF Repin, worldVars
  <2>3. \A k \in Keys : Retire(k) => retired \subseteq retired'
    BY DEF Retire, worldVars
  <2>4. \A c \in Contracts, o \in Operations, e \in Effects, p \in Payloads :
          Commit(c, o, e, p) =>
          retired \subseteq retired'
    BY DEF Commit
  <2>5. \A marker \in Markers, through \in 1..MaxTime : Close(marker, through) =>
          retired \subseteq retired'
    BY DEF Close
  <2>6. \A c \in Contracts, o \in Operations : Read(c, o) => retired \subseteq retired'
    BY DEF Read, worldVars
  <2>7. \A k \in Keys : Sign(k) => retired \subseteq retired'
    BY DEF Sign, Send, worldVars
  <2>8. \A k \in Keys, claim \in Claims : Missign(k, claim) => retired \subseteq retired'
    BY DEF Missign, Send, worldVars
  <2>9. \A q \in Queries, s \in signed : Verify(q, s) => retired \subseteq retired'
    BY DEF Verify, worldVars
  <2>10. UNCHANGED vars => retired \subseteq retired'
    BY DEF vars
  <2> QED
    BY <2>1, <2>2, <2>3, <2>4, <2>5, <2>6, <2>7, <2>8, <2>9, <2>10 DEF Next
<1>4. \A s \in signed : Speaks(s.key, s.contract)' => Speaks(s.key, s.contract)
  BY <1>3 DEF Speaks
<1>5. ASSUME NEW k \in Keys, Sign(k)
      PROVE  SignedTrue'
  <2> DEFINE s == Statement(k, draft, now, registry)
  <2>1. signed' = signed \cup {s} /\ UNCHANGED worldVars
    BY <1>5 DEF Sign, Send
  <2>2. Reads(draft)
    BY <1>5 DEF Sign, IInv, DraftTrue
  <2>3. /\ s.contract = draft.contract /\ s.op = draft.op
        /\ s.start = draft.start /\ s.outcome = draft.outcome
    BY DEF Statement
  <2>4. Reads(s)
    BY <2>2, <2>3 DEF Reads
  <2> HIDE DEF s
  <2>5. \A t \in signed' : t = s => Reads(t)'
    BY <2>1, <2>4 DEF worldVars, Reads, Truthful, FinalAfter
  <2> QED
    BY <1>2, <1>4, <2>1, <2>5 DEF SignedTrue
<1>6. ASSUME NEW k \in Keys, NEW claim \in Claims, Missign(k, claim)
      PROVE  SignedTrue'
  <2> DEFINE s == Statement(k, claim, claim.signedAt, registry)
  <2>1. signed' = signed \cup {s} /\ retired' = retired
    BY <1>6 DEF Missign, Send
  <2>2. ~Speaks(s.key, s.contract)
    BY <1>6 DEF Missign, Statement
  <2> HIDE DEF s
  <2>3. \A t \in signed' : t = s => ~Speaks(t.key, t.contract)'
    BY <2>1, <2>2 DEF Speaks
  <2> QED
    BY <1>2, <1>4, <2>1, <2>3 DEF SignedTrue
<1>7. ASSUME signed' = signed
      PROVE  SignedTrue'
  BY <1>2, <1>4, <1>7 DEF SignedTrue
<1>8. Tick => signed' = signed
  BY DEF Tick
<1>9. \A m \in Manifests : Repin(m) => signed' = signed
  BY DEF Repin, worldVars
<1>10. \A k \in Keys : Retire(k) => signed' = signed
  BY DEF Retire, worldVars
<1>11. \A c \in Contracts, o \in Operations, e \in Effects, p \in Payloads :
        Commit(c, o, e, p) =>
        signed' = signed
  BY DEF Commit
<1>12. \A marker \in Markers, through \in 1..MaxTime : Close(marker, through) =>
        signed' = signed
  BY DEF Close
<1>13. \A c \in Contracts, o \in Operations : Read(c, o) => signed' = signed
  BY DEF Read, worldVars
<1>14. \A q \in Queries, s \in signed : Verify(q, s) => signed' = signed
  BY DEF Verify, worldVars
<1>15. UNCHANGED vars => signed' = signed
  BY DEF vars
<1> QED
  BY <1>5, <1>6, <1>7, <1>8, <1>9, <1>10, <1>11, <1>12, <1>13, <1>14, <1>15 DEF Next

LEMMA VerifiedLast ==
  ASSUME IInv, TypesOK', [Next]_vars
  PROVE  VerifiedTrue'
<1>1. WorldMoves
  BY MovesOn DEF IInv
<1>2. \A v \in verified : Holds(v)'
  BY <1>1, HoldsLast DEF IInv, VerifiedTrue
<1>3. ASSUME NEW q \in Queries, NEW s \in signed, Verify(q, s)
      PROVE  VerifiedTrue'
  <2>1. PICK v : v = [query |-> q, statement |-> s]
    OBVIOUS
  <2>2. Holds(v)
    BY <1>3, <2>1, AcceptedHolds
  <2>3. Holds(v)'
    BY <1>1, <2>2, HoldsLast DEF IInv
  <2>4. verified' = verified \cup {v}
    BY <1>3, <2>1 DEF Verify
  <2> QED
    BY <1>2, <2>3, <2>4 DEF VerifiedTrue
<1>4. ASSUME verified' = verified
      PROVE  VerifiedTrue'
  BY <1>2, <1>4 DEF VerifiedTrue
<1>5. Tick => verified' = verified
  BY DEF Tick
<1>6. \A m \in Manifests : Repin(m) => verified' = verified
  BY DEF Repin, worldVars
<1>7. \A k \in Keys : Retire(k) => verified' = verified
  BY DEF Retire, worldVars
<1>8. \A c \in Contracts, o \in Operations, e \in Effects, p \in Payloads :
        Commit(c, o, e, p) =>
        verified' = verified
  BY DEF Commit
<1>9. \A marker \in Markers, through \in 1..MaxTime : Close(marker, through) =>
        verified' = verified
  BY DEF Close
<1>10. \A c \in Contracts, o \in Operations : Read(c, o) => verified' = verified
  BY DEF Read, worldVars
<1>11. \A k \in Keys : Sign(k) => verified' = verified
  BY DEF Sign, Send, worldVars
<1>12. \A k \in Keys, claim \in Claims : Missign(k, claim) => verified' = verified
  BY DEF Missign, Send, worldVars
<1>13. UNCHANGED vars => verified' = verified
  BY DEF vars
<1> QED
  BY <1>3, <1>4, <1>5, <1>6, <1>7, <1>8, <1>9, <1>10, <1>11, <1>12, <1>13 DEF Next

(* The inductive invariant.                                                *)
THEOREM AuthorityInvariance == Spec => []IInv
<1>1. Init => IInv
  BY DEF Init, IInv, TypesOK, DraftTrue, SignedTrue, RetiredOut, VerifiedTrue
<1>2. IInv /\ [Next]_vars => IInv'
  <2> SUFFICES ASSUME IInv, [Next]_vars PROVE IInv'
    OBVIOUS
  <2>1. TypesOK' /\ RetiredOut'
    BY TypesLast, RetiredLast DEF IInv
  <2>2. DraftTrue' /\ VerifiedTrue'
    BY <2>1, DraftLast, VerifiedLast
  <2>3. SignedTrue'
    BY <2>1, <2>2, SignedLast
  <2> QED
    BY <2>1, <2>2, <2>3 DEF IInv
<1> QED
  BY <1>1, <1>2, PTL DEF Spec

(* A verified absence is final, whatever retired keys sign.                *)
THEOREM AbsenceSound == Spec => []AbsenceIsFinal
<1>1. IInv => AbsenceIsFinal
  BY DEF IInv, VerifiedTrue, Holds, AbsenceIsFinal
<1> QED
  BY <1>1, AuthorityInvariance, PTL

(* A verified commit happened.                                             *)
THEOREM CommitSound == Spec => []CommitsHappened
<1>1. IInv => CommitsHappened
  BY DEF IInv, VerifiedTrue, Holds, CommitsHappened
<1> QED
  BY <1>1, AuthorityInvariance, PTL
-----------------------------------------------------------------------------
(* What is verified implements EffectReport.                               *)
Pair(row) == [effect |-> row.effect, payload |-> row.payload]
JudgedRows == {Pair(row) : row \in held[Contract][Operation]}
Told == UNION {ObservationsFor(v) : v \in Judged}

(* A commit adds a row of a new effect, or amends one that is there.       *)
LEMMA CommitReported ==
  ASSUME TypesOK, TypesOK', NEW c \in Contracts, NEW o \in Operations, NEW e \in Effects,
         NEW p \in Payloads, Commit(c, o, e, p)
  PROVE  EffectPromise!EffectNext \/ UNCHANGED <<JudgedRows, Closed(Contract, Operation), Told>>
<1> DEFINE r == [effect |-> e, payload |-> p]
           new == [effect |-> e, payload |-> p, at |-> now]
<1>1. Told' = Told /\ Closed(Contract, Operation)' = Closed(Contract, Operation)
  BY DEF Commit, Told, Judged, ObservationsFor, FinalAfterOf, FinalAfter, Closed
<1>2. CASE c = Contract /\ o = Operation
  <2>1. held'[Contract][Operation] = held[Contract][Operation] \cup {new}
    BY <1>2 DEF Commit, TypesOK
  <2>2. JudgedRows' = JudgedRows \cup {r}
    <3>1. Pair(new) = r
      BY DEF Pair
    <3> HIDE DEF new, r
    <3> QED
      BY <2>1, <3>1 DEF JudgedRows
  <2>3. r \in [effect : Effects, payload : Payloads]
    OBVIOUS
  <2>4. CASE \E row \in held[c][o] : row.effect = e
    <3>1. PICK row \in held[Contract][Operation] : row.effect = e
      BY <1>2, <2>4
    <3>2. Pair(row) \in JudgedRows /\ r.effect = Pair(row).effect
      BY <3>1 DEF Pair, JudgedRows
    <3> QED
      BY <1>1, <2>2, <2>3, <3>2
      DEF EffectPromise!EffectNext, EffectPromise!Amend, JudgedRows, Told, Pair
  <2>5. CASE ~\E row \in held[c][o] : row.effect = e
    <3>1. \A row \in JudgedRows : row.effect # r.effect
      BY <1>2, <2>5 DEF JudgedRows, Pair
    <3>2. ~Closed(Contract, Operation)
      BY <1>2, <2>5 DEF Commit
    <3> QED
      BY <1>1, <2>2, <2>3, <3>1, <3>2
      DEF EffectPromise!EffectNext, EffectPromise!Commit, JudgedRows, Told, Pair
  <2> QED
    BY <2>4, <2>5
<1>3. CASE ~(c = Contract /\ o = Operation)
  <2>1. held'[Contract][Operation] = held[Contract][Operation]
    BY <1>3, JudgedAssumption DEF Commit, TypesOK
  <2> QED
    BY <1>1, <2>1 DEF JudgedRows
<1> QED
  BY <1>2, <1>3

(* Closing a marker may make the operation final, and nothing undoes that. *)
LEMMA CloseReported ==
  ASSUME TypesOK, TypesOK', WorldMoves, NEW marker \in Markers, NEW through \in 1..MaxTime,
         Close(marker, through)
  PROVE  EffectPromise!EffectNext \/ UNCHANGED <<JudgedRows, Closed(Contract, Operation), Told>>
<1>1. Told' = Told /\ JudgedRows' = JudgedRows
  BY DEF Close, Told, Judged, ObservationsFor, FinalAfterOf, FinalAfter, JudgedRows
<1>2. /\ closure[Policy[Contract].marker] \in Nat /\ closure'[Policy[Contract].marker] \in Nat
      /\ FinalAfter(Contract, StartedAt[Operation]) \in Nat
  BY JudgedAssumption, ClosureTyped DEF TypesOK, Markers
<1>3. closure[Policy[Contract].marker] <= closure'[Policy[Contract].marker]
  BY JudgedAssumption DEF WorldMoves
<1>4. Closed(Contract, Operation) => Closed(Contract, Operation)'
  BY <1>2, <1>3 DEF Closed, FinalAfter
<1>5. CASE Closed(Contract, Operation)' = Closed(Contract, Operation)
  BY <1>1, <1>5
<1>6. CASE Closed(Contract, Operation)' # Closed(Contract, Operation)
  <2>1. ~Closed(Contract, Operation) /\ Closed(Contract, Operation)' = TRUE
    BY <1>4, <1>6 DEF Closed
  <2> QED
    BY <1>1, <2>1 DEF EffectPromise!EffectNext, EffectPromise!PassFinalAfter, JudgedRows, Told, Pair
<1> QED
  BY <1>5, <1>6

(* A verified statement says something EffectReport allows.                *)
LEMMA SaysWhatIs ==
  ASSUME IInv, NEW q \in Queries, NEW s \in signed, Verify(q, s),
         q.contract = Contract, q.op = Operation
  PROVE  ObservationsFor([query |-> q, statement |-> s]) \in EffectPromise!Statements
<1> DEFINE v == [query |-> q, statement |-> s]
           outcome == s.outcome
<1>1. Holds(v)
  BY AcceptedHolds
<1>2. OutcomeValid(outcome)
  BY DEF Verify
<1>3. CASE outcome.kind = "zero"
  <2>1. JudgedRows = {} /\ Closed(Contract, Operation) = TRUE
    BY <1>1, <1>3 DEF Holds, JudgedRows, Closed
  <2>2. (FinalAfterOf(q) <= s.observedAt) = TRUE
    BY <1>3 DEF Verify, HorizonReached
  <2>3. ObservationsFor(v) = {EffectPromise!Absent(TRUE)}
    BY <1>3, <2>2
    DEF ObservationsFor, EffectPromise!Absent, EffectPromise!Observation
  <2> QED
    BY <2>1, <2>3 DEF EffectPromise!Statements, JudgedRows, Pair
<1>4. CASE outcome.kind = "unknown"
  <2>1. ObservationsFor(v) = {EffectPromise!Untold}
    BY <1>4 DEF ObservationsFor, EffectPromise!Untold, EffectPromise!Observation
  <2> QED
    BY <2>1 DEF EffectPromise!Statements
<1>5. CASE outcome.kind \in {"one", "multiple"}
  <2>1. PICK a, b \in outcome.rows : outcome.rows = {a, b} /\ (a = b \/ a.effect # b.effect)
    BY <1>2, <1>5 DEF OutcomeValid
  <2>2. a \in held[Contract][Operation] /\ b \in held[Contract][Operation]
    BY <1>1, <2>1 DEF Holds
  <2>3. Pair(a) \in JudgedRows /\ Pair(b) \in JudgedRows
    BY <2>2 DEF JudgedRows
  <2>4. Pair(a) = Pair(b) \/ Pair(a).effect # Pair(b).effect
    BY <2>1 DEF Pair
  <2>5. {Pair(a), Pair(b)} \in EffectPromise!Samples
    <3>1. EffectPromise!Samples = {t \in {{x, y} : x, y \in JudgedRows} :
                                     \A x, y \in t : x = y \/ x.effect # y.effect}
      BY DEF EffectPromise!Samples, JudgedRows, Pair
    <3> QED
      BY <2>3, <2>4, <3>1
  <2>6. ObservationsFor(v) = {EffectPromise!Committed(row) : row \in {Pair(a), Pair(b)}}
    <3> DEFINE Seen(row) == [op |-> q.op, contract |-> q.contract, status |-> "committed",
                             authoritative |-> TRUE, late |-> FALSE,
                             effect |-> row.effect, payload |-> row.payload]
    <3>1. ObservationsFor(v) = {Seen(row) : row \in outcome.rows}
      BY <1>5 DEF ObservationsFor
    <3>2. \A row : Seen(row) = EffectPromise!Committed(Pair(row))
      BY DEF EffectPromise!Committed, EffectPromise!Observation, Pair
    <3> HIDE DEF Seen
    <3> QED
      BY <2>1, <3>1, <3>2
  <2> QED
    BY <2>5, <2>6 DEF EffectPromise!Statements
<1> QED
  BY <1>2, <1>3, <1>4, <1>5 DEF OutcomeValid

LEMMA VerifyReported ==
  ASSUME IInv, NEW q \in Queries, NEW s \in signed, Verify(q, s)
  PROVE  EffectPromise!EffectNext \/ UNCHANGED <<JudgedRows, Closed(Contract, Operation), Told>>
<1>1. PICK v : v = [query |-> q, statement |-> s]
  OBVIOUS
<1>2. JudgedRows' = JudgedRows /\ Closed(Contract, Operation)' = Closed(Contract, Operation)
  BY DEF Verify, worldVars, JudgedRows, Closed, FinalAfter
<1>3. verified' = verified \cup {v}
  BY <1>1 DEF Verify
<1>4. CASE q.contract = Contract /\ q.op = Operation
  <2>1. Judged' = Judged \cup {v}
    BY <1>1, <1>3, <1>4 DEF Judged
  <2>2. Told' = Told \cup ObservationsFor(v)
    BY <2>1 DEF Told, ObservationsFor, FinalAfterOf, FinalAfter
  <2>3. ObservationsFor(v) \in EffectPromise!Statements
    BY <1>1, <1>4, SaysWhatIs
  <2> QED
    BY <1>2, <2>2, <2>3
    DEF EffectPromise!EffectNext, EffectPromise!ObserveEffect, EffectPromise!effectVars, JudgedRows, Told,
        Pair
<1>5. CASE ~(q.contract = Contract /\ q.op = Operation)
  <2>1. Judged' = Judged
    BY <1>1, <1>3, <1>5 DEF Judged
  <2> QED
    BY <1>2, <2>1 DEF Told, ObservationsFor, FinalAfterOf, FinalAfter
<1> QED
  BY <1>4, <1>5

(* What the authority's verified statements tell the kernel of an operation*)
(* is what EffectReport says they tell.                                    *)
THEOREM ImplementsReport == Spec => ImplementsEffectReport
<1>1. Init => EffectPromise!EffectInit
  <2> SUFFICES ASSUME Init PROVE EffectPromise!EffectInit
    OBVIOUS
  <2>1. held[Contract][Operation] = {} /\ Judged = {}
    BY JudgedAssumption DEF Init, Judged
  <2>2. closure[Policy[Contract].marker] = 0 /\ FinalAfter(Contract, StartedAt[Operation]) \in Nat
    BY JudgedAssumption, TimesAssumption DEF Init, Markers, FinalAfter
  <2>3. Closed(Contract, Operation) = FALSE
    BY <2>2, JudgedAssumption DEF Closed, FinalAfter
  <2> QED
    BY <2>1, <2>3 DEF EffectPromise!EffectInit
<1>2. IInv /\ IInv' /\ [Next]_vars
        => [EffectPromise!EffectNext]_<<JudgedRows, Closed(Contract, Operation), Told>>
  <2> SUFFICES ASSUME IInv, IInv', [Next]_vars
               PROVE  \/ EffectPromise!EffectNext
                      \/ UNCHANGED <<JudgedRows, Closed(Contract, Operation), Told>>
    OBVIOUS
  <2>1. TypesOK /\ TypesOK' /\ WorldMoves
    BY MovesOn DEF IInv
  <2>2. CASE UNCHANGED <<held, closure, verified>>
    BY <2>2 DEF JudgedRows, Closed, FinalAfter, Told, Judged, ObservationsFor, FinalAfterOf
  <2>3. Tick => UNCHANGED <<held, closure, verified>>
    BY DEF Tick
  <2>4. \A m \in Manifests : Repin(m) => UNCHANGED <<held, closure, verified>>
    BY DEF Repin, worldVars
  <2>5. \A k \in Keys : Retire(k) => UNCHANGED <<held, closure, verified>>
    BY DEF Retire, worldVars
  <2>6. \A c \in Contracts, o \in Operations : Read(c, o) => UNCHANGED <<held, closure, verified>>
    BY DEF Read, worldVars
  <2>7. \A k \in Keys : Sign(k) => UNCHANGED <<held, closure, verified>>
    BY DEF Sign, Send, worldVars
  <2>8. \A k \in Keys, claim \in Claims : Missign(k, claim) => UNCHANGED <<held, closure, verified>>
    BY DEF Missign, Send, worldVars
  <2>9. UNCHANGED vars => UNCHANGED <<held, closure, verified>>
    BY DEF vars
  <2> QED
    BY <2>1, <2>2, <2>3, <2>4, <2>5, <2>6, <2>7, <2>8, <2>9,
       CommitReported, CloseReported, VerifyReported DEF Next
<1> QED
  BY <1>1, <1>2, AuthorityInvariance, PTL
  DEF Spec, ImplementsEffectReport, EffectPromise!EffectSpec, JudgedRows, Told, Pair
=============================================================================
