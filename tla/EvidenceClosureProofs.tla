------------------------ MODULE EvidenceClosureProofs ------------------------
(***************************************************************************)
(* Theorems about closing an operation (JournalBundle) and about the close *)
(* command over it (ShadowRunner), for every set of calls, inputs, events  *)
(* and intents.                                                            *)
(*                                                                         *)
(* The journal only grows by an event that a sound handle admits after all *)
(* it holds, and what is durable stays durable.  So what a call has done   *)
(* before it commits is still there when somebody reads the commit, and an *)
(* input commit leaves its operation nothing but its own bundle.           *)
(***************************************************************************)
EXTENDS ShadowRunner, SequenceTheorems, TLAPS

-----------------------------------------------------------------------------
(* Prefixes of a sequence, and the positions of an operation's events.     *)

LEMMA PrefixOf ==
  ASSUME NEW S, NEW s \in Seq(S), NEW n \in 0..Len(s)
  PROVE  /\ SubSeq(s, 1, n) \in Seq(S)
         /\ Len(SubSeq(s, 1, n)) = n
         /\ \A i \in 1..n : SubSeq(s, 1, n)[i] = s[i]
OBVIOUS

LEMMA WholePrefix ==
  ASSUME NEW S, NEW s \in Seq(S)
  PROVE  SubSeq(s, 1, Len(s)) = s
BY SubSeqFull

(* Appending leaves every prefix as it was.                                *)
LEMMA PrefixOfAppend ==
  ASSUME NEW S, NEW s \in Seq(S), NEW e \in S, NEW n \in 0..Len(s)
  PROVE  SubSeq(Append(s, e), 1, n) = SubSeq(s, 1, n)
<1> DEFINE t == Append(s, e)
<1>1. t \in Seq(S) /\ Len(t) = Len(s) + 1 /\ \A i \in 1..Len(s) : t[i] = s[i] OBVIOUS
<1>2. n \in 0..Len(t) BY <1>1
<1> HIDE DEF t
<1>3. /\ SubSeq(t, 1, n) \in Seq(S) /\ Len(SubSeq(t, 1, n)) = n
      /\ \A i \in 1..n : SubSeq(t, 1, n)[i] = t[i]
  BY <1>1, <1>2, PrefixOf
<1>4. /\ SubSeq(s, 1, n) \in Seq(S) /\ Len(SubSeq(s, 1, n)) = n
      /\ \A i \in 1..n : SubSeq(s, 1, n)[i] = s[i]
  BY PrefixOf
<1>5. \A i \in 1..n : t[i] = s[i] BY <1>1
<1>6. SubSeq(t, 1, n) = SubSeq(s, 1, n) BY <1>3, <1>4, <1>5, SeqEqual
<1>7. QED BY <1>6 DEF t

(* What follows in a concatenation.                                        *)
LEMMA Followed ==
  ASSUME NEW S, NEW s \in Seq(S), NEW t \in Seq(S)
  PROVE  /\ s \o t \in Seq(S) /\ Len(s \o t) = Len(s) + Len(t)
         /\ \A i \in 1..Len(t) : (s \o t)[Len(s) + i] = t[i]
<1> DEFINE u == s \o t
<1>1. u \in Seq(S) BY ConcatProperties
<1>2. Len(u) = Len(s) + Len(t) OBVIOUS
<1>3. \A j \in 1..(Len(s) + Len(t)) : u[j] = IF j <= Len(s) THEN s[j] ELSE t[j - Len(s)]
  BY ConcatProperties, Zenon
<1>4. Len(s) \in Nat /\ Len(t) \in Nat OBVIOUS
<1> HIDE DEF u
<1>5. \A i \in 1..Len(t) : u[Len(s) + i] = t[i] BY <1>3, <1>4
<1>6. QED BY <1>1, <1>2, <1>5 DEF u

LEMMA PrefixPositions ==
  ASSUME NEW S, NEW s \in Seq(S), NEW n \in 0..Len(s), NEW op, NEW kinds
  PROVE  Positions(SubSeq(s, 1, n), op, kinds) = {i \in 1..n : s[i].op = op /\ s[i].kind \in kinds}
BY PrefixOf DEF Positions

-----------------------------------------------------------------------------
(* The events of a close.                                                  *)

Event == OtherEvents \cup UNION {KernelEvent(in, head) : in \in Inputs, head \in Nat}

LEMMA KernelEventFields ==
  ASSUME NEW in \in Inputs, NEW head \in Nat
  PROVE  /\ InputEvent(in, head) \in Event /\ BundleEvent(in, head) \in Event
         /\ IsInput(InputEvent(in, head)) /\ ~IsBundle(InputEvent(in, head))
         /\ IsBundle(BundleEvent(in, head)) /\ ~IsInput(BundleEvent(in, head))
         /\ \A e \in KernelEvent(in, head) :
              /\ e.id \in CommitIds /\ e.id.input = in /\ e.id.head = head
              /\ e.op = in.op /\ e.auth = in.auth
         /\ InputEvent(in, head).id = Manifest(in, head)
         /\ BundleEvent(in, head).id = BundleArtifact(in, head)
         /\ InputEvent(in, head).id # BundleEvent(in, head).id
<1>1. KernelEvent(in, head) \subseteq Event BY DEF Event
<1>2. InputEvent(in, head) \in KernelEvent(in, head) /\ BundleEvent(in, head) \in KernelEvent(in, head)
  BY DEF KernelEvent
<1>3. IsInput(InputEvent(in, head)) /\ ~IsBundle(InputEvent(in, head))
  BY DEF InputEvent, IsInput, IsBundle
<1>4. IsBundle(BundleEvent(in, head)) /\ ~IsInput(BundleEvent(in, head))
  BY DEF BundleEvent, IsInput, IsBundle
<1>5. /\ InputEvent(in, head).id = Manifest(in, head)
      /\ InputEvent(in, head).op = in.op /\ InputEvent(in, head).auth = in.auth
  BY DEF InputEvent
<1>6. /\ BundleEvent(in, head).id = BundleArtifact(in, head)
      /\ BundleEvent(in, head).op = in.op /\ BundleEvent(in, head).auth = in.auth
  BY DEF BundleEvent
<1>7. /\ Manifest(in, head) \in CommitIds /\ Manifest(in, head).input = in
      /\ Manifest(in, head).head = head /\ Manifest(in, head).namespace = "kernel-input-manifest"
  BY DEF Manifest, CommitIds
<1>8. /\ BundleArtifact(in, head) \in CommitIds /\ BundleArtifact(in, head).input = in
      /\ BundleArtifact(in, head).head = head /\ BundleArtifact(in, head).namespace = "kernel-bundle"
  BY DEF BundleArtifact, CommitIds
<1>9. \A e \in KernelEvent(in, head) : e = InputEvent(in, head) \/ e = BundleEvent(in, head)
  BY DEF KernelEvent
<1>10. InputEvent(in, head).id # BundleEvent(in, head).id BY <1>5, <1>6, <1>7, <1>8
<1>11. QED BY <1>1, <1>2, <1>3, <1>4, <1>5, <1>6, <1>7, <1>8, <1>9, <1>10

LEMMA OtherEventFields ==
  ASSUME NEW e \in OtherEvents
  PROVE  e \in Event /\ ~IsInput(e) /\ ~IsBundle(e) /\ e.id \notin CommitIds
BY OtherEventsAssumption DEF Event, IsInput, IsBundle

LEMMA Artifacts ==
  ASSUME NEW in \in Inputs, NEW head
  PROVE  /\ Len(InputArtifacts(in, head)) \in Nat
         /\ EvaluatorInput(in) \in ManifestArtifacts(in, head)
         /\ Manifest(in, head) \in ManifestArtifacts(in, head)
<1> DEFINE effects == [i \in 1..Len(in.effects) |-> EffectArtifact(in, i)]
           four == {AttemptArtifact(in), BaseArtifact(in), EvaluatorInput(in), Manifest(in, head)}
           S == {effects[i] : i \in 1..Len(in.effects)} \cup four
           first == <<AttemptArtifact(in), BaseArtifact(in)>>
           last == <<EvaluatorInput(in), Manifest(in, head)>>
<1>1. Len(in.effects) \in Nat BY InputsAssumption
<1>2. effects \in Seq(S) /\ Len(effects) = Len(in.effects)
  <2> HIDE DEF four
  <2>1. DOMAIN effects = 1..Len(in.effects) OBVIOUS
  <2>2. effects \in [1..Len(in.effects) -> S]
    <3>1. effects = [i \in 1..Len(in.effects) |-> effects[i]] OBVIOUS
    <3> HIDE DEF effects
    <3>2. QED BY <3>1
  <2> HIDE DEF effects, S
  <2>3. QED BY <1>1, <2>2
<1>3. first \in Seq(S) /\ Len(first) = 2 /\ last \in Seq(S) /\ Len(last) = 2
      /\ last[1] = EvaluatorInput(in) /\ last[2] = Manifest(in, head)
  <2>1. four \subseteq S OBVIOUS
  <2>2. /\ AttemptArtifact(in) \in four /\ BaseArtifact(in) \in four
        /\ EvaluatorInput(in) \in four /\ Manifest(in, head) \in four
    OBVIOUS
  <2> HIDE DEF four, S
  <2>3. QED BY <2>1, <2>2
<1> HIDE DEF effects, four, S, first, last
<1> DEFINE start == first \o effects
<1>4. start \in Seq(S) /\ Len(start) \in Nat BY <1>2, <1>3, Followed
<1> HIDE DEF start
<1> DEFINE all == start \o last
<1>5. /\ all \in Seq(S) /\ Len(all) = Len(start) + Len(last)
      /\ \A i \in 1..Len(last) : all[Len(start) + i] = last[i]
  <2>1. start \in Seq(S) /\ last \in Seq(S) BY <1>3, <1>4
  <2>2. QED BY ONLY <2>1, Followed, Zenon
<1>6. InputArtifacts(in, head) = all BY DEF all, start, first, effects, last, InputArtifacts
<1> HIDE DEF all
<1>7. /\ Len(all) \in Nat /\ Len(start) + 1 \in 1..Len(all) /\ Len(start) + 2 \in 1..Len(all)
      /\ all[Len(start) + 1] = EvaluatorInput(in) /\ all[Len(start) + 2] = Manifest(in, head)
  BY <1>3, <1>4, <1>5
<1>8. QED BY <1>6, <1>7 DEF ManifestArtifacts

-----------------------------------------------------------------------------
(* The inductive invariant of JournalBundle.                               *)

Phases == {"idle", "storing", "committingInput", "storingBundle", "committingBundle", "verifying"}
Closing_ == [input : Inputs, head : Nat, next : Nat \ {0}]

BundleTypeOK ==
  /\ log \in Seq(Event)
  /\ known \in 0..Len(log)
  /\ open \in BOOLEAN /\ poisoned \in BOOLEAN
  /\ open /\ ~poisoned => known = Len(log)
  /\ durable \subseteq visible
  /\ pc \in [Call -> Phases]
  /\ call \in [Call -> Closing_ \cup {NoCall}]
  /\ \A c \in Call : pc[c] # "idle" => open /\ call[c] \in Closing_

(* Every record was admitted after the records before it.                  *)
Before(i) == SubSeq(log, 1, i - 1)
LogAdmitted ==
  \A i \in 1..Len(log) : FreshId(Before(i), log[i]) /\ LifecycleAdmits(Before(i), log[i])

(* An input commit sits after its source head, over a stored manifest and  *)
(* an attempt that was under control; a bundle commit sits after its input.*)
LogCommits ==
  \A i \in 1..Len(log) :
    /\ IsInput(log[i]) =>
         /\ log[i].id.input \in Inputs
         /\ log[i] = InputEvent(log[i].id.input, i - 1)
         /\ ManifestArtifacts(log[i].id.input, i - 1) \subseteq durable
         /\ ControlledAttempt(Before(i), log[i].id.input)
    /\ IsBundle(log[i]) =>
         /\ i > 1 /\ IsInput(log[i - 1])
         /\ log[i] = BundleEvent(log[i - 1].id.input, i - 2)
         /\ log[i].id \in durable

(* What a call has done by the time it is where it is.                     *)
StoredSoFar(in, head, next) ==
  /\ next \in 1..(Len(InputArtifacts(in, head)) + 1)
  /\ \A k \in 1..(next - 1) : InputArtifacts(in, head)[k] \in durable

InputDone(in, head) == head < known /\ log[head + 1] = InputEvent(in, head)

Done(at, in, head, next) ==
  /\ head <= known
  /\ at = "storing" => StoredSoFar(in, head, next)
  /\ at # "storing" => ManifestArtifacts(in, head) \subseteq durable
  /\ at \in {"storing", "committingInput"} /\ known = head =>
       ControlledAttempt(SubSeq(log, 1, head), in)
  /\ at \in {"storingBundle", "committingBundle", "verifying"} => InputDone(in, head)
  /\ at \in {"committingBundle", "verifying"} => BundleArtifact(in, head) \in durable

CallInv(c) == pc[c] # "idle" => Done(pc[c], call[c].input, call[c].head, call[c].next)

ReceiptInv ==
  \A r \in receipts : r.input \in Inputs /\ r.head \in Nat /\ r = Closure(r.input, r.head)

BundleInv ==
  /\ BundleTypeOK
  /\ LogAdmitted
  /\ LogCommits
  /\ \A c \in Call : CallInv(c)
  /\ ReceiptInv
  /\ ReceiptsHold

-----------------------------------------------------------------------------
(* Types.                                                                  *)

LEMMA InitBundleType == Init => BundleTypeOK
<1> SUFFICES ASSUME Init PROVE BundleTypeOK OBVIOUS
<1>1. log \in Seq(Event) /\ Len(log) = 0 BY EmptySeq DEF Init
<1>2. pc \in [Call -> Phases] /\ call \in [Call -> Closing_ \cup {NoCall}]
      /\ \A c \in Call : pc[c] = "idle"
  BY DEF Init, Phases
<1>3. known = 0 /\ open = FALSE /\ poisoned = FALSE /\ durable = visible BY DEF Init
<1>4. known \in 0..Len(log) BY <1>1, <1>3
<1>5. QED BY <1>1, <1>2, <1>3, <1>4 DEF BundleTypeOK

LEMMA EventOfType ==
  ASSUME BundleTypeOK, NEW c \in Call, Committing(c)
  PROVE  /\ call[c].input \in Inputs /\ call[c].head \in Nat
         /\ EventOf(c) \in KernelEvent(call[c].input, call[c].head)
         /\ EventOf(c) \in Event
         /\ After(c) \in Phases
<1>1. call[c] \in Closing_ BY DEF BundleTypeOK, Committing
<1>2. call[c].input \in Inputs /\ call[c].head \in Nat BY <1>1 DEF Closing_
<1>3. EventOf(c) \in KernelEvent(call[c].input, call[c].head) BY DEF EventOf, KernelEvent
<1>4. EventOf(c) \in Event BY <1>2, KernelEventFields DEF EventOf
<1>5. QED BY <1>2, <1>3, <1>4 DEF After, Phases

(* A call that ends leaves the types as they are.                          *)
LEMMA FinishType ==
  ASSUME BundleTypeOK, NEW c \in Call, Finish(c)
  PROVE  /\ pc' \in [Call -> Phases] /\ call' \in [Call -> Closing_ \cup {NoCall}]
         /\ pc'[c] = "idle"
         /\ \A d \in Call \ {c} : pc'[d] = pc[d] /\ call'[d] = call[d]
<1>1. pc' = [pc EXCEPT ![c] = "idle"] /\ call' = [call EXCEPT ![c] = NoCall] BY DEF Finish
<1>2. pc \in [Call -> Phases] /\ call \in [Call -> Closing_ \cup {NoCall}] BY DEF BundleTypeOK
<1>3. "idle" \in Phases BY DEF Phases
<1>4. QED BY <1>1, <1>2, <1>3

(* Going on to the next phase.                                             *)
LEMMA GoType ==
  ASSUME BundleTypeOK, NEW c \in Call, NEW at \in Phases, pc' = [pc EXCEPT ![c] = at]
  PROVE  /\ pc' \in [Call -> Phases] /\ pc'[c] = at
         /\ \A d \in Call \ {c} : pc'[d] = pc[d]
BY DEF BundleTypeOK

LEMMA StepType ==
  ASSUME BundleTypeOK, NEW c \in Call, Step(c)
  PROVE  BundleTypeOK'
<1> USE DEF journalVars, storeVars
<1>1. /\ pc \in [Call -> Phases] /\ call \in [Call -> Closing_ \cup {NoCall}]
      /\ \A d \in Call : pc[d] # "idle" => open /\ call[d] \in Closing_
  BY DEF BundleTypeOK
<1>2. CASE Store(c)
  <2>1. call[c] \in Closing_ BY <1>1, <1>2 DEF Store
  <2>2. call[c].next + 1 \in Nat \ {0} BY <2>1 DEF Closing_
  <2>3. call' = [call EXCEPT ![c] = [call[c] EXCEPT !.next = call[c].next + 1]] BY <1>2 DEF Store
  <2>4. [call[c] EXCEPT !.next = call[c].next + 1] \in Closing_ BY <2>1, <2>2 DEF Closing_
  <2>5. call' \in [Call -> Closing_ \cup {NoCall}] /\ call'[c] \in Closing_
        /\ \A d \in Call \ {c} : call'[d] = call[d]
    BY <1>1, <2>3, <2>4
  <2>6. durable' \subseteq visible' BY <1>2 DEF Store, Stored, BundleTypeOK
  <2>7. UNCHANGED <<log, known, open, poisoned, pc>> BY <1>2 DEF Store
  <2>8. QED BY <1>1, <2>5, <2>6, <2>7 DEF BundleTypeOK
<1>3. CASE Reread(c)
  <2>1. "committingInput" \in Phases BY DEF Phases
  <2>2. pc' = [pc EXCEPT ![c] = "committingInput"] /\ pc[c] = "storing" BY <1>3 DEF Reread
  <2>3. QED BY <1>1, <1>3, <2>1, <2>2, GoType DEF Reread, BundleTypeOK
<1>4. CASE StoreBundle(c)
  <2>1. "committingBundle" \in Phases BY DEF Phases
  <2>2. pc' = [pc EXCEPT ![c] = "committingBundle"] /\ pc[c] = "storingBundle" BY <1>4 DEF StoreBundle
  <2>3. durable' \subseteq visible' BY <1>4 DEF StoreBundle, Stored, BundleTypeOK
  <2>4. UNCHANGED <<log, known, open, poisoned, call>> BY <1>4 DEF StoreBundle
  <2>5. QED BY <1>1, <2>1, <2>2, <2>3, <2>4, GoType DEF BundleTypeOK
<1>5. CASE PutFails(c)
  <2>1. Finish(c) /\ UNCHANGED <<log, known, open, poisoned, durable>> BY <1>5 DEF PutFails
  <2>2. visible \subseteq visible' BY <1>5 DEF PutFails
  <2>3. QED BY <1>1, <2>1, <2>2, FinishType DEF BundleTypeOK
<1>6. CASE Replay(c)
  <2>1. After(c) \in Phases BY <1>6, EventOfType DEF Replay
  <2>2. pc' = [pc EXCEPT ![c] = After(c)] /\ pc[c] # "idle" BY <1>6 DEF Replay, Committing
  <2>3. QED BY <1>1, <1>6, <2>1, <2>2, GoType DEF Replay, BundleTypeOK
<1>7. CASE Commit(c)
  <2>1. After(c) \in Phases /\ EventOf(c) \in Event BY <1>7, EventOfType DEF Commit
  <2>2. pc' = [pc EXCEPT ![c] = After(c)] /\ pc[c] # "idle" BY <1>7 DEF Commit, Committing
  <2>3. log' = Append(log, EventOf(c)) /\ known' = known + 1 /\ known = Len(log)
    BY <1>7 DEF Commit, Committing, Admits, BundleTypeOK
  <2>4. log' \in Seq(Event) /\ Len(log') = Len(log) + 1
    BY <2>1, <2>3, AppendProperties DEF BundleTypeOK
  <2>5. known' \in 0..Len(log') /\ known' = Len(log') BY <2>3, <2>4 DEF BundleTypeOK
  <2>6. UNCHANGED <<open, poisoned, visible, durable, call>> BY <1>7 DEF Commit
  <2>7. QED BY <1>1, <2>1, <2>2, <2>4, <2>5, <2>6, GoType DEF BundleTypeOK
<1>8. CASE CommitUncertain(c)
  <2>1. EventOf(c) \in Event BY <1>8, EventOfType DEF CommitUncertain
  <2>2. Finish(c) /\ poisoned' = TRUE /\ UNCHANGED <<known, open, visible, durable>>
    BY <1>8 DEF CommitUncertain
  <2>3. log' \in Seq(Event) /\ known' \in 0..Len(log')
    <3>1. CASE log' = log BY <2>2, <3>1 DEF BundleTypeOK
    <3>2. CASE log' = Append(log, EventOf(c))
      <4>1. log' \in Seq(Event) /\ Len(log') = Len(log) + 1
        BY <2>1, <3>2, AppendProperties DEF BundleTypeOK
      <4>2. QED BY <2>2, <4>1 DEF BundleTypeOK
    <3>3. QED BY <1>8, <3>1, <3>2 DEF CommitUncertain
  <2>4. QED BY <1>1, <2>2, <2>3, FinishType DEF BundleTypeOK
<1>9. CASE Verify(c)
  BY <1>1, <1>9, FinishType DEF Verify, BundleTypeOK
<1>10. CASE Abandon(c)
  BY <1>1, <1>10, FinishType DEF Abandon, BundleTypeOK
<1>11. QED BY <1>2, <1>3, <1>4, <1>5, <1>6, <1>7, <1>8, <1>9, <1>10 DEF Step

LEMMA NextBundleType ==
  ASSUME BundleTypeOK, [Next]_vars
  PROVE  BundleTypeOK'
<1> USE DEF journalVars, storeVars
<1>1. ASSUME NEW c \in Call, NEW in \in Inputs, NEW head \in 0..known, Start(c, in, head)
      PROVE  BundleTypeOK'
  <2>1. [input |-> in, head |-> head, next |-> 1] \in Closing_ BY DEF Closing_, BundleTypeOK
  <2>2. call' = [call EXCEPT ![c] = [input |-> in, head |-> head, next |-> 1]] BY <1>1 DEF Start
  <2>3. /\ call' \in [Call -> Closing_ \cup {NoCall}] /\ call'[c] \in Closing_
        /\ \A d \in Call \ {c} : call'[d] = call[d]
    BY <2>1, <2>2 DEF BundleTypeOK
  <2>4. "storing" \in Phases BY DEF Phases
  <2>5. pc' = [pc EXCEPT ![c] = "storing"] /\ open /\ UNCHANGED <<journalVars, storeVars>>
    BY <1>1 DEF Start
  <2>6. QED BY <2>3, <2>4, <2>5, GoType DEF BundleTypeOK
<1>2. CASE Recover BY <1>2 DEF Recover, BundleTypeOK
<1>3. CASE AppendOther
  <2>1. PICK e \in OtherEvents : log' = Append(log, e) BY <1>3 DEF AppendOther
  <2>2. e \in Event BY OtherEventFields
  <2>3. log' \in Seq(Event) /\ Len(log') = Len(log) + 1
    BY <2>1, <2>2, AppendProperties DEF BundleTypeOK
  <2>4. known' = Len(log') BY <1>3, <2>3 DEF AppendOther, BundleTypeOK
  <2>5. QED BY <1>3, <2>3, <2>4 DEF AppendOther, BundleTypeOK
<1>4. CASE OpenJournal
  <2>1. Len(log) \in 0..Len(log) BY DEF BundleTypeOK
  <2>2. /\ open' = TRUE /\ known' = Len(log) /\ poisoned' = FALSE
        /\ UNCHANGED <<log, visible, durable, pc, call>>
    BY <1>4 DEF OpenJournal
  <2> HIDE DEF journalVars, storeVars
  <2>3. QED BY <2>1, <2>2 DEF BundleTypeOK
<1>5. CASE CloseJournal BY <1>5 DEF CloseJournal, BundleTypeOK
<1>6. ASSUME Die, durable' \subseteq visible'
      PROVE  BundleTypeOK'
  <2>1. pc' \in [Call -> Phases] /\ \A c \in Call : pc'[c] = "idle" BY <1>6 DEF Die, Phases
  <2>2. call' \in [Call -> Closing_ \cup {NoCall}] BY <1>6 DEF Die
  <2>3. open' = FALSE /\ UNCHANGED <<log, known, poisoned>> BY <1>6 DEF Die
  <2>4. QED BY <1>6, <2>1, <2>2, <2>3 DEF BundleTypeOK
<1>7. CASE Crash
  <2>1. Die /\ durable' \subseteq visible' BY <1>7 DEF Crash, BundleTypeOK
  <2>2. QED BY <1>6, <2>1
<1>8. CASE PowerLoss
  <2>1. Die /\ durable' \subseteq visible' BY <1>8 DEF PowerLoss
  <2>2. QED BY <1>6, <2>1
<1>9. CASE UNCHANGED vars BY <1>9 DEF vars, BundleTypeOK
<1>10. QED BY <1>1, <1>2, <1>3, <1>4, <1>5, <1>7, <1>8, <1>9, StepType DEF Next

-----------------------------------------------------------------------------
(* What a step does to the journal.                                        *)

Written(e) ==
  /\ open /\ ~poisoned
  /\ FreshId(log, e) /\ LifecycleAdmits(log, e)
  /\ log' = Append(log, e)

WrittenByCall(c) == Committing(c) /\ Written(EventOf(c)) /\ HeadOf(c) = Len(log)

LEMMA SoundMemory ==
  ASSUME BundleTypeOK, open, ~poisoned
  PROVE  Memory = log /\ known = Len(log)
<1>1. log \in Seq(Event) /\ known = Len(log) BY DEF BundleTypeOK
<1>2. QED BY <1>1, WholePrefix DEF Memory

LEMMA LogStep ==
  ASSUME BundleTypeOK, [Next]_vars
  PROVE  \/ log' = log
         \/ \E e \in OtherEvents : Written(e)
         \/ \E c \in Call : WrittenByCall(c)
<1> USE DEF journalVars
<1>1. ASSUME NEW c \in Call, Step(c)
      PROVE  log' = log \/ WrittenByCall(c)
  <2>1. CASE Commit(c) \/ CommitUncertain(c)
    <3>1. /\ Committing(c) /\ Admits(EventOf(c), HeadOf(c))
          /\ log' = log \/ log' = Append(log, EventOf(c))
      BY <2>1 DEF Commit, CommitUncertain
    <3>2. Memory = log /\ known = Len(log)
      BY <3>1, SoundMemory DEF Committing, Admits
    <3>3. QED BY <3>1, <3>2 DEF Committing, Admits, Recorded, Written, WrittenByCall
  <2>2. CASE ~(Commit(c) \/ CommitUncertain(c))
    BY <1>1, <2>2 DEF Step, Store, Reread, StoreBundle, PutFails, Replay, Verify, Abandon
  <2>3. QED BY <2>1, <2>2
<1>2. CASE AppendOther
  <2>1. PICK e \in OtherEvents : /\ FreshId(Memory, e) /\ LifecycleAdmits(Memory, e)
                                /\ log' = Append(log, e)
    BY <1>2 DEF AppendOther
  <2>2. open /\ ~poisoned /\ Memory = log BY <1>2, SoundMemory DEF AppendOther
  <2>3. QED BY <2>1, <2>2 DEF Written
<1>3. CASE \E c \in Call, in \in Inputs, head \in 0..known : Start(c, in, head)
  BY <1>3 DEF Start
<1>4. CASE Recover \/ OpenJournal \/ CloseJournal \/ Crash \/ PowerLoss
  BY <1>4 DEF Recover, OpenJournal, CloseJournal, Crash, PowerLoss, Die
<1>5. CASE UNCHANGED vars BY <1>5 DEF vars
<1>6. QED BY <1>1, <1>2, <1>3, <1>4, <1>5 DEF Next

LEMMA WrittenEvent ==
  ASSUME BundleTypeOK, [Next]_vars, log' # log
  PROVE  \E e \in Event : Written(e)
<1>1. CASE \E e \in OtherEvents : Written(e) BY <1>1, OtherEventFields
<1>2. CASE \E c \in Call : WrittenByCall(c) BY <1>2, EventOfType DEF WrittenByCall
<1>3. QED BY <1>1, <1>2, LogStep

(* The journal and what is durable only grow, and a handle forgets nothing.*)
LEMMA Grown ==
  ASSUME BundleTypeOK, [Next]_vars
  PROVE  /\ log' \in Seq(Event) /\ Len(log) <= Len(log')
         /\ \A i \in 1..Len(log) : log'[i] = log[i]
         /\ \A n \in 0..Len(log) : SubSeq(log', 1, n) = SubSeq(log, 1, n)
<1>1. log \in Seq(Event) BY DEF BundleTypeOK
<1>2. CASE log' = log BY <1>1, <1>2
<1>3. CASE log' # log
  <2>1. PICK e \in Event : log' = Append(log, e) BY <1>3, WrittenEvent DEF Written
  <2>2. log' \in Seq(Event) /\ Len(log') = Len(log) + 1 /\ \A i \in 1..Len(log) : log'[i] = log[i]
    BY <1>1, <2>1
  <2>3. \A n \in 0..Len(log) : SubSeq(log', 1, n) = SubSeq(log, 1, n)
    BY <1>1, <2>1, PrefixOfAppend
  <2>4. QED BY <1>1, <2>2, <2>3
<1>4. QED BY <1>2, <1>3

LEMMA KnownGrows ==
  ASSUME BundleTypeOK, [Next]_vars
  PROVE  known <= known' /\ known' \in Nat
<1> USE DEF journalVars
<1>1. known \in Nat /\ Len(log) \in Nat /\ known <= Len(log) BY DEF BundleTypeOK
<1>2. ASSUME NEW c \in Call, Step(c)
      PROVE  known' = known \/ known' = known + 1
  BY <1>2 DEF Step, Store, Reread, StoreBundle, PutFails, Replay, Commit, CommitUncertain,
              Verify, Abandon
<1>3. CASE \E c \in Call, in \in Inputs, head \in 0..known : Start(c, in, head)
  BY <1>1, <1>3 DEF Start
<1>4. CASE AppendOther BY <1>1, <1>4 DEF AppendOther
<1>5. CASE OpenJournal BY <1>1, <1>5 DEF OpenJournal
<1>6. CASE Recover \/ CloseJournal \/ Crash \/ PowerLoss
  <2>1. known' = known BY <1>6 DEF Recover, CloseJournal, Crash, PowerLoss, Die
  <2>2. QED BY <1>1, <2>1
<1>7. CASE UNCHANGED vars BY <1>1, <1>7 DEF vars
<1>8. QED BY <1>1, <1>2, <1>3, <1>4, <1>5, <1>6, <1>7 DEF Next

LEMMA DurableGrows ==
  ASSUME BundleTypeOK, [Next]_vars
  PROVE  durable \subseteq durable'
<1> USE DEF storeVars
<1>1. ASSUME NEW c \in Call, Step(c)
      PROVE  durable \subseteq durable'
  BY <1>1 DEF Step, Store, Stored, Reread, StoreBundle, PutFails, Replay, Commit,
              CommitUncertain, Verify, Abandon
<1>2. CASE \E c \in Call, in \in Inputs, head \in 0..known : Start(c, in, head)
  BY <1>2 DEF Start
<1>3. CASE Recover \/ AppendOther \/ OpenJournal \/ CloseJournal \/ Crash
  BY <1>3 DEF Recover, AppendOther, OpenJournal, CloseJournal, Crash, Die
<1>4. CASE PowerLoss BY <1>4 DEF PowerLoss, BundleTypeOK
<1>5. CASE UNCHANGED vars BY <1>5 DEF vars
<1>6. QED BY <1>1, <1>2, <1>3, <1>4, <1>5 DEF Next

-----------------------------------------------------------------------------
(* The journal.                                                            *)

LEMMA AdmittedStays ==
  ASSUME BundleTypeOK, [Next]_vars, LogAdmitted
  PROVE  LogAdmitted'
<1>1. log \in Seq(Event) BY DEF BundleTypeOK
<1>2. CASE log' = log BY <1>2 DEF LogAdmitted, Before
<1>3. CASE log' # log
  <2>1. PICK e \in Event : Written(e) BY <1>3, WrittenEvent
  <2>2. log' \in Seq(Event) /\ Len(log') = Len(log) + 1 /\ log'[Len(log) + 1] = e
    BY <1>1, <2>1 DEF Written
  <2>3. SubSeq(log', 1, Len(log)) = log
    BY <1>1, Grown, WholePrefix
  <2>4. ASSUME NEW i \in 1..Len(log')
        PROVE  FreshId(SubSeq(log', 1, i - 1), log'[i]) /\ LifecycleAdmits(SubSeq(log', 1, i - 1), log'[i])
    <3>1. CASE i = Len(log) + 1
      <4>1. SubSeq(log', 1, i - 1) = log BY <1>1, <2>3, <3>1
      <4>2. log'[i] = e BY <2>2, <3>1
      <4>3. QED BY <2>1, <4>1, <4>2 DEF Written
    <3>2. CASE i # Len(log) + 1
      <4>1. i \in 1..Len(log) /\ i - 1 \in 0..Len(log) BY <1>1, <2>2, <3>2
      <4>2. SubSeq(log', 1, i - 1) = Before(i) /\ log'[i] = log[i] BY <4>1, Grown DEF Before
      <4>3. QED BY <4>1, <4>2 DEF LogAdmitted
    <3>3. QED BY <3>1, <3>2
  <2>5. QED BY <2>4 DEF LogAdmitted, Before
<1>4. QED BY <1>2, <1>3

(* What the event that is written says: an application's is not a commit,  *)
(* a call's is the commit its work up to here allows.                      *)
CommitRight(es, in, head, stored, e) ==
  /\ IsInput(e) =>
       /\ e = InputEvent(in, head) /\ Len(es) = head
       /\ ManifestArtifacts(in, head) \subseteq stored
       /\ ControlledAttempt(es, in)
  /\ IsBundle(e) =>
       /\ e = BundleEvent(in, head) /\ Len(es) = head + 1
       /\ es[Len(es)] = InputEvent(in, head)
       /\ BundleArtifact(in, head) \in stored

LEMMA CallCommitsRight ==
  ASSUME BundleTypeOK, NEW c \in Call, CallInv(c), WrittenByCall(c)
  PROVE  CommitRight(log, call[c].input, call[c].head, durable, EventOf(c))
<1> DEFINE in == call[c].input
           head == call[c].head
<1>1. in \in Inputs /\ head \in Nat BY EventOfType DEF WrittenByCall
<1>2. log \in Seq(Event) /\ known = Len(log)
  BY DEF WrittenByCall, Written, BundleTypeOK
<1>3. Done(pc[c], in, head, call[c].next) BY DEF CallInv, WrittenByCall, Committing
<1>4. CASE pc[c] = "committingInput"
  <2>1. EventOf(c) = InputEvent(in, head) /\ Len(log) = head
    BY <1>4 DEF EventOf, HeadOf, WrittenByCall
  <2>2. SubSeq(log, 1, head) = log BY <1>2, <2>1, WholePrefix
  <2>3. ControlledAttempt(log, in) /\ ManifestArtifacts(in, head) \subseteq durable
    BY <1>2, <1>3, <1>4, <2>1, <2>2 DEF Done
  <2>4. ~IsBundle(EventOf(c)) BY <1>1, <2>1, KernelEventFields
  <2>5. QED BY <2>1, <2>3, <2>4 DEF CommitRight
<1>5. CASE pc[c] = "committingBundle"
  <2>1. EventOf(c) = BundleEvent(in, head) /\ Len(log) = head + 1
    BY <1>5 DEF EventOf, HeadOf, WrittenByCall
  <2>2. log[head + 1] = InputEvent(in, head) /\ BundleArtifact(in, head) \in durable
    BY <1>3, <1>5 DEF Done, InputDone
  <2>3. ~IsInput(EventOf(c)) BY <1>1, <2>1, KernelEventFields
  <2>4. QED BY <2>1, <2>2, <2>3 DEF CommitRight
<1>6. QED BY <1>4, <1>5 DEF WrittenByCall, Committing

LEMMA CommitsStay ==
  ASSUME BundleTypeOK, [Next]_vars, LogCommits, \A c \in Call : CallInv(c)
  PROVE  LogCommits'
<1>1. log \in Seq(Event) /\ Len(log) \in Nat /\ durable \subseteq durable'
  BY DurableGrows DEF BundleTypeOK
<1> DEFINE Right(i) ==
      /\ IsInput(log'[i]) =>
           /\ log'[i].id.input \in Inputs
           /\ log'[i] = InputEvent(log'[i].id.input, i - 1)
           /\ ManifestArtifacts(log'[i].id.input, i - 1) \subseteq durable'
           /\ ControlledAttempt(SubSeq(log', 1, i - 1), log'[i].id.input)
      /\ IsBundle(log'[i]) =>
           /\ i > 1 /\ IsInput(log'[i - 1])
           /\ log'[i] = BundleEvent(log'[i - 1].id.input, i - 2)
           /\ log'[i].id \in durable'
<1>2. ASSUME NEW i \in 1..Len(log)
      PROVE  Right(i)
  <2>1. log'[i] = log[i] /\ SubSeq(log', 1, i - 1) = Before(i) BY <1>1, Grown DEF Before
  <2>2. i > 1 => log'[i - 1] = log[i - 1] BY <1>1, Grown
  <2>3. QED BY <1>1, <2>1, <2>2 DEF LogCommits
<1>3. ASSUME NEW e, Written(e), NEW i, i = Len(log) + 1,
             NEW in \in Inputs, NEW head \in Nat, CommitRight(log, in, head, durable, e)
      PROVE  Right(i)
  <2>1. log'[i] = e /\ (i > 1 => log'[i - 1] = log[Len(log)])
    BY <1>1, <1>3 DEF Written
  <2>2. SubSeq(log', 1, i - 1) = log BY <1>1, <1>3, Grown, WholePrefix
  <2>3. CASE IsInput(e)
    <3>1. e = InputEvent(in, head) /\ i - 1 = head /\ e.id.input = in /\ ~IsBundle(e)
      BY <1>1, <1>3, <2>3, KernelEventFields DEF CommitRight, KernelEvent
    <3>2. QED BY <1>1, <1>3, <2>1, <2>2, <2>3, <3>1 DEF CommitRight
  <2>4. CASE IsBundle(e)
    <3>1. e = BundleEvent(in, head) /\ i - 2 = head /\ i > 1 /\ ~IsInput(e)
          /\ log[Len(log)] = InputEvent(in, head) /\ e.id = BundleArtifact(in, head)
      BY <1>1, <1>3, <2>4, KernelEventFields DEF CommitRight, KernelEvent
    <3>2. IsInput(InputEvent(in, head)) /\ InputEvent(in, head).id.input = in
      BY KernelEventFields DEF KernelEvent
    <3>3. QED BY <1>1, <1>3, <2>1, <2>4, <3>1, <3>2 DEF CommitRight
  <2>5. QED BY <2>1, <2>3, <2>4
<1>4. ASSUME NEW i \in 1..Len(log')
      PROVE  Right(i)
  <2>1. CASE i \in 1..Len(log) BY <1>2, <2>1
  <2>2. CASE i \notin 1..Len(log)
    <3>1. log' # log BY <2>2
    <3>2. PICK x \in Event : Written(x) BY <3>1, WrittenEvent
    <3>3. i = Len(log) + 1 BY <1>1, <2>2, <3>2 DEF Written
    <3>4. CASE \E e \in OtherEvents : Written(e)
      <4>1. PICK e \in OtherEvents : Written(e) BY <3>4
      <4>2. log'[i] = e BY <1>1, <3>3, <4>1 DEF Written
      <4>3. QED BY <4>2, OtherEventFields
    <3>5. CASE \E c \in Call : WrittenByCall(c)
      <4>1. PICK c \in Call : WrittenByCall(c) BY <3>5
      <4>2. call[c].input \in Inputs /\ call[c].head \in Nat /\ Written(EventOf(c))
        BY <4>1, EventOfType DEF WrittenByCall
      <4>3. CommitRight(log, call[c].input, call[c].head, durable, EventOf(c))
        BY <4>1, CallCommitsRight
      <4>4. QED BY <1>3, <3>3, <4>2, <4>3
    <3>6. QED BY <3>1, <3>4, <3>5, LogStep
  <2>3. QED BY <2>1, <2>2
<1>5. QED BY <1>4 DEF LogCommits, Before

-----------------------------------------------------------------------------
(* The calls.  What a call has done stays done whatever else happens.      *)

LEMMA DoneStays ==
  ASSUME BundleTypeOK, [Next]_vars,
         NEW at, NEW in \in Inputs, NEW head \in Nat, NEW next \in Nat \ {0},
         Done(at, in, head, next)
  PROVE  Done(at, in, head, next)'
<1>1. /\ known \in Nat /\ known' \in Nat /\ known <= known' /\ known <= Len(log)
      /\ Len(log) \in Nat /\ durable \subseteq durable'
  BY KnownGrows, DurableGrows DEF BundleTypeOK
<1>2. head <= known BY DEF Done
<1>3. SubSeq(log', 1, head) = SubSeq(log, 1, head) BY <1>1, <1>2, Grown
<1>4. head < known => log'[head + 1] = log[head + 1] BY <1>1, Grown
<1>5. StoredSoFar(in, head, next) => StoredSoFar(in, head, next)' BY <1>1 DEF StoredSoFar
<1>6. known' = head => known = head BY <1>1, <1>2
<1>7. InputDone(in, head) => InputDone(in, head)' BY <1>1, <1>4 DEF InputDone
<1>8. head <= known' BY <1>1, <1>2
<1>9. ManifestArtifacts(in, head) \subseteq durable => ManifestArtifacts(in, head) \subseteq durable'
  BY <1>1
<1>10. BundleArtifact(in, head) \in durable => BundleArtifact(in, head) \in durable' BY <1>1
<1>11. QED BY <1>3, <1>5, <1>6, <1>7, <1>8, <1>9, <1>10 DEF Done

LEMMA CallStays ==
  ASSUME BundleTypeOK, [Next]_vars, NEW c \in Call, CallInv(c),
         pc'[c] = pc[c], call'[c] = call[c]
  PROVE  CallInv(c)'
<1>1. CASE pc[c] = "idle" BY <1>1 DEF CallInv
<1>2. CASE pc[c] # "idle"
  <2>1. call[c] \in Closing_ BY <1>2 DEF BundleTypeOK
  <2>2. call[c].input \in Inputs /\ call[c].head \in Nat /\ call[c].next \in Nat \ {0}
    BY <2>1 DEF Closing_
  <2>3. Done(pc[c], call[c].input, call[c].head, call[c].next) BY <1>2 DEF CallInv
  <2>4. Done(pc[c], call[c].input, call[c].head, call[c].next)'
    BY <2>2, <2>3, DoneStays
  <2>5. QED BY <2>4 DEF CallInv
<1>3. QED BY <1>1, <1>2

(* A call starts with nothing stored, over an attempt under control.       *)
LEMMA StartDone ==
  ASSUME BundleTypeOK, NEW c \in Call, NEW in \in Inputs, NEW head \in 0..known, Start(c, in, head)
  PROVE  CallInv(c)'
<1>1. pc' = [pc EXCEPT ![c] = "storing"]
      /\ call' = [call EXCEPT ![c] = [input |-> in, head |-> head, next |-> 1]]
      /\ UNCHANGED <<log, known, durable>>
  BY DEF Start, journalVars, storeVars
<1>2. pc'[c] = "storing" /\ call'[c] = [input |-> in, head |-> head, next |-> 1]
  BY <1>1 DEF BundleTypeOK
<1>3. known = head => ControlledAttempt(SubSeq(log, 1, head), in)
  BY DEF Start, Accepts, Memory
<1>4. StoredSoFar(in, head, 1)
  <2>1. Len(InputArtifacts(in, head)) \in Nat BY Artifacts
  <2>2. QED BY <2>1 DEF StoredSoFar
<1>5. head <= known /\ known \in Nat BY DEF BundleTypeOK
<1>6. Done("storing", in, head, 1) BY <1>3, <1>4, <1>5 DEF Done
<1>7. QED BY <1>1, <1>2, <1>6 DEF CallInv, Done, StoredSoFar, InputDone

(* One step of a call does what its next phase relies on.                  *)
LEMMA StepDone ==
  ASSUME BundleTypeOK, [Next]_vars, NEW c \in Call, Step(c), CallInv(c)
  PROVE  CallInv(c)'
<1> DEFINE in == call[c].input
           head == call[c].head
           next == call[c].next
<1> USE DEF journalVars, storeVars
<1>1. pc[c] # "idle" /\ call[c] \in Closing_
  <2>1. pc[c] # "idle"
    BY DEF Step, Store, Reread, StoreBundle, PutFails, Replay, Commit, CommitUncertain, Verify,
           Abandon, Committing
  <2>2. QED BY <2>1 DEF BundleTypeOK
<1>2. in \in Inputs /\ head \in Nat /\ next \in Nat \ {0} BY <1>1 DEF Closing_
<1>3. Done(pc[c], in, head, next) BY <1>1 DEF CallInv
<1>4. /\ known \in Nat /\ known' \in Nat /\ known <= known' /\ durable \subseteq durable'
      /\ pc \in [Call -> Phases] /\ call \in [Call -> Closing_ \cup {NoCall}]
  BY KnownGrows, DurableGrows DEF BundleTypeOK
<1>5. Len(InputArtifacts(in, head)) \in Nat BY <1>2, Artifacts
<1>6. CASE PutFails(c) \/ CommitUncertain(c) \/ Verify(c) \/ Abandon(c)
  <2>1. Finish(c) BY <1>6 DEF PutFails, CommitUncertain, Verify, Abandon
  <2>2. pc'[c] = "idle" BY <2>1, FinishType
  <2>3. QED BY <2>2 DEF CallInv
<1>7. CASE Store(c)
  <2>1. /\ pc[c] = "storing" /\ next <= Len(InputArtifacts(in, head))
        /\ InputArtifacts(in, head)[next] \in durable' /\ pc' = pc
        /\ UNCHANGED <<log, known>>
    BY <1>2, <1>5, <1>7 DEF Store, AllStored, Stored, NextArtifact
  <2>2. call'[c].input = in /\ call'[c].head = head /\ call'[c].next = next + 1
    <3>1. call' = [call EXCEPT ![c] = [call[c] EXCEPT !.next = next + 1]] BY <1>7 DEF Store
    <3>2. call'[c] = [call[c] EXCEPT !.next = next + 1] BY <1>4, <3>1
    <3>3. QED BY <1>1, <3>2 DEF Closing_
  <2>3. StoredSoFar(in, head, next) BY <1>3, <2>1 DEF Done
  <2>4. \A k \in 1..next : InputArtifacts(in, head)[k] \in durable'
    BY <1>2, <1>4, <2>1, <2>3 DEF StoredSoFar
  <2>5. next + 1 \in 1..(Len(InputArtifacts(in, head)) + 1) /\ (next + 1) - 1 = next
    BY <1>2, <1>5, <2>1
  <2>6. head <= known /\ (known = head => ControlledAttempt(SubSeq(log, 1, head), in))
    BY <1>3, <2>1 DEF Done
  <2> HIDE DEF in, head, next
  <2>7. QED BY <2>1, <2>2, <2>4, <2>5, <2>6 DEF CallInv, Done, StoredSoFar
<1>8. CASE Reread(c)
  <2>1. pc[c] = "storing" /\ next = Len(InputArtifacts(in, head)) + 1 /\ StoredSoFar(in, head, next)
    BY <1>2, <1>3, <1>5, <1>8 DEF Reread, AllStored, Done, StoredSoFar
  <2>2. ManifestArtifacts(in, head) \subseteq durable
    BY <1>5, <2>1 DEF StoredSoFar, ManifestArtifacts
  <2>3. pc'[c] = "committingInput" /\ UNCHANGED <<log, known, durable, call>>
    BY <1>4, <1>8 DEF Reread
  <2>4. QED BY <1>3, <2>1, <2>2, <2>3 DEF CallInv, Done
<1>9. CASE StoreBundle(c)
  <2>1. pc'[c] = "committingBundle" /\ UNCHANGED <<log, known, call>> /\ pc[c] = "storingBundle"
        /\ BundleArtifact(in, head) \in durable'
    BY <1>4, <1>9 DEF StoreBundle, Stored
  <2>2. QED BY <1>3, <1>4, <2>1 DEF CallInv, Done, InputDone
<1>10. CASE Replay(c) \/ Commit(c)
  <2>1. Committing(c) /\ pc'[c] = After(c) /\ UNCHANGED <<durable, call>>
    BY <1>4, <1>10 DEF Replay, Commit
  <2>2. CASE pc[c] = "committingInput"
    <3>1. After(c) = "storingBundle" /\ EventOf(c) = InputEvent(in, head) /\ HeadOf(c) = head
      BY <2>2 DEF After, EventOf, HeadOf
    <3>2. head < known' /\ log'[head + 1] = InputEvent(in, head)
      <4>1. CASE Replay(c)
        BY <3>1, <4>1 DEF Replay, Replays
      <4>2. CASE Commit(c)
        <5>1. head = known /\ known' = known + 1 /\ log' = Append(log, InputEvent(in, head))
              /\ known = Len(log) /\ log \in Seq(Event)
          BY <3>1, <4>2 DEF Commit, Committing, Admits, BundleTypeOK
        <5>2. QED BY <5>1
      <4>3. QED BY <1>10, <4>1, <4>2
    <3>3. QED BY <1>2, <1>3, <1>4, <2>1, <2>2, <3>1, <3>2 DEF CallInv, Done, InputDone
  <2>3. CASE pc[c] = "committingBundle"
    <3>1. After(c) = "verifying" BY <2>3 DEF After
    <3>2. head < known /\ known <= Len(log) /\ Len(log) \in Nat
          /\ log[head + 1] = InputEvent(in, head)
      BY <1>3, <2>3 DEF Done, InputDone, BundleTypeOK
    <3>3. log'[head + 1] = log[head + 1] BY <1>2, <1>4, <3>2, Grown
    <3>4. head < known' /\ head <= known' BY <1>2, <1>4, <3>2
    <3>5. QED BY <1>3, <2>1, <2>3, <3>1, <3>2, <3>3, <3>4 DEF CallInv, Done, InputDone
  <2>4. QED BY <2>1, <2>2, <2>3 DEF Committing
<1>11. QED BY <1>6, <1>7, <1>8, <1>9, <1>10 DEF Step

(* The other calls are where they were.                                    *)
LEMMA StepLeavesOthers ==
  ASSUME BundleTypeOK, NEW c \in Call, Step(c), NEW d \in Call, d # c
  PROVE  pc'[d] = pc[d] /\ call'[d] = call[d]
BY DEF Step, Store, Reread, StoreBundle, PutFails, Replay, Commit, CommitUncertain, Verify,
       Abandon, Finish, BundleTypeOK

LEMMA CallsStay ==
  ASSUME BundleTypeOK, [Next]_vars, \A c \in Call : CallInv(c)
  PROVE  \A c \in Call : CallInv(c)'
<1> SUFFICES ASSUME NEW d \in Call PROVE CallInv(d)' OBVIOUS
<1>1. ASSUME NEW c \in Call, Step(c)
      PROVE  CallInv(d)'
  <2>1. CASE d = c BY <1>1, <2>1, StepDone
  <2>2. CASE d # c BY <1>1, <2>2, StepLeavesOthers, CallStays
  <2>3. QED BY <2>1, <2>2
<1>2. ASSUME NEW c \in Call, NEW in \in Inputs, NEW head \in 0..known, Start(c, in, head)
      PROVE  CallInv(d)'
  <2>1. CASE d = c BY <1>2, <2>1, StartDone
  <2>2. CASE d # c
    <3>1. pc'[d] = pc[d] /\ call'[d] = call[d] BY <1>2, <2>2 DEF Start, BundleTypeOK
    <3>2. QED BY <3>1, CallStays
  <2>3. QED BY <2>1, <2>2
<1>3. CASE Recover \/ AppendOther \/ OpenJournal \/ CloseJournal \/ UNCHANGED vars
  <2>1. pc'[d] = pc[d] /\ call'[d] = call[d]
    BY <1>3 DEF Recover, AppendOther, OpenJournal, CloseJournal, vars
  <2>2. QED BY <2>1, CallStays
<1>4. CASE Crash \/ PowerLoss
  <2>1. pc'[d] = "idle" BY <1>4 DEF Crash, PowerLoss, Die
  <2>2. QED BY <2>1 DEF CallInv
<1>5. QED BY <1>1, <1>2, <1>3, <1>4 DEF Next

-----------------------------------------------------------------------------
(* Receipts.                                                               *)

Backed(in, head) ==
  /\ Committed(in, head)
  /\ ManifestArtifacts(in, head) \cup {BundleArtifact(in, head)} \subseteq durable

(* An input commit names the record before it, and what it commits.        *)
LEMMA InputCommitAt ==
  ASSUME BundleTypeOK, LogCommits, NEW i \in 1..Len(log), IsInput(log[i])
  PROVE  /\ log[i].id.input \in Inputs /\ log[i].id.head = i - 1 /\ i - 1 \in Nat
         /\ log[i] = InputEvent(log[i].id.input, i - 1)
         /\ log[i].id = Manifest(log[i].id.input, i - 1)
         /\ log[i].op = log[i].id.input.op /\ log[i].auth = log[i].id.input.auth
         /\ ManifestArtifacts(log[i].id.input, i - 1) \subseteq durable
         /\ ControlledAttempt(Before(i), log[i].id.input)
<1> DEFINE in == log[i].id.input
<1>1. /\ in \in Inputs /\ log[i] = InputEvent(in, i - 1)
      /\ ManifestArtifacts(in, i - 1) \subseteq durable /\ ControlledAttempt(Before(i), in)
  BY DEF LogCommits
<1>2. i - 1 \in Nat OBVIOUS
<1>3. /\ InputEvent(in, i - 1) \in KernelEvent(in, i - 1)
      /\ InputEvent(in, i - 1).id = Manifest(in, i - 1)
  BY <1>1, <1>2, KernelEventFields DEF KernelEvent
<1>4. InputEvent(in, i - 1).id.head = i - 1 /\ InputEvent(in, i - 1).op = in.op
      /\ InputEvent(in, i - 1).auth = in.auth
  BY <1>1, <1>2, <1>3, KernelEventFields
<1> HIDE DEF in
<1>5. log[i].id.head = i - 1 /\ log[i].op = in.op /\ log[i].auth = in.auth
      /\ log[i].id = Manifest(in, i - 1)
  BY <1>1, <1>3, <1>4
<1>6. QED BY <1>1, <1>2, <1>5 DEF in

(* A bundle commit follows the input commit it closes.                     *)
LEMMA BundleCommitAt ==
  ASSUME BundleTypeOK, LogCommits, NEW i \in 1..Len(log), IsBundle(log[i])
  PROVE  /\ i - 1 \in 1..Len(log) /\ IsInput(log[i - 1]) /\ i - 2 \in Nat
         /\ log[i - 1].id.input \in Inputs /\ log[i - 1].id.head = i - 2
         /\ log[i - 1] = InputEvent(log[i - 1].id.input, i - 2)
         /\ log[i] = BundleEvent(log[i - 1].id.input, i - 2)
         /\ log[i].id = BundleArtifact(log[i - 1].id.input, i - 2)
         /\ log[i].id.input = log[i - 1].id.input /\ log[i].id.head = i - 2
         /\ log[i].op = log[i - 1].id.input.op /\ log[i].auth = log[i - 1].id.input.auth
         /\ Backed(log[i - 1].id.input, i - 2)
<1> DEFINE in == log[i - 1].id.input
<1>1. i > 1 /\ IsInput(log[i - 1]) /\ log[i] = BundleEvent(in, i - 2) /\ log[i].id \in durable
  BY DEF LogCommits
<1>2. i - 1 \in 1..Len(log) /\ i - 2 \in Nat /\ (i - 1) - 1 = i - 2 BY <1>1 DEF BundleTypeOK
<1>3. in \in Inputs /\ log[i - 1].id.head = i - 2 /\ log[i - 1] = InputEvent(in, i - 2)
      /\ ManifestArtifacts(in, i - 2) \subseteq durable
  <2>1. in \in Inputs /\ log[i - 1].id.head = (i - 1) - 1 /\ log[i - 1] = InputEvent(in, (i - 1) - 1)
        /\ ManifestArtifacts(in, (i - 1) - 1) \subseteq durable
    BY <1>1, <1>2, InputCommitAt
  <2> HIDE DEF in
  <2>2. QED BY <1>2, <2>1
<1>4. BundleEvent(in, i - 2).id = BundleArtifact(in, i - 2)
      /\ BundleEvent(in, i - 2) \in KernelEvent(in, i - 2)
  BY <1>2, <1>3, KernelEventFields DEF KernelEvent
<1>5. BundleEvent(in, i - 2).id.input = in /\ BundleEvent(in, i - 2).id.head = i - 2
      /\ BundleEvent(in, i - 2).op = in.op /\ BundleEvent(in, i - 2).auth = in.auth
  BY <1>2, <1>3, <1>4, KernelEventFields
<1> HIDE DEF in
<1>6. (i - 2) + 2 <= Len(log) /\ (i - 2) + 1 = i - 1 /\ (i - 2) + 2 = i BY DEF BundleTypeOK
<1>7. Committed(in, i - 2) BY <1>1, <1>3, <1>6 DEF Committed
<1>8. Backed(in, i - 2) BY <1>1, <1>3, <1>4, <1>7 DEF Backed
<1>9. QED BY <1>1, <1>2, <1>3, <1>4, <1>5, <1>8 DEF in

(* Whoever hands out a receipt has the closure in front of them.           *)
LEMMA ReceiptStep ==
  ASSUME BundleTypeOK, LogCommits, \A c \in Call : CallInv(c), [Next]_vars
  PROVE  \/ receipts' = receipts
         \/ /\ UNCHANGED <<log, durable>>
            /\ \E in \in Inputs, head \in Nat :
                 Backed(in, head) /\ receipts' = receipts \cup {Closure(in, head)}
<1> USE DEF journalVars, storeVars
<1>1. ASSUME NEW c \in Call, Verify(c)
      PROVE  /\ UNCHANGED <<log, durable>>
             /\ \E in \in Inputs, head \in Nat :
                  Backed(in, head) /\ receipts' = receipts \cup {Closure(in, head)}
  <2> DEFINE in == call[c].input
             head == call[c].head
  <2>1. in \in Inputs /\ head \in Nat BY <1>1 DEF Verify, BundleTypeOK, Closing_
  <2>2. Done("verifying", in, head, call[c].next) BY <1>1 DEF Verify, CallInv
  <2>3. ManifestArtifacts(in, head) \subseteq durable /\ BundleArtifact(in, head) \in durable
    BY <2>2 DEF Done
  <2>4. Committed(in, head) BY <1>1 DEF Verify, Verified
  <2>5. Backed(in, head) BY <2>3, <2>4 DEF Backed
  <2>6. QED BY <1>1, <2>1, <2>5 DEF Verify
<1>2. CASE Recover
  <2>1. PICK s \in 2..(known + 1) :
          /\ Recoverable(s)
          /\ receipts' = receipts \cup {Closure(log[s - 1].id.input, log[s - 1].id.head)}
    BY <1>2 DEF Recover
  <2>2. s \in 1..Len(log) /\ IsBundle(log[s]) BY <2>1 DEF Recoverable, BundleTypeOK
  <2>3. log[s - 1].id.input \in Inputs /\ s - 2 \in Nat /\ log[s - 1].id.head = s - 2
        /\ Backed(log[s - 1].id.input, s - 2)
    BY <2>2, BundleCommitAt
  <2>4. QED BY <1>2, <2>1, <2>3 DEF Recover
<1>3. ASSUME NEW c \in Call, Step(c), ~Verify(c)
      PROVE  receipts' = receipts
  BY <1>3 DEF Step, Store, Reread, StoreBundle, PutFails, Replay, Commit, CommitUncertain, Abandon
<1>4. CASE \E c \in Call, in \in Inputs, head \in 0..known : Start(c, in, head)
  BY <1>4 DEF Start
<1>5. CASE AppendOther \/ OpenJournal \/ CloseJournal \/ Crash \/ PowerLoss \/ UNCHANGED vars
  BY <1>5 DEF AppendOther, OpenJournal, CloseJournal, Crash, PowerLoss, Die, vars
<1>6. QED BY <1>1, <1>2, <1>3, <1>4, <1>5 DEF Next

(* A closure that is backed stays backed.                                  *)
LEMMA BackedStays ==
  ASSUME BundleTypeOK, [Next]_vars, NEW in, NEW head \in Nat, Backed(in, head)
  PROVE  Backed(in, head)'
<1>1. /\ head + 2 <= Len(log) /\ Len(log) \in Nat /\ Len(log') \in Nat /\ Len(log) <= Len(log')
      /\ durable \subseteq durable'
  BY Grown, DurableGrows DEF Backed, Committed, BundleTypeOK
<1>2. log'[head + 1] = log[head + 1] /\ log'[head + 2] = log[head + 2] BY <1>1, Grown
<1>3. head + 2 <= Len(log') BY <1>1
<1>4. QED BY <1>1, <1>2, <1>3 DEF Backed, Committed

LEMMA ReceiptsStay ==
  ASSUME BundleInv, [Next]_vars
  PROVE  ReceiptInv' /\ ReceiptsHold'
<1>1. ASSUME NEW r \in receipts
      PROVE  r.input \in Inputs /\ r.head \in Nat /\ r = Closure(r.input, r.head)
             /\ Backed(r.input, r.head)
  BY DEF BundleInv, ReceiptInv, ReceiptsHold, Backed
<1>2. ASSUME NEW r \in receipts
      PROVE  Backed(r.input, r.head)'
  BY <1>1, BackedStays DEF BundleInv
<1>3. CASE receipts' = receipts
  BY <1>1, <1>2, <1>3 DEF ReceiptInv, ReceiptsHold, Backed, Closure
<1>4. CASE receipts' # receipts
  <2>1. PICK in \in Inputs, head \in Nat :
          Backed(in, head) /\ receipts' = receipts \cup {Closure(in, head)}
    BY <1>4, ReceiptStep DEF BundleInv
  <2>2. Backed(in, head)' BY <2>1, BackedStays DEF BundleInv
  <2>3. Closure(in, head).input = in /\ Closure(in, head).head = head BY DEF Closure
  <2>4. ReceiptInv' BY <1>1, <2>1, <2>3 DEF ReceiptInv, Closure
  <2>5. ReceiptsHold' BY <1>2, <2>1, <2>2, <2>3 DEF ReceiptsHold, Backed
  <2>6. QED BY <2>4, <2>5
<1>5. QED BY <1>3, <1>4

-----------------------------------------------------------------------------
(* The inductive invariant, and what follows from it.                      *)

LEMMA InitBundleInv == Init => BundleInv
<1> SUFFICES ASSUME Init PROVE BundleInv OBVIOUS
<1>1. log = <<>> /\ Len(log) = 0 /\ receipts = {} /\ pc = [c \in Call |-> "idle"] BY DEF Init
<1>2. LogAdmitted /\ LogCommits BY <1>1 DEF LogAdmitted, LogCommits
<1>3. QED BY <1>1, <1>2, InitBundleType DEF BundleInv, CallInv, ReceiptInv, ReceiptsHold

LEMMA NextBundleInv ==
  ASSUME BundleInv, [Next]_vars
  PROVE  BundleInv'
<1>1. BundleTypeOK' BY NextBundleType DEF BundleInv
<1>2. LogAdmitted' BY AdmittedStays DEF BundleInv
<1>3. LogCommits' BY CommitsStay DEF BundleInv
<1>4. \A c \in Call : CallInv(c)' BY CallsStay DEF BundleInv
<1>5. QED BY <1>1, <1>2, <1>3, <1>4, ReceiptsStay DEF BundleInv

(* In every reachable state the journal holds only admitted, backed        *)
(* records, and calls and receipts agree with it.                          *)
THEOREM BundlesAreBacked == Spec => []BundleInv
<1>1. Init => BundleInv BY InitBundleInv
<1>2. BundleInv /\ [Next]_vars => BundleInv' BY NextBundleInv
<1>3. QED BY <1>1, <1>2, PTL DEF Spec

(* A receipt stays good through every later append, crash and power loss.  *)
THEOREM ReceiptsHoldForever == Spec => []ReceiptsHold
<1>1. BundleInv => ReceiptsHold BY DEF BundleInv
<1>2. QED BY <1>1, BundlesAreBacked, PTL

(* What the journal refers to was durable before it was referred to.       *)
LEMMA BackedCommits == BundleInv => CommitsBacked
<1> SUFFICES ASSUME BundleInv, NEW i \in 1..Len(log)
             PROVE  /\ IsInput(log[i]) =>
                         /\ log[i].id.head = i - 1
                         /\ ManifestArtifacts(log[i].id.input, i - 1) \subseteq durable
                    /\ IsBundle(log[i]) => log[i].id \in durable
  BY DEF CommitsBacked
<1>1. CASE IsInput(log[i]) BY <1>1, InputCommitAt DEF BundleInv, LogCommits
<1>2. CASE ~IsInput(log[i]) BY <1>2 DEF BundleInv, LogCommits
<1>3. QED BY <1>1, <1>2

THEOREM CommitsAreBacked == Spec => []CommitsBacked
BY BackedCommits, BundlesAreBacked, PTL

-----------------------------------------------------------------------------
(* Repeating a close.                                                      *)

LEMMA BeforeAt ==
  ASSUME BundleTypeOK, NEW i \in 1..Len(log)
  PROVE  /\ Before(i) \in Seq(Event) /\ Len(Before(i)) = i - 1
         /\ \A j \in 1..(i - 1) : Before(i)[j] = log[j]
         /\ \A op, kinds : Positions(Before(i), op, kinds)
                             = {j \in 1..(i - 1) : log[j].op = op /\ log[j].kind \in kinds}
<1>1. log \in Seq(Event) /\ i - 1 \in 0..Len(log) BY DEF BundleTypeOK
<1>2. QED BY <1>1, PrefixOf DEF Before, Positions

(* The record after an input commit is its bundle commit.                  *)
LEMMA BundleIsNext ==
  ASSUME BundleTypeOK, LogAdmitted, LogCommits, NEW i \in 1..Len(log), IsInput(log[i]),
         i + 1 \in 1..Len(log)
  PROVE  IsBundle(log[i + 1]) /\ log[i + 1] = BundleEvent(log[i].id.input, i - 1)
<1>1. Len(Before(i + 1)) = i /\ Before(i + 1)[i] = log[i] /\ Before(i + 1) \in Seq(Event)
  <2>1. (i + 1) - 1 = i /\ i \in 1..i OBVIOUS
  <2>2. /\ Before(i + 1) \in Seq(Event) /\ Len(Before(i + 1)) = (i + 1) - 1
        /\ \A j \in 1..((i + 1) - 1) : Before(i + 1)[j] = log[j]
    BY BeforeAt
  <2>3. QED BY <2>1, <2>2
<1>2. LifecycleAdmits(Before(i + 1), log[i + 1]) BY DEF LogAdmitted
<1>3. Before(i + 1) # <<>> BY <1>1
<1>4. IsBundle(log[i + 1])
  BY <1>1, <1>2, <1>3 DEF LifecycleAdmits, Adjacent, IsInput, IsBundle
<1>5. (i + 1) - 1 = i /\ (i + 1) - 2 = i - 1 OBVIOUS
<1>6. QED BY <1>4, <1>5 DEF LogCommits

(* An input commit leaves its operation nothing but its own bundle.        *)
LEMMA NothingElseAfter ==
  ASSUME BundleTypeOK, LogAdmitted, LogCommits, NEW i \in 1..Len(log), IsInput(log[i]),
         NEW j \in 1..Len(log), j > i, log[j].op = log[i].op
  PROVE  j = i + 1 /\ IsBundle(log[j])
<1>1. i + 1 \in 1..Len(log) BY DEF BundleTypeOK
<1>2. IsBundle(log[i + 1]) /\ log[i + 1] = BundleEvent(log[i].id.input, i - 1)
  BY <1>1, BundleIsNext
<1>3. log[i + 1].op = log[i].op
  BY <1>1, <1>2, InputCommitAt DEF BundleEvent
<1>4. SUFFICES ASSUME j > i + 1 PROVE FALSE BY <1>2
<1>5. OperationOpen(Before(j), log[j].op) BY DEF LogAdmitted, LifecycleAdmits
<1>6. i + 1 \in 1..(j - 1) BY <1>4
<1>7. i + 1 \in Positions(Before(j), log[j].op, ClosingKinds)
  <2>1. Positions(Before(j), log[j].op, ClosingKinds)
          = {k \in 1..(j - 1) : log[k].op = log[j].op /\ log[k].kind \in ClosingKinds}
    <3>1. \A op, kinds : Positions(Before(j), op, kinds)
                          = {k \in 1..(j - 1) : log[k].op = op /\ log[k].kind \in kinds}
      BY BeforeAt
    <3>2. QED BY ONLY <3>1
  <2>2. log[i + 1].kind \in ClosingKinds BY <1>2 DEF ClosingKinds, IsBundle
  <2>3. QED BY <1>3, <1>6, <2>1, <2>2
<1>8. QED BY <1>5, <1>7 DEF OperationOpen

(* What the operation did before its input commit is all it ever did.      *)
LEMMA PositionsKept ==
  ASSUME BundleTypeOK, LogAdmitted, LogCommits, NEW i \in 1..Len(log), IsInput(log[i]),
         NEW n \in i..Len(log),
         NEW kinds, "kernel_input_committed" \notin kinds, "kernel_bundle_committed" \notin kinds
  PROVE  Positions(SubSeq(log, 1, n), log[i].op, kinds) = Positions(Before(i), log[i].op, kinds)
<1>1. log \in Seq(Event) /\ n \in 0..Len(log) /\ Len(log) \in Nat BY DEF BundleTypeOK
<1>2. Positions(SubSeq(log, 1, n), log[i].op, kinds)
        = {j \in 1..n : log[j].op = log[i].op /\ log[j].kind \in kinds}
  BY <1>1, PrefixPositions
<1>3. Positions(Before(i), log[i].op, kinds)
        = {j \in 1..(i - 1) : log[j].op = log[i].op /\ log[j].kind \in kinds}
  BY BeforeAt
<1>4. ASSUME NEW j \in 1..n, log[j].op = log[i].op, log[j].kind \in kinds
      PROVE  j \in 1..(i - 1)
  <2>1. j # i BY <1>4 DEF IsInput
  <2>2. CASE j > i
    <3>1. j \in 1..Len(log) BY <1>1
    <3>2. IsBundle(log[j]) BY <1>4, <2>2, <3>1, NothingElseAfter
    <3>3. QED BY <1>4, <3>2 DEF IsBundle
  <2>3. CASE j < i BY <2>3
  <2>4. QED BY <2>1, <2>2, <2>3
<1>5. \A j \in 1..(i - 1) : j \in 1..n BY <1>1
<1>6. QED BY <1>2, <1>3, <1>4, <1>5

LEMMA StillControlled ==
  ASSUME BundleTypeOK, LogAdmitted, LogCommits, NEW i \in 1..Len(log), IsInput(log[i]),
         NEW n \in i..Len(log)
  PROVE  ControlledAttempt(SubSeq(log, 1, n), log[i].id.input)
<1> DEFINE in == log[i].id.input
           es == SubSeq(log, 1, n)
<1>1. ControlledAttempt(Before(i), in) /\ log[i].op = in.op BY InputCommitAt
<1>2. log \in Seq(Event) /\ n \in 0..Len(log) /\ Len(log) \in Nat BY DEF BundleTypeOK
<1>3. /\ Positions(es, in.op, {"attempt_opened"}) = Positions(Before(i), in.op, {"attempt_opened"})
      /\ Positions(es, in.op, {"attempt_closed"}) = Positions(Before(i), in.op, {"attempt_closed"})
      /\ Positions(es, in.op, {"authorization_recorded"})
           = Positions(Before(i), in.op, {"authorization_recorded"})
      /\ Positions(es, in.op, {"authorization_transmitted"})
           = Positions(Before(i), in.op, {"authorization_transmitted"})
  <2>1. \A kinds : "kernel_input_committed" \notin kinds /\ "kernel_bundle_committed" \notin kinds =>
          Positions(es, log[i].op, kinds) = Positions(Before(i), log[i].op, kinds)
    BY PositionsKept
  <2>2. QED BY <1>1, <2>1
<1>4. \A j \in 1..(i - 1) : es[j] = Before(i)[j]
  BY <1>2, BeforeAt, PrefixOf
<1>5. \A kinds : \A j \in Positions(Before(i), in.op, kinds) : j \in 1..(i - 1)
  BY BeforeAt
<1>6. /\ \A j \in Positions(Before(i), in.op, {"attempt_opened"}) : es[j] = Before(i)[j]
      /\ \A j \in Positions(Before(i), in.op, {"authorization_recorded"})
                \cup Positions(Before(i), in.op, {"authorization_transmitted"}) : es[j] = Before(i)[j]
  BY <1>4, <1>5
<1> HIDE DEF in, es
<1>7. ControlledAttempt(es, in)
  BY <1>1, <1>3, <1>6 DEF ControlledAttempt
<1>8. QED BY <1>7 DEF es, in

(* The ids of the two kinds of commit, and of commits at different heads,  *)
(* are different.                                                          *)
LEMMA BundleIdIsFresh ==
  ASSUME BundleTypeOK, LogCommits, NEW in \in Inputs, NEW head \in Nat, head + 2 > Len(log)
  PROVE  FreshId(log, BundleEvent(in, head))
<1> SUFFICES ASSUME NEW j \in 1..Len(log), log[j].id = BundleEvent(in, head).id PROVE FALSE
  BY DEF FreshId
<1>1. /\ log[j].id = BundleArtifact(in, head) /\ log[j].id \in CommitIds
      /\ log[j].id.head = head /\ log[j].id.namespace = "kernel-bundle"
  <2>1. BundleEvent(in, head).id = BundleArtifact(in, head)
        /\ BundleEvent(in, head) \in KernelEvent(in, head)
    BY KernelEventFields DEF KernelEvent
  <2>2. BundleEvent(in, head).id \in CommitIds /\ BundleEvent(in, head).id.head = head
    BY <2>1, KernelEventFields
  <2>3. BundleArtifact(in, head).namespace = "kernel-bundle" BY DEF BundleArtifact
  <2>4. QED BY <2>1, <2>2, <2>3
<1>2. CASE IsInput(log[j])
  <2>1. log[j].id = Manifest(log[j].id.input, j - 1) BY <1>2, InputCommitAt
  <2>2. \A x, h : Manifest(x, h).namespace = "kernel-input-manifest" BY DEF Manifest
  <2>3. log[j].id.namespace = "kernel-input-manifest" BY <2>1, <2>2
  <2>4. QED BY <1>1, <2>3
<1>3. CASE IsBundle(log[j])
  <2>1. log[j].id.head = j - 2 BY <1>3, BundleCommitAt
  <2>2. QED BY <1>1, <2>1 DEF BundleTypeOK
<1>4. CASE ~IsInput(log[j]) /\ ~IsBundle(log[j])
  <2>1. log[j] \in Event BY DEF BundleTypeOK
  <2>2. log[j] \in OtherEvents
    <3>1. SUFFICES ASSUME NEW x \in Inputs, NEW h \in Nat, log[j] \in KernelEvent(x, h) PROVE FALSE
      BY <2>1 DEF Event
    <3>2. QED BY <1>4, <3>1, KernelEventFields DEF KernelEvent
  <2>3. QED BY <1>1, <2>2, OtherEventFields
<1>5. QED BY <1>2, <1>3, <1>4

LEMMA RepeatsExactly == BundleInv => ExactRepeat
<1> SUFFICES ASSUME BundleInv, open, ~poisoned, NEW i \in CommitsOf(known, "kernel_input_committed")
             PROVE  LET in == log[i].id.input
                        head == log[i].id.head
                        bundle == BundleEvent(in, head)
                    IN  /\ Accepts(in, head)
                        /\ Replays(InputEvent(in, head), head)
                        /\ i < known => Replays(bundle, head + 1)
                        /\ i = known =>
                             /\ Admits(bundle, head + 1)
                             /\ \A e \in OtherEvents : ~LifecycleAdmits(Memory, e)
                             /\ \A c \in Call :
                                  Committing(c) /\ Admits(EventOf(c), HeadOf(c)) => EventOf(c) = bundle
  BY DEF ExactRepeat
<1> DEFINE in == log[i].id.input
           head == log[i].id.head
           bundle == BundleEvent(in, head)
<1>1. BundleTypeOK /\ LogAdmitted /\ LogCommits /\ \A c \in Call : CallInv(c) BY DEF BundleInv
<1>2. Memory = log /\ known = Len(log) /\ log \in Seq(Event) /\ Len(log) \in Nat
  BY <1>1, SoundMemory DEF BundleTypeOK
<1>3. i \in 1..Len(log) /\ IsInput(log[i]) BY <1>2 DEF CommitsOf, IsInput
<1>4. /\ in \in Inputs /\ head = i - 1 /\ head \in Nat /\ log[i] = InputEvent(in, head)
      /\ log[i].op = in.op /\ log[i].auth = in.auth
  BY <1>1, <1>3, InputCommitAt
<1>5. bundle \in KernelEvent(in, head) /\ IsBundle(bundle) /\ bundle.op = in.op /\ bundle.auth = in.auth
  BY <1>4, KernelEventFields DEF KernelEvent
<1> HIDE DEF bundle
<1>6. head + 1 = i /\ head < known BY <1>2, <1>3, <1>4
<1>7. Accepts(in, head)
  <2>1. SourceHeadOrReplay(in, head) BY <1>3, <1>4, <1>6 DEF SourceHeadOrReplay
  <2>2. ControlledAttempt(Memory, in)
    <3>1. Len(log) \in i..Len(log) BY <1>2, <1>3
    <3>2. ControlledAttempt(SubSeq(log, 1, Len(log)), in) BY <1>1, <1>3, <3>1, StillControlled
    <3>3. QED BY <1>2, <3>2, WholePrefix
  <2>3. QED BY <2>1, <2>2 DEF Accepts
<1>8. Replays(InputEvent(in, head), head) BY <1>4, <1>6 DEF Replays
<1>9. ASSUME i < known
      PROVE  Replays(bundle, head + 1)
  <2>1. i + 1 \in 1..Len(log) BY <1>2, <1>3, <1>9
  <2>2. log[i + 1] = BundleEvent(in, i - 1) BY <1>1, <1>3, <2>1, BundleIsNext
  <2>3. QED BY <1>4, <1>6, <1>9, <2>2 DEF Replays, bundle
<1>10. ASSUME i = known
       PROVE  /\ Admits(bundle, head + 1)
              /\ \A e \in OtherEvents : ~LifecycleAdmits(Memory, e)
              /\ \A c \in Call :
                   Committing(c) /\ Admits(EventOf(c), HeadOf(c)) => EventOf(c) = bundle
  <2>1. log # <<>> /\ log[Len(log)] = log[i] /\ log[Len(log)].kind = "kernel_input_committed"
    BY <1>2, <1>3, <1>10 DEF IsInput
  <2>2. \A e : Adjacent(log, e) => IsBundle(e) BY <2>1 DEF Adjacent, IsBundle
  <2>3. Adjacent(log, bundle) BY <1>4, <1>5, <2>1 DEF Adjacent, IsBundle
  <2>4. /\ OperationOpen(Before(i), log[i].op) /\ InputAllowed(Before(i), log[i].op)
    BY <1>1, <1>3 DEF LogAdmitted, LifecycleAdmits, IsInput
  <2>5. \A kinds : Positions(Before(i), log[i].op, kinds)
                   = {j \in 1..(i - 1) : log[j].op = log[i].op /\ log[j].kind \in kinds}
    BY <1>1, <1>3, BeforeAt
  <2>6. \A kinds : Positions(log, log[i].op, kinds)
                   = {j \in 1..i : log[j].op = log[i].op /\ log[j].kind \in kinds}
    BY <1>2, <1>10 DEF Positions
  <2>7. OperationOpen(log, log[i].op)
    <3>1. log[i].kind \notin ClosingKinds BY <1>3 DEF IsInput, ClosingKinds
    <3>2. QED BY <1>3, <2>4, <2>5, <2>6, <3>1 DEF OperationOpen
  <2>8. Positions(log, log[i].op, {"kernel_input_committed"}) = {i}
    BY <1>3, <2>4, <2>5, <2>6 DEF InputAllowed, IsInput
  <2>9. BundleAllowed(log, log[i].op, log[i].auth) BY <2>8 DEF BundleAllowed, ExactlyOne
  <2>10. LifecycleAdmits(log, bundle)
    <3>1. bundle.kind = "kernel_bundle_committed" BY <1>5 DEF IsBundle
    <3>2. bundle.op = log[i].op /\ bundle.auth = log[i].auth BY <1>4, <1>5
    <3>3. QED BY <2>3, <2>7, <2>9, <3>1, <3>2 DEF LifecycleAdmits
  <2>11. FreshId(log, bundle)
    <3>1. head + 2 > Len(log) BY <1>2, <1>4, <1>6, <1>10
    <3>2. QED BY <1>1, <1>4, <3>1, BundleIdIsFresh DEF bundle
  <2>12. Admits(bundle, head + 1) BY <1>2, <1>6, <1>10, <2>10, <2>11 DEF Admits, Recorded
  <2>13. \A e \in OtherEvents : ~LifecycleAdmits(Memory, e)
    BY <1>2, <2>2, OtherEventFields DEF LifecycleAdmits
  <2>14. ASSUME NEW c \in Call, Committing(c), Admits(EventOf(c), HeadOf(c))
         PROVE  EventOf(c) = bundle
    <3> DEFINE x == call[c].input
               h == call[c].head
    <3>1. x \in Inputs /\ h \in Nat BY <1>1, <2>14, EventOfType
    <3>2. IsBundle(EventOf(c)) BY <1>2, <2>2, <2>14 DEF Admits, LifecycleAdmits
    <3>3. pc[c] = "committingBundle"
      BY <2>14, <3>1, <3>2, KernelEventFields DEF EventOf, Committing
    <3>4. EventOf(c) = BundleEvent(x, h) /\ h + 1 = known
      BY <2>14, <3>3 DEF EventOf, HeadOf, Admits
    <3>5. log[h + 1] = InputEvent(x, h)
      BY <1>1, <3>3 DEF CallInv, Done, InputDone
    <3>6. h = head /\ log[i] = InputEvent(x, h) BY <1>4, <1>6, <1>10, <3>1, <3>4, <3>5
    <3>7. InputEvent(x, h).id.input = x
      BY <3>1, KernelEventFields DEF KernelEvent
    <3>8. x = in BY <3>6, <3>7
    <3>9. QED BY <3>4, <3>6, <3>8 DEF bundle
  <2>15. QED BY <2>12, <2>13, <2>14
<1>11. QED BY <1>7, <1>8, <1>9, <1>10 DEF bundle

(* On a sound handle a committed input is a promise to its exact           *)
(* repetition, and to nobody else.                                         *)
THEOREM RepeatsAreExact == Spec => []ExactRepeat
BY RepeatsExactly, BundlesAreBacked, PTL

-----------------------------------------------------------------------------
(* The refinement: a bundle commit closes, a receipt delivers.             *)

Closures == {Closure(log[i].id.input, log[i].id.head) :
               i \in CommitsOf(Len(log), "kernel_bundle_committed")}

LEMMA ClosuresAre ==
  ASSUME BundleTypeOK
  PROVE  \A x : x \in Closures <=>
           \E i \in 1..Len(log) : IsBundle(log[i]) /\ x = Closure(log[i].id.input, log[i].id.head)
BY DEF Closures, CommitsOf, IsBundle

LEMMA BackedIsClosed ==
  ASSUME BundleTypeOK, NEW in \in Inputs, NEW head \in Nat, Backed(in, head)
  PROVE  Closure(in, head) \in Closures
<1>1. head + 2 \in 1..Len(log) /\ log[head + 2] = BundleEvent(in, head)
  BY DEF Backed, Committed, BundleTypeOK
<1>2. /\ BundleEvent(in, head) \in KernelEvent(in, head) /\ IsBundle(BundleEvent(in, head))
      /\ BundleEvent(in, head).id.input = in /\ BundleEvent(in, head).id.head = head
  BY KernelEventFields DEF KernelEvent
<1>3. QED BY <1>1, <1>2, ClosuresAre

(* A record that is not a bundle commit closes nothing; a bundle commit    *)
(* closes an operation that no bundle commit closed before.                *)
LEMMA ClosuresStep ==
  ASSUME BundleInv, [Next]_vars, log' # log
  PROVE  \/ Closures' = Closures
         \/ \E cl : /\ cl.input \in Inputs /\ Closures' = Closures \cup {cl}
                    /\ \A other \in Closures : other.input.op # cl.input.op
<1>1. BundleTypeOK /\ LogCommits /\ BundleTypeOK' BY NextBundleType DEF BundleInv
<1>2. log \in Seq(Event) /\ Len(log) \in Nat BY <1>1 DEF BundleTypeOK
<1>3. \A x : x \in Closures <=>
         \E i \in 1..Len(log) : IsBundle(log[i]) /\ x = Closure(log[i].id.input, log[i].id.head)
  BY <1>1, ClosuresAre
<1>4. \A x : x \in Closures' <=>
         \E i \in 1..Len(log') : IsBundle(log'[i]) /\ x = Closure(log'[i].id.input, log'[i].id.head)
  BY <1>1 DEF BundleTypeOK, Closures, CommitsOf, IsBundle, Closure
<1>5. ASSUME NEW e, Written(e)
      PROVE  \A x : x \in Closures' <=>
               x \in Closures \/ (IsBundle(e) /\ x = Closure(e.id.input, e.id.head))
  <2>1. Len(log') = Len(log) + 1 /\ log'[Len(log) + 1] = e /\ \A i \in 1..Len(log) : log'[i] = log[i]
    BY <1>2, <1>5, Grown, <1>1 DEF Written
  <2>2. 1..Len(log') = 1..Len(log) \cup {Len(log) + 1} BY <1>2, <2>1
  <2>3. QED BY <1>3, <1>4, <2>1, <2>2
<1>6. CASE \E e \in OtherEvents : Written(e)
  <2>1. PICK e \in OtherEvents : Written(e) BY <1>6
  <2>2. QED BY <1>5, <2>1, OtherEventFields
<1>7. CASE \E c \in Call : WrittenByCall(c)
  <2>1. PICK c \in Call : WrittenByCall(c) BY <1>7
  <2> DEFINE e == EventOf(c)
             in == call[c].input
             head == call[c].head
  <2>2. in \in Inputs /\ head \in Nat /\ e \in KernelEvent(in, head) /\ Written(e)
    BY <1>1, <2>1, EventOfType DEF WrittenByCall
  <2>3. e.id.input = in /\ e.id.head = head /\ e.op = in.op BY <2>2, KernelEventFields
  <2>4. OperationOpen(log, e.op) BY <2>2 DEF Written, LifecycleAdmits
  <2> HIDE DEF e, in, head
  <2>5. ASSUME NEW other \in Closures
        PROVE  other.input.op # in.op
    <3>1. PICK i \in 1..Len(log) : IsBundle(log[i]) /\ other = Closure(log[i].id.input, log[i].id.head)
      BY <1>3
    <3>2. other.input = log[i].id.input BY <3>1 DEF Closure
    <3>3. log[i].op = log[i].id.input.op BY <1>1, <3>1, BundleCommitAt
    <3>4. log[i].op # e.op BY <2>4, <3>1 DEF OperationOpen, Positions, ClosingKinds, IsBundle
    <3>5. QED BY <2>3, <3>2, <3>3, <3>4
  <2>6. \A x : x \in Closures' <=> x \in Closures \/ (IsBundle(e) /\ x = Closure(in, head))
    BY <1>5, <2>2, <2>3
  <2>7. CASE ~IsBundle(e) BY <2>6, <2>7
  <2>8. CASE IsBundle(e)
    <3>1. Closures' = Closures \cup {Closure(in, head)} BY <2>6, <2>8
    <3>2. Closure(in, head).input = in BY DEF Closure
    <3>3. QED BY <2>2, <2>5, <3>1, <3>2
  <2>9. QED BY <2>7, <2>8
<1>8. QED BY <1>1, <1>6, <1>7, LogStep

LEMMA RegistryStep ==
  ASSUME BundleInv, [Next]_vars
  PROVE  [Registry!RegistryNext]_<<Closures, receipts>>
<1>1. BundleTypeOK /\ LogCommits /\ \A c \in Call : CallInv(c) BY DEF BundleInv
<1>2. CASE log' = log
  <2>1. Closures' = Closures BY <1>2 DEF Closures, CommitsOf, Closure
  <2>2. CASE receipts' = receipts BY <2>1, <2>2
  <2>3. CASE receipts' # receipts
    <3>1. PICK in \in Inputs, head \in Nat :
            Backed(in, head) /\ receipts' = receipts \cup {Closure(in, head)}
      BY <1>1, <2>3, ReceiptStep
    <3>2. Closure(in, head) \in Closures BY <1>1, <3>1, BackedIsClosed
    <3>3. Registry!Deliver(Closure(in, head))
      BY <2>1, <3>1, <3>2 DEF Registry!Deliver, Closures
    <3>4. QED BY <3>2, <3>3 DEF Registry!RegistryNext, Closures
  <2>4. QED BY <2>2, <2>3
<1>3. CASE log' # log
  <2>1. receipts' = receipts BY <1>1, <1>3, ReceiptStep
  <2>2. CASE Closures' = Closures BY <2>1, <2>2
  <2>3. CASE \E cl : /\ cl.input \in Inputs /\ Closures' = Closures \cup {cl}
                     /\ \A other \in Closures : other.input.op # cl.input.op
    <3>1. PICK cl : /\ cl.input \in Inputs /\ Closures' = Closures \cup {cl}
                    /\ \A other \in Closures : other.input.op # cl.input.op
      BY <2>3
    <3>2. Registry!Close(cl) BY <2>1, <3>1 DEF Registry!Close, Closures
    <3>3. cl \in Closures' BY <3>1
    <3>4. QED BY <3>2, <3>3 DEF Registry!RegistryNext, Closures
  <2>4. QED BY <1>3, <2>2, <2>3, ClosuresStep
<1>4. QED BY <1>2, <1>3

(* However calls race, crash and are repeated, an operation is closed once *)
(* and receipts name closures that happened: JournalBundle implements the  *)
(* registry.                                                               *)
THEOREM BundlesImplementRegistry == Spec => ImplementsRegistry
<1>1. Init => Registry!RegistryInit
  <2>1. Init => Len(log) = 0 BY DEF Init
  <2>2. QED BY <2>1 DEF Init, Registry!RegistryInit, CommitsOf
<1>2. BundleInv /\ [Next]_vars => [Registry!RegistryNext]_<<Closures, receipts>>
  BY RegistryStep
<1>3. QED BY <1>1, <1>2, BundlesAreBacked, PTL
      DEF Spec, ImplementsRegistry, Registry!RegistrySpec, Closures

-----------------------------------------------------------------------------
(* The promises of the journal and of the store, which the model of a      *)
(* close takes over: they are kept, and nothing else happens to the log    *)
(* and to what is durable.                                                 *)

(* What a receipt tells its caller of the journal: the bundle commit, at   *)
(* the head the call asked for.                                            *)
BundleAck(es, r) ==
  LET before == SubSeq(es, 1, r.head + 1)
  IN  [rec |-> [event |-> BundleEvent(r.input, r.head), prev |-> before], head |-> before]
Acknowledged == {BundleAck(log, r) : r \in receipts}

(* A close names the head of every append.                                 *)
JournalPromise == INSTANCE EvidenceLog WITH
  Events <- Event, NoHead <- NoCall, log <- log, acked <- Acknowledged

ClosureArtifacts(in, head) == ManifestArtifacts(in, head) \cup {BundleArtifact(in, head)}
StoreArtifacts == UNION {ClosureArtifacts(in, head) : in \in Inputs, head \in Nat}

(* A receipt of a closure stands for the put of its bundle.                *)
BundlePut == [input : Inputs, head : Nat]
StorePromise == INSTANCE EvidenceStore WITH
  Artifact <- StoreArtifacts, Put <- BundlePut,
  ArtifactOf <- [p \in BundlePut |-> BundleArtifact(p.input, p.head)],
  kept <- durable, receipts <- receipts

LEMMA SameLifecycle ==
  ASSUME NEW es, NEW e
  PROVE  /\ JournalPromise!FreshId(es, e) <=> FreshId(es, e)
         /\ JournalPromise!LifecycleAdmits(es, e) <=> LifecycleAdmits(es, e)
<1>1. JournalPromise!FreshId(es, e) <=> FreshId(es, e)
  BY DEF JournalPromise!FreshId, FreshId
<1>2. JournalPromise!Adjacent(es, e) <=> Adjacent(es, e)
  BY DEF JournalPromise!Adjacent, Adjacent
<1>3. \A op, kinds : JournalPromise!Positions(es, op, kinds) = Positions(es, op, kinds)
  BY DEF JournalPromise!Positions, Positions
<1>4. JournalPromise!OperationOpen(es, e.op) <=> OperationOpen(es, e.op)
  BY <1>3 DEF JournalPromise!OperationOpen, OperationOpen, JournalPromise!ClosingKinds, ClosingKinds
<1>5. JournalPromise!InputAllowed(es, e.op) <=> InputAllowed(es, e.op)
  BY <1>3 DEF JournalPromise!InputAllowed, InputAllowed, JournalPromise!ExactlyOne, ExactlyOne
<1>6. JournalPromise!BundleAllowed(es, e.op, e.auth) <=> BundleAllowed(es, e.op, e.auth)
  BY <1>3 DEF JournalPromise!BundleAllowed, BundleAllowed, JournalPromise!ExactlyOne, ExactlyOne
<1>7. QED BY <1>1, <1>2, <1>4, <1>5, <1>6 DEF JournalPromise!LifecycleAdmits, LifecycleAdmits

(* What was acknowledged stays what it was: the log grows behind it.       *)
LEMMA AckStays ==
  ASSUME BundleInv, [Next]_vars, NEW r \in receipts
  PROVE  BundleAck(log', r) = BundleAck(log, r)
<1>1. r.head \in Nat /\ r.head + 2 <= Len(log) BY DEF BundleInv, ReceiptInv, ReceiptsHold, Committed
<1>2. r.head + 1 \in 0..Len(log) BY <1>1 DEF BundleInv, BundleTypeOK
<1>3. SubSeq(log', 1, r.head + 1) = SubSeq(log, 1, r.head + 1) BY <1>2, Grown DEF BundleInv
<1>4. QED BY <1>3 DEF BundleAck

LEMMA JournalPromiseStep ==
  ASSUME BundleInv, [Next]_vars
  PROVE  [JournalPromise!LogNext]_<<log, Acknowledged>>
<1>1. BundleTypeOK /\ LogCommits /\ \A c \in Call : CallInv(c) BY DEF BundleInv
<1>2. CASE receipts' = receipts
  <2>1. Acknowledged' = Acknowledged
    <3>1. Acknowledged' = {BundleAck(log', r) : r \in receipts} BY <1>2 DEF Acknowledged, BundleAck
    <3>2. QED BY <3>1, AckStays DEF Acknowledged
  <2>2. CASE log' = log BY <2>1, <2>2
  <2>3. CASE log' # log
    <3>1. PICK e \in Event : Written(e) BY <1>1, <2>3, WrittenEvent
    <3>2. JournalPromise!Commit(e)
      BY <2>1, <3>1, SameLifecycle DEF Written, JournalPromise!Commit
    <3>3. QED BY <3>2 DEF JournalPromise!LogNext
  <2>4. QED BY <2>2, <2>3
<1>3. CASE receipts' # receipts
  <2>1. PICK in \in Inputs, head \in Nat :
          /\ log' = log /\ Backed(in, head)
          /\ receipts' = receipts \cup {Closure(in, head)}
    BY <1>1, <1>3, ReceiptStep
  <2> DEFINE i == head + 2
             before == SubSeq(log, 1, i - 1)
             ack == [rec |-> [event |-> log[i], prev |-> before], head |-> before]
  <2>2. i \in 1..Len(log) /\ i - 1 = head + 1 /\ log[i] = BundleEvent(in, head)
    BY <1>1, <2>1 DEF Backed, Committed, BundleTypeOK
  <2>3. BundleAck(log, Closure(in, head)) = ack
    BY <2>2 DEF BundleAck, Closure
  <2>4. Acknowledged' = Acknowledged \cup {ack}
    <3>1. Acknowledged' = {BundleAck(log, r) : r \in receipts \cup {Closure(in, head)}}
      BY <2>1 DEF Acknowledged, BundleAck
    <3> HIDE DEF ack
    <3>2. QED BY <2>3, <3>1 DEF Acknowledged
  <2>5. JournalPromise!Acknowledge(i, before)
    BY <2>1, <2>4 DEF JournalPromise!Acknowledge
  <2> HIDE DEF i
  <2>6. QED BY <2>2, <2>5 DEF JournalPromise!LogNext
<1>4. QED BY <1>2, <1>3

(* Calls, crashes and recoveries use the journal by its promise alone: the *)
(* log grows by events its lifecycle admits, and the bundle commit of a    *)
(* receipt is the record of the log at the head the caller named.          *)
THEOREM BundlesKeepJournalPromise == Spec => JournalPromise!LogSpec
<1>1. Init => JournalPromise!LogInit BY DEF Init, JournalPromise!LogInit, Acknowledged
<1>2. BundleInv /\ [Next]_vars => [JournalPromise!LogNext]_<<log, Acknowledged>>
  BY JournalPromiseStep
<1>3. QED BY <1>1, <1>2, BundlesAreBacked, PTL DEF Spec, JournalPromise!LogSpec

(* Nothing but the artifacts of closures is ever seen in the store.        *)
LEMMA StoreGrowsByArtifacts ==
  ASSUME BundleTypeOK, visible \subseteq StoreArtifacts, [Next]_vars
  PROVE  visible' \subseteq StoreArtifacts
<1> USE DEF storeVars
<1>1. ASSUME NEW c \in Call, pc[c] # "idle"
      PROVE  /\ BundleArtifact(call[c].input, call[c].head) \in StoreArtifacts
             /\ ~AllStored(c) => NextArtifact(c) \in StoreArtifacts
  <2> DEFINE in == call[c].input
             head == call[c].head
  <2>1. in \in Inputs /\ head \in Nat /\ call[c].next \in Nat \ {0}
    BY <1>1 DEF BundleTypeOK, Closing_
  <2>2. Len(InputArtifacts(in, head)) \in Nat BY <2>1, Artifacts
  <2>3. ClosureArtifacts(in, head) \subseteq StoreArtifacts BY <2>1 DEF StoreArtifacts
  <2>4. BundleArtifact(in, head) \in ClosureArtifacts(in, head) BY DEF ClosureArtifacts
  <2>5. ASSUME ~AllStored(c)
        PROVE  NextArtifact(c) \in ClosureArtifacts(in, head)
    <3>1. call[c].next \in 1..Len(InputArtifacts(in, head)) BY <2>1, <2>2, <2>5 DEF AllStored
    <3>2. QED BY <3>1 DEF NextArtifact, ClosureArtifacts, ManifestArtifacts
  <2>6. QED BY <2>3, <2>4, <2>5
<1>2. ASSUME NEW c \in Call, Step(c)
      PROVE  visible' \subseteq StoreArtifacts
  <2>1. CASE Store(c) BY <1>1, <2>1 DEF Store, Stored
  <2>2. CASE StoreBundle(c) BY <1>1, <2>2 DEF StoreBundle, Stored
  <2>3. CASE PutFails(c) BY <1>1, <2>3 DEF PutFails
  <2>4. CASE ~(Store(c) \/ StoreBundle(c) \/ PutFails(c))
    <3>1. visible' = visible
      BY <1>2, <2>4 DEF Step, Reread, Replay, Commit, CommitUncertain, Verify, Abandon
    <3>2. QED BY <3>1
  <2>5. QED BY <2>1, <2>2, <2>3, <2>4
<1>3. CASE \E c \in Call, in \in Inputs, head \in 0..known : Start(c, in, head)
  BY <1>3 DEF Start
<1>4. CASE Recover \/ AppendOther \/ OpenJournal \/ CloseJournal \/ Crash
  BY <1>4 DEF Recover, AppendOther, OpenJournal, CloseJournal, Crash, Die
<1>5. CASE PowerLoss BY <1>5 DEF PowerLoss
<1>6. CASE UNCHANGED vars BY <1>6 DEF vars
<1>7. QED BY <1>2, <1>3, <1>4, <1>5, <1>6 DEF Next

LEMMA StorePromiseStep ==
  ASSUME BundleInv, BundleInv', visible' \subseteq StoreArtifacts, [Next]_vars
  PROVE  StorePromise!StoreNext
<1>1. BundleTypeOK /\ LogCommits /\ \A c \in Call : CallInv(c) BY DEF BundleInv
<1>2. durable \subseteq durable' BY <1>1, DurableGrows
<1>3. durable' \subseteq StoreArtifacts BY DEF BundleInv, BundleTypeOK
<1>4. receipts \subseteq receipts' BY <1>1, ReceiptStep
<1>5. ASSUME NEW p \in receipts'
      PROVE  p \in BundlePut /\ BundleArtifact(p.input, p.head) \in durable'
  <2>1. p.input \in Inputs /\ p.head \in Nat /\ p = Closure(p.input, p.head)
    BY <1>5 DEF BundleInv, ReceiptInv
  <2>2. BundleArtifact(p.input, p.head) \in durable' BY <1>5 DEF BundleInv, ReceiptsHold
  <2>3. QED BY <2>1, <2>2 DEF BundlePut, Closure
<1>6. QED BY <1>2, <1>3, <1>4, <1>5 DEF StorePromise!StoreNext

(* Calls, crashes and power losses use the store by its promise alone:     *)
(* what is durable only grows, by artifacts of closures, and a receipt is  *)
(* given when its bundle is durable.                                       *)
THEOREM BundlesKeepStorePromise == Spec => StorePromise!StoreSpec
<1> DEFINE Inv == BundleInv /\ visible \subseteq StoreArtifacts
<1>1. Init => StorePromise!StoreInit BY DEF Init, StorePromise!StoreInit
<1>2. Init => Inv BY InitBundleInv DEF Init
<1>3. Inv /\ [Next]_vars => Inv'
  BY NextBundleInv, StoreGrowsByArtifacts DEF BundleInv
<1>4. Inv /\ Inv' /\ [Next]_vars => [StorePromise!StoreNext]_<<durable, receipts>>
  BY StorePromiseStep
<1> HIDE DEF Inv
<1>5. QED BY <1>1, <1>2, <1>3, <1>4, PTL DEF Spec, StorePromise!StoreSpec

-----------------------------------------------------------------------------
(* The close command.                                                      *)

RunPhases ==
  {"idle", "checking", "recovering", "matching", "auditingReplay", "auditing", "collecting",
   "closing", "confirming", "ended"}

Codes ==
  {"none", "FAILED", "SHADOW_LIFECYCLE", "SHADOW_JOURNAL_ADVANCED_OUTSIDE_EXACT_REPLAY",
   "SHADOW_PENDING_INPUT_REQUIRES_OPERATOR_RECOVERY", "SHADOW_CLOSURE_MISMATCH",
   "SHADOW_RECOVERY_AUDIT_NOT_CLEAN"}
Runs == [phase : RunPhases, intent : Intents \cup {NoIntent}, replay : BOOLEAN, code : Codes]

RunTypeOK ==
  /\ run \in Runs
  /\ run.phase # "idle" => run.intent \in Intents /\ open
  /\ run.phase \notin {"idle", "ended"} => ~poisoned

(* Nobody but the run closes, and it closes one operation.                 *)
OneCloser ==
  /\ run.phase # "closing" => \A c \in Call : pc[c] = "idle"
  /\ run.phase = "closing" =>
       \E c \in Call : pc[c] # "idle" /\ \A d \in Call : d # c => pc[d] = "idle"

(* A fresh close is of an operation no result is about; a replay is of one *)
(* whose bundle commit is in the journal.                                  *)
RunFacts ==
  /\ run.phase \in {"auditing", "collecting"} => known = Pins.head
  /\ run.phase \in {"auditing", "collecting", "closing", "confirming"} =>
       \A r \in results : r.intent.op # Pins.op
  /\ run.phase \in {"recovering", "matching", "auditingReplay"} => ReplayBundle(Pins)
  /\ run.phase = "auditingReplay" => Matches(CommittedInput(Pins), Pins)

ResultInv ==
  \A r \in results :
    /\ r.intent \in Intents /\ r.closure.input \in Inputs
    /\ r.closure = Closure(r.closure.input, r.intent.head)
    /\ Backed(r.closure.input, r.intent.head)
    /\ Matches(r.closure.input, r.intent)
    /\ r.intent.head <= Len(log)

FreshOnce ==
  \A r, s \in results :
    r.intent.op = s.intent.op /\ r.disposition = "committed" /\ s.disposition = "committed" => r = s

RunnerInv ==
  /\ BundleInv
  /\ RunTypeOK
  /\ OneCloser
  /\ RunFacts
  /\ ResultInv
  /\ FreshOnce

(* A move and an end change where the run is, and not what it is pinned to.*)
LEMMA MoveIs ==
  ASSUME RunTypeOK, NEW from, NEW to \in RunPhases, Move(from, to)
  PROVE  /\ run.phase = from /\ run'.phase = to /\ run'.intent = run.intent
         /\ run' \in Runs
BY DEF RunTypeOK, Move, Runs

LEMMA EndIs ==
  ASSUME RunTypeOK, NEW code \in Codes, End(code)
  PROVE  /\ run'.phase = "ended" /\ run'.intent = run.intent
         /\ run' \in Runs
<1>1. "ended" \in RunPhases BY DEF RunPhases
<1>2. QED BY <1>1 DEF RunTypeOK, End, Runs

LEMMA NoRunIs ==
  /\ NoRun.phase = "idle"
  /\ NoRun \in Runs
BY DEF NoRun, RunPhases, Runs, Codes

(* What a step of the run is, with the journal and the calls left out.     *)
Quiet ==
  /\ UNCHANGED <<vars, results>>
  /\ run' \in Runs /\ run'.intent = run.intent
  /\ run.phase \notin {"idle", "closing", "ended"}
  /\ run'.phase \in {"auditing", "collecting", "recovering", "matching", "auditingReplay", "ended"}
  /\ run'.phase = "auditing" => ControlledLifecycle(Pins) /\ known = Pins.head
  /\ run'.phase = "collecting" => run.phase = "auditing"
  /\ run'.phase = "recovering" => ReplayBundle(Pins)
  /\ run'.phase = "matching" => run.phase = "recovering"
  /\ run'.phase = "auditingReplay" => run.phase = "matching" /\ Matches(CommittedInput(Pins), Pins)

(* A result is produced over the bundle commit the pins point to.          *)
Result(disposition) ==
  [intent |-> Pins, disposition |-> disposition,
   closure |-> Closure(CommittedInput(Pins), Pins.head), at |-> made]
Produced(disposition) ==
  /\ UNCHANGED vars
  /\ results' = results \cup {Result(disposition)}
  /\ run.phase = IF disposition = "committed" THEN "confirming" ELSE "auditingReplay"
  /\ run.phase = "confirming" =>
       /\ Verified(CommittedInput(Pins), Pins.head) /\ Matches(CommittedInput(Pins), Pins)
  /\ run'.phase = "ended" /\ run'.intent = run.intent
  /\ run' \in Runs

Quietly == Check \/ RecoverRun \/ MatchReplay \/ AuditReplay \/ FirstAudit \/ CollectFails \/ Confirm

LEMMA QuietStep ==
  ASSUME RunTypeOK, known \in Nat, Quietly
  PROVE  Quiet \/ Produced("exact_replay") \/ Produced("committed")
<1>0. /\ "auditing" \in RunPhases /\ "recovering" \in RunPhases /\ "matching" \in RunPhases
      /\ "auditingReplay" \in RunPhases /\ "collecting" \in RunPhases
  BY DEF RunPhases
<1>c. /\ "none" \in Codes /\ "FAILED" \in Codes /\ "SHADOW_LIFECYCLE" \in Codes
      /\ "SHADOW_JOURNAL_ADVANCED_OUTSIDE_EXACT_REPLAY" \in Codes
      /\ "SHADOW_PENDING_INPUT_REQUIRES_OPERATOR_RECOVERY" \in Codes
      /\ "SHADOW_CLOSURE_MISMATCH" \in Codes /\ "SHADOW_RECOVERY_AUDIT_NOT_CLEAN" \in Codes
  BY DEF Codes
<1>1. CASE Check
  <2>0. Pins.head \in Nat /\ run.phase = "checking"
    <3>1. run.phase = "checking" BY <1>1 DEF Check
    <3>2. run.intent \in Intents BY <3>1 DEF RunTypeOK
    <3>3. QED BY <3>1, <3>2, IntentsAssumption DEF Pins
  <2>1. CASE ~ControlledLifecycle(Pins)
    <3>1. End("SHADOW_LIFECYCLE") /\ run.phase = "checking" BY <1>1, <2>1 DEF Check
    <3>2. QED BY <1>1, <3>1, <1>c, EndIs DEF Check, Quiet
  <2>2. CASE ControlledLifecycle(Pins) /\ known = Pins.head
    <3>1. Move("checking", "auditing")
      <4>1. ~(known > Pins.head) BY <2>0, <2>2
      <4>2. QED BY <1>1, <2>2, <4>1 DEF Check
    <3>2. /\ run' \in Runs /\ run'.intent = run.intent
          /\ run.phase = "checking" /\ run'.phase = "auditing"
      BY <1>0, <3>1, MoveIs
    <3>3. UNCHANGED <<vars, results>> BY <1>1 DEF Check
    <3>4. QED BY <2>2, <3>2, <3>3 DEF Quiet
  <2>3. CASE ControlledLifecycle(Pins) /\ known > Pins.head
    <3>0. known # Pins.head BY <2>0, <2>3
    <3>1. CASE ReplayInput(Pins) /\ ReplayBundle(Pins)
      <4>1. run' = [run EXCEPT !.phase = "recovering", !.replay = TRUE] /\ run.phase = "checking"
        BY <1>1, <2>3, <3>0, <3>1 DEF Check
      <4>2. /\ run'.phase = "recovering" /\ run'.intent = run.intent
            /\ run' \in Runs
        BY <1>0, <4>1 DEF RunTypeOK, Runs
      <4>3. UNCHANGED <<vars, results>> BY <1>1 DEF Check
      <4>4. QED BY <3>1, <4>1, <4>2, <4>3 DEF Quiet
    <3>2. CASE ~(ReplayInput(Pins) /\ ReplayBundle(Pins))
      <4>1. /\ \/ End("SHADOW_JOURNAL_ADVANCED_OUTSIDE_EXACT_REPLAY")
               \/ End("SHADOW_PENDING_INPUT_REQUIRES_OPERATOR_RECOVERY")
            /\ run.phase = "checking"
        BY <1>1, <2>3, <3>0, <3>2 DEF Check
      <4>2. QED BY <1>1, <4>1, <1>c, EndIs DEF Check, Quiet
    <3>3. QED BY <3>1, <3>2
  <2>4. ControlledLifecycle(Pins) => known = Pins.head \/ known > Pins.head
    <3>1. ControlledLifecycle(Pins) => Pins.head \in 1..known BY DEF ControlledLifecycle
    <3>2. QED BY <3>1
  <2>5. QED BY <2>1, <2>2, <2>3, <2>4
<1>2. CASE RecoverRun
  <2>1. /\ Move("recovering", "matching") \/ End("FAILED")
        /\ run.phase = "recovering" /\ UNCHANGED <<vars, results>>
    BY <1>2 DEF RecoverRun
  <2>2. QED BY <1>0, <2>1, MoveIs, <1>c, EndIs DEF Quiet
<1>3. CASE MatchReplay
  <2>1. /\ \/ Matches(CommittedInput(Pins), Pins) /\ Move("matching", "auditingReplay")
           \/ End("SHADOW_CLOSURE_MISMATCH")
        /\ run.phase = "matching" /\ UNCHANGED <<vars, results>>
    BY <1>3 DEF MatchReplay
  <2>2. QED BY <1>0, <2>1, MoveIs, <1>c, EndIs DEF Quiet
<1>4. CASE AuditReplay
  <2>1. CASE AuditStatus(known) = "clean"
    <3>1. /\ results' = results \cup {Result("exact_replay")} /\ End("none")
          /\ run.phase = "auditingReplay" /\ UNCHANGED vars
      BY <1>4, <2>1 DEF AuditReplay, Produce, Result
    <3>2. QED BY <3>1, <1>c, EndIs DEF Produced
  <2>2. CASE AuditStatus(known) # "clean"
    <3>1. End("SHADOW_RECOVERY_AUDIT_NOT_CLEAN") /\ UNCHANGED <<vars, results>>
          /\ run.phase = "auditingReplay"
      BY <1>4, <2>2 DEF AuditReplay
    <3>2. QED BY <3>1, <1>c, EndIs DEF Quiet
  <2>3. QED BY <2>1, <2>2
<1>5. CASE FirstAudit
  <2>1. /\ Move("auditing", "collecting") \/ End("SHADOW_RECOVERY_AUDIT_NOT_CLEAN")
        /\ run.phase = "auditing" /\ UNCHANGED <<vars, results>>
    BY <1>5 DEF FirstAudit
  <2>2. QED BY <1>0, <2>1, MoveIs, <1>c, EndIs DEF Quiet
<1>6. CASE CollectFails
  <2>1. End("FAILED") /\ run.phase = "collecting" /\ UNCHANGED <<vars, results>>
    BY <1>6 DEF CollectFails
  <2>2. QED BY <2>1, <1>c, EndIs DEF Quiet
<1>7. CASE Confirm
  <2>0. run.phase = "confirming" /\ UNCHANGED vars BY <1>7 DEF Confirm
  <2>1. CASE /\ Verified(CommittedInput(Pins), Pins.head) /\ Matches(CommittedInput(Pins), Pins)
             /\ AuditStatus(known) = "clean"
    <3>1. results' = results \cup {Result("committed")} /\ End("none")
      BY <1>7, <2>1 DEF Confirm, Produce, Result
    <3>2. QED BY <2>0, <2>1, <3>1, <1>c, EndIs DEF Produced
  <2>2. CASE ~ (/\ Verified(CommittedInput(Pins), Pins.head) /\ Matches(CommittedInput(Pins), Pins)
                /\ AuditStatus(known) = "clean")
    <3>1. /\ End("SHADOW_CLOSURE_MISMATCH") \/ End("SHADOW_RECOVERY_AUDIT_NOT_CLEAN")
          /\ UNCHANGED results
      BY <1>7, <2>2 DEF Confirm
    <3>2. QED BY <2>0, <3>1, <1>c, EndIs DEF Quiet
  <2>3. QED BY <2>1, <2>2
<1>8. QED BY <1>1, <1>2, <1>3, <1>4, <1>5, <1>6, <1>7 DEF Quietly

(* A step of the calls under the run.                                      *)
ClosingStep ==
  /\ run.phase \in {"closing"} /\ UNCHANGED results
  /\ run' \in Runs /\ run'.intent = run.intent
  /\ \E c \in Call :
       \/ run'.phase = "closing" /\ (Store(c) \/ Reread(c) \/ StoreBundle(c) \/ Replay(c) \/ Commit(c))
       \/ run'.phase = "confirming" /\ Verify(c)
       \/ run'.phase = "ended" /\ (PutFails(c) \/ CommitUncertain(c) \/ Abandon(c))

LEMMA ClosingStepIs ==
  ASSUME RunTypeOK, \E c \in Call : Closing(c) \/ CloseReturns(c) \/ CloseThrows(c)
  PROVE  ClosingStep
<1>1. PICK c \in Call : Closing(c) \/ CloseReturns(c) \/ CloseThrows(c) OBVIOUS
<1>2. CASE Closing(c) BY <1>2 DEF Closing, ClosingStep, RunTypeOK
<1>3. CASE CloseReturns(c)
  <2>1. "confirming" \in RunPhases BY DEF RunPhases
  <2>2. Move("closing", "confirming") /\ Verify(c) /\ UNCHANGED results BY <1>3 DEF CloseReturns
  <2>3. QED BY <2>1, <2>2, MoveIs DEF ClosingStep
<1>4. CASE CloseThrows(c)
  <2>1. "FAILED" \in Codes BY DEF Codes
  <2>2. /\ End("FAILED") /\ run.phase = "closing" /\ UNCHANGED results
        /\ PutFails(c) \/ CommitUncertain(c) \/ Abandon(c)
    BY <1>4 DEF CloseThrows
  <2>3. QED BY <2>1, <2>2, EndIs DEF ClosingStep
<1>5. QED BY <1>1, <1>2, <1>3, <1>4

(* The steps of the command are steps of the journal, the store and the    *)
(* calls: what is proved of JournalBundle holds under it.                  *)
LEMMA RunnerSteps ==
  ASSUME BundleTypeOK, RunTypeOK, OneCloser, RunFacts, [RunnerNext]_allVars
  PROVE  [Next]_vars
<1> USE DEF journalVars, storeVars
<1>1. CASE \E i \in Intents : Begin(i)
  <2>1. OpenJournal BY <1>1 DEF Begin, OpenJournal
  <2>2. QED BY <2>1 DEF Next
<1>2. CASE Quietly
  <2>1. UNCHANGED vars
    BY <1>2 DEF Quietly, Check, RecoverRun, MatchReplay, AuditReplay, FirstAudit, CollectFails, Confirm
  <2>2. QED BY <2>1
<1>3. CASE \E c \in Call : Collect(c)
  <2>1. PICK c \in Call, in \in Inputs : Start(c, in, Pins.head) /\ run.phase = "collecting"
    BY <1>3 DEF Collect, Move
  <2>2. known = Pins.head BY <2>1 DEF RunFacts
  <2>3. Pins.head \in 0..known BY <2>2 DEF BundleTypeOK
  <2>4. QED BY <2>1, <2>3 DEF Next
<1>4. CASE \E c \in Call : Closing(c) \/ CloseReturns(c) \/ CloseThrows(c)
  <2>1. PICK c \in Call : Step(c)
    BY <1>4 DEF Closing, CloseReturns, CloseThrows, Step
  <2>2. QED BY <2>1 DEF Next
<1>5. CASE EndRun
  <2>1. open /\ \A c \in Call : pc[c] = "idle" BY <1>5 DEF EndRun, RunTypeOK, OneCloser
  <2>2. CloseJournal BY <1>5, <2>1 DEF EndRun, CloseJournal
  <2>3. QED BY <2>2 DEF Next
<1>6. CASE Application BY <1>6 DEF Application, Next
<1>7. CASE RunnerDies BY <1>7 DEF RunnerDies, Next
<1>8. CASE UNCHANGED allVars BY <1>8 DEF allVars
<1>9. QED BY <1>1, <1>2, <1>3, <1>4, <1>5, <1>6, <1>7, <1>8 DEF RunnerNext, RunStep, Quietly

LEMMA RunnerCases ==
  ASSUME RunTypeOK, known \in Nat, [RunnerNext]_allVars
  PROVE  \/ \E i \in Intents : Begin(i)
         \/ Quiet \/ Produced("exact_replay") \/ Produced("committed")
         \/ \E c \in Call : Collect(c)
         \/ ClosingStep
         \/ EndRun \/ Application \/ RunnerDies \/ UNCHANGED allVars
<1>1. CASE Quietly BY <1>1, QuietStep
<1>2. CASE \E c \in Call : Closing(c) \/ CloseReturns(c) \/ CloseThrows(c) BY <1>2, ClosingStepIs
<1>3. QED BY <1>1, <1>2 DEF RunnerNext, RunStep, Quietly

LEMMA CollectIs ==
  ASSUME RunTypeOK, NEW c \in Call, Collect(c)
  PROVE  /\ run.phase = "collecting" /\ run'.phase = "closing" /\ run'.intent = run.intent
         /\ run' \in Runs /\ results' = results
         /\ \E in \in Inputs : Start(c, in, Pins.head)
<1>1. "closing" \in RunPhases BY DEF RunPhases
<1>2. Move("collecting", "closing") /\ results' = results
      /\ \E in \in Inputs : Start(c, in, Pins.head)
  BY DEF Collect
<1>3. QED BY <1>1, <1>2, MoveIs

LEMMA BeginIs ==
  ASSUME NEW i \in Intents, Begin(i)
  PROVE  /\ run.phase = "idle" /\ run'.phase = "checking" /\ run'.intent = i /\ run' \in Runs
         /\ open' = TRUE /\ poisoned' = FALSE /\ UNCHANGED <<log, pc, call, durable, results>>
<1>1. run' = [phase |-> "checking", intent |-> i, replay |-> FALSE, code |-> "none"] BY DEF Begin
<1>2. "checking" \in RunPhases /\ "none" \in Codes BY DEF RunPhases, Codes
<1>3. run'.phase = "checking" /\ run'.intent = i /\ run' \in Runs BY <1>1, <1>2 DEF Runs
<1>4. QED BY <1>3 DEF Begin, storeVars

LEMMA EndRunIs ==
  ASSUME EndRun \/ RunnerDies
  PROVE  /\ run'.phase = "idle" /\ run' \in Runs /\ results' = results
         /\ EndRun => run.phase = "ended" /\ pc' = pc
         /\ RunnerDies => \A c \in Call : pc'[c] = "idle"
<1>1. run' = NoRun /\ results' = results BY DEF EndRun, RunnerDies
<1>2. EndRun => run.phase = "ended" /\ pc' = pc BY DEF EndRun
<1>3. RunnerDies => \A c \in Call : pc'[c] = "idle" BY DEF RunnerDies, Crash, PowerLoss, Die
<1>4. QED BY <1>1, <1>2, <1>3, NoRunIs

LEMMA RunTypeStays ==
  ASSUME BundleTypeOK, RunTypeOK, [RunnerNext]_allVars
  PROVE  RunTypeOK'
<1> USE DEF journalVars, storeVars
<1>0. known \in Nat BY DEF BundleTypeOK
<1>1. ASSUME NEW i \in Intents, Begin(i) PROVE RunTypeOK' BY <1>1, BeginIs DEF RunTypeOK
<1>2. CASE Quiet \/ Produced("exact_replay") \/ Produced("committed")
  BY <1>2 DEF Quiet, Produced, RunTypeOK, vars
<1>3. ASSUME NEW c \in Call, Collect(c)
      PROVE  RunTypeOK'
  <2>1. UNCHANGED <<open, poisoned>> BY <1>3, CollectIs DEF Start
  <2>2. QED BY <1>3, <2>1, CollectIs DEF RunTypeOK
<1>4. CASE ClosingStep
  <2>1. open' = open /\ (run'.phase # "ended" => poisoned' = poisoned)
    BY <1>4 DEF ClosingStep, Store, Reread, StoreBundle, Replay, Commit, Verify, PutFails,
                CommitUncertain, Abandon
  <2>2. run.phase = "closing" /\ run' \in Runs /\ run'.intent = run.intent
        /\ run'.phase \in {"closing", "confirming", "ended"}
    BY <1>4 DEF ClosingStep
  <2>3. QED BY <2>1, <2>2 DEF RunTypeOK
<1>5. CASE EndRun \/ RunnerDies BY <1>5, EndRunIs DEF RunTypeOK
<1>6. CASE Application BY <1>6 DEF Application, RunTypeOK
<1>7. CASE UNCHANGED allVars BY <1>7 DEF allVars, vars, RunTypeOK
<1>8. QED BY <1>0, <1>1, <1>2, <1>3, <1>4, <1>5, <1>6, <1>7, RunnerCases

LEMMA OneCloserStays ==
  ASSUME BundleTypeOK, RunTypeOK, OneCloser, [RunnerNext]_allVars
  PROVE  OneCloser'
<1> USE DEF journalVars, storeVars
<1>0. known \in Nat BY DEF BundleTypeOK
<1>1. ASSUME NEW i \in Intents, Begin(i) PROVE OneCloser' BY <1>1, BeginIs DEF OneCloser
<1>2. CASE Quiet \/ Produced("exact_replay") \/ Produced("committed")
  <2>1. pc' = pc /\ run.phase # "closing" /\ run'.phase # "closing"
    BY <1>2 DEF Quiet, Produced, vars
  <2>2. QED BY <2>1 DEF OneCloser
<1>3. ASSUME NEW c \in Call, Collect(c)
      PROVE  OneCloser'
  <2>1. pc' = [pc EXCEPT ![c] = "storing"] BY <1>3, CollectIs DEF Start
  <2>2. pc'[c] = "storing" /\ \A d \in Call : d # c => pc'[d] = pc[d] BY <2>1 DEF BundleTypeOK
  <2>3. \A d \in Call : pc[d] = "idle" BY <1>3, CollectIs DEF OneCloser
  <2>4. run'.phase = "closing" BY <1>3, CollectIs
  <2>5. QED BY <2>2, <2>3, <2>4 DEF OneCloser
<1>4. CASE ClosingStep
  <2>1. PICK c \in Call :
          \/ run'.phase = "closing" /\ (Store(c) \/ Reread(c) \/ StoreBundle(c) \/ Replay(c) \/ Commit(c))
          \/ run'.phase = "confirming" /\ Verify(c)
          \/ run'.phase = "ended" /\ (PutFails(c) \/ CommitUncertain(c) \/ Abandon(c))
    BY <1>4 DEF ClosingStep
  <2>2. Step(c) BY <2>1 DEF Step
  <2>3. pc[c] # "idle"
    BY <2>2 DEF Step, Store, Reread, StoreBundle, PutFails, Replay, Commit, CommitUncertain, Verify,
                Abandon, Committing
  <2>4. \A d \in Call : d # c => pc[d] = "idle"
    <3>1. run.phase = "closing" BY <1>4 DEF ClosingStep
    <3>2. PICK e \in Call : pc[e] # "idle" /\ \A d \in Call : d # e => pc[d] = "idle"
      BY <3>1 DEF OneCloser
    <3>3. e = c BY <2>3, <3>2
    <3>4. QED BY <3>2, <3>3
  <2>5. \A d \in Call : d # c => pc'[d] = "idle" BY <2>2, <2>4, StepLeavesOthers
  <2>6. CASE run'.phase = "closing"
    <3>1. Store(c) \/ Reread(c) \/ StoreBundle(c) \/ Replay(c) \/ Commit(c) BY <2>1, <2>6
    <3>2. pc'[c] # "idle"
      BY <2>3, <3>1 DEF BundleTypeOK, Store, Reread, StoreBundle, Replay, Commit, After
    <3>3. QED BY <2>5, <2>6, <3>2 DEF OneCloser
  <2>7. CASE run'.phase # "closing"
    <3>1. Finish(c) BY <2>1, <2>7 DEF Verify, PutFails, CommitUncertain, Abandon
    <3>2. pc'[c] = "idle" BY <3>1, FinishType
    <3>3. QED BY <2>5, <2>7, <3>2 DEF OneCloser
  <2>8. QED BY <2>6, <2>7
<1>5. CASE EndRun \/ RunnerDies BY <1>5, EndRunIs DEF OneCloser
<1>6. CASE Application
  <2>1. pc' = pc /\ run' = run
    BY <1>6 DEF Application, OpenJournal, AppendOther, CloseJournal
  <2>2. QED BY <2>1 DEF OneCloser
<1>7. CASE UNCHANGED allVars BY <1>7 DEF allVars, vars, OneCloser
<1>8. QED BY <1>0, <1>1, <1>2, <1>3, <1>4, <1>5, <1>6, <1>7, RunnerCases

(* A result is about an operation whose bundle commit is in the journal,   *)
(* so an operation that is open at the head has none.                      *)
LEMMA ResultsOpenOperation ==
  ASSUME BundleTypeOK, ResultInv, ControlledLifecycle(Pins), known = Pins.head, open, ~poisoned,
         NEW r \in results
  PROVE  r.intent.op # Pins.op
<1>1. log \in Seq(Event) /\ Len(log) \in Nat /\ Pins.head = Len(log) BY DEF BundleTypeOK
<1>2. SubSeq(log, 1, Pins.head) = log BY <1>1, WholePrefix
<1>3. Positions(log, Pins.op, ClosingKinds \cup {"kernel_input_committed"}) = {}
  BY <1>2 DEF ControlledLifecycle
<1> DEFINE in == r.closure.input
           head == r.intent.head
<1>4. /\ r.intent \in Intents /\ in \in Inputs /\ Backed(in, head) /\ Matches(in, r.intent)
  BY DEF ResultInv
<1>5. head \in Nat BY <1>4, IntentsAssumption
<1>6. head + 2 \in 1..Len(log) /\ log[head + 2] = BundleEvent(in, head)
  BY <1>1, <1>4, <1>5 DEF Backed, Committed
<1>7. IsBundle(log[head + 2]) /\ log[head + 2].op = r.intent.op
  BY <1>4, <1>5, <1>6, KernelEventFields DEF KernelEvent, Matches
<1>8. ASSUME r.intent.op = Pins.op PROVE FALSE
  BY <1>3, <1>6, <1>7, <1>8 DEF Positions, ClosingKinds, IsBundle
<1>9. QED BY <1>8

LEMMA RunFactsStay ==
  ASSUME BundleTypeOK, RunTypeOK, RunFacts, ResultInv, [RunnerNext]_allVars
  PROVE  RunFacts'
<1>0. known \in Nat BY DEF BundleTypeOK
<1>1. ASSUME NEW i \in Intents, Begin(i) PROVE RunFacts' BY <1>1, BeginIs DEF RunFacts
<1>2. CASE Quiet
  <2>1. /\ run.phase \notin {"idle", "closing", "ended"} /\ run'.intent = run.intent
        /\ run'.phase \in {"auditing", "collecting", "recovering", "matching", "auditingReplay", "ended"}
        /\ UNCHANGED <<log, known, results>>
    BY <1>2 DEF Quiet, vars
  <2>2. CASE run'.phase = "auditing"
    <3>1. ControlledLifecycle(Pins) /\ known = Pins.head BY <1>2, <2>2 DEF Quiet
    <3>2. open /\ ~poisoned BY <2>1 DEF RunTypeOK
    <3>3. \A r \in results : r.intent.op # Pins.op BY <3>1, <3>2, ResultsOpenOperation
    <3>4. QED BY <2>1, <2>2, <3>1, <3>3 DEF RunFacts, Pins
  <2>3. CASE run'.phase = "collecting"
    <3>1. run.phase = "auditing" BY <1>2, <2>3 DEF Quiet
    <3>2. QED BY <2>1, <2>3, <3>1 DEF RunFacts, Pins
  <2>4. CASE run'.phase \in {"recovering", "matching", "auditingReplay"}
    <3>1. ReplayBundle(Pins) /\ (run'.phase = "auditingReplay" => Matches(CommittedInput(Pins), Pins))
      BY <1>2, <2>4 DEF Quiet, RunFacts
    <3>2. QED BY <2>1, <2>4, <3>1
          DEF RunFacts, Pins, ReplayBundle, Matches, CommittedInput, Transmitted
  <2>5. CASE run'.phase = "ended" BY <2>5 DEF RunFacts
  <2>6. QED BY <2>1, <2>2, <2>3, <2>4, <2>5
<1>3. CASE Produced("exact_replay") \/ Produced("committed")
  BY <1>3 DEF Produced, RunFacts
<1>4. ASSUME NEW c \in Call, Collect(c)
      PROVE  RunFacts'
  BY <1>4, CollectIs DEF RunFacts, Pins
<1>5. CASE ClosingStep
  BY <1>5 DEF ClosingStep, RunFacts, Pins
<1>6. CASE EndRun \/ RunnerDies BY <1>6, EndRunIs DEF RunFacts
<1>7. CASE Application
  BY <1>7 DEF Application, RunFacts
<1>8. CASE UNCHANGED allVars
  BY <1>8 DEF allVars, vars, RunFacts, Pins, ReplayBundle, Matches, CommittedInput, Transmitted
<1>9. QED BY <1>0, <1>1, <1>2, <1>3, <1>4, <1>5, <1>6, <1>7, <1>8, RunnerCases

-----------------------------------------------------------------------------
(* Results.                                                                *)

ResultOK(r) ==
  /\ r.intent \in Intents /\ r.closure.input \in Inputs
  /\ r.closure = Closure(r.closure.input, r.intent.head)
  /\ Backed(r.closure.input, r.intent.head)
  /\ Matches(r.closure.input, r.intent)
  /\ r.intent.head <= Len(log)

LEMMA ResultStays ==
  ASSUME BundleTypeOK, [Next]_vars, NEW r, ResultOK(r)
  PROVE  ResultOK(r)'
<1>1. r.intent.head \in Nat /\ r.intent.head \in 0..Len(log)
  BY IntentsAssumption DEF ResultOK, BundleTypeOK
<1>2. Backed(r.closure.input, r.intent.head)' BY <1>1, BackedStays DEF ResultOK
<1>3. SubSeq(log', 1, r.intent.head) = SubSeq(log, 1, r.intent.head) /\ Len(log) <= Len(log')
      /\ Len(log) \in Nat /\ Len(log') \in Nat
  BY <1>1, Grown DEF BundleTypeOK
<1>4. Matches(r.closure.input, r.intent)' BY <1>3 DEF ResultOK, Matches, Transmitted
<1>5. r.intent.head <= Len(log') BY <1>1, <1>3
<1>6. QED BY <1>2, <1>4, <1>5 DEF ResultOK, Closure

(* What a run reports is backed by the bundle commit after its pinned head.*)
LEMMA ProducedResult ==
  ASSUME BundleTypeOK, LogCommits, RunTypeOK, RunFacts, NEW d \in {"exact_replay", "committed"},
         Produced(d)
  PROVE  ResultOK(Result(d))
<1> DEFINE head == Pins.head
           in == CommittedInput(Pins)
<1>1. run.phase \in {"confirming", "auditingReplay"} BY DEF Produced
<1>2. Pins \in Intents /\ head \in Nat BY <1>1, IntentsAssumption DEF RunTypeOK, Pins
<1>3. Len(log) \in Nat /\ known <= Len(log) /\ known \in Nat BY DEF BundleTypeOK
<1>4. head + 2 <= Len(log) /\ IsBundle(log[head + 2]) /\ Matches(in, Pins)
  <2>1. CASE run.phase = "auditingReplay" BY <1>2, <1>3, <2>1 DEF RunFacts, ReplayBundle
  <2>2. CASE run.phase = "confirming"
    BY <1>2, <1>3, <2>2 DEF Produced, Verified, Committed, BundleEvent, IsBundle
  <2>3. QED BY <1>1, <2>1, <2>2
<1>5. head + 2 \in 1..Len(log) /\ (head + 2) - 1 = head + 1 /\ (head + 2) - 2 = head
  BY <1>2, <1>3, <1>4
<1>6. log[head + 1].id.input \in Inputs /\ Backed(log[head + 1].id.input, head)
  <2>1. log[(head + 2) - 1].id.input \in Inputs
        /\ Backed(log[(head + 2) - 1].id.input, (head + 2) - 2)
    BY <1>4, <1>5, BundleCommitAt
  <2>2. QED BY <1>5, <2>1
<1>7. in \in Inputs /\ Backed(in, head) BY <1>6 DEF CommittedInput
<1>8. Result(d).intent = Pins /\ Result(d).closure = Closure(in, head) BY DEF Result
<1>9. Closure(in, head).input = in BY DEF Closure
<1>10. head <= Len(log) BY <1>2, <1>3, <1>4
<1> HIDE DEF in, head
<1>11. QED BY <1>2, <1>4, <1>7, <1>8, <1>9, <1>10 DEF ResultOK, head

LEMMA ResultsStay ==
  ASSUME BundleInv, RunTypeOK, RunFacts, ResultInv, FreshOnce, [Next]_vars, [RunnerNext]_allVars
  PROVE  ResultInv' /\ FreshOnce'
<1>0. known \in Nat /\ BundleTypeOK /\ LogCommits BY DEF BundleInv, BundleTypeOK
<1>1. \A r \in results : ResultOK(r) BY DEF ResultInv, ResultOK
<1>2. \A r \in results : ResultOK(r)' BY <1>0, <1>1, ResultStays
<1>3. CASE results' = results
  BY <1>2, <1>3 DEF ResultInv, ResultOK, FreshOnce
<1>4. ASSUME NEW d \in {"exact_replay", "committed"}, Produced(d)
      PROVE  ResultInv' /\ FreshOnce'
  <2>1. ResultOK(Result(d)) BY <1>0, <1>4, ProducedResult
  <2>2. UNCHANGED vars /\ results' = results \cup {Result(d)} BY <1>4 DEF Produced
  <2>3. \A r : ResultOK(r) => ResultOK(r)' BY <1>0, ResultStays
  <2>4. ResultOK(Result(d))' /\ Result(d)' = Result(d)
    <3>1. Result(d)' = Result(d)
      BY <1>4, <2>2 DEF Result, Pins, CommittedInput, vars, Produced, Closure
    <3>2. PICK x : x = Result(d) OBVIOUS
    <3>3. ResultOK(x) BY <2>1, <3>2
    <3>4. ResultOK(x)' BY <2>3, <3>3
    <3>5. QED BY <3>1, <3>2, <3>4
  <2>5. \A r \in results' : ResultOK(r)'
    <3>1. SUFFICES ASSUME NEW r \in results' PROVE ResultOK(r)' OBVIOUS
    <3>2. ResultOK(r) BY <1>1, <2>1, <2>2
    <3>3. QED BY <2>3, <3>2
  <2>6. ResultInv' BY <2>5 DEF ResultInv, ResultOK
  <2>7. FreshOnce'
    <3>1. Result(d).intent = Pins /\ Result(d).disposition = d BY DEF Result
    <3>2. d = "committed" => \A r \in results : r.intent.op # Pins.op
      BY <1>4 DEF Produced, RunFacts
    <3>3. QED BY <2>2, <3>1, <3>2 DEF FreshOnce
  <2>8. QED BY <2>6, <2>7
<1>5. CASE Quiet \/ (\E c \in Call : Collect(c)) \/ ClosingStep \/ EndRun \/ Application \/ RunnerDies
           \/ (\E i \in Intents : Begin(i)) \/ UNCHANGED allVars
  <2>1. results' = results
    BY <1>5 DEF Quiet, Collect, ClosingStep, EndRun, Application, RunnerDies, Begin, allVars
  <2>2. QED BY <1>3, <2>1
<1>6. QED BY <1>0, <1>4, <1>5, RunnerCases

-----------------------------------------------------------------------------
LEMMA InitRunnerInv == RunnerInit => RunnerInv
<1> SUFFICES ASSUME RunnerInit PROVE RunnerInv OBVIOUS
<1>1. BundleInv BY InitBundleInv DEF RunnerInit
<1>2. run = NoRun /\ results = {} /\ \A c \in Call : pc[c] = "idle" BY DEF RunnerInit, Init
<1>3. run.phase = "idle" /\ run \in Runs BY <1>2, NoRunIs
<1>4. QED BY <1>1, <1>2, <1>3 DEF RunnerInv, RunTypeOK, OneCloser, RunFacts, ResultInv, FreshOnce

LEMMA NextRunnerInv ==
  ASSUME RunnerInv, [RunnerNext]_allVars
  PROVE  RunnerInv' /\ [Next]_vars
<1>1. BundleInv /\ BundleTypeOK /\ RunTypeOK /\ OneCloser /\ RunFacts /\ ResultInv /\ FreshOnce
  BY DEF RunnerInv, BundleInv
<1>2. [Next]_vars BY <1>1, RunnerSteps
<1>3. BundleInv' BY <1>1, <1>2, NextBundleInv
<1>4. RunTypeOK' BY <1>1, RunTypeStays
<1>5. OneCloser' BY <1>1, OneCloserStays
<1>6. RunFacts' BY <1>1, RunFactsStay
<1>7. ResultInv' /\ FreshOnce' BY <1>1, <1>2, ResultsStay
<1>8. QED BY <1>2, <1>3, <1>4, <1>5, <1>6, <1>7 DEF RunnerInv

(* The inductive invariant of the close command.                           *)
THEOREM RunsAreSound == RunnerSpec => []RunnerInv
<1>1. RunnerInit => RunnerInv BY InitRunnerInv
<1>2. RunnerInv /\ [RunnerNext]_allVars => RunnerInv' BY NextRunnerInv
<1>3. QED BY <1>1, <1>2, PTL DEF RunnerSpec

(* The command is a user of JournalBundle and nothing more: whatever it    *)
(* does is what close calls and a journal may do.                          *)
THEOREM RunnerImplementsBundle == RunnerSpec => Spec
<1>1. RunnerInit => Init BY DEF RunnerInit
<1>2. RunnerInv /\ [RunnerNext]_allVars => [Next]_vars BY NextRunnerInv
<1>3. QED BY <1>1, <1>2, RunsAreSound, PTL DEF RunnerSpec, Spec

(* Every result, fresh or replayed, is the durable closure at the pinned   *)
(* head, of the pinned facts.                                              *)
THEOREM ResultsHoldForever == RunnerSpec => []ResultsHold
<1>1. RunnerInv => ResultsHold
  <2> SUFFICES ASSUME RunnerInv, NEW r \in results
               PROVE  /\ r.closure.head = r.intent.head
                      /\ Committed(r.closure.input, r.closure.head)
                      /\ Matches(r.closure.input, r.intent)
                      /\ ManifestArtifacts(r.closure.input, r.closure.head)
                           \cup {BundleArtifact(r.closure.input, r.closure.head)} \subseteq durable
    BY DEF ResultsHold
  <2>1. /\ r.closure = Closure(r.closure.input, r.intent.head)
        /\ Backed(r.closure.input, r.intent.head) /\ Matches(r.closure.input, r.intent)
    BY DEF RunnerInv, ResultInv
  <2>2. \A x, h : Closure(x, h).head = h BY DEF Closure
  <2>3. r.closure.head = r.intent.head BY <2>1, <2>2
  <2>4. QED BY <2>1, <2>3 DEF Backed
<1>2. QED BY <1>1, RunsAreSound, PTL

(* An operation has one bundle commit, so closures of an operation are one.*)
LEMMA OneClosure ==
  ASSUME BundleInv, NEW x \in Inputs, NEW y \in Inputs, NEW g \in Nat, NEW h \in Nat,
         Backed(x, g), Backed(y, h), x.op = y.op
  PROVE  x = y /\ g = h
<1>1. BundleTypeOK /\ LogAdmitted /\ LogCommits BY DEF BundleInv
<1>2. ASSUME NEW z \in Inputs, NEW k \in Nat, Backed(z, k)
      PROVE  /\ k + 1 \in 1..Len(log) /\ k + 2 \in 1..Len(log)
             /\ IsInput(log[k + 1]) /\ log[k + 1].op = z.op /\ log[k + 1].id.input = z
             /\ log[k + 1].id.head = k
  <2>1. k + 1 \in 1..Len(log) /\ k + 2 \in 1..Len(log) /\ log[k + 1] = InputEvent(z, k)
    BY <1>1, <1>2 DEF Backed, Committed, BundleTypeOK
  <2>2. /\ InputEvent(z, k) \in KernelEvent(z, k) /\ IsInput(InputEvent(z, k))
        /\ InputEvent(z, k).op = z.op /\ InputEvent(z, k).id.input = z /\ InputEvent(z, k).id.head = k
    BY KernelEventFields DEF KernelEvent
  <2>3. QED BY <2>1, <2>2
<1>3. ASSUME NEW i \in 1..Len(log), NEW j \in 1..Len(log), IsInput(log[i]), IsInput(log[j]),
             log[i].op = log[j].op
      PROVE  ~(i < j)
  <2>1. ~IsBundle(log[j]) BY <1>3 DEF IsInput, IsBundle
  <2>2. QED BY <1>1, <1>3, <2>1, NothingElseAfter
<1>4. g + 1 = h + 1
  <2>1. ~(g + 1 < h + 1) /\ ~(h + 1 < g + 1) BY <1>2, <1>3
  <2>2. QED BY <2>1
<1>5. g = h BY <1>4
<1>6. QED BY <1>2, <1>5

(* One run at most reports a fresh close of an operation, and every result *)
(* of the operation is about the same closure.                             *)
THEOREM ClosedFreshOnce == RunnerSpec => []OneFreshClose
<1>1. RunnerInv => OneFreshClose
  <2> SUFFICES ASSUME RunnerInv, NEW r \in results, NEW s \in results, r.intent.op = s.intent.op
               PROVE  /\ r.closure = s.closure
                      /\ r.disposition = "committed" /\ s.disposition = "committed" => r = s
    BY DEF OneFreshClose
  <2>1. \A t \in results :
          /\ t.intent.head \in Nat /\ t.closure.input \in Inputs
          /\ t.closure = Closure(t.closure.input, t.intent.head)
          /\ Backed(t.closure.input, t.intent.head) /\ t.closure.input.op = t.intent.op
    BY IntentsAssumption DEF RunnerInv, ResultInv, Matches
  <2>2. r.closure.input = s.closure.input /\ r.intent.head = s.intent.head
    <3>1. BundleInv BY DEF RunnerInv
    <3>2. QED BY <2>1, <3>1, OneClosure
  <2>3. r.closure = s.closure BY <2>1, <2>2
  <2>4. QED BY <2>3 DEF RunnerInv, FreshOnce
<1>2. QED BY <1>1, RunsAreSound, PTL
=============================================================================
