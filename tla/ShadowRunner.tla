---------------------------- MODULE ShadowRunner ----------------------------
(***************************************************************************)
(* The close command (src/src/shadow-run-cli.ts closeShadow, and           *)
(* src/src/evidence/shadow-runner.ts runJournalBoundShadow): it opens the  *)
(* existing journal, decides on the pinned source head whether this is a   *)
(* fresh close or the replay of one, audits, collects evidence, closes the *)
(* operation through JournalBundle, audits again, and closes the journal.  *)
(* Commands are repeated after crashes, lost output and failures.          *)
(*                                                                         *)
(* Abstractions.  The writer lock admits one process, so at most one run   *)
(* is in progress, and the application that journals the attempt does so   *)
(* between runs.  An intent is what the pins and the manifest fix; parsing *)
(* them, and refusing pins that do not match, happens before the journal   *)
(* is opened and is left out.  What a run adds to its intent is the time   *)
(* it reads from its clock and the Base collection it makes.               *)
(***************************************************************************)
EXTENDS JournalBundle

CONSTANTS
  Intents,      \* pinned commands: [op, auth, facts, effects, head]
  NoIntent      \* no run in progress

ASSUME IntentsAssumption ==
  \A i \in Intents : DOMAIN i = {"op", "auth", "facts", "effects", "head"} /\ i.head \in Nat
(* The core of an input is the pinned facts and the time of the run.       *)
ASSUME CoreAssumption == \A in \in Inputs : DOMAIN in.core = {"facts", "at"}

VARIABLES
  run,          \* the run in progress: its intent and where it is
  results       \* history: the results runs produced

allVars == <<vars, run, results>>

NoRun == [phase |-> "idle", intent |-> NoIntent, replay |-> FALSE, code |-> "none"]

RunnerInit == Init /\ run = NoRun /\ results = {}

Move(from, to) == run.phase = from /\ run' = [run EXCEPT !.phase = to]
End(code) == run' = [run EXCEPT !.phase = "ended", !.code = code]
Pins == run.intent

-----------------------------------------------------------------------------
(* controlledLifecycle: what the journal says of the attempt at the pinned *)
(* head, whatever was appended since.                                      *)
ControlledLifecycle(i) ==
  LET prefix == SubSeq(log, 1, i.head)
      opened == Positions(prefix, i.op, {"attempt_opened"})
      recorded == Positions(prefix, i.op, {"authorization_recorded"})
      transmitted == Positions(prefix, i.op, {"authorization_transmitted"})
  IN  /\ i.head \in 1..known
      /\ ExactlyOne(opened) /\ \A o \in opened : prefix[o].auth \in {NoAuth, i.auth}
      /\ Positions(prefix, i.op, ClosingKinds \cup {"kernel_input_committed"}) = {}
      /\ \A r \in recorded \cup transmitted : prefix[r].auth = i.auth
      /\ ExactlyOne(recorded)
      /\ transmitted = {} \/ ExactlyOne(transmitted)
      /\ \A o \in opened, r \in recorded : o < r
      /\ \A r \in recorded, t \in transmitted : r < t

Transmitted(i) == Positions(SubSeq(log, 1, i.head), i.op, {"authorization_transmitted"}) # {}

(* isReplayPair: is the next record the input, and the one after it the    *)
(* bundle, of this operation?                                              *)
ReplayInput(i) ==
  /\ IsInput(log[i.head + 1])
  /\ log[i.head + 1].op = i.op /\ log[i.head + 1].auth = i.auth
ReplayBundle(i) ==
  /\ i.head + 2 <= known /\ IsBundle(log[i.head + 2])
  /\ log[i.head + 2].op = i.op /\ log[i.head + 2].auth = i.auth

Begin(i) ==
  /\ run.phase = "idle" /\ ~open
  /\ open' = TRUE /\ known' = Len(log) /\ poisoned' = FALSE
  /\ run' = [phase |-> "checking", intent |-> i, replay |-> FALSE, code |-> "none"]
  /\ UNCHANGED <<log, storeVars, pc, call, made, receipts, results>>

(* Mutation: a closed operation is taken for a fresh one.                  *)
CheckFresh ==
  /\ run.phase = "checking"
  /\ IF ~ControlledLifecycle(Pins) THEN End("SHADOW_LIFECYCLE") ELSE Move("checking", "auditing")
  /\ UNCHANGED <<vars, results>>

Check ==
  /\ run.phase = "checking"
  /\ CASE ~ControlledLifecycle(Pins) -> End("SHADOW_LIFECYCLE")
       [] ControlledLifecycle(Pins) /\ known = Pins.head -> Move("checking", "auditing")
       [] ControlledLifecycle(Pins) /\ known > Pins.head ->
            IF ~ReplayInput(Pins) THEN End("SHADOW_JOURNAL_ADVANCED_OUTSIDE_EXACT_REPLAY")
            ELSE IF ~ReplayBundle(Pins) THEN End("SHADOW_PENDING_INPUT_REQUIRES_OPERATOR_RECOVERY")
            ELSE run' = [run EXCEPT !.phase = "recovering", !.replay = TRUE]
  /\ UNCHANGED <<vars, results>>

-----------------------------------------------------------------------------
(* The replay of a close: no clock, no collection.                         *)
CommittedInput(i) == log[i.head + 1].id.input

RecoverRun ==
  /\ run.phase = "recovering"
  /\ IF Recoverable(Pins.head + 2) THEN Move("recovering", "matching") ELSE End("FAILED")
  /\ UNCHANGED <<vars, results>>

(* assertClosureMatchesIntent.                                             *)
Matches(in, i) ==
  /\ in.op = i.op /\ in.auth = i.auth
  /\ in.core.facts = i.facts /\ in.effects = i.effects
  /\ in.created /\ in.transmitted = Transmitted(i)

MatchReplay ==
  /\ run.phase = "matching"
  /\ IF Matches(CommittedInput(Pins), Pins) THEN Move("matching", "auditingReplay")
     ELSE End("SHADOW_CLOSURE_MISMATCH")
  /\ UNCHANGED <<vars, results>>

Produce(disposition, in) ==
  /\ results' = results \cup {[intent |-> Pins, disposition |-> disposition,
                                closure |-> Closure(in, Pins.head), at |-> made]}
  /\ End("none")

(* Mutation: a replay answers with the evaluation it would have made now.  *)
AuditReplayAnew ==
  /\ run.phase = "auditingReplay"
  /\ IF AuditStatus(known) = "clean"
     THEN \E in \in {in \in Inputs : Matches(in, Pins)} : Produce("exact_replay", in)
     ELSE End("SHADOW_RECOVERY_AUDIT_NOT_CLEAN") /\ UNCHANGED results
  /\ UNCHANGED vars

AuditReplay ==
  /\ run.phase = "auditingReplay"
  /\ IF AuditStatus(known) = "clean" THEN Produce("exact_replay", CommittedInput(Pins))
     ELSE End("SHADOW_RECOVERY_AUDIT_NOT_CLEAN") /\ UNCHANGED results
  /\ UNCHANGED vars

-----------------------------------------------------------------------------
(* A fresh close.                                                          *)
FirstAudit ==
  /\ run.phase = "auditing"
  /\ IF AuditStatus(known) = "clean" THEN Move("auditing", "collecting")
     ELSE End("SHADOW_RECOVERY_AUDIT_NOT_CLEAN")
  /\ UNCHANGED <<vars, results>>

(* The clock is read, effects are verified, the chain is asked: the run    *)
(* fails, or has an input of its intent and calls close with it.           *)
Collect(c) ==
  /\ Move("collecting", "closing")
  /\ \E in \in {in \in Inputs : Matches(in, Pins)} : Start(c, in, Pins.head)
  /\ UNCHANGED results

CollectFails ==
  /\ run.phase = "collecting"
  /\ End("FAILED")
  /\ UNCHANGED <<vars, results>>

(* closeJournalBoundEvidenceBundle, to its return or its failure.          *)
Closing(c) ==
  /\ run.phase = "closing"
  /\ Store(c) \/ Reread(c) \/ StoreBundle(c) \/ Replay(c) \/ Commit(c)
  /\ UNCHANGED <<run, results>>

CloseReturns(c) == Verify(c) /\ Move("closing", "confirming") /\ UNCHANGED results

CloseThrows(c) ==
  /\ run.phase = "closing"
  /\ PutFails(c) \/ CommitUncertain(c) \/ Abandon(c)
  /\ End("FAILED")
  /\ UNCHANGED results

(* The closure is verified once more, compared with the intent, audited.   *)
Confirm ==
  /\ run.phase = "confirming"
  /\ CASE ~(Verified(CommittedInput(Pins), Pins.head) /\ Matches(CommittedInput(Pins), Pins)) ->
            End("SHADOW_CLOSURE_MISMATCH") /\ UNCHANGED results
       [] Verified(CommittedInput(Pins), Pins.head) /\ Matches(CommittedInput(Pins), Pins) ->
            IF AuditStatus(known) = "clean" THEN Produce("committed", CommittedInput(Pins))
            ELSE End("SHADOW_RECOVERY_AUDIT_NOT_CLEAN") /\ UNCHANGED results
  /\ UNCHANGED vars

-----------------------------------------------------------------------------
(* Mutation: a run that fails does not close the journal.                  *)
EndRunOnSuccess ==
  /\ run.phase = "ended" /\ run.code = "none" /\ run' = NoRun
  /\ open' = FALSE
  /\ UNCHANGED <<log, known, poisoned, storeVars, pc, call, made, receipts, results>>

(* The journal is closed, however the run ended.                           *)
EndRun ==
  /\ run.phase = "ended" /\ run' = NoRun
  /\ open' = FALSE
  /\ UNCHANGED <<log, known, poisoned, storeVars, pc, call, made, receipts, results>>

RunStep ==
  \/ Check \/ RecoverRun \/ MatchReplay \/ AuditReplay \/ FirstAudit
  \/ \E c \in Call : Collect(c) \/ Closing(c) \/ CloseReturns(c) \/ CloseThrows(c)
  \/ CollectFails \/ Confirm \/ EndRun

(* The application that journals attempts, between runs.                   *)
Application ==
  /\ run.phase = "idle"
  /\ OpenJournal \/ AppendOther \/ CloseJournal
  /\ UNCHANGED <<run, results>>

RunnerDies == (Crash \/ PowerLoss) /\ run' = NoRun /\ UNCHANGED results

RunnerNext == (\E i \in Intents : Begin(i)) \/ RunStep \/ Application \/ RunnerDies

RunnerSpec == RunnerInit /\ [][RunnerNext]_allVars

(* A run in progress goes on: every promise it awaits settles.             *)
RunnerFairSpec == RunnerSpec /\ WF_allVars(RunStep)

-----------------------------------------------------------------------------
(* Properties                                                              *)

(* A result, committed or replayed, is about the closure the journal holds *)
(* at the pinned head: durable, verified, and made of the pinned facts,    *)
(* effects and authorization and of the journaled transmission.            *)
ResultsHold ==
  \A r \in results :
    LET cl == r.closure
    IN  /\ cl.head = r.intent.head
        /\ Committed(cl.input, cl.head) /\ Matches(cl.input, r.intent)
        /\ ManifestArtifacts(cl.input, cl.head) \cup {BundleArtifact(cl.input, cl.head)}
              \subseteq durable

(* However often a command is repeated, crashed or raced with the          *)
(* application, one run at most reports a fresh close of an operation, and *)
(* every result of that operation is about the same closure.               *)
OneFreshClose ==
  \A r, s \in results : r.intent.op = s.intent.op =>
    /\ r.closure = s.closure
    /\ r.disposition = "committed" /\ s.disposition = "committed" => r = s

(* Every run ends with the journal closed, whatever made it fail, so that  *)
(* the next command finds the writer lock free.                            *)
RunSettles == (run.phase # "idle") ~> (run.phase = "idle" /\ ~open)
=============================================================================
