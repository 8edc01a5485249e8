------------------------- MODULE JournalLifecycle -------------------------
(***************************************************************************)
(* The lifecycle rules every record of an evidence journal obeys, and the  *)
(* replay that validates a journal file when it is opened                  *)
(* (src/src/evidence/journal.ts: assertLifecycleAppend, readAndValidate,   *)
(* validateJournalRecord).                                                 *)
(*                                                                         *)
(* Abstractions.  An event keeps what the rules compare: its id, its       *)
(* operation, its authorization and its kind; its time and its evidence    *)
(* are dropped.  The record hash of sequence n is collision free and       *)
(* covers the whole chain, so it is represented by the events 1..n it      *)
(* commits to: `prev' of a record is the sequence of the events before it, *)
(* and the head of a journal is the sequence of all its events.            *)
(***************************************************************************)
EXTENDS Naturals, Sequences

CONSTANT Events     \* the events callers may ask to append

EventKinds ==
  {"attempt_opened", "authorization_recorded", "authorization_transmitted",
   "settlement_observed", "effect_observed", "kernel_input_committed",
   "kernel_bundle_committed", "attempt_closed"}

ASSUME EventsAssumption ==
  \A e \in Events : /\ DOMAIN e = {"id", "op", "auth", "kind"}
                    /\ e.kind \in EventKinds

(* A head: every event of the chain up to and including the last record.   *)
JournalHead == Seq(Events)
Record == [event : Events, prev : JournalHead]

EventsOf(records) == [i \in 1..Len(records) |-> records[i].event]

(* The positions of an operation's events of the given kinds.              *)
Positions(es, op, kinds) == {i \in 1..Len(es) : es[i].op = op /\ es[i].kind \in kinds}
ExactlyOne(S) == \E i \in S : S = {i}

ClosingKinds == {"attempt_closed", "kernel_bundle_committed"}

-----------------------------------------------------------------------------
(* A lone kernel input at the end of the journal reserves the next record  *)
(* for its bundle; a bundle is admitted nowhere else.                      *)
Adjacent(es, e) ==
  IF es # <<>> /\ es[Len(es)].kind = "kernel_input_committed"
  THEN /\ e.kind = "kernel_bundle_committed"
       /\ e.op = es[Len(es)].op
       /\ e.auth = es[Len(es)].auth
  ELSE e.kind # "kernel_bundle_committed"

OperationOpen(es, op) == Positions(es, op, ClosingKinds) = {}

InputAllowed(es, op) ==
  /\ ExactlyOne(Positions(es, op, {"attempt_opened"}))
  /\ Positions(es, op, {"kernel_input_committed"}) = {}

BundleAllowed(es, op, auth) ==
  LET inputs == Positions(es, op, {"kernel_input_committed"})
  IN  ExactlyOne(inputs) /\ \A i \in inputs : es[i].auth = auth

(* Mutation: the check that the operation is not already closed is lost.   *)
LifecycleAdmitsUnclosed(es, e) ==
  /\ Adjacent(es, e)
  /\ e.kind = "kernel_input_committed" => InputAllowed(es, e.op)

LifecycleAdmits(es, e) ==
  /\ Adjacent(es, e)
  /\ OperationOpen(es, e.op)
  /\ e.kind = "kernel_input_committed" => InputAllowed(es, e.op)
  /\ e.kind = "kernel_bundle_committed" => BundleAllowed(es, e.op, e.auth)

FreshId(es, e) == \A i \in 1..Len(es) : es[i].id # e.id

(* Opening a file accepts it when every record chains to the records       *)
(* before it, no id repeats, and the lifecycle replays from the start.     *)
ValidAt(records, i) ==
  LET before == SubSeq(EventsOf(records), 1, i - 1)
  IN  /\ records[i].prev = before
      /\ FreshId(before, records[i].event)
      /\ LifecycleAdmits(before, records[i].event)

ReadAndValidate(records) == \A i \in 1..Len(records) : ValidAt(records, i)
=============================================================================
