-------------------------- MODULE EvidenceJournal --------------------------
(***************************************************************************)
(* The evidence journal (src/src/evidence/journal.ts): an append-only      *)
(* JSONL file beside a writer-lock sentinel and a metadata file, opened by *)
(* processes that may crash, on a machine that may lose power.             *)
(*                                                                         *)
(* A handle is one EvidenceJournal object, or one call of openInternal on  *)
(* its way to become one.  Each `await' of the code that other handles,    *)
(* a crash or a power loss can fall on is a step of its own.               *)
(*                                                                         *)
(* Abstractions.  One journal path.  The journalId is a fresh random value *)
(* covered by every record hash, so heads (JournalLifecycle) carry it and  *)
(* the metadata file is present or absent.  File contents are the complete *)
(* lines plus a flag for bytes after the last newline.  The random-named   *)
(* temporary file of the metadata is never read and is left out.  Nobody   *)
(* but the code writes the directory, except an operator who removes a     *)
(* stale lock the way the error message asks.                              *)
(***************************************************************************)
EXTENDS JournalLifecycle

CONSTANTS
  Process,      \* operating system processes
  Handle,       \* journal objects
  Owner,        \* the process each handle lives in
  Methods,      \* the appending methods callers use
  MaxQueue,     \* bound: calls of one handle not yet settled
  NoHandle,     \* the lock file does not exist
  NoHead        \* the call names no expected head

ASSUME ProcessAssumption == Owner \in [Handle -> Process]
ASSUME MethodsAssumption == Methods \subseteq {"append", "appendAtHead", "appendOnceAtHead"}
ASSUME QueueAssumption == MaxQueue \in Nat
ASSUME NoHandleAssumption == NoHandle \notin Handle
ASSUME NoHeadAssumption == NoHead \notin Seq(Events)

VARIABLES
  dir,        \* directory entries as processes see them
  disk,       \* directory entries that survive a power loss
  file,       \* the complete records of the journal file
  torn,       \* are there bytes after the last newline?
  synced,     \* how many records an fsync has made durable
  openPaths,  \* processes whose openJournalPaths holds the path
  phase,      \* where each handle is in openInternal, its life, or close
  mayCreate,  \* the allowCreate argument of an openInternal in progress
  records,    \* each handle's in-memory records
  queue,      \* each handle's promise queue; its head is being served
  stage,      \* how far the append at the head of the queue has got
  poisoned,   \* has an append of the handle failed with unknown effect?
  acked       \* history: the records callers were told are appended

fileVars == <<file, torn, synced>>
handleVars == <<records, queue, stage, poisoned>>
vars == <<dir, disk, file, torn, synced, openPaths, phase, mayCreate,
          records, queue, stage, poisoned, acked>>

Entries == [lock : Handle \cup {NoHandle}, meta : BOOLEAN, journal : BOOLEAN]
Opening == {"locked", "publishing", "syncingMeta", "creating", "validating", "syncing"}
Phases == {"idle", "acquiring", "aborting", "open", "closing", "releasing"} \cup Opening
(* The phases in which a handle believes it owns the writer lock.          *)
Holding == Opening \cup {"open", "closing", "releasing", "aborting"}
Stages == {"ready", "stat", "writing", "partial", "written", "durable"}
Head_ == Seq(Events) \cup {NoHead}
Request == [method : Methods, event : Events, head : Head_]

TypeOK ==
  /\ dir \in Entries /\ disk \in Entries
  /\ file \in Seq(Record) /\ torn \in BOOLEAN /\ synced \in 0..Len(file)
  /\ openPaths \in SUBSET Process
  /\ phase \in [Handle -> Phases]
  /\ mayCreate \in [Handle -> BOOLEAN]
  /\ records \in [Handle -> Seq(Record)]
  /\ queue \in [Handle -> Seq(Request)]
  /\ stage \in [Handle -> Stages]
  /\ poisoned \in [Handle -> BOOLEAN]
  /\ acked \in SUBSET [rec : Record, head : Head_]

NoEntries == [lock |-> NoHandle, meta |-> FALSE, journal |-> FALSE]

Init ==
  /\ dir = NoEntries /\ disk = NoEntries
  /\ file = <<>> /\ torn = FALSE /\ synced = 0
  /\ openPaths = {}
  /\ phase = [h \in Handle |-> "idle"]
  /\ mayCreate = [h \in Handle |-> FALSE]
  /\ records = [h \in Handle |-> <<>>]
  /\ queue = [h \in Handle |-> <<>>]
  /\ stage = [h \in Handle |-> "ready"]
  /\ poisoned = [h \in Handle |-> FALSE]
  /\ acked = {}

Goto(h, from, to) == phase[h] = from /\ phase' = [phase EXCEPT ![h] = to]

-----------------------------------------------------------------------------
(* openInternal: from the guard set to a validated, durable journal.       *)

StartOpen(h, create) ==
  /\ Owner[h] \notin openPaths
  /\ openPaths' = openPaths \cup {Owner[h]}
  /\ Goto(h, "idle", "acquiring")
  /\ mayCreate' = [mayCreate EXCEPT ![h] = create]
  /\ UNCHANGED <<dir, disk, fileVars, handleVars, acked>>

(* Mutation: the sentinel is opened without O_EXCL.                        *)
LockFreeAlways == TRUE

LockFree == dir.lock = NoHandle

(* acquireWriterLock; its directory sync is best effort.                   *)
AcquireLock(h) ==
  /\ LockFree
  /\ Goto(h, "acquiring", "locked")
  /\ dir' = [dir EXCEPT !.lock = h]
  /\ disk' \in {disk, dir'}
  /\ UNCHANGED <<fileVars, openPaths, mayCreate, handleVars, acked>>

(* The lock exists, or a directory or the sentinel could not be written.   *)
AcquireFails(h) ==
  /\ Goto(h, "acquiring", "idle")
  /\ openPaths' = openPaths \ {Owner[h]}
  /\ mayCreate' = [mayCreate EXCEPT ![h] = FALSE]
  /\ UNCHANGED <<dir, disk, fileVars, handleVars, acked>>

Creating(h) == mayCreate[h] /\ ~dir.journal

(* The lstat of the journal and the reading of the metadata: a new journal *)
(* has neither file, an existing one has both, anything else is refused.   *)
InspectFiles(h) ==
  /\ phase[h] = "locked"
  /\ phase' = [phase EXCEPT ![h] =
       IF Creating(h) /\ ~dir.meta THEN "publishing"
       ELSE IF dir.journal /\ dir.meta THEN "creating"
       ELSE "aborting"]
  /\ UNCHANGED <<dir, disk, fileVars, openPaths, mayCreate, handleVars, acked>>

(* loadOrCreateMetadata: the synced temporary file is linked ...           *)
PublishMetadata(h) ==
  /\ Goto(h, "publishing", "syncingMeta")
  /\ dir' = [dir EXCEPT !.meta = TRUE]
  /\ UNCHANGED <<disk, fileVars, openPaths, mayCreate, handleVars, acked>>

(* Mutation: metadata is published without the required directory sync.    *)
SyncMetadataUnsynced(h) ==
  /\ Goto(h, "syncingMeta", "creating")
  /\ UNCHANGED <<dir, disk, fileVars, openPaths, mayCreate, handleVars, acked>>

(* ... and the link is durable before the journal file is created.         *)
SyncMetadata(h) ==
  /\ Goto(h, "syncingMeta", "creating")
  /\ disk' = dir
  /\ UNCHANGED <<dir, fileVars, openPaths, mayCreate, handleVars, acked>>

OpenFile(h) ==
  /\ dir.journal \/ mayCreate[h]
  /\ Goto(h, "creating", "validating")
  /\ dir' = [dir EXCEPT !.journal = TRUE]
  /\ UNCHANGED <<disk, fileVars, openPaths, mayCreate, handleVars, acked>>

FileAccepted == ~torn /\ ReadAndValidate(file)

Validate(h) ==
  /\ FileAccepted
  /\ Goto(h, "validating", "syncing")
  /\ records' = [records EXCEPT ![h] = file]
  /\ UNCHANGED <<dir, disk, fileVars, openPaths, mayCreate, queue, stage, poisoned, acked>>

FileRejected(h) ==
  /\ ~FileAccepted
  /\ Goto(h, "validating", "aborting")
  /\ UNCHANGED <<dir, disk, fileVars, openPaths, mayCreate, handleVars, acked>>

(* Mutation: what was read from the page cache is trusted as durable.      *)
SyncOpenUnsynced(h) ==
  /\ Goto(h, "syncing", "open")
  /\ disk' = dir
  /\ mayCreate' = [mayCreate EXCEPT ![h] = FALSE]
  /\ UNCHANGED <<dir, fileVars, openPaths, handleVars, acked>>

(* What was read may be in the page cache only: file and directory are     *)
(* synced before the handle is given out.                                  *)
SyncOpen(h) ==
  /\ Goto(h, "syncing", "open")
  /\ synced' = Len(file)
  /\ disk' = dir
  /\ mayCreate' = [mayCreate EXCEPT ![h] = FALSE]
  /\ UNCHANGED <<dir, file, torn, openPaths, handleVars, acked>>

(* Any file operation of openInternal may fail once the lock is held.      *)
OpenFails(h) ==
  /\ phase[h] \in Opening
  /\ phase' = [phase EXCEPT ![h] = "aborting"]
  /\ UNCHANGED <<dir, disk, fileVars, openPaths, mayCreate, handleVars, acked>>

(* releaseWriterLock: only the creator of the entry removes it; the        *)
(* directory sync is best effort, and the removal itself may fail.         *)
ReleaseLock(h) ==
  \/ /\ dir.lock = h
     /\ dir' = [dir EXCEPT !.lock = NoHandle]
     /\ disk' \in {disk, dir'}
  \/ UNCHANGED <<dir, disk>>

Forget(h) ==
  /\ records' = [records EXCEPT ![h] = <<>>]
  /\ queue' = [queue EXCEPT ![h] = <<>>]
  /\ stage' = [stage EXCEPT ![h] = "ready"]
  /\ poisoned' = [poisoned EXCEPT ![h] = FALSE]

(* Mutation: a failed open gives up the lock and keeps the guard.          *)
AbortOpenGuarded(h) ==
  /\ Goto(h, "aborting", "idle")
  /\ ReleaseLock(h)
  /\ mayCreate' = [mayCreate EXCEPT ![h] = FALSE]
  /\ Forget(h)
  /\ UNCHANGED <<fileVars, openPaths, acked>>

AbortOpen(h) ==
  /\ Goto(h, "aborting", "idle")
  /\ ReleaseLock(h)
  /\ openPaths' = openPaths \ {Owner[h]}
  /\ mayCreate' = [mayCreate EXCEPT ![h] = FALSE]
  /\ Forget(h)
  /\ UNCHANGED <<fileVars, acked>>

-----------------------------------------------------------------------------
(* append, appendAtHead, appendOnceAtHead: every call joins the handle's   *)
(* promise queue and is served after the calls before it.                  *)

(* Heads a caller can name: it learnt them from this journal.              *)
KnownHeads(h) == {SubSeq(EventsOf(records[h]), 1, n) : n \in 0..Len(records[h])}

HeadsFor(h, method) == IF method = "append" THEN {NoHead} ELSE KnownHeads(h)

Call(h, method, event, head) ==
  /\ phase[h] = "open" /\ ~poisoned[h]
  /\ Len(queue[h]) < MaxQueue
  /\ queue' = [queue EXCEPT ![h] =
                 Append(@, [method |-> method, event |-> event, head |-> head])]
  /\ UNCHANGED <<dir, disk, fileVars, openPaths, phase, mayCreate,
                 records, stage, poisoned, acked>>

(* Mutation: a failed append stops the queue behind it.                    *)
ServingSound(h) == phase[h] \in {"open", "closing"} /\ queue[h] # <<>> /\ ~poisoned[h]

Serving(h) == phase[h] \in {"open", "closing"} /\ queue[h] # <<>>
Current(h) == Head(queue[h])
Dequeue(h) == queue' = [queue EXCEPT ![h] = Tail(@)]

Memory(h) == EventsOf(records[h])
Pending(h) == [event |-> Current(h).event, prev |-> Memory(h)]
Stale(h) == Current(h).head # NoHead /\ Current(h).head # Memory(h)

(* appendOnceSerialized finds the event id among the records.              *)
Known(h) == /\ Current(h).method = "appendOnceAtHead"
            /\ ~FreshId(Memory(h), Current(h).event)

(* Mutation: a replay is matched by its event, whatever head it names.     *)
ReplayOfAnyHead(h, r) == r.event = Current(h).event

ReplayOf(h, r) == r.event = Current(h).event /\ r.prev = Current(h).head

(* Mutation: only appendOnceAtHead looks for an event id already recorded. *)
AcceptableTwice(h) ==
  /\ ~poisoned[h]
  /\ ~Stale(h)
  /\ LifecycleAdmits(Memory(h), Current(h).event)

Acceptable(h) ==
  /\ ~poisoned[h]
  /\ ~Stale(h)
  /\ FreshId(Memory(h), Current(h).event)
  /\ LifecycleAdmits(Memory(h), Current(h).event)

(* A retry of an event that is already recorded answers with that record,  *)
(* even on a handle poisoned while the retry was queued.                   *)
Replay(h) ==
  /\ Serving(h) /\ stage[h] = "ready" /\ Known(h)
  /\ \E i \in 1..Len(records[h]) :
       /\ ReplayOf(h, records[h][i])
       /\ acked' = acked \cup {[rec |-> records[h][i], head |-> Current(h).head]}
  /\ Dequeue(h)
  /\ UNCHANGED <<dir, disk, fileVars, openPaths, phase, mayCreate,
                 records, stage, poisoned>>

(* The call is refused before a byte is written.                           *)
Reject(h) ==
  /\ Serving(h) /\ stage[h] = "ready"
  /\ IF Known(h) THEN \A i \in 1..Len(records[h]) : ~ReplayOf(h, records[h][i])
                 ELSE ~Acceptable(h)
  /\ Dequeue(h)
  /\ UNCHANGED <<dir, disk, fileVars, openPaths, phase, mayCreate,
                 records, stage, poisoned, acked>>

Begin(h) ==
  /\ Serving(h) /\ stage[h] = "ready" /\ Acceptable(h)
  /\ stage' = [stage EXCEPT ![h] = "stat"]
  /\ UNCHANGED <<dir, disk, fileVars, openPaths, phase, mayCreate,
                 records, queue, poisoned, acked>>

(* The size and identity check before the write; a mismatch poisons.       *)
SizeExpected(h) == Len(file) = Len(records[h]) /\ ~torn

CheckSize(h) ==
  /\ stage[h] = "stat" /\ SizeExpected(h)
  /\ stage' = [stage EXCEPT ![h] = "writing"]
  /\ UNCHANGED <<dir, disk, fileVars, openPaths, phase, mayCreate,
                 records, queue, poisoned, acked>>

(* The write loop: a write may take only the first bytes of the line ...   *)
WriteSome(h) ==
  /\ stage[h] = "writing"
  /\ torn' = TRUE
  /\ stage' = [stage EXCEPT ![h] = "partial"]
  /\ UNCHANGED <<dir, disk, file, synced, openPaths, phase, mayCreate,
                 records, queue, poisoned, acked>>

(* ... or all the bytes that are left.                                     *)
WriteRest(h) ==
  /\ stage[h] \in {"writing", "partial"}
  /\ file' = Append(file, Pending(h))
  /\ torn' = FALSE
  /\ stage' = [stage EXCEPT ![h] = "written"]
  /\ UNCHANGED <<dir, disk, synced, openPaths, phase, mayCreate,
                 records, queue, poisoned, acked>>

(* Mutation: the appended line is not fsynced before the call resolves.    *)
SyncAppendUnsynced(h) ==
  /\ stage[h] = "written"
  /\ stage' = [stage EXCEPT ![h] = "durable"]
  /\ UNCHANGED <<dir, disk, fileVars, openPaths, phase, mayCreate,
                 records, queue, poisoned, acked>>

SyncAppend(h) ==
  /\ stage[h] = "written"
  /\ synced' = Len(file)
  /\ stage' = [stage EXCEPT ![h] = "durable"]
  /\ UNCHANGED <<dir, disk, file, torn, openPaths, phase, mayCreate,
                 records, queue, poisoned, acked>>

(* The size after the write is right: the record joins the memory and the  *)
(* caller is told.                                                         *)
Acknowledge(h) ==
  /\ stage[h] = "durable"
  /\ records' = [records EXCEPT ![h] = Append(@, Pending(h))]
  /\ acked' = acked \cup {[rec |-> Pending(h), head |-> Current(h).head]}
  /\ stage' = [stage EXCEPT ![h] = "ready"]
  /\ Dequeue(h)
  /\ UNCHANGED <<dir, disk, fileVars, openPaths, phase, mayCreate, poisoned>>

(* Any stat, write or sync of an append may fail: whatever reached the     *)
(* file stays there, and the handle refuses every later append.            *)
Poison(h) ==
  /\ stage[h] # "ready"
  /\ poisoned' = [poisoned EXCEPT ![h] = TRUE]
  /\ stage' = [stage EXCEPT ![h] = "ready"]
  /\ Dequeue(h)
  /\ UNCHANGED <<dir, disk, fileVars, openPaths, phase, mayCreate, records, acked>>

-----------------------------------------------------------------------------
(* close                                                                   *)

StartClose(h) ==
  /\ Goto(h, "open", "closing")
  /\ UNCHANGED <<dir, disk, fileVars, openPaths, mayCreate, handleVars, acked>>

(* The file handle is closed; if that fails the lock stays behind.         *)
CloseFile(h) ==
  /\ phase[h] = "closing" /\ queue[h] = <<>>
  /\ openPaths' = openPaths \ {Owner[h]}
  /\ phase' \in {[phase EXCEPT ![h] = "releasing"], [phase EXCEPT ![h] = "idle"]}
  /\ Forget(h)
  /\ UNCHANGED <<dir, disk, fileVars, mayCreate, acked>>

FinishClose(h) ==
  /\ Goto(h, "releasing", "idle")
  /\ ReleaseLock(h)
  /\ UNCHANGED <<fileVars, openPaths, mayCreate, handleVars, acked>>

-----------------------------------------------------------------------------
(* Failures, and the operator.                                             *)

Crash(p) ==
  LET dead == {h \in Handle : Owner[h] = p}
  IN  /\ \E h \in dead : phase[h] # "idle"
      /\ openPaths' = openPaths \ {p}
      /\ phase' = [h \in Handle |-> IF h \in dead THEN "idle" ELSE phase[h]]
      /\ mayCreate' = [h \in Handle |-> h \notin dead /\ mayCreate[h]]
      /\ records' = [h \in Handle |-> IF h \in dead THEN <<>> ELSE records[h]]
      /\ queue' = [h \in Handle |-> IF h \in dead THEN <<>> ELSE queue[h]]
      /\ stage' = [h \in Handle |-> IF h \in dead THEN "ready" ELSE stage[h]]
      /\ poisoned' = [h \in Handle |-> IF h \in dead THEN FALSE ELSE poisoned[h]]
      /\ UNCHANGED <<dir, disk, fileVars, acked>>

(* Directory entries survive in their durable or their latest form; of     *)
(* what was written after the last fsync a prefix survives, maybe torn.    *)
PowerLossTo(lock, meta, journal, n, tear) ==
  LET kept == IF journal THEN n ELSE 0
  IN  /\ tear => journal /\ (torn \/ n < Len(file))
      /\ dir' = [lock |-> lock, meta |-> meta, journal |-> journal]
      /\ disk' = dir'
      /\ file' = SubSeq(file, 1, kept)
      /\ synced' = kept
      /\ torn' = tear
      /\ openPaths' = {}
      /\ phase' = [h \in Handle |-> "idle"]
      /\ mayCreate' = [h \in Handle |-> FALSE]
      /\ records' = [h \in Handle |-> <<>>]
      /\ queue' = [h \in Handle |-> <<>>]
      /\ stage' = [h \in Handle |-> "ready"]
      /\ poisoned' = [h \in Handle |-> FALSE]
      /\ UNCHANGED acked

PowerLoss ==
  \E lock \in {dir.lock, disk.lock}, meta \in {dir.meta, disk.meta},
     journal \in {dir.journal, disk.journal}, n \in synced..Len(file), tear \in BOOLEAN :
    PowerLossTo(lock, meta, journal, n, tear)

(* The operator removes a lock after verifying that no writer is alive.    *)
RemoveStaleLock ==
  /\ dir.lock # NoHandle
  /\ \A h \in Handle : phase[h] \notin Holding
  /\ dir' = [dir EXCEPT !.lock = NoHandle]
  /\ UNCHANGED <<disk, fileVars, openPaths, phase, mayCreate, handleVars, acked>>

-----------------------------------------------------------------------------
Open(h) ==
  \/ AcquireLock(h) \/ AcquireFails(h) \/ InspectFiles(h)
  \/ PublishMetadata(h) \/ SyncMetadata(h) \/ OpenFile(h)
  \/ Validate(h) \/ FileRejected(h) \/ SyncOpen(h) \/ OpenFails(h) \/ AbortOpen(h)

Serve(h) ==
  \/ Replay(h) \/ Reject(h) \/ Begin(h) \/ CheckSize(h) \/ WriteSome(h)
  \/ WriteRest(h) \/ SyncAppend(h) \/ Acknowledge(h) \/ Poison(h)

Close(h) == CloseFile(h) \/ FinishClose(h)

Next ==
  \/ \E h \in Handle :
       \/ \E create \in BOOLEAN : StartOpen(h, create)
       \/ Open(h)
       \/ \E method \in Methods, event \in Events : \E head \in HeadsFor(h, method) :
            Call(h, method, event, head)
       \/ Serve(h)
       \/ StartClose(h)
       \/ Close(h)
  \/ \E p \in Process : Crash(p)
  \/ PowerLoss
  \/ RemoveStaleLock

Spec == Init /\ [][Next]_vars

(* Every file operation settles, one way or the other.                     *)
FairSpec == /\ Spec
            /\ \A h \in Handle : WF_vars(Open(h)) /\ WF_vars(Serve(h)) /\ WF_vars(Close(h))

-----------------------------------------------------------------------------
(* Properties                                                              *)

(* Whoever believes it owns the writer lock is named by the lock entry, so *)
(* no two handles, in one process or in two, ever write the same journal.  *)
LockHeldByWriter == \A h \in Handle : phase[h] \in Holding => dir.lock = h

(* A record a caller was told is appended (or replayed) is on the disk, at *)
(* the position its chain gives it: no crash and no power loss after the   *)
(* answer can take it back, even when the answer was about a record that   *)
(* an earlier, crashed process wrote and this one only read.               *)
AckedDurable ==
  \A a \in acked : \E i \in 1..synced : file[i] = a.rec

(* Of all the calls that name one expected head, by any handle, before or  *)
(* after any crash, the acknowledged ones were all answered with the same  *)
(* record: a head is won once.                                             *)
HeadWonOnce ==
  \A a, b \in acked : a.head = b.head /\ a.head # NoHead => a.rec = b.rec

(* The expected head an acknowledged call named is the chain its record    *)
(* was appended to.                                                        *)
AckAtItsHead == \A a \in acked : a.head # NoHead => a.rec.prev = a.head

(* A journal file whose last line is whole is accepted by the next open:   *)
(* the writer never leaves a chain, an id or a lifecycle order that the    *)
(* validation on open would refuse.                                        *)
WriterReaderAgree == ~torn => ReadAndValidate(file)

(* A journal file never exists without metadata that survives a power      *)
(* loss, so "metadata is missing for an existing journal" cannot be        *)
(* brought about by crashes.                                               *)
MetadataPrecedesJournal == dir.journal \/ disk.journal => dir.meta /\ disk.meta

(* At most one record is ever in doubt: written, and not known durable.    *)
OneRecordInDoubt == Len(file) <= synced + 1

(* What a handle may still append to: its memory is a durable prefix of    *)
(* the file, and as long as no append of it has failed it is the whole     *)
(* file.  Every append is decided on that memory, never on the file.       *)
Live(h) == phase[h] \in {"open", "closing"}
DurablePrefix(rs) == Len(rs) <= synced /\ \A i \in 1..Len(rs) : rs[i] = file[i]

MemoryOf(h) ==
  /\ Live(h) => DurablePrefix(records[h])
  /\ Live(h) /\ ~poisoned[h] /\ stage[h] \in {"ready", "stat", "writing", "partial"}
       => Len(file) = Len(records[h])
  /\ Live(h) /\ ~poisoned[h] /\ stage[h] # "partial" => ~torn
  /\ stage[h] \in {"written", "durable"} => file = Append(records[h], Pending(h))
  /\ stage[h] = "durable" => synced = Len(file)
  /\ stage[h] # "ready" => Live(h) /\ queue[h] # <<>> /\ Acceptable(h)
  /\ queue[h] # <<>> => Live(h)
  /\ phase[h] = "syncing" => records[h] = file /\ ~torn

MemoryDurable == \A h \in Handle : MemoryOf(h)

(* The order in which the entries of a journal become durable.             *)
EntriesOrdered ==
  /\ disk.meta => dir.meta
  /\ disk.journal => dir.journal
  /\ dir.journal => disk.meta
  /\ file # <<>> => disk.journal
  /\ \A h \in Handle :
       /\ phase[h] = "syncingMeta" => dir.meta
       /\ phase[h] = "creating" => disk.meta
       /\ phase[h] \in {"validating", "syncing"} => dir.journal
       /\ Live(h) => disk.journal

(* In the file, whatever crashed and reopened in between: nothing follows  *)
(* the closing of an operation, a kernel input is followed by its bundle   *)
(* and a bundle preceded by its input, and an operation with an input was  *)
(* opened exactly once.                                                    *)
CommittedLifecycle ==
  LET es == EventsOf(file)
  IN  \A i \in 1..Len(es) :
        /\ \A j \in 1..(i - 1) : es[j].op = es[i].op => es[j].kind \notin ClosingKinds
        /\ es[i].kind = "kernel_bundle_committed" =>
             /\ i > 1
             /\ es[i - 1].kind = "kernel_input_committed"
             /\ es[i - 1].op = es[i].op /\ es[i - 1].auth = es[i].auth
        /\ es[i].kind = "kernel_input_committed" =>
             /\ ExactlyOne(Positions(es, es[i].op, {"attempt_opened"}))
             /\ i < Len(es) => es[i + 1].kind = "kernel_bundle_committed"

(* The journal is an append-only log of admitted events, with honest       *)
(* acknowledgements: the log is what is durable.                           *)
Log == INSTANCE EvidenceLog WITH log <- EventsOf(SubSeq(file, 1, synced)), acked <- acked
ImplementsLog == Log!LogSpec

(* A handle that is closing stops being there, whatever was queued, failed *)
(* or poisoned before: close waits for the queue but never for ever, and   *)
(* the calls behind a failed append are answered.                          *)
CloseSettles == \A h \in Handle : phase[h] = "closing" ~> phase[h] = "idle"

(* An open that was started either gives the handle out, or gives it up    *)
(* together with the in-process guard, so that the next open may begin.    *)
GivenUp(h) == phase[h] = "idle" /\ Owner[h] \notin openPaths
OpenSettles ==
  \A h \in Handle : phase[h] = "acquiring" ~> phase[h] = "open" \/ GivenUp(h)
=============================================================================
