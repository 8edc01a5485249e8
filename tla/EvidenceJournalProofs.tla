----------------------- MODULE EvidenceJournalProofs -----------------------
(***************************************************************************)
(* Theorems about EvidenceJournal, for every set of processes, handles,    *)
(* events and methods and every queue bound.                               *)
(***************************************************************************)
EXTENDS EvidenceJournal, TLAPS, SequenceTheorems

(* The events of a sequence of records form a head.                        *)
LEMMA EventsOfType ==
  ASSUME NEW rs \in Seq(Record)
  PROVE  EventsOf(rs) \in Seq(Events) /\ Len(EventsOf(rs)) = Len(rs)
<1>1. \A i \in 1..Len(rs) : rs[i].event \in Events
  <2>1. \A i \in 1..Len(rs) : rs[i] \in Record
    BY ElementOfSeq
  <2> QED BY <2>1 DEF Record
<1>2. EventsOf(rs) \in [1..Len(rs) -> Events]
  BY <1>1 DEF EventsOf
<1>3. Len(rs) \in Nat
  OBVIOUS
<1> QED BY <1>2, <1>3, SeqDef

(* Taking the served call off a queue leaves a queue.                      *)
LEMMA TailType ==
  ASSUME NEW S, NEW q \in Seq(S), q # <<>>
  PROVE  Head(q) \in S /\ Tail(q) \in Seq(S)
OBVIOUS

(* Every prefix of a journal is a sequence of records.                     *)
LEMMA PrefixType ==
  ASSUME NEW rs \in Seq(Record), NEW n \in 0..Len(rs)
  PROVE  SubSeq(rs, 1, n) \in Seq(Record) /\ Len(SubSeq(rs, 1, n)) = n
         /\ \A i \in 1..n : SubSeq(rs, 1, n)[i] = rs[i]
OBVIOUS

-----------------------------------------------------------------------------
(* The record an append writes is a record.                                *)
LEMMA PendingType ==
  ASSUME TypeOK, NEW h \in Handle, queue[h] # <<>>
  PROVE  Pending(h) \in Record /\ Current(h) \in Request
<1>1. records[h] \in Seq(Record) /\ queue[h] \in Seq(Request)
  BY DEF TypeOK
<1>2. Current(h) \in Request
  BY <1>1, TailType DEF Current
<1>3. Memory(h) \in Seq(Events)
  BY <1>1, EventsOfType DEF Memory
<1> QED BY <1>2, <1>3 DEF Pending, Request, Record, JournalHead

(* Heads a caller names are heads of the journal's own type.               *)
LEMMA HeadsType ==
  ASSUME TypeOK, NEW h \in Handle, NEW method \in Methods, NEW head \in HeadsFor(h, method)
  PROVE  head \in Head_
<1>1. Memory(h) \in Seq(Events)
  BY EventsOfType DEF TypeOK, Memory
<1>2. Len(EventsOf(records[h])) = Len(records[h])
  BY EventsOfType DEF TypeOK
<1>3. KnownHeads(h) \subseteq Seq(Events)
  BY <1>1, <1>2 DEF KnownHeads, Memory
<1> QED BY <1>3 DEF HeadsFor, Head_

-----------------------------------------------------------------------------
(* Type correctness.                                                       *)

(* The initial state has the right types.                                  *)
LEMMA InitType == Init => TypeOK
<1> SUFFICES ASSUME Init PROVE TypeOK
  OBVIOUS
<1>1. <<>> \in Seq(Record) /\ <<>> \in Seq(Request) /\ Len(<<>>) = 0
  BY EmptySeq
<1>2. records \in [Handle -> Seq(Record)] /\ queue \in [Handle -> Seq(Request)]
  BY <1>1 DEF Init
<1>3. mayCreate \in [Handle -> BOOLEAN] /\ poisoned \in [Handle -> BOOLEAN]
  BY DEF Init
<1>4. phase \in [Handle -> Phases] /\ stage \in [Handle -> Stages]
  BY DEF Init, Phases, Stages
<1>5. dir \in Entries /\ disk \in Entries /\ synced \in 0..Len(file)
  BY <1>1 DEF Init, NoEntries, Entries
<1> QED BY <1>1, <1>2, <1>3, <1>4, <1>5 DEF Init, TypeOK

(* What is left of a handle that is gone has the right types.              *)
LEMMA ForgetType ==
  ASSUME TypeOK, NEW h \in Handle, Forget(h)
  PROVE  /\ records' \in [Handle -> Seq(Record)]
         /\ queue' \in [Handle -> Seq(Request)]
         /\ stage' \in [Handle -> Stages]
         /\ poisoned' \in [Handle -> BOOLEAN]
<1>1. <<>> \in Seq(Record) /\ <<>> \in Seq(Request)
  BY EmptySeq
<1>2. records' \in [Handle -> Seq(Record)] /\ queue' \in [Handle -> Seq(Request)]
  BY <1>1 DEF TypeOK, Forget
<1>3. stage' \in [Handle -> Stages]
  BY DEF TypeOK, Forget, Stages
<1>4. poisoned' \in [Handle -> BOOLEAN]
  BY DEF TypeOK, Forget
<1> QED BY <1>2, <1>3, <1>4

(* Steps of openInternal and close keep the types.                         *)
LEMMA OpenCloseType ==
  ASSUME TypeOK, NEW h \in Handle,
         (\E create \in BOOLEAN : StartOpen(h, create)) \/ Open(h) \/ StartClose(h) \/ Close(h)
  PROVE  TypeOK'
<1> USE DEF TypeOK, fileVars, handleVars, Goto
<1>1. ASSUME NEW create \in BOOLEAN, StartOpen(h, create)
      PROVE  TypeOK'
  <2>1. mayCreate' \in [Handle -> BOOLEAN]
    BY <1>1 DEF StartOpen
  <2>2. phase' \in [Handle -> Phases]
    BY <1>1 DEF StartOpen, Phases
  <2>3. openPaths' \in SUBSET Process
    BY <1>1, ProcessAssumption DEF StartOpen
  <2> QED BY <1>1, <2>1, <2>2, <2>3 DEF StartOpen
<1>2. CASE AcquireLock(h)
  BY <1>2 DEF AcquireLock, Entries, Phases, Opening
<1>3. CASE AcquireFails(h)
  BY <1>3 DEF AcquireFails, Phases
<1>4. CASE InspectFiles(h)
  BY <1>4 DEF InspectFiles, Phases, Opening
<1>5. CASE PublishMetadata(h)
  BY <1>5 DEF PublishMetadata, Entries, Phases, Opening
<1>6. CASE SyncMetadata(h)
  BY <1>6 DEF SyncMetadata, Phases, Opening
<1>7. CASE OpenFile(h)
  BY <1>7 DEF OpenFile, Entries, Phases, Opening
<1>8. CASE Validate(h)
  BY <1>8 DEF Validate, Phases, Opening
<1>9. CASE FileRejected(h)
  BY <1>9 DEF FileRejected, Phases
<1>10. CASE SyncOpen(h)
  BY <1>10 DEF SyncOpen, Phases
<1>11. CASE OpenFails(h)
  BY <1>11 DEF OpenFails, Phases, Opening
<1>12. CASE AbortOpen(h)
  <2>1. dir' \in Entries /\ disk' \in Entries
    <3>1. /\ dir' \in {dir, [dir EXCEPT !.lock = NoHandle]}
          /\ disk' \in {disk, dir'}
      BY <1>12 DEF AbortOpen, ReleaseLock
    <3> QED BY <3>1 DEF Entries
  <2>2. phase' \in [Handle -> Phases] /\ openPaths' \in SUBSET Process
    BY <1>12 DEF AbortOpen, Phases
  <2>3. mayCreate' \in [Handle -> BOOLEAN]
    BY <1>12 DEF AbortOpen
  <2> QED BY <1>12, <2>1, <2>2, <2>3, ForgetType DEF AbortOpen
<1>13. CASE StartClose(h)
  BY <1>13 DEF StartClose, Phases
<1>14. CASE CloseFile(h)
  <2>1. phase' \in [Handle -> Phases] /\ openPaths' \in SUBSET Process
    BY <1>14 DEF CloseFile, Phases
  <2> QED BY <1>14, <2>1, ForgetType DEF CloseFile
<1>15. CASE FinishClose(h)
  <2>1. /\ dir' \in {dir, [dir EXCEPT !.lock = NoHandle]}
        /\ disk' \in {disk, dir'}
    BY <1>15 DEF FinishClose, ReleaseLock
  <2>2. dir' \in Entries /\ disk' \in Entries
    BY <2>1 DEF Entries
  <2>3. phase' \in [Handle -> Phases]
    BY <1>15 DEF FinishClose, Phases
  <2> QED BY <1>15, <2>2, <2>3 DEF FinishClose
<1> HIDE DEF TypeOK
<1>16. Open(h) => TypeOK'
  BY ONLY <1>2, <1>3, <1>4, <1>5, <1>6, <1>7, <1>8, <1>9, <1>10, <1>11, <1>12, Zenon DEF Open
<1>17. Close(h) => TypeOK'
  BY ONLY <1>14, <1>15, Zenon DEF Close
<1> QED BY <1>1, <1>13, <1>16, <1>17

(* Steps of the appending methods keep the types.                          *)
LEMMA AppendType ==
  ASSUME TypeOK, MemoryDurable, NEW h \in Handle,
         \/ \E method \in Methods, event \in Events : \E head \in HeadsFor(h, method) :
              Call(h, method, event, head)
         \/ Serve(h)
  PROVE  TypeOK'
<1> USE DEF TypeOK, fileVars, Stages
<1>1. ASSUME NEW method \in Methods, NEW event \in Events, NEW head \in HeadsFor(h, method),
             Call(h, method, event, head)
      PROVE  TypeOK'
  <2>1. [method |-> method, event |-> event, head |-> head] \in Request
    BY HeadsType DEF Request
  <2> QED BY <1>1, <2>1 DEF Call
<1>2. ASSUME queue[h] # <<>>
      PROVE  Tail(queue[h]) \in Seq(Request)
  BY <1>2, TailType
<1>3. CASE Replay(h)
  <2>1. PICK i \in 1..Len(records[h]) :
          acked' = acked \cup {[rec |-> records[h][i], head |-> Current(h).head]}
    BY <1>3 DEF Replay
  <2>2. records[h][i] \in Record
    BY ElementOfSeq
  <2>3. Current(h).head \in Head_
    BY <1>3, PendingType DEF Replay, Serving, Request
  <2> QED BY <1>2, <1>3, <2>1, <2>2, <2>3 DEF Replay, Serving, Dequeue
<1>4. CASE Reject(h)
  BY <1>2, <1>4 DEF Reject, Serving, Dequeue
<1>5. CASE Begin(h)
  BY <1>5 DEF Begin
<1>6. CASE CheckSize(h)
  BY <1>6 DEF CheckSize
<1>7. CASE WriteSome(h)
  BY <1>7 DEF WriteSome
<1>8. stage[h] # "ready" => queue[h] # <<>>
  BY DEF MemoryDurable, MemoryOf
<1>9. CASE WriteRest(h)
  <2>1. Pending(h) \in Record
    BY <1>8, <1>9, PendingType DEF WriteRest
  <2>2. file' \in Seq(Record) /\ Len(file') = Len(file) + 1
    BY <1>9, <2>1, AppendProperties DEF WriteRest
  <2>3. synced' \in 0..Len(file')
    BY <1>9, <2>2 DEF WriteRest
  <2> QED BY <1>9, <2>2, <2>3 DEF WriteRest
<1>10. CASE SyncAppend(h)
  BY <1>10 DEF SyncAppend
<1>11. CASE Acknowledge(h)
  <2>1. Pending(h) \in Record /\ Current(h).head \in Head_
    BY <1>8, <1>11, PendingType DEF Acknowledge, Request
  <2> QED BY <1>2, <1>8, <1>11, <2>1 DEF Acknowledge, Dequeue
<1>12. CASE Poison(h)
  BY <1>2, <1>8, <1>12 DEF Poison, Dequeue
<1> QED
  BY <1>1, <1>3, <1>4, <1>5, <1>6, <1>7, <1>9, <1>10, <1>11, <1>12 DEF Serve

(* Crashes, power losses and the operator keep the types.                  *)
LEMMA FailureType ==
  ASSUME TypeOK, (\E p \in Process : Crash(p)) \/ PowerLoss \/ RemoveStaleLock
  PROVE  TypeOK'
<1> USE DEF TypeOK, fileVars, handleVars
<1>1. ASSUME NEW p \in Process, Crash(p)
      PROVE  TypeOK'
  <2>1. <<>> \in Seq(Record) /\ <<>> \in Seq(Request)
    BY EmptySeq
  <2>2. phase' \in [Handle -> Phases] /\ stage' \in [Handle -> Stages]
    BY <1>1 DEF Crash, Phases, Stages
  <2>3. records' \in [Handle -> Seq(Record)] /\ queue' \in [Handle -> Seq(Request)]
    BY <1>1, <2>1 DEF Crash
  <2>4. mayCreate' \in [Handle -> BOOLEAN] /\ poisoned' \in [Handle -> BOOLEAN]
    BY <1>1 DEF Crash
  <2> QED BY <1>1, <2>2, <2>3, <2>4 DEF Crash
<1>2. CASE PowerLoss
  <2>1. PICK lock \in {dir.lock, disk.lock}, meta \in {dir.meta, disk.meta},
             journal \in {dir.journal, disk.journal}, n \in synced..Len(file) :
          \E tear \in BOOLEAN : PowerLossTo(lock, meta, journal, n, tear)
    BY <1>2, Zenon DEF PowerLoss
  <2> DEFINE kept == IF journal THEN n ELSE 0
  <2>2. kept \in 0..Len(file)
    OBVIOUS
  <2>3. file' \in Seq(Record) /\ synced' \in 0..Len(file')
    BY <2>1, <2>2, PrefixType DEF PowerLossTo
  <2>4. dir' \in Entries /\ disk' \in Entries
    BY <2>1 DEF PowerLossTo, Entries
  <2>5. <<>> \in Seq(Record) /\ <<>> \in Seq(Request)
    BY EmptySeq
  <2>6. phase' \in [Handle -> Phases] /\ stage' \in [Handle -> Stages]
    BY <2>1 DEF PowerLossTo, Phases, Stages
  <2>7. records' \in [Handle -> Seq(Record)] /\ queue' \in [Handle -> Seq(Request)]
    BY <2>1, <2>5 DEF PowerLossTo
  <2>8. /\ mayCreate' \in [Handle -> BOOLEAN] /\ poisoned' \in [Handle -> BOOLEAN]
        /\ torn' \in BOOLEAN /\ openPaths' \in SUBSET Process /\ acked' = acked
    BY <2>1 DEF PowerLossTo
  <2> QED BY <2>3, <2>4, <2>6, <2>7, <2>8
<1>3. CASE RemoveStaleLock
  BY <1>3 DEF RemoveStaleLock, Entries
<1> QED BY <1>1, <1>2, <1>3

-----------------------------------------------------------------------------
(* The writer lock.                                                        *)

(* Every step keeps the lock with the handle that believes it owns it.     *)
LEMMA LockStep ==
  ASSUME TypeOK, LockHeldByWriter, [Next]_vars
  PROVE  LockHeldByWriter'
<1> USE DEF TypeOK, LockHeldByWriter, Holding, Opening, Goto
<1>1. ASSUME NEW h \in Handle, StartOpen(h, TRUE) \/ StartOpen(h, FALSE)
      PROVE  LockHeldByWriter'
  BY <1>1 DEF StartOpen
<1>2. ASSUME NEW h \in Handle, Open(h)
      PROVE  LockHeldByWriter'
  <2>1. CASE AcquireLock(h)
    BY <2>1, NoHandleAssumption DEF AcquireLock, LockFree, Entries
  <2>2. CASE AcquireFails(h)
    BY <2>2 DEF AcquireFails
  <2>3. CASE InspectFiles(h)
    BY <2>3 DEF InspectFiles
  <2>4. CASE PublishMetadata(h)
    BY <2>4 DEF PublishMetadata, Entries
  <2>5. CASE SyncMetadata(h)
    BY <2>5 DEF SyncMetadata
  <2>6. CASE OpenFile(h)
    BY <2>6 DEF OpenFile, Entries
  <2>7. CASE Validate(h)
    BY <2>7 DEF Validate
  <2>8. CASE FileRejected(h)
    BY <2>8 DEF FileRejected
  <2>9. CASE SyncOpen(h)
    BY <2>9 DEF SyncOpen
  <2>10. CASE OpenFails(h)
    BY <2>10 DEF OpenFails
  <2>11. CASE AbortOpen(h)
    BY <2>11 DEF AbortOpen, ReleaseLock, Entries
  <2> QED
    BY <1>2, <2>1, <2>2, <2>3, <2>4, <2>5, <2>6, <2>7, <2>8, <2>9, <2>10, <2>11 DEF Open
<1>3. ASSUME NEW h \in Handle, StartClose(h) \/ Close(h)
      PROVE  LockHeldByWriter'
  <2>1. CASE StartClose(h)
    BY <2>1 DEF StartClose
  <2>2. CASE CloseFile(h)
    BY <2>2 DEF CloseFile
  <2>3. CASE FinishClose(h)
    BY <2>3 DEF FinishClose, ReleaseLock, Entries
  <2> QED BY <1>3, <2>1, <2>2, <2>3 DEF Close
<1>4. ASSUME NEW h \in Handle, Serve(h)
      PROVE  LockHeldByWriter'
  BY <1>4 DEF Serve, Replay, Reject, Begin, CheckSize, WriteSome, WriteRest, SyncAppend,
              Acknowledge, Poison
<1>5. ASSUME NEW h \in Handle, NEW method \in Methods, NEW event \in Events,
             NEW head \in HeadsFor(h, method), Call(h, method, event, head)
      PROVE  LockHeldByWriter'
  BY <1>5 DEF Call
<1>6. ASSUME NEW p \in Process, Crash(p)
      PROVE  LockHeldByWriter'
  BY <1>6 DEF Crash
<1>7. CASE PowerLoss
  BY <1>7 DEF PowerLoss, PowerLossTo
<1>8. CASE RemoveStaleLock
  BY <1>8 DEF RemoveStaleLock
<1>9. CASE UNCHANGED vars
  BY <1>9 DEF vars
<1> QED BY <1>1, <1>2, <1>3, <1>4, <1>5, <1>6, <1>7, <1>8, <1>9 DEF Next

-----------------------------------------------------------------------------
(* Memory and file.                                                        *)

(* At most one handle is between the acquisition and the release.          *)
LEMMA SoleHolder ==
  ASSUME LockHeldByWriter, NEW g \in Handle, NEW h \in Handle,
         phase[g] \in Holding, phase[h] \in Holding
  PROVE  g = h
BY DEF LockHeldByWriter

(* A step that touches neither the file nor a handle keeps its memory.     *)
LEMMA MemoryFrame ==
  ASSUME NEW g \in Handle, MemoryOf(g), UNCHANGED fileVars,
         phase'[g] = phase[g], records'[g] = records[g], queue'[g] = queue[g],
         stage'[g] = stage[g], poisoned'[g] = poisoned[g]
  PROVE  MemoryOf(g)'
BY DEF MemoryOf, fileVars, Live, DurablePrefix, Pending, Current, Memory, Acceptable, Stale

(* A handle that is not open, with nothing queued, claims nothing.         *)
LEMMA MemoryIdle ==
  ASSUME NEW g \in Handle, phase'[g] \notin {"open", "closing", "syncing"},
         queue'[g] = <<>>, stage'[g] = "ready"
  PROVE  MemoryOf(g)'
BY DEF MemoryOf, Live

(* Steps of openInternal and close.                                        *)
LEMMA MemoryOpenClose ==
  ASSUME TypeOK, LockHeldByWriter, MemoryDurable, NEW h \in Handle,
         (\E create \in BOOLEAN : StartOpen(h, create)) \/ Open(h) \/ StartClose(h) \/ Close(h)
  PROVE  MemoryDurable'
<1> USE DEF MemoryDurable, Goto
<1>1. phase[h] \notin {"open", "closing"} => queue[h] = <<>> /\ stage[h] = "ready"
  BY DEF MemoryOf, Live
<1>2. ASSUME UNCHANGED <<fileVars, handleVars>>,
             phase' = [phase EXCEPT ![h] = phase'[h]],
             phase[h] \notin {"open", "closing"},
             phase'[h] \notin {"open", "closing", "syncing"}
      PROVE  MemoryDurable'
  <2>1. MemoryOf(h)'
    BY <1>1, <1>2, MemoryIdle DEF handleVars
  <2>2. ASSUME NEW g \in Handle, g # h PROVE MemoryOf(g)'
    BY <1>2, <2>2, MemoryFrame DEF handleVars, TypeOK
  <2> QED BY <2>1, <2>2
<1>3. CASE \E create \in BOOLEAN : StartOpen(h, create)
  BY <1>2, <1>3 DEF StartOpen, TypeOK
<1>4. CASE AcquireLock(h)
  BY <1>2, <1>4 DEF AcquireLock, TypeOK
<1>5. CASE AcquireFails(h)
  BY <1>2, <1>5 DEF AcquireFails, TypeOK
<1>6. CASE InspectFiles(h)
  BY <1>2, <1>6 DEF InspectFiles, TypeOK
<1>7. CASE PublishMetadata(h)
  BY <1>2, <1>7 DEF PublishMetadata, TypeOK
<1>8. CASE SyncMetadata(h)
  BY <1>2, <1>8 DEF SyncMetadata, TypeOK
<1>9. CASE OpenFile(h)
  BY <1>2, <1>9 DEF OpenFile, TypeOK
<1>10. CASE Validate(h)
  <2>1. MemoryOf(h)'
    BY <1>1, <1>10 DEF Validate, FileAccepted, fileVars, TypeOK, MemoryOf, Live
  <2>2. ASSUME NEW g \in Handle, g # h PROVE MemoryOf(g)'
    BY <1>10, <2>2, MemoryFrame DEF Validate, TypeOK
  <2> QED BY <2>1, <2>2
<1>11. CASE FileRejected(h)
  BY <1>2, <1>11 DEF FileRejected, TypeOK
<1>12. CASE SyncOpen(h)
  <2>1. records[h] = file /\ ~torn /\ queue[h] = <<>> /\ stage[h] = "ready"
    BY <1>1, <1>12 DEF SyncOpen, MemoryOf
  <2>2. MemoryOf(h)'
    BY <1>12, <2>1 DEF SyncOpen, handleVars, TypeOK, MemoryOf, Live, DurablePrefix
  <2>3. ASSUME NEW g \in Handle, g # h PROVE MemoryOf(g)'
    <3>1. phase[g] \notin Holding
      BY <1>12, <2>3, SoleHolder DEF SyncOpen, Holding, Opening
    <3>2. queue[g] = <<>> /\ stage[g] = "ready"
      BY <3>1 DEF MemoryOf, Live, Holding
    <3> QED
      BY <1>12, <2>3, <3>1, <3>2, MemoryIdle DEF SyncOpen, handleVars, TypeOK, Holding, Opening
  <2> QED BY <2>2, <2>3
<1>13. CASE OpenFails(h)
  BY <1>2, <1>13 DEF OpenFails, TypeOK, Opening
<1>14. CASE AbortOpen(h)
  <2>1. MemoryOf(h)'
    BY <1>14, MemoryIdle DEF AbortOpen, Forget, TypeOK
  <2>2. ASSUME NEW g \in Handle, g # h PROVE MemoryOf(g)'
    BY <1>14, <2>2, MemoryFrame DEF AbortOpen, Forget, TypeOK
  <2> QED BY <2>1, <2>2
<1>15. CASE StartClose(h)
  <2>1. MemoryOf(h)'
    BY <1>15 DEF StartClose, fileVars, handleVars, TypeOK, MemoryOf, Live, DurablePrefix,
                 Pending, Current, Memory, Acceptable, Stale
  <2>2. ASSUME NEW g \in Handle, g # h PROVE MemoryOf(g)'
    BY <1>15, <2>2, MemoryFrame DEF StartClose, handleVars, TypeOK
  <2> QED BY <2>1, <2>2
<1>16. CASE CloseFile(h)
  <2>1. MemoryOf(h)'
    BY <1>16, MemoryIdle DEF CloseFile, Forget, TypeOK
  <2>2. ASSUME NEW g \in Handle, g # h PROVE MemoryOf(g)'
    BY <1>16, <2>2, MemoryFrame DEF CloseFile, Forget, TypeOK
  <2> QED BY <2>1, <2>2
<1>17. CASE FinishClose(h)
  BY <1>2, <1>17 DEF FinishClose, TypeOK
<1> QED
  BY <1>3, <1>4, <1>5, <1>6, <1>7, <1>8, <1>9, <1>10, <1>11, <1>12, <1>13, <1>14, <1>15,
     <1>16, <1>17 DEF Open, Close

(* The other handles when one of them writes the file.                     *)
LEMMA MemoryOthers ==
  ASSUME TypeOK, LockHeldByWriter, MemoryDurable,
         NEW h \in Handle, Live(h), NEW g \in Handle, g # h,
         phase'[g] = phase[g], queue'[g] = queue[g], stage'[g] = stage[g]
  PROVE  MemoryOf(g)'
<1>1. phase[g] \notin Holding
  BY SoleHolder DEF Live, Holding
<1>2. queue[g] = <<>> /\ stage[g] = "ready"
  BY <1>1 DEF MemoryDurable, MemoryOf, Live, Holding
<1> QED BY <1>1, <1>2, MemoryIdle DEF Holding, Opening

(* Steps of the appending methods.                                         *)
LEMMA MemoryAppend ==
  ASSUME TypeOK, LockHeldByWriter, MemoryDurable, NEW h \in Handle,
         \/ \E method \in Methods, event \in Events : \E head \in HeadsFor(h, method) :
              Call(h, method, event, head)
         \/ Serve(h)
  PROVE  MemoryDurable'
<1> USE DEF MemoryDurable
<1>1. ASSUME MemoryOf(h)', UNCHANGED fileVars, UNCHANGED phase,
             \A g \in Handle \ {h} :
               /\ records'[g] = records[g] /\ queue'[g] = queue[g]
               /\ stage'[g] = stage[g] /\ poisoned'[g] = poisoned[g]
      PROVE  MemoryDurable'
  <2>1. ASSUME NEW g \in Handle, g # h PROVE MemoryOf(g)'
    BY <1>1, <2>1, MemoryFrame
  <2> QED BY <1>1, <2>1
<1>2. stage[h] # "ready" => Live(h) /\ queue[h] # <<>> /\ Acceptable(h)
  BY DEF MemoryOf
<1>3. ASSUME NEW method \in Methods, NEW event \in Events, NEW head \in HeadsFor(h, method),
             Call(h, method, event, head)
      PROVE  MemoryDurable'
  <2> DEFINE call == [method |-> method, event |-> event, head |-> head]
  <2>1. call \in Request
    BY HeadsType DEF Request
  <2>2. queue'[h] = Append(queue[h], call) /\ queue[h] \in Seq(Request)
    BY <1>3 DEF Call, TypeOK
  <2>3. queue'[h] # <<>> /\ (queue[h] # <<>> => Head(queue'[h]) = Head(queue[h]))
    BY <2>1, <2>2
  <2>4. MemoryOf(h)'
    BY <1>3, <2>3 DEF Call, fileVars, MemoryOf, Live, DurablePrefix, Pending, Current,
                      Memory, Acceptable, Stale
  <2> QED BY <1>1, <1>3, <2>4 DEF Call, TypeOK
<1>4. ASSUME Serving(h), stage[h] = "ready", Dequeue(h), UNCHANGED <<fileVars, phase, records, stage, poisoned>>
      PROVE  MemoryDurable'
  <2>1. MemoryOf(h)'
    BY <1>4 DEF Serving, fileVars, MemoryOf, Live, DurablePrefix
  <2> QED BY <1>1, <1>4, <2>1 DEF Dequeue, TypeOK
<1>5. CASE Replay(h)
  BY <1>4, <1>5 DEF Replay
<1>6. CASE Reject(h)
  BY <1>4, <1>6 DEF Reject
<1>7. CASE Begin(h)
  <2>1. MemoryOf(h)'
    BY <1>7 DEF Begin, Serving, fileVars, TypeOK, MemoryOf, Live, DurablePrefix, Pending,
                Current, Memory, Acceptable, Stale
  <2> QED BY <1>1, <1>7, <2>1 DEF Begin, TypeOK
<1>8. CASE CheckSize(h)
  <2>1. MemoryOf(h)'
    BY <1>8 DEF CheckSize, fileVars, TypeOK, MemoryOf, Live, DurablePrefix, Pending,
                Current, Memory, Acceptable, Stale
  <2> QED BY <1>1, <1>8, <2>1 DEF CheckSize, TypeOK
<1>9. CASE WriteSome(h)
  <2>1. MemoryOf(h)'
    BY <1>9 DEF WriteSome, TypeOK, MemoryOf, Live, DurablePrefix, Pending,
                Current, Memory, Acceptable, Stale
  <2>2. ASSUME NEW g \in Handle, g # h PROVE MemoryOf(g)'
    BY <1>2, <1>9, <2>2, MemoryOthers DEF WriteSome, TypeOK
  <2> QED BY <2>1, <2>2
<1>10. CASE WriteRest(h)
  <2>1. Live(h) /\ ~poisoned[h] /\ queue[h] # <<>>
    BY <1>2, <1>10 DEF WriteRest, Acceptable
  <2>2. DurablePrefix(records[h]) /\ Len(file) = Len(records[h])
    BY <1>10, <2>1 DEF WriteRest, MemoryOf
  <2>3. file = records[h]
    BY <2>2, SeqEqual DEF DurablePrefix, TypeOK
  <2>4. Pending(h) \in Record
    BY <2>1, PendingType
  <2>5. /\ Pending(h)' = Pending(h)
        /\ file' = Append(records[h], Pending(h))
        /\ \A i \in 1..Len(records[h]) : file'[i] = records[h][i]
    BY <1>10, <2>3, <2>4 DEF WriteRest, Pending, Current, Memory, TypeOK
  <2>6. DurablePrefix(records[h])'
    BY <1>10, <2>2, <2>5 DEF WriteRest, DurablePrefix
  <2>7. MemoryOf(h)'
    BY <1>2, <1>10, <2>1, <2>5, <2>6
       DEF WriteRest, TypeOK, MemoryOf, Live, Current, Memory, Acceptable, Stale
  <2>8. ASSUME NEW g \in Handle, g # h PROVE MemoryOf(g)'
    BY <2>1, <1>10, <2>8, MemoryOthers DEF WriteRest, TypeOK
  <2> QED BY <2>7, <2>8
<1>11. CASE SyncAppend(h)
  <2>1. Live(h) /\ file = Append(records[h], Pending(h)) /\ Len(file) \in Nat
    BY <1>2, <1>11 DEF SyncAppend, MemoryOf, TypeOK
  <2>2. synced <= Len(file) /\ synced' = Len(file)
    BY <1>11 DEF SyncAppend, TypeOK
  <2>3. DurablePrefix(records[h])'
    BY <1>11, <2>1, <2>2 DEF SyncAppend, MemoryOf, DurablePrefix, TypeOK
  <2>4. MemoryOf(h)'
    BY <1>2, <1>11, <2>1, <2>2, <2>3
       DEF SyncAppend, TypeOK, MemoryOf, Live, Pending, Current, Memory, Acceptable, Stale
  <2>5. ASSUME NEW g \in Handle, g # h PROVE MemoryOf(g)'
    BY <1>2, <1>11, <2>5, MemoryOthers DEF SyncAppend, TypeOK
  <2> QED BY <2>4, <2>5
<1>12. CASE Acknowledge(h)
  <2>1. /\ Live(h) /\ queue[h] # <<>> /\ ~torn
        /\ file = Append(records[h], Pending(h)) /\ synced = Len(file)
    BY <1>2, <1>12 DEF Acknowledge, MemoryOf, Acceptable
  <2>2. records'[h] = file
    BY <1>12, <2>1 DEF Acknowledge, TypeOK
  <2>3. MemoryOf(h)'
    BY <1>12, <2>1, <2>2
       DEF Acknowledge, Dequeue, fileVars, TypeOK, MemoryOf, Live, DurablePrefix
  <2> QED BY <1>1, <1>12, <2>3 DEF Acknowledge, Dequeue, TypeOK
<1>13. CASE Poison(h)
  <2>1. MemoryOf(h)'
    BY <1>2, <1>13 DEF Poison, Dequeue, fileVars, TypeOK, MemoryOf, Live, DurablePrefix
  <2> QED BY <1>1, <1>13, <2>1 DEF Poison, Dequeue, TypeOK
<1> QED
  BY <1>3, <1>5, <1>6, <1>7, <1>8, <1>9, <1>10, <1>11, <1>12, <1>13 DEF Serve

(* A crash takes the memory with it; a power loss takes every memory.      *)
LEMMA MemoryFailure ==
  ASSUME TypeOK, MemoryDurable, (\E p \in Process : Crash(p)) \/ PowerLoss \/ RemoveStaleLock
  PROVE  MemoryDurable'
<1> USE DEF MemoryDurable
<1>1. ASSUME NEW p \in Process, Crash(p)
      PROVE  MemoryDurable'
  <2>1. ASSUME NEW g \in Handle, Owner[g] = p PROVE MemoryOf(g)'
    BY <1>1, <2>1, MemoryIdle DEF Crash
  <2>2. ASSUME NEW g \in Handle, Owner[g] # p PROVE MemoryOf(g)'
    BY <1>1, <2>2, MemoryFrame DEF Crash
  <2> QED BY <2>1, <2>2
<1>2. CASE PowerLoss
  BY <1>2, MemoryIdle DEF PowerLoss, PowerLossTo
<1>3. CASE RemoveStaleLock
  BY <1>3, MemoryFrame DEF RemoveStaleLock, handleVars
<1> QED BY <1>1, <1>2, <1>3

-----------------------------------------------------------------------------
(* The directory.                                                          *)

(* Every step keeps the order in which the entries become durable.         *)
LEMMA EntriesStep ==
  ASSUME TypeOK, LockHeldByWriter, MemoryDurable, EntriesOrdered, [Next]_vars
  PROVE  EntriesOrdered'
<1> USE DEF TypeOK, EntriesOrdered, Live, Goto, fileVars
<1>1. ASSUME NEW h \in Handle, StartOpen(h, TRUE) \/ StartOpen(h, FALSE)
      PROVE  EntriesOrdered'
  BY <1>1 DEF StartOpen
<1>2. ASSUME NEW h \in Handle, Open(h)
      PROVE  EntriesOrdered'
  <2>1. CASE AcquireLock(h)
    BY <2>1 DEF AcquireLock, Entries
  <2>2. CASE AcquireFails(h)
    BY <2>2 DEF AcquireFails
  <2>3. CASE InspectFiles(h)
    BY <2>3 DEF InspectFiles
  <2>4. CASE PublishMetadata(h)
    BY <2>4 DEF PublishMetadata, Entries
  <2>5. CASE SyncMetadata(h)
    BY <2>5 DEF SyncMetadata, Entries
  <2>6. CASE OpenFile(h)
    BY <2>6 DEF OpenFile, Entries
  <2>7. CASE Validate(h)
    BY <2>7 DEF Validate
  <2>8. CASE FileRejected(h)
    BY <2>8 DEF FileRejected
  <2>9. CASE SyncOpen(h)
    BY <2>9 DEF SyncOpen, Entries
  <2>10. CASE OpenFails(h)
    BY <2>10 DEF OpenFails
  <2>11. CASE AbortOpen(h)
    BY <2>11 DEF AbortOpen, ReleaseLock, Entries
  <2> QED
    BY <1>2, <2>1, <2>2, <2>3, <2>4, <2>5, <2>6, <2>7, <2>8, <2>9, <2>10, <2>11 DEF Open
<1>3. ASSUME NEW h \in Handle, StartClose(h) \/ Close(h)
      PROVE  EntriesOrdered'
  <2>1. CASE StartClose(h)
    BY <2>1 DEF StartClose
  <2>2. CASE CloseFile(h)
    BY <2>2 DEF CloseFile
  <2>3. CASE FinishClose(h)
    BY <2>3 DEF FinishClose, ReleaseLock, Entries
  <2> QED BY <1>3, <2>1, <2>2, <2>3 DEF Close
<1>4. ASSUME NEW h \in Handle, Serve(h)
      PROVE  EntriesOrdered'
  <2>1. CASE WriteRest(h)
    <3>1. Live(h)
      BY <2>1 DEF WriteRest, MemoryDurable, MemoryOf
    <3> QED BY <2>1, <3>1 DEF WriteRest
  <2>2. CASE ~WriteRest(h)
    BY <1>4, <2>2 DEF Serve, Replay, Reject, Begin, CheckSize, WriteSome, SyncAppend,
                      Acknowledge, Poison
  <2> QED BY <2>1, <2>2
<1>5. ASSUME NEW h \in Handle, NEW method \in Methods, NEW event \in Events,
             NEW head \in HeadsFor(h, method), Call(h, method, event, head)
      PROVE  EntriesOrdered'
  BY <1>5 DEF Call
<1>6. ASSUME NEW p \in Process, Crash(p)
      PROVE  EntriesOrdered'
  BY <1>6 DEF Crash
<1>7. CASE PowerLoss
  <2>1. PICK lock \in {dir.lock, disk.lock}, meta \in {dir.meta, disk.meta},
             journal \in {dir.journal, disk.journal}, n \in synced..Len(file) :
          \E tear \in BOOLEAN : PowerLossTo(lock, meta, journal, n, tear)
    BY <1>7, Zenon DEF PowerLoss
  <2>2. ~journal => file' = <<>>
    BY <2>1 DEF PowerLossTo
  <2>3. dir'.meta = meta /\ dir'.journal = journal /\ disk'.meta = meta /\ disk'.journal = journal
    BY <2>1 DEF PowerLossTo
  <2>4. journal => meta
    OBVIOUS
  <2>5. \A h \in Handle : phase'[h] = "idle"
    BY <2>1 DEF PowerLossTo
  <2> QED BY <2>2, <2>3, <2>4, <2>5
<1>8. CASE RemoveStaleLock
  BY <1>8 DEF RemoveStaleLock, Entries
<1>9. CASE UNCHANGED vars
  BY <1>9 DEF vars
<1> QED BY <1>1, <1>2, <1>3, <1>4, <1>5, <1>6, <1>7, <1>8, <1>9 DEF Next

-----------------------------------------------------------------------------
(* What the file holds.                                                    *)

(* How one step can change the file: not at all, by the pending record of  *)
(* a handle whose memory is the whole file, or by a loss of its tail.      *)
FileStep ==
  \/ file' = file /\ (synced' = synced \/ synced' = Len(file))
  \/ \E h \in Handle : /\ queue[h] # <<>> /\ Acceptable(h)
                       /\ records[h] = file /\ synced = Len(file)
                       /\ file' = Append(file, Pending(h)) /\ synced' = synced
  \/ \E n \in synced..Len(file) : file' = SubSeq(file, 1, n) /\ synced' = n

(* Every step changes the file in one of these three ways.                 *)
LEMMA FileSteps ==
  ASSUME TypeOK, MemoryDurable, EntriesOrdered, [Next]_vars
  PROVE  FileStep
<1> USE DEF fileVars
<1>1. ASSUME NEW h \in Handle, WriteRest(h)
      PROVE  FileStep
  <2>1. Live(h) /\ ~poisoned[h] /\ queue[h] # <<>> /\ Acceptable(h)
    BY <1>1 DEF WriteRest, Acceptable, MemoryDurable, MemoryOf
  <2>2. DurablePrefix(records[h]) /\ Len(file) = Len(records[h])
    BY <1>1, <2>1 DEF WriteRest, MemoryDurable, MemoryOf
  <2>3. file = records[h] /\ synced = Len(file)
    BY <2>2, SeqEqual DEF DurablePrefix, TypeOK
  <2> QED BY <1>1, <2>1, <2>3 DEF WriteRest, FileStep
<1>2. ASSUME NEW h \in Handle, Serve(h)
      PROVE  FileStep
  BY <1>1, <1>2 DEF FileStep, Serve, Replay, Reject, Begin, CheckSize, WriteSome, SyncAppend,
       Acknowledge, Poison
<1>3. ASSUME NEW h \in Handle,
             StartOpen(h, TRUE) \/ StartOpen(h, FALSE) \/ Open(h) \/ StartClose(h) \/ Close(h)
      PROVE  FileStep
  BY <1>3 DEF FileStep, StartOpen, Open, AcquireLock, AcquireFails, InspectFiles,
       PublishMetadata, SyncMetadata, OpenFile, Validate, FileRejected, SyncOpen, OpenFails,
       AbortOpen, StartClose, Close, CloseFile, FinishClose
<1>4. ASSUME NEW h \in Handle, NEW method \in Methods, NEW event \in Events,
             NEW head \in HeadsFor(h, method), Call(h, method, event, head)
      PROVE  FileStep
  BY <1>4 DEF Call, FileStep
<1>5. CASE (\E p \in Process : Crash(p)) \/ RemoveStaleLock \/ UNCHANGED vars
  BY <1>5 DEF Crash, RemoveStaleLock, vars, FileStep
<1>6. CASE PowerLoss
  <2>1. PICK journal \in {dir.journal, disk.journal}, n \in synced..Len(file) :
          /\ file' = SubSeq(file, 1, IF journal THEN n ELSE 0)
          /\ synced' = IF journal THEN n ELSE 0
    BY <1>6 DEF PowerLoss, PowerLossTo
  <2>2. CASE journal
    BY <2>1, <2>2 DEF FileStep
  <2>3. CASE ~journal
    <3>1. ~disk.journal
      BY <2>3 DEF EntriesOrdered, TypeOK, Entries
    <3>2. file = <<>> /\ synced = 0
      BY <3>1 DEF EntriesOrdered, TypeOK
    <3>3. 0 \in synced..Len(file)
      BY <3>2
    <3> QED BY <2>1, <2>3, <3>3 DEF FileStep
  <2> QED BY <2>2, <2>3
<1> QED BY <1>2, <1>3, <1>4, <1>5, <1>6 DEF Next

(* At most one record is ever in doubt.                                    *)
LEMMA DoubtStep ==
  ASSUME TypeOK, MemoryDurable, EntriesOrdered, OneRecordInDoubt, [Next]_vars
  PROVE  OneRecordInDoubt'
<1>1. CASE file' = file /\ (synced' = synced \/ synced' = Len(file))
  BY <1>1 DEF OneRecordInDoubt, TypeOK
<1>2. ASSUME NEW h \in Handle, queue[h] # <<>>, synced = Len(file),
             file' = Append(file, Pending(h)), synced' = synced
      PROVE  OneRecordInDoubt'
  <2>1. Pending(h) \in Record
    BY <1>2, PendingType
  <2> QED BY <1>2, <2>1, AppendProperties DEF OneRecordInDoubt, TypeOK
<1>3. ASSUME NEW n \in synced..Len(file), file' = SubSeq(file, 1, n), synced' = n
      PROVE  OneRecordInDoubt'
  BY <1>3, PrefixType DEF OneRecordInDoubt, TypeOK
<1> QED BY FileSteps, <1>1, <1>2, <1>3 DEF FileStep

(* The events before a position depend on the records before it only.      *)
LEMMA EventsBefore ==
  ASSUME NEW rs \in Seq(Record), NEW ts \in Seq(Record),
         NEW n \in 0..Len(rs), n <= Len(ts), \A i \in 1..n : rs[i] = ts[i]
  PROVE  SubSeq(EventsOf(rs), 1, n) = SubSeq(EventsOf(ts), 1, n)
<1>1. EventsOf(rs) \in Seq(Events) /\ EventsOf(ts) \in Seq(Events)
      /\ Len(EventsOf(rs)) = Len(rs) /\ Len(EventsOf(ts)) = Len(ts)
  BY EventsOfType
<1>2. \A i \in 1..n : EventsOf(rs)[i] = EventsOf(ts)[i]
  BY DEF EventsOf
<1>3. SubSeq(EventsOf(rs), 1, n) \in Seq(Events) /\ SubSeq(EventsOf(ts), 1, n) \in Seq(Events)
      /\ Len(SubSeq(EventsOf(rs), 1, n)) = n /\ Len(SubSeq(EventsOf(ts), 1, n)) = n
  BY <1>1
<1>4. \A i \in 1..n : SubSeq(EventsOf(rs), 1, n)[i] = SubSeq(EventsOf(ts), 1, n)[i]
  BY <1>1, <1>2
<1> QED BY <1>3, <1>4, SeqEqual

(* A valid file stays valid when its tail is lost ...                      *)
LEMMA ValidPrefix ==
  ASSUME NEW rs \in Seq(Record), ReadAndValidate(rs), NEW n \in 0..Len(rs)
  PROVE  ReadAndValidate(SubSeq(rs, 1, n))
<1> DEFINE ts == SubSeq(rs, 1, n)
<1>1. ts \in Seq(Record) /\ Len(ts) = n /\ \A i \in 1..n : ts[i] = rs[i]
  BY PrefixType
<1> HIDE DEF ts
<1>2. ASSUME NEW i \in 1..n
      PROVE  SubSeq(EventsOf(ts), 1, i - 1) = SubSeq(EventsOf(rs), 1, i - 1)
  <2>1. ts \in Seq(Record) /\ i - 1 \in 0..Len(ts) /\ i - 1 <= Len(rs)
    BY <1>1
  <2>2. \A j \in 1..(i - 1) : ts[j] = rs[j]
    BY <1>1
  <2> QED BY <2>1, <2>2, EventsBefore, Zenon
<1>3. ASSUME NEW i \in 1..n PROVE ValidAt(ts, i)
  <2>1. ValidAt(rs, i)
    BY DEF ReadAndValidate
  <2> QED BY <1>1, <1>2, <2>1 DEF ValidAt
<1>4. ReadAndValidate(ts)
  BY <1>1, <1>3 DEF ReadAndValidate
<1> QED BY <1>4 DEF ts

(* ... and when an admitted, fresh event is chained to its end.            *)
LEMMA ValidAppend ==
  ASSUME NEW rs \in Seq(Record), ReadAndValidate(rs), NEW r \in Record,
         r.prev = EventsOf(rs), FreshId(EventsOf(rs), r.event),
         LifecycleAdmits(EventsOf(rs), r.event)
  PROVE  ReadAndValidate(Append(rs, r))
<1> DEFINE ts == Append(rs, r)
<1>1. /\ ts \in Seq(Record) /\ Len(ts) = Len(rs) + 1 /\ Len(rs) \in Nat
      /\ \A i \in 1..Len(rs) : ts[i] = rs[i]
      /\ ts[Len(rs) + 1] = r
  OBVIOUS
<1>2. ASSUME NEW i \in 1..(Len(rs) + 1)
      PROVE  SubSeq(EventsOf(ts), 1, i - 1) = SubSeq(EventsOf(rs), 1, i - 1)
  <2>1. ts \in Seq(Record) /\ i - 1 \in 0..Len(ts) /\ i - 1 <= Len(rs)
    BY <1>1
  <2>2. \A j \in 1..(i - 1) : ts[j] = rs[j]
    BY <1>1
  <2> HIDE DEF ts
  <2> QED BY <2>1, <2>2, EventsBefore, Zenon
<1>3. SubSeq(EventsOf(rs), 1, Len(rs)) = EventsOf(rs)
  BY EventsOfType, SubSeqFull
<1> HIDE DEF ts
<1>4. ASSUME NEW i \in 1..Len(ts) PROVE ValidAt(ts, i)
  <2>1. CASE i <= Len(rs)
    <3>1. i \in 1..Len(rs) /\ ts[i] = rs[i]
      BY <1>1, <2>1
    <3>2. ValidAt(rs, i)
      BY <3>1 DEF ReadAndValidate
    <3>3. SubSeq(EventsOf(ts), 1, i - 1) = SubSeq(EventsOf(rs), 1, i - 1)
      BY <1>1, <1>2
    <3> QED BY <3>1, <3>2, <3>3 DEF ValidAt
  <2>2. CASE i = Len(rs) + 1
    <3>1. i - 1 = Len(rs) /\ ts[i] = r
      BY <1>1, <2>2
    <3>2. SubSeq(EventsOf(ts), 1, i - 1) = EventsOf(rs)
      BY <1>1, <1>2, <1>3, <3>1
    <3> QED BY <3>1, <3>2 DEF ValidAt
  <2> QED BY <1>1, <2>1, <2>2
<1>5. ReadAndValidate(ts)
  BY <1>4 DEF ReadAndValidate
<1> QED BY <1>5 DEF ts

(* Every step leaves a file the next open accepts.                         *)
LEMMA ValidStep ==
  ASSUME TypeOK, MemoryDurable, EntriesOrdered, ReadAndValidate(file), [Next]_vars
  PROVE  ReadAndValidate(file)'
<1>1. CASE file' = file
  BY <1>1
<1>2. ASSUME NEW h \in Handle, queue[h] # <<>>, Acceptable(h), records[h] = file,
             file' = Append(file, Pending(h))
      PROVE  ReadAndValidate(file)'
  <2>1. Pending(h) \in Record
    BY <1>2, PendingType
  <2>2. /\ Pending(h).prev = EventsOf(file)
        /\ FreshId(EventsOf(file), Pending(h).event)
        /\ LifecycleAdmits(EventsOf(file), Pending(h).event)
    BY <1>2 DEF Pending, Memory, Acceptable
  <2> QED BY <1>2, <2>1, <2>2, ValidAppend DEF TypeOK
<1>3. ASSUME NEW n \in synced..Len(file), file' = SubSeq(file, 1, n)
      PROVE  ReadAndValidate(file)'
  BY <1>3, ValidPrefix DEF TypeOK
<1> QED BY FileSteps, <1>1, <1>2, <1>3 DEF FileStep

-----------------------------------------------------------------------------
(* What callers were told.                                                 *)

(* A step answers no caller, or answers one with a durable record, at the  *)
(* head the caller named.                                                  *)
AckStep ==
  \/ acked' = acked
  \/ /\ file' = file /\ synced' = synced
     /\ \E i \in 1..synced : \E head \in {NoHead, file[i].prev} :
          acked' = acked \cup {[rec |-> file[i], head |-> head]}

(* Every step is of this kind.                                             *)
LEMMA AckSteps ==
  ASSUME TypeOK, MemoryDurable, [Next]_vars
  PROVE  AckStep
<1> USE DEF fileVars
<1>1. ASSUME NEW h \in Handle, Replay(h)
      PROVE  AckStep
  <2>1. PICK i \in 1..Len(records[h]) :
          /\ ReplayOf(h, records[h][i])
          /\ acked' = acked \cup {[rec |-> records[h][i], head |-> Current(h).head]}
    BY <1>1 DEF Replay
  <2>2. DurablePrefix(records[h])
    BY <1>1 DEF Replay, Serving, MemoryDurable, MemoryOf, Live
  <2>3. Len(records[h]) \in Nat /\ synced \in Nat
    BY DEF TypeOK
  <2>4. i \in 1..synced /\ file[i] = records[h][i]
    BY <2>2, <2>3 DEF DurablePrefix
  <2>5. Current(h).head = file[i].prev
    BY <2>1, <2>4 DEF ReplayOf
  <2> QED BY <1>1, <2>1, <2>4, <2>5 DEF Replay, AckStep
<1>2. ASSUME NEW h \in Handle, Acknowledge(h)
      PROVE  AckStep
  <2>1. /\ queue[h] # <<>> /\ Acceptable(h)
        /\ file = Append(records[h], Pending(h)) /\ synced = Len(file)
    BY <1>2 DEF Acknowledge, MemoryDurable, MemoryOf
  <2>2. Pending(h) \in Record
    BY <2>1, PendingType
  <2>3. synced \in 1..synced /\ file[synced] = Pending(h)
    BY <2>1, <2>2 DEF TypeOK
  <2>4. Current(h).head \in {NoHead, file[synced].prev}
    BY <2>1, <2>3 DEF Acceptable, Stale, Pending
  <2> QED BY <1>2, <2>3, <2>4 DEF Acknowledge, AckStep
<1>3. ASSUME NEW h \in Handle, Serve(h)
      PROVE  AckStep
  BY <1>1, <1>2, <1>3 DEF AckStep, Serve, Reject, Begin, CheckSize, WriteSome, WriteRest,
       SyncAppend, Poison
<1>4. ASSUME NEW h \in Handle,
             StartOpen(h, TRUE) \/ StartOpen(h, FALSE) \/ Open(h) \/ StartClose(h) \/ Close(h)
      PROVE  AckStep
  BY <1>4 DEF AckStep, StartOpen, Open, AcquireLock, AcquireFails, InspectFiles,
       PublishMetadata, SyncMetadata, OpenFile, Validate, FileRejected, SyncOpen, OpenFails,
       AbortOpen, StartClose, Close, CloseFile, FinishClose
<1>5. ASSUME NEW h \in Handle, NEW method \in Methods, NEW event \in Events,
             NEW head \in HeadsFor(h, method), Call(h, method, event, head)
      PROVE  AckStep
  BY <1>5 DEF Call, AckStep
<1>6. CASE (\E p \in Process : Crash(p)) \/ PowerLoss \/ RemoveStaleLock \/ UNCHANGED vars
  BY <1>6 DEF Crash, PowerLoss, PowerLossTo, RemoveStaleLock, vars, AckStep
<1> QED BY <1>3, <1>4, <1>5, <1>6 DEF Next

(* No step takes an acknowledged record off the disk.                      *)
LEMMA AckedStep ==
  ASSUME TypeOK, MemoryDurable, EntriesOrdered, AckedDurable, [Next]_vars
  PROVE  AckedDurable'
<1> DEFINE Kept == /\ synced' \in Nat /\ synced <= synced'
                   /\ \A i \in 1..synced : file'[i] = file[i]
<1>1. Kept
  <2>1. CASE file' = file /\ (synced' = synced \/ synced' = Len(file))
    BY <2>1 DEF TypeOK
  <2>2. ASSUME NEW h \in Handle, queue[h] # <<>>, file' = Append(file, Pending(h)),
               synced' = synced
        PROVE  Kept
    <3>1. Pending(h) \in Record
      BY <2>2, PendingType
    <3> QED BY <2>2, <3>1 DEF TypeOK
  <2>3. ASSUME NEW n \in synced..Len(file), file' = SubSeq(file, 1, n), synced' = n
        PROVE  Kept
    BY <2>3, PrefixType DEF TypeOK
  <2> QED BY FileSteps, <2>1, <2>2, <2>3 DEF FileStep
<1>2. CASE acked' = acked
  BY <1>1, <1>2 DEF AckedDurable, TypeOK
<1>3. ASSUME file' = file, synced' = synced, NEW i \in 1..synced, NEW head,
             acked' = acked \cup {[rec |-> file[i], head |-> head]}
      PROVE  AckedDurable'
  BY <1>3 DEF AckedDurable
<1> QED BY AckSteps, <1>2, <1>3 DEF AckStep

(* Every answer is at the head the caller named.                           *)
LEMMA AckHeadStep ==
  ASSUME TypeOK, MemoryDurable, AckAtItsHead, [Next]_vars
  PROVE  AckAtItsHead'
BY AckSteps DEF AckStep, AckAtItsHead

-----------------------------------------------------------------------------
(* From the chain to what it means.                                        *)

(* The prefix of a record fixes its position, so records of one file with  *)
(* the same prefix are the same record.                                    *)
LEMMA ChainUnique ==
  ASSUME NEW rs \in Seq(Record), ReadAndValidate(rs),
         NEW i \in 1..Len(rs), NEW j \in 1..Len(rs), rs[i].prev = rs[j].prev
  PROVE  i = j
<1>1. /\ rs[i].prev = SubSeq(EventsOf(rs), 1, i - 1)
      /\ rs[j].prev = SubSeq(EventsOf(rs), 1, j - 1)
  BY DEF ReadAndValidate, ValidAt
<1>2. Len(EventsOf(rs)) = Len(rs) /\ EventsOf(rs) \in Seq(Events)
  BY EventsOfType
<1>3. /\ Len(SubSeq(EventsOf(rs), 1, i - 1)) = i - 1
      /\ Len(SubSeq(EventsOf(rs), 1, j - 1)) = j - 1
  BY <1>2
<1>4. Len(rs) \in Nat
  OBVIOUS
<1>5. i - 1 = j - 1
  BY <1>1, <1>3
<1> QED BY <1>4, <1>5

(* A head is won once, because the chain has one record per prefix.        *)
LEMMA HeadWon ==
  ASSUME TypeOK, AckedDurable, AckAtItsHead, ReadAndValidate(file)
  PROVE  HeadWonOnce
<1> SUFFICES ASSUME NEW a \in acked, NEW b \in acked, a.head = b.head, a.head # NoHead
             PROVE  a.rec = b.rec
  BY DEF HeadWonOnce
<1>1. PICK i \in 1..synced : file[i] = a.rec
  BY DEF AckedDurable
<1>2. PICK j \in 1..synced : file[j] = b.rec
  BY DEF AckedDurable
<1>3. i \in 1..Len(file) /\ j \in 1..Len(file)
  BY DEF TypeOK
<1>4. file[i].prev = file[j].prev
  BY <1>1, <1>2 DEF AckAtItsHead
<1>5. i = j
  BY <1>3, <1>4, ChainUnique DEF TypeOK
<1> QED BY <1>1, <1>2, <1>5

(* The events of a valid file, at a position i: what validation said of    *)
(* the prefix before i, in terms of the whole sequence.                    *)
LEMMA ValidEvents ==
  ASSUME NEW rs \in Seq(Record), ReadAndValidate(rs), NEW i \in 1..Len(rs)
  PROVE  LET es == EventsOf(rs)
             before == SubSeq(es, 1, i - 1)
         IN  /\ es \in Seq(Events) /\ Len(es) = Len(rs)
             /\ Len(before) = i - 1
             /\ \A j \in 1..(i - 1) : before[j] = es[j]
             /\ LifecycleAdmits(before, es[i])
<1>1. EventsOf(rs) \in Seq(Events) /\ Len(EventsOf(rs)) = Len(rs)
  BY EventsOfType
<1>2. /\ Len(SubSeq(EventsOf(rs), 1, i - 1)) = i - 1
      /\ \A j \in 1..(i - 1) : SubSeq(EventsOf(rs), 1, i - 1)[j] = EventsOf(rs)[j]
  BY <1>1
<1>3. EventsOf(rs)[i] = rs[i].event
  BY DEF EventsOf
<1>4. LifecycleAdmits(SubSeq(EventsOf(rs), 1, i - 1), EventsOf(rs)[i])
  BY <1>3 DEF ReadAndValidate, ValidAt
<1> QED BY <1>1, <1>2, <1>4

(* A valid file obeys the lifecycle read as a whole.                       *)
LEMMA LifecycleOfValid ==
  ASSUME TypeOK, ReadAndValidate(file)
  PROVE  CommittedLifecycle
<1> DEFINE es == EventsOf(file)
           before(i) == SubSeq(es, 1, i - 1)
           Input(i) == es[i].kind = "kernel_input_committed"
           Bundle(i) == es[i].kind = "kernel_bundle_committed"
<1>1. ASSUME NEW i \in 1..Len(file)
      PROVE  /\ Len(es) = Len(file) /\ Len(file) \in Nat
             /\ Len(before(i)) = i - 1
             /\ \A j \in 1..(i - 1) : before(i)[j] = es[j]
             /\ LifecycleAdmits(before(i), es[i])
  BY ValidEvents DEF TypeOK
<1>2. Len(es) = Len(file) /\ Len(file) \in Nat
  BY EventsOfType DEF TypeOK
<1> HIDE DEF es, before
<1>3. ASSUME NEW i \in 1..Len(es), NEW j \in 1..(i - 1), es[j].op = es[i].op
      PROVE  es[j].kind \notin ClosingKinds
  <2>1. OperationOpen(before(i), es[i].op) /\ Len(before(i)) = i - 1 /\ before(i)[j] = es[j]
    BY <1>1, <1>2 DEF LifecycleAdmits
  <2> QED BY <1>3, <2>1 DEF OperationOpen, Positions
<1>4. ASSUME NEW i \in 1..Len(es), Bundle(i)
      PROVE  /\ i > 1 /\ Input(i - 1)
             /\ es[i - 1].op = es[i].op /\ es[i - 1].auth = es[i].auth
  <2>1. Adjacent(before(i), es[i]) /\ Len(before(i)) = i - 1
        /\ \A j \in 1..(i - 1) : before(i)[j] = es[j]
    BY <1>1, <1>2 DEF LifecycleAdmits
  <2>2. before(i) # <<>> /\ before(i)[i - 1].kind = "kernel_input_committed"
        /\ es[i].op = before(i)[i - 1].op /\ es[i].auth = before(i)[i - 1].auth
    BY <1>4, <2>1 DEF Adjacent
  <2>3. i > 1
    BY <1>2, <2>1, <2>2 DEF before
  <2> QED BY <1>2, <2>1, <2>2, <2>3
<1>5. ASSUME NEW i \in 1..Len(es), Input(i), i < Len(es)
      PROVE  Bundle(i + 1) /\ es[i + 1].op = es[i].op
  <2>1. i + 1 \in 1..Len(es)
    BY <1>2, <1>5
  <2>2. Adjacent(before(i + 1), es[i + 1]) /\ Len(before(i + 1)) = i
        /\ before(i + 1)[i] = es[i]
    BY <1>1, <1>2, <2>1 DEF LifecycleAdmits
  <2>3. before(i + 1) # <<>>
    BY <2>2
  <2> QED BY <1>5, <2>2, <2>3 DEF Adjacent
<1>6. ASSUME NEW i \in 1..Len(es), Input(i)
      PROVE  ExactlyOne(Positions(es, es[i].op, {"attempt_opened"}))
  <2>1. InputAllowed(before(i), es[i].op) /\ Len(before(i)) = i - 1
        /\ \A j \in 1..(i - 1) : before(i)[j] = es[j]
    BY <1>1, <1>2, <1>6 DEF LifecycleAdmits
  <2>2. ASSUME NEW j \in 1..Len(es), es[j].op = es[i].op, es[j].kind = "attempt_opened"
        PROVE  j < i
    <3>1. j # i
      BY <1>6, <2>2
    <3>2. CASE j > i
      <4>1. Bundle(i + 1) /\ es[i + 1].op = es[i].op
        BY <1>2, <1>5, <1>6, <3>2
      <4>2. j # i + 1
        BY <2>2, <4>1
      <4>3. i + 1 \in 1..(j - 1)
        BY <1>2, <3>2, <4>2
      <4> QED BY <1>3, <2>2, <4>1, <4>3 DEF ClosingKinds
    <3> QED BY <1>2, <3>1, <3>2
  <2>3. Positions(es, es[i].op, {"attempt_opened"})
          = Positions(before(i), es[i].op, {"attempt_opened"})
    BY <1>2, <2>1, <2>2 DEF Positions
  <2> QED BY <2>1, <2>3 DEF InputAllowed
<1> QED BY <1>3, <1>4, <1>5, <1>6 DEF CommittedLifecycle, es

-----------------------------------------------------------------------------
(* The inductive invariant.                                                *)

IInv ==
  /\ TypeOK /\ LockHeldByWriter /\ MemoryDurable /\ EntriesOrdered
  /\ OneRecordInDoubt /\ ReadAndValidate(file) /\ AckedDurable /\ AckAtItsHead

(* It holds at the start ...                                               *)
LEMMA InitInv == Init => IInv
<1> SUFFICES ASSUME Init PROVE IInv
  OBVIOUS
<1>1. TypeOK
  BY InitType
<1>2. LockHeldByWriter
  BY DEF Init, LockHeldByWriter, Holding, Opening
<1>3. MemoryDurable
  BY DEF Init, MemoryDurable, MemoryOf, Live
<1>4. EntriesOrdered
  BY DEF Init, EntriesOrdered, NoEntries, Live
<1>5. OneRecordInDoubt /\ ReadAndValidate(file)
  BY DEF Init, OneRecordInDoubt, ReadAndValidate
<1>6. AckedDurable /\ AckAtItsHead
  BY DEF Init, AckedDurable, AckAtItsHead
<1> QED BY <1>1, <1>2, <1>3, <1>4, <1>5, <1>6 DEF IInv

(* ... and every step keeps it.                                            *)
LEMMA StepInv == IInv /\ [Next]_vars => IInv'
<1> SUFFICES ASSUME IInv, [Next]_vars PROVE IInv'
  OBVIOUS
<1> USE DEF IInv
<1>1. TypeOK' /\ MemoryDurable'
  <2>1. ASSUME NEW h \in Handle,
               \/ \E create \in BOOLEAN : StartOpen(h, create)
               \/ Open(h) \/ StartClose(h) \/ Close(h)
        PROVE  TypeOK' /\ MemoryDurable'
    BY <2>1, OpenCloseType, MemoryOpenClose
  <2>2. ASSUME NEW h \in Handle,
               \/ \E method \in Methods, event \in Events : \E head \in HeadsFor(h, method) :
                    Call(h, method, event, head)
               \/ Serve(h)
        PROVE  TypeOK' /\ MemoryDurable'
    BY <2>2, AppendType, MemoryAppend
  <2>3. CASE (\E p \in Process : Crash(p)) \/ PowerLoss \/ RemoveStaleLock
    BY <2>3, FailureType, MemoryFailure
  <2>4. CASE UNCHANGED vars
    <3>1. TypeOK'
      BY <2>4 DEF vars, TypeOK
    <3>2. MemoryDurable'
      BY <2>4, MemoryFrame DEF vars, fileVars, MemoryDurable
    <3> QED BY <3>1, <3>2
  <2> QED BY <2>1, <2>2, <2>3, <2>4 DEF Next
<1>2. LockHeldByWriter' /\ EntriesOrdered' /\ OneRecordInDoubt' /\ ReadAndValidate(file)'
  BY LockStep, EntriesStep, DoubtStep, ValidStep
<1>3. AckedDurable' /\ AckAtItsHead'
  BY AckedStep, AckHeadStep
<1> QED BY <1>1, <1>2, <1>3

(* The invariant holds in every behaviour of the journal.                  *)
THEOREM Invariance == Spec => []IInv
BY InitInv, StepInv, PTL DEF Spec

-----------------------------------------------------------------------------
(* The theorems.                                                           *)

(* No call, crash or power loss breaks a type.                             *)
THEOREM TypeCorrect == Spec => []TypeOK
<1>1. IInv => TypeOK
  BY DEF IInv
<1> QED BY <1>1, Invariance, PTL

(* Any number of processes may race for the journal: one of them writes.   *)
THEOREM SingleWriter == Spec => []LockHeldByWriter
<1>1. IInv => LockHeldByWriter
  BY DEF IInv
<1> QED BY <1>1, Invariance, PTL

(* What a handle holds in memory is a durable prefix of the file, and all  *)
(* of it as long as none of its appends has failed.                        *)
THEOREM MemoryAgrees == Spec => []MemoryDurable
<1>1. IInv => MemoryDurable
  BY DEF IInv
<1> QED BY <1>1, Invariance, PTL

(* No acknowledged record is ever lost.                                    *)
THEOREM AcknowledgedSurvives == Spec => []AckedDurable
<1>1. IInv => AckedDurable
  BY DEF IInv
<1> QED BY <1>1, Invariance, PTL

(* Compare-and-append has one winner per head, across crashes.             *)
THEOREM OneWinnerPerHead == Spec => []HeadWonOnce
<1>1. IInv => HeadWonOnce
  BY HeadWon DEF IInv
<1> QED BY <1>1, Invariance, PTL

(* What the writer leaves behind, the next open accepts.                   *)
THEOREM Reopens == Spec => []WriterReaderAgree
<1>1. IInv => WriterReaderAgree
  BY DEF IInv, WriterReaderAgree
<1> QED BY <1>1, Invariance, PTL

(* Closures in the file are whole, adjacent and final.                     *)
THEOREM ClosuresFinal == Spec => []CommittedLifecycle
<1>1. IInv => CommittedLifecycle
  BY LifecycleOfValid DEF IInv
<1> QED BY <1>1, Invariance, PTL

(* Crashes cannot leave a journal without its metadata.                    *)
THEOREM MetadataFirst == Spec => []MetadataPrecedesJournal
<1>1. IInv => MetadataPrecedesJournal
  BY DEF IInv, EntriesOrdered, MetadataPrecedesJournal
<1> QED BY <1>1, Invariance, PTL

-----------------------------------------------------------------------------
(* The journal implements the append-only log.                             *)

Durable(n) == EventsOf(SubSeq(file, 1, n))

(* The events of a durable prefix are a prefix of the events.              *)
LEMMA DurableEvents ==
  ASSUME TypeOK, NEW n \in 0..Len(file)
  PROVE  /\ Durable(n) = SubSeq(EventsOf(file), 1, n)
         /\ Durable(n) \in Seq(Events) /\ Len(Durable(n)) = n
         /\ \A i \in 1..n : Durable(n)[i] = file[i].event
<1> DEFINE ts == SubSeq(file, 1, n)
<1>1. ts \in Seq(Record) /\ Len(ts) = n /\ \A i \in 1..n : ts[i] = file[i]
  BY PrefixType DEF TypeOK
<1> HIDE DEF ts
<1>2. SubSeq(EventsOf(ts), 1, n) = SubSeq(EventsOf(file), 1, n)
  BY <1>1, EventsBefore DEF TypeOK
<1>3. EventsOf(ts) \in Seq(Events) /\ Len(EventsOf(ts)) = n
  BY <1>1, EventsOfType
<1>4. SubSeq(EventsOf(ts), 1, n) = EventsOf(ts)
  BY <1>3, SubSeqFull
<1>5. \A i \in 1..n : EventsOf(ts)[i] = file[i].event
  BY <1>1 DEF EventsOf
<1>6. Durable(n) = EventsOf(ts)
  BY DEF Durable, ts
<1> QED BY <1>2, <1>3, <1>4, <1>5, <1>6

(* What becomes durable in a step: nothing, or the one record in doubt.    *)
LEMMA DurableStep ==
  ASSUME TypeOK, MemoryDurable, EntriesOrdered, OneRecordInDoubt, [Next]_vars
  PROVE  \/ Durable(synced)' = Durable(synced)
         \/ (Len(file) = synced + 1 /\ Durable(synced)' = Durable(Len(file)))
<1>1. synced \in Nat /\ Len(file) \in Nat /\ synced <= Len(file) /\ Len(file) <= synced + 1
  BY DEF TypeOK, OneRecordInDoubt
<1>2. CASE file' = file /\ (synced' = synced \/ synced' = Len(file))
  BY <1>1, <1>2 DEF Durable
<1>3. ASSUME NEW h \in Handle, queue[h] # <<>>, file' = Append(file, Pending(h)),
             synced' = synced
      PROVE  Durable(synced)' = Durable(synced)
  <2>1. Pending(h) \in Record
    BY <1>3, PendingType
  <2>2. file' \in Seq(Record) /\ Len(file') = Len(file) + 1
        /\ \A i \in 1..Len(file) : file'[i] = file[i]
    BY <1>3, <2>1 DEF TypeOK
  <2>3. /\ SubSeq(file', 1, synced) \in Seq(Record) /\ SubSeq(file, 1, synced) \in Seq(Record)
        /\ Len(SubSeq(file', 1, synced)) = synced /\ Len(SubSeq(file, 1, synced)) = synced
        /\ \A i \in 1..synced : SubSeq(file', 1, synced)[i] = file'[i]
        /\ \A i \in 1..synced : SubSeq(file, 1, synced)[i] = file[i]
    BY <1>1, <2>2, PrefixType DEF TypeOK
  <2>4. \A i \in 1..synced : SubSeq(file', 1, synced)[i] = SubSeq(file, 1, synced)[i]
    BY <1>1, <2>2, <2>3
  <2>5. SubSeq(file', 1, synced) = SubSeq(file, 1, synced)
    BY <2>3, <2>4, SeqEqual
  <2> QED BY <1>3, <2>5 DEF Durable
<1>4. ASSUME NEW n \in synced..Len(file), file' = SubSeq(file, 1, n), synced' = n
      PROVE  Durable(synced)' = Durable(n) /\ (n = synced \/ (n = synced + 1 /\ n = Len(file)))
  <2>1. SubSeq(file, 1, n) \in Seq(Record) /\ Len(SubSeq(file, 1, n)) = n
    BY <1>1, PrefixType DEF TypeOK
  <2>2. SubSeq(SubSeq(file, 1, n), 1, n) = SubSeq(file, 1, n)
    BY <2>1, SubSeqFull
  <2>3. n = synced \/ (n = synced + 1 /\ n = Len(file))
    <3>1. CASE Len(file) = synced
      BY <1>1, <3>1
    <3>2. CASE Len(file) = synced + 1
      <4>1. n \in Nat /\ synced <= n /\ n <= synced + 1
        BY <1>1, <3>2
      <4>2. n = synced \/ n = synced + 1
        BY <1>1, <4>1
      <4> QED BY <3>2, <4>2
    <3> QED BY <1>1, <3>1, <3>2
  <2> QED BY <1>4, <2>2, <2>3 DEF Durable
<1> QED BY <1>1, <1>2, <1>3, <1>4, FileSteps DEF FileStep

(* The log's rules are the journal's rules.                                *)
LEMMA SameRules ==
  ASSUME NEW es, NEW e
  PROVE  /\ Log!FreshId(es, e) <=> FreshId(es, e)
         /\ Log!LifecycleAdmits(es, e) <=> LifecycleAdmits(es, e)
<1>1. Log!FreshId(es, e) <=> FreshId(es, e)
  BY DEF Log!FreshId, FreshId
<1>2. Log!Adjacent(es, e) <=> Adjacent(es, e)
  BY DEF Log!Adjacent, Adjacent
<1>3. \A op, kinds : Log!Positions(es, op, kinds) = Positions(es, op, kinds)
  BY DEF Log!Positions, Positions
<1>4. Log!OperationOpen(es, e.op) <=> OperationOpen(es, e.op)
  BY <1>3 DEF Log!OperationOpen, OperationOpen, Log!ClosingKinds, ClosingKinds
<1>5. Log!InputAllowed(es, e.op) <=> InputAllowed(es, e.op)
  BY <1>3 DEF Log!InputAllowed, InputAllowed, Log!ExactlyOne, ExactlyOne
<1>6. Log!BundleAllowed(es, e.op, e.auth) <=> BundleAllowed(es, e.op, e.auth)
  BY <1>3 DEF Log!BundleAllowed, BundleAllowed, Log!ExactlyOne, ExactlyOne
<1> QED
  BY <1>1, <1>2, <1>4, <1>5, <1>6 DEF Log!LifecycleAdmits, LifecycleAdmits

(* A step of the journal is a step of the log, or none.                    *)
LEMMA LogStep ==
  ASSUME IInv, [Next]_vars
  PROVE  [Log!LogNext]_<<Durable(synced), acked>>
<1> USE DEF IInv
<1>1. synced \in 0..Len(file) /\ synced \in Nat /\ Len(file) \in Nat
  BY DEF TypeOK
<1>2. CASE acked' = acked /\ Durable(synced)' = Durable(synced)
  BY <1>2
<1>3. CASE acked' = acked /\ Len(file) = synced + 1 /\ Durable(synced)' = Durable(Len(file))
  <2> DEFINE e == file[Len(file)].event
             log == Durable(synced)
  <2>1. Len(file) \in 1..Len(file) /\ Len(file) - 1 = synced
    BY <1>1, <1>3
  <2>2. e \in Events
    <3>1. file[Len(file)] \in Record
      BY <2>1, ElementOfSeq DEF TypeOK
    <3> QED BY <3>1 DEF Record
  <2>3. ValidAt(file, Len(file))
    BY <2>1 DEF ReadAndValidate
  <2>4. FreshId(log, e) /\ LifecycleAdmits(log, e)
    BY <1>1, <2>1, <2>3, DurableEvents DEF ValidAt
  <2>5. Durable(Len(file)) = Append(log, e)
    <3>1. /\ log \in Seq(Events) /\ Len(log) = synced
          /\ \A i \in 1..synced : log[i] = file[i].event
      BY <1>1, DurableEvents
    <3>2. /\ Durable(Len(file)) \in Seq(Events) /\ Len(Durable(Len(file))) = Len(file)
          /\ \A i \in 1..Len(file) : Durable(Len(file))[i] = file[i].event
      BY <1>1, DurableEvents
    <3> HIDE DEF log, e
    <3>3. /\ Append(log, e) \in Seq(Events) /\ Len(Append(log, e)) = synced + 1
          /\ \A i \in 1..synced : Append(log, e)[i] = log[i]
          /\ Append(log, e)[synced + 1] = e
      BY <2>2, <3>1, AppendProperties
    <3>4. \A i \in 1..Len(file) : Durable(Len(file))[i] = Append(log, e)[i]
      BY <1>1, <1>3, <3>1, <3>2, <3>3 DEF e
    <3> QED BY <1>3, <3>2, <3>3, <3>4, SeqEqual
  <2>6. Log!FreshId(log, e) /\ Log!LifecycleAdmits(log, e)
    BY <2>4, SameRules
  <2>7. Log!Commit(e)
    BY <1>3, <2>5, <2>6 DEF Log!Commit, Durable
  <2> QED BY <2>2, <2>7 DEF Log!LogNext
<1>4. ASSUME file' = file, synced' = synced, NEW i \in 1..synced,
             NEW head \in {NoHead, file[i].prev},
             acked' = acked \cup {[rec |-> file[i], head |-> head]}
      PROVE  Log!LogNext
  <2>1. Durable(synced)' = Durable(synced)
    BY <1>4 DEF Durable
  <2>2. i \in 1..Len(file) /\ i - 1 \in 0..Len(file) /\ i - 1 \in 0..synced
    BY <1>1
  <2>3. file[i].prev = SubSeq(EventsOf(file), 1, i - 1)
    BY <2>2 DEF ReadAndValidate, ValidAt
  <2>4. SubSeq(Durable(synced), 1, i - 1) = SubSeq(EventsOf(file), 1, i - 1)
    <3>1. /\ EventsOf(file) \in Seq(Events) /\ Len(EventsOf(file)) = Len(file)
          /\ Durable(synced) \in Seq(Events) /\ Len(Durable(synced)) = synced
      BY <1>1, DurableEvents, EventsOfType DEF TypeOK
    <3>2. \A j \in 1..(i - 1) : Durable(synced)[j] = EventsOf(file)[j]
      BY <1>1, DurableEvents DEF EventsOf
    <3> DEFINE ds == SubSeq(Durable(synced), 1, i - 1)
               es == SubSeq(EventsOf(file), 1, i - 1)
    <3>3. /\ ds \in Seq(Events) /\ Len(ds) = i - 1
          /\ \A j \in 1..(i - 1) : ds[j] = Durable(synced)[j]
      BY <1>1, <2>2, <3>1
    <3>4. /\ es \in Seq(Events) /\ Len(es) = i - 1
          /\ \A j \in 1..(i - 1) : es[j] = EventsOf(file)[j]
      BY <1>1, <2>2, <3>1
    <3> HIDE DEF ds, es
    <3>5. ds = es
      BY <3>2, <3>3, <3>4, SeqEqual
    <3> QED BY <3>5 DEF ds, es
  <2>5. file[i] = [event |-> Durable(synced)[i], prev |-> SubSeq(Durable(synced), 1, i - 1)]
    <3>1. file[i] \in Record
      BY <2>2, ElementOfSeq DEF TypeOK
    <3>2. file[i] = [event |-> file[i].event, prev |-> file[i].prev]
      BY <3>1 DEF Record
    <3>3. Durable(synced)[i] = file[i].event
      BY <1>1, DurableEvents
    <3> QED BY <2>3, <2>4, <3>2, <3>3
  <2>6. head \in {NoHead, SubSeq(Durable(synced), 1, i - 1)}
    BY <2>3, <2>4
  <2>7. Log!Acknowledge(i, head)
    BY <1>4, <2>1, <2>5, <2>6 DEF Log!Acknowledge, Durable
  <2>8. i \in 1..Len(Durable(synced))
    BY <1>1, DurableEvents
  <2> QED BY <2>6, <2>7, <2>8 DEF Log!LogNext, Durable
<1> QED BY <1>2, <1>3, <1>4, AckSteps, DurableStep DEF AckStep

(* The file, with its lock, crashes, lost caches and queues, is an         *)
(* append-only log of admitted events with honest acknowledgements.        *)
THEOREM ImplementsEvidenceLog == Spec => ImplementsLog
<1>1. Init => Log!LogInit
  <2> SUFFICES ASSUME Init PROVE Log!LogInit
    OBVIOUS
  <2>1. SubSeq(file, 1, synced) = <<>>
    BY DEF Init
  <2>2. EventsOf(<<>>) = <<>>
    BY DEF EventsOf
  <2> QED BY <2>1, <2>2 DEF Init, Log!LogInit
<1>2. IInv /\ [Next]_vars => [Log!LogNext]_<<EventsOf(SubSeq(file, 1, synced)), acked>>
  BY LogStep DEF Durable
<1> QED
  BY <1>1, <1>2, Invariance, PTL DEF Spec, ImplementsLog, Log!LogSpec

=============================================================================
