---------------------------- MODULE EvidenceLog ----------------------------
(***************************************************************************)
(* What an evidence journal promises its callers, with no file, lock,      *)
(* crash or queue in sight: an append-only log of events that obey the     *)
(* lifecycle, and acknowledgements that only ever name a record that is    *)
(* in the log, at the head the caller asked for.  EvidenceJournal is shown *)
(* to implement it.                                                        *)
(***************************************************************************)
EXTENDS JournalLifecycle

CONSTANT NoHead     \* the expected head of a call that names none

VARIABLES log,      \* the committed events
          acked     \* the acknowledgements given: [rec, head]

LogInit == log = <<>> /\ acked = {}

Commit(e) ==
  /\ FreshId(log, e)
  /\ LifecycleAdmits(log, e)
  /\ log' = Append(log, e)
  /\ UNCHANGED acked

Acknowledge(i, head) ==
  /\ head \in {NoHead, SubSeq(log, 1, i - 1)}
  /\ acked' = acked \cup
       {[rec |-> [event |-> log[i], prev |-> SubSeq(log, 1, i - 1)], head |-> head]}
  /\ UNCHANGED log

LogNext ==
  \/ \E e \in Events : Commit(e)
  \/ \E i \in 1..Len(log) : \E head \in {NoHead, SubSeq(log, 1, i - 1)} : Acknowledge(i, head)

LogSpec == LogInit /\ [][LogNext]_<<log, acked>>
=============================================================================
