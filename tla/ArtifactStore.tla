--------------------------- MODULE ArtifactStore ---------------------------
(***************************************************************************)
(* The content-addressed artifact store (src/src/evidence/artifact-store.ts*)
(* put): each call writes and syncs a temporary file of its own, links it  *)
(* to the name its hash gives, syncs the directory and removes the         *)
(* temporary name.  Calls run concurrently, in one process or several, and *)
(* nothing but the file system orders them.                                *)
(*                                                                         *)
(* Abstractions.  The hash is collision free, so a final name stands for   *)
(* its artifact and a whole file at that name is the artifact.  A          *)
(* temporary name is random, so it stands for its call, and so does the    *)
(* file (inode) the call writes.  Nobody else writes the directory.        *)
(***************************************************************************)
EXTENDS Naturals

CONSTANTS
  Artifact,     \* payloads with their namespaces
  Put,          \* calls of put
  ArtifactOf,   \* what each call stores
  NoFile        \* the name does not exist

ASSUME ArtifactOfAssumption == ArtifactOf \in [Put -> Artifact]
ASSUME NoFileAssumption == NoFile \notin Put

VARIABLES
  final,        \* the file at each final name, as processes see it
  finalDisk,    \* ... as it survives a power loss
  temp,         \* the temporary names processes see
  tempDisk,     \* the temporary names that survive a power loss
  content,      \* how much of the line each file holds
  synced,       \* the files whose content an fsync made durable
  pc            \* where each call is

vars == <<final, finalDisk, temp, tempDisk, content, synced, pc>>

Contents == {"none", "part", "whole"}
Running == {"creating", "writing", "syncing", "linking", "comparing", "confirming",
            "publishing", "removing", "settling"}

TypeOK ==
  /\ final \in [Artifact -> Put \cup {NoFile}]
  /\ finalDisk \in [Artifact -> Put \cup {NoFile}]
  /\ temp \in SUBSET Put /\ tempDisk \in SUBSET Put
  /\ content \in [Put -> Contents]
  /\ synced \in SUBSET Put
  /\ pc \in [Put -> Running \cup {"idle", "done", "failed"}]

Init ==
  /\ final = [a \in Artifact |-> NoFile] /\ finalDisk = final
  /\ temp = {} /\ tempDisk = {}
  /\ content = [p \in Put |-> "none"]
  /\ synced = {}
  /\ pc = [p \in Put |-> "idle"]

Goto(p, from, to) == pc[p] = from /\ pc' = [pc EXCEPT ![p] = to]
Mine(p) == final[ArtifactOf[p]]

(* readStoredArtifact accepts the file at the final name.                  *)
Readable(a) == final[a] # NoFile /\ content[final[a]] = "whole"

(* fsync of the directory: every name is durable as it is seen now.        *)
SyncDirectory == finalDisk' = final /\ tempDisk' = temp

-----------------------------------------------------------------------------
(* The first look: an artifact that is already there only has to be made   *)
(* durable; a file that is not the artifact fails the call.                *)
Lookup(p) ==
  /\ pc[p] = "idle"
  /\ pc' = [pc EXCEPT ![p] = IF Mine(p) = NoFile THEN "creating"
                             ELSE IF Readable(ArtifactOf[p]) THEN "confirming"
                             ELSE "failed"]
  /\ UNCHANGED <<final, finalDisk, temp, tempDisk, content, synced>>

(* Mutation: an artifact that is already visible is taken for durable.     *)
ConfirmUnsynced(p) ==
  /\ Goto(p, "confirming", "done")
  /\ UNCHANGED <<final, finalDisk, temp, tempDisk, content, synced>>

Confirm(p) ==
  /\ Goto(p, "confirming", "done")
  /\ SyncDirectory
  /\ UNCHANGED <<final, temp, content, synced>>

CreateTemporary(p) ==
  /\ Goto(p, "creating", "writing")
  /\ temp' = temp \cup {p}
  /\ UNCHANGED <<final, finalDisk, tempDisk, content, synced>>

WriteTemporary(p) ==
  /\ pc[p] = "writing"
  /\ \/ content' = [content EXCEPT ![p] = "part"] /\ content[p] = "none" /\ UNCHANGED pc
     \/ content' = [content EXCEPT ![p] = "whole"] /\ pc' = [pc EXCEPT ![p] = "syncing"]
  /\ UNCHANGED <<final, finalDisk, temp, tempDisk, synced>>

(* Mutation: the temporary file is linked before its content is synced.    *)
SyncTemporaryUnsynced(p) ==
  /\ Goto(p, "syncing", "linking")
  /\ UNCHANGED <<final, finalDisk, temp, tempDisk, content, synced>>

SyncTemporary(p) ==
  /\ Goto(p, "syncing", "linking")
  /\ synced' = synced \cup {p}
  /\ UNCHANGED <<final, finalDisk, temp, tempDisk, content>>

(* link never replaces: whoever links a name first owns it.                *)
LinkFinal(p) ==
  /\ Mine(p) = NoFile
  /\ Goto(p, "linking", "publishing")
  /\ final' = [final EXCEPT ![ArtifactOf[p]] = p]
  /\ UNCHANGED <<finalDisk, temp, tempDisk, content, synced>>

LinkExists(p) ==
  /\ Mine(p) # NoFile
  /\ Goto(p, "linking", "comparing")
  /\ UNCHANGED <<final, finalDisk, temp, tempDisk, content, synced>>

(* The winner's file is read back before it is confirmed.                  *)
Compare(p) ==
  /\ pc[p] = "comparing"
  /\ pc' = [pc EXCEPT ![p] = IF Readable(ArtifactOf[p]) THEN "publishing" ELSE "failed"]
  /\ UNCHANGED <<final, finalDisk, temp, tempDisk, content, synced>>

Publish(p) ==
  /\ Goto(p, "publishing", "removing")
  /\ SyncDirectory
  /\ UNCHANGED <<final, temp, content, synced>>

(* Failing to remove the temporary name is ignored.                        *)
RemoveTemporary(p) ==
  /\ pc[p] = "removing"
  /\ \/ temp' = temp \ {p} /\ pc' = [pc EXCEPT ![p] = "settling"]
     \/ UNCHANGED temp /\ pc' = [pc EXCEPT ![p] = "done"]
  /\ UNCHANGED <<final, finalDisk, tempDisk, content, synced>>

Settle(p) ==
  /\ Goto(p, "settling", "done")
  /\ SyncDirectory
  /\ UNCHANGED <<final, temp, content, synced>>

(* Any file operation may fail, and the process may die at any await; only *)
(* a failed link makes put try to remove its temporary name.               *)
Fail(p) ==
  /\ pc[p] \in Running
  /\ pc' = [pc EXCEPT ![p] = "failed"]
  /\ \/ UNCHANGED temp
     \/ pc[p] = "linking" /\ temp' = temp \ {p}
  /\ UNCHANGED <<final, finalDisk, tempDisk, content, synced>>

(* Every name survives in its durable or its latest form, and a file that  *)
(* was not synced may come back shorter.                                   *)
PowerLoss ==
  \E names \in [Artifact -> BOOLEAN], shorter \in [Put -> Contents],
     lost \in SUBSET ((temp \cup tempDisk) \ (temp \cap tempDisk)) :
    /\ final' = [a \in Artifact |-> IF names[a] THEN final[a] ELSE finalDisk[a]]
    /\ finalDisk' = final'
    /\ temp' = (temp \cup tempDisk) \ lost
    /\ tempDisk' = temp'
    /\ \A p \in Put : \/ shorter[p] = content[p]
                      \/ p \notin synced /\ (content[p] = "whole" \/ shorter[p] = "none")
    /\ content' = shorter
    /\ pc' = [p \in Put |-> IF pc[p] \in Running THEN "failed" ELSE pc[p]]
    /\ UNCHANGED synced

Step(p) ==
  \/ Lookup(p) \/ Confirm(p) \/ CreateTemporary(p) \/ WriteTemporary(p) \/ SyncTemporary(p)
  \/ LinkFinal(p) \/ LinkExists(p) \/ Compare(p) \/ Publish(p) \/ RemoveTemporary(p)
  \/ Settle(p)

Next == (\E p \in Put : Step(p) \/ Fail(p)) \/ PowerLoss

Spec == Init /\ [][Next]_vars

-----------------------------------------------------------------------------
(* Properties                                                              *)

(* A file that has a final name is whole, and stays whole over a power     *)
(* loss: a crash at no point of put leaves a torn artifact under a hash,   *)
(* which every later put and audit of that artifact would stumble over.    *)
NeverTorn ==
  \A a \in Artifact : \A p \in {final[a], finalDisk[a]} \ {NoFile} :
    content[p] = "whole" /\ p \in synced

(* A put that returned a receipt, whoever really wrote the file, left the  *)
(* artifact where neither a crash nor a power loss can take it away.       *)
ReceiptDurable ==
  \A p \in Put : pc[p] = "done" =>
    LET file == finalDisk[ArtifactOf[p]]
    IN  file # NoFile /\ content[file] = "whole" /\ file \in synced

(* The first file durably linked to a name is the file at that name for    *)
(* ever, in the directory and on the disk.                                 *)
FirstLinkStays ==
  [][\A a \in Artifact : finalDisk[a] # NoFile =>
       final'[a] = finalDisk[a] /\ finalDisk'[a] = finalDisk[a]]_vars

(* The store is a growing set of readable artifacts with honest receipts.  *)
Store == INSTANCE EvidenceStore WITH
  kept <- {a \in Artifact : finalDisk[a] # NoFile},
  receipts <- {p \in Put : pc[p] = "done"}
ImplementsStore == Store!StoreSpec
=============================================================================
