------------------------------ MODULE BodyCache ------------------------------
(* The cached bodies of a folder and the attachment payloads lifted out of  *)
(* them (mailstore.cpp, attachmentstore.cpp, the body writer and the        *)
(* attachment migration of maintenancescheduler.cpp).  A payload is a file  *)
(* named by its content, shared by every message that carries it; the       *)
(* attachments table counts its references, message_parts names them.       *)
(*                                                                          *)
(* The GUI thread stores, evicts and removes; the body writer and the       *)
(* migration each strip a batch (writing files) and commit it later, in one *)
(* transaction of SQLite's single writer, which is one step here.           *)
EXTENDS Naturals, Sequences, FiniteSets, SequencesExt, FiniteSetsExt

CONSTANTS Messages,      \* uids of the folder
          Payload,       \* the big attachment of a message, or NoPayload
          NoPayload,
          TooBig,        \* messages over the body limit until it is raised
          MaxFetches     \* bodies fetched and headers (re)listed, each

BodyCacheAssumption ==
  IsFiniteSet(Messages) /\ TooBig \subseteq Messages /\ MaxFetches \in Nat

VARIABLES rows,          \* messages with a header row
          body,          \* "none", "inline" (whole) or "stub" (parts lifted out)
          part,          \* message_parts: the payload a message refers to
          refs,          \* attachments.refs; 0 when there is no row
          files,         \* payload files on disk
          skipped,       \* body_skipped
          asked,         \* fetches outstanding
          queue,         \* m_bodyWriteQueue
          batch,         \* in the writer's hands
          stripped,      \* ... and its payloads are on disk
          chunk,         \* lifted by the migration, not yet committed
          walked,        \* bodies its cursor has passed, by rowid
          migrated,      \* attach_migrate1, and the sweep that follows it
          purging,       \* a worker purges the folder
          fetches, lists

vars == <<rows, body, part, refs, files, skipped, asked, queue, batch, stripped,
          chunk, walked, migrated, purging, fetches, lists>>
migration == <<chunk, walked, migrated>>
hands == <<queue, batch, stripped, migration, purging>>

Payloads == {Payload[u] : u \in Messages} \ {NoPayload}
Parts(S) == {u \in S : part[u] # NoPayload}

Init == /\ rows = Messages /\ body = [u \in Messages |-> "none"]
        /\ part = [u \in Messages |-> NoPayload] /\ refs = [p \in Payloads |-> 0]
        /\ files = {} /\ skipped = {} /\ asked = {} /\ queue = <<>> /\ batch = <<>>
        /\ stripped = FALSE /\ chunk = {} /\ walked = {} /\ migrated = FALSE /\ purging = FALSE
        /\ fetches = 0 /\ lists = 0

(***************************************************************************)
(* References.                                                             *)
(***************************************************************************)
(* A payload that is there already is not counted again. *)
StorePartsOnce(s) ==
  /\ part' = [u \in Messages |-> IF \E i \in DOMAIN s : s[i] = u THEN Payload[u] ELSE part[u]]
  /\ refs' = [p \in Payloads |-> IF refs[p] = 0 /\ \E i \in DOMAIN s : Payload[s[i]] = p
                                 THEN 1 ELSE refs[p]]
(* storePartsOn: the row is replaced, the count goes up. *)
StoreParts(s) ==
  LET times(p) == Cardinality({i \in DOMAIN s : Payload[s[i]] = p})
  IN /\ part' = [u \in Messages |-> IF Payload[u] # NoPayload /\ \E i \in DOMAIN s : s[i] = u
                                    THEN Payload[u] ELSE part[u]]
     /\ refs' = [p \in Payloads |-> refs[p] + times(p)]

(* releasePartsOn: the last reference takes the row and the file with it. *)
ReleaseParts(S) ==
  LET given(p) == Cardinality({u \in S : part[u] = p})
      left(p)  == IF refs[p] > given(p) THEN refs[p] - given(p) ELSE 0
  IN /\ part' = [u \in Messages |-> IF u \in S THEN NoPayload ELSE part[u]]
     /\ refs' = [p \in Payloads |-> left(p)]
     /\ files' = files \ {p \in Payloads : given(p) > 0 /\ left(p) = 0}

(* AttachmentStore::put, for every attachment big enough to lift out. *)
Put(S) == files' = files \cup ({Payload[u] : u \in S} \ {NoPayload})

(***************************************************************************)
(* Fetching, and the body writer.                                          *)
(***************************************************************************)
(* A header (re)listed by the server, under the uid it always had. *)
Header(u) == /\ u \notin rows /\ lists < MaxFetches /\ lists' = lists + 1
             /\ rows' = rows \cup {u}
             /\ UNCHANGED <<body, part, refs, files, skipped, asked, hands, fetches>>

(* uidsWithoutBody: neither cached nor refused; a body still in the write   *)
(* queue is missing too, so that it may be asked for again.                 *)
Missing == {u \in rows : body[u] = "none" /\ u \notin skipped}
Ask(u) == /\ u \in Missing \ asked /\ fetches < MaxFetches /\ fetches' = fetches + 1
          /\ asked' = asked \cup {u}
          /\ UNCHANGED <<rows, body, part, refs, files, skipped, hands, lists>>

(* storeFetchedBody: over the limit it is remembered as refused; else it is *)
(* queued, whatever has become of its row since.                            *)
Fetched(u) ==
  /\ u \in asked /\ asked' = asked \ {u}
  /\ IF u \in TooBig THEN skipped' = skipped \cup {u} /\ UNCHANGED queue
     ELSE queue' = Append(queue, u) /\ UNCHANGED skipped
  /\ UNCHANGED <<rows, body, part, refs, files, batch, stripped, migration,
                 purging, fetches, lists>>

(* The limit is raised: what was refused is fair game again. *)
Unskip == /\ skipped # {} /\ skipped' = {}
          /\ UNCHANGED <<rows, body, part, refs, files, asked, hands, fetches, lists>>

Take == /\ batch = <<>> /\ queue # <<>>
        /\ batch' = queue /\ queue' = <<>>
        /\ UNCHANGED <<rows, body, part, refs, files, skipped, asked, stripped,
                       migration, purging, fetches, lists>>
Externalize == /\ batch # <<>> /\ ~stripped /\ stripped' = TRUE /\ Put(ToSet(batch))
               /\ UNCHANGED <<rows, body, part, refs, skipped, asked, queue, batch,
                              migration, purging, fetches, lists>>
(* Bodies and part rows in one transaction; nobody asks whether the message *)
(* still has a row.                                                         *)
WriteBodies ==
  /\ stripped /\ stripped' = FALSE /\ batch' = <<>>
  /\ body' = [u \in Messages |->
                IF u \notin ToSet(batch) THEN body[u]
                ELSE IF Payload[u] = NoPayload THEN "inline" ELSE "stub"]
  /\ StoreParts(batch) /\ walked' = walked \ ToSet(batch)
  /\ UNCHANGED <<rows, files, skipped, asked, queue, chunk, migrated, purging, fetches, lists>>

(***************************************************************************)
(* The reader.                                                             *)
(***************************************************************************)
(* restoreAttachments finds every payload the rows name. *)
Complete(u) == body[u] # "none" /\ (part[u] = NoPayload \/ part[u] \in files)
(* An uncached or incomplete message is fetched and stored whole; the part  *)
(* rows, if any, are left as they are (storeBody).                          *)
Open(u) == /\ u \in rows /\ ~Complete(u) /\ fetches < MaxFetches
           /\ fetches' = fetches + 1
           /\ body' = [body EXCEPT ![u] = "inline"] /\ walked' = walked \ {u}
           /\ UNCHANGED <<rows, part, refs, files, skipped, asked, queue, batch, stripped,
                          chunk, migrated, purging, lists>>
(* A cached body that is another message's, or has no head, is dropped. *)
RemoveBodyOnly(u) == /\ body[u] # "none" /\ body' = [body EXCEPT ![u] = "none"]
                     /\ ReleaseParts({u})
                     /\ UNCHANGED <<rows, skipped, asked, hands, fetches, lists>>

(***************************************************************************)
(* Removal.                                                                *)
(***************************************************************************)
Drop(S) == /\ rows' = rows \ S /\ ReleaseParts(S)
           /\ body' = [u \in Messages |-> IF u \in S THEN "none" ELSE body[u]]
           /\ UNCHANGED <<skipped, asked, queue, batch, stripped, migration,
                          fetches, lists>>
RemoveMessage(u) == u \in rows /\ Drop({u}) /\ UNCHANGED purging
(* UIDVALIDITY changed: the folder starts over. *)
ClearFolder == rows # {} /\ Drop(Messages) /\ UNCHANGED purging

StartPurge == /\ ~purging /\ purging' = TRUE
              /\ UNCHANGED <<rows, body, part, refs, files, skipped, asked, queue, batch,
                             stripped, migration, fetches, lists>>
(* purgeChunkOn: rows a chunk at a time; then the bodies without a row, and *)
(* of those the bodies only.                                                *)
PurgeChunk ==
  /\ purging
  /\ \/ \E u \in rows : Drop({u}) /\ UNCHANGED purging
     \/ /\ rows = {}
        /\ body' = [u \in Messages |-> "none"]
        /\ purging' = FALSE
        /\ UNCHANGED <<rows, part, refs, files, skipped, asked, queue, batch, stripped,
                       migration, fetches, lists>>
StopPurge == /\ purging /\ purging' = FALSE
             /\ UNCHANGED <<rows, body, part, refs, files, skipped, asked, queue, batch,
                            stripped, migration, fetches, lists>>

(***************************************************************************)
(* Bodies cached before attachments had a store of their own.              *)
(***************************************************************************)
(* The cursor passes some rows; what they hold in full is lifted. *)
MigrateRead(S) ==
  /\ ~migrated /\ chunk = {} /\ S # {}
  /\ S \subseteq {u \in Messages : body[u] # "none"} \ walked
  /\ walked' = walked \cup S
  /\ chunk' = {u \in S : body[u] = "inline" /\ Payload[u] # NoPayload}
  /\ Put(chunk')
  /\ UNCHANGED <<rows, body, part, refs, skipped, asked, queue, batch, stripped, migrated,
                 purging, fetches, lists>>
(* The stub goes to the body that was read: a body replaced since has      *)
(* another rowid, a removed one has none.  The part rows are stored anyway. *)
MigrateWrite ==
  /\ chunk # {} /\ chunk' = {}
  /\ body' = [u \in Messages |-> IF u \in chunk \cap walked /\ body[u] = "inline"
                                 THEN "stub" ELSE body[u]]
  /\ StoreParts(SetToSeq(chunk))
  /\ UNCHANGED <<rows, files, skipped, asked, queue, batch, stripped, walked, migrated,
                 purging, fetches, lists>>
(* The walk ends, and files no row knows are swept. *)
Sweep == /\ ~migrated /\ chunk = {} /\ migrated' = TRUE
         /\ {u \in Messages : body[u] # "none"} \subseteq walked
         /\ files' = {p \in files : refs[p] > 0}
         /\ UNCHANGED <<rows, body, part, refs, skipped, asked, queue, batch, stripped,
                        chunk, walked, purging, fetches, lists>>

Next ==
  \/ \E u \in Messages : \/ Header(u) \/ Ask(u) \/ Fetched(u) \/ Open(u)
                         \/ RemoveBodyOnly(u) \/ RemoveMessage(u)
  \/ Unskip \/ Take \/ Externalize \/ WriteBodies
  \/ ClearFolder \/ StartPurge \/ PurgeChunk \/ StopPurge
  \/ \E S \in SUBSET Messages : MigrateRead(S)
  \/ MigrateWrite \/ Sweep

Spec == Init /\ [][Next]_vars

(* No payload another cached message still refers to is given away: at      *)
(* every moment the count covers the part rows, over fetches in flight      *)
(* twice, the reader's own stores, the migration, evictions and purges      *)
(* (storePartsOn against releasePartsOn).                                   *)
PayloadsAreCounted ==
  \A p \in Payloads : refs[p] >= Cardinality({u \in Messages : part[u] = p})

\* Does not hold of the code, see the findings.
(* What writeBodiesOn says is "not recoverable": a part row whose payload   *)
(* is not on disk.                                                          *)
RowsHaveFiles == \A u \in Messages : part[u] # NoPayload => part[u] \in files

\* Does not hold of the code, see the findings.
(* A payload no message refers to is freed with its last reference. *)
NothingLeaks == \A p \in Payloads :
                  refs[p] > 0 => \E u \in Messages : part[u] = p
=============================================================================
