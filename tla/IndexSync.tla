------------------------------ MODULE IndexSync ------------------------------
(***************************************************************************)
(* The community index: posts and their registry rows in the database, the *)
(* vector file that searches and the feed read, and the tool               *)
(* (tools/index_community.cpp, CommunityIndexSync::run) that brings the    *)
(* file up to date.  Triggers keep the registry in step with the posts     *)
(* while the tool runs, it may be killed at any step, and its statements,  *)
(* the embedding service and the file system may fail.                     *)
(*                                                                         *)
(* One SQL statement is one step; what the tool does in its own memory     *)
(* goes with the statement that follows.  Of a text it matters whether it  *)
(* is empty, blank (it has no chunks) or neither: the version tells one    *)
(* text from another.  The chunks of a post are added and removed together *)
(* and stand as the version they were made from, 0 for none.  One tool     *)
(* runs at a time.  Left out: the community HNSW file, which nothing reads,*)
(* and the temporary file, which only a rename makes visible.              *)
(***************************************************************************)
EXTENDS Naturals, FiniteSets

CONSTANTS
  Posts,       \* ids of posts, never used again once deleted
  Dims,        \* embedding dimensions the tool is started with
  MaxVersion,  \* bound: changes of one post
  NoFile,      \* the vector file does not exist
  NoPost       \* no record is being indexed

ASSUME IndexSyncAssumption ==
  /\ NoPost \notin Posts /\ MaxVersion \in Nat
  /\ NoFile \notin [dim : Dims, chunks : [Posts -> 0..MaxVersion]]

VARIABLES
  post,     \* user_posts: the text of each post, "none" when there is none
  row,      \* ai_content_registry; version 0 stands for no row
  file,     \* the vector file
  pc, dim, full, snap, todo, current, mem, failed,
            \* run(): its place, the provider's dimension, full_rebuild, the
            \* records read, those still to do, the one being indexed, store,
            \* and the records counted in stats.failed
  fresh,    \* history: posts changed since the pass read the records
  stale     \* history: posts the file may be wrong about (see IndexIsCurrent)

tables == <<post, row>>
run == <<dim, full, snap, todo, current, mem, failed>>
vars == <<tables, file, pc, run, fresh, stale>>

Texts == {"text", "blank", "empty"}
Statuses == {"pending", "processing", "ready", "failed", "blocked", "deleted"}
Versions == 0..MaxVersion
Rows == [status : Statuses, enabled : BOOLEAN, version : Versions]
Chunks == [Posts -> Versions]

NoRow == [status |-> "pending", enabled |-> FALSE, version |-> 0]
NoChunks == [i \in Posts |-> 0]
NoRecords == [i \in Posts |-> [text |-> "none", row |-> NoRow]]

TypeOK ==
  /\ post \in [Posts -> Texts \cup {"none"}] /\ row \in [Posts -> Rows]
  /\ file \in [dim : Dims, chunks : Chunks] \cup {NoFile}
  /\ pc \in {"idle", "select", "records", "indexing", "republish", "published"}
  /\ dim \in Dims /\ full \in BOOLEAN
  /\ snap \in [Posts -> [text : Texts \cup {"none"}, row : Rows]]
  /\ todo \subseteq Posts /\ current \in Posts \cup {NoPost}
  /\ mem \in Chunks /\ failed \subseteq Posts
  /\ fresh \subseteq Posts /\ stale \subseteq Posts

Idle ==
  /\ pc' = "idle" /\ full' = FALSE /\ snap' = NoRecords /\ todo' = {}
  /\ current' = NoPost /\ mem' = NoChunks /\ failed' = {} /\ fresh' = {}
  /\ UNCHANGED dim

Init ==
  /\ post = [i \in Posts |-> "none"] /\ row = [i \in Posts |-> NoRow]
  /\ file = NoFile
  /\ pc = "idle" /\ dim \in Dims /\ full = FALSE /\ snap = NoRecords /\ todo = {}
  /\ current = NoPost /\ mem = NoChunks /\ failed = {}
  /\ fresh = {} /\ stale = {}

-----------------------------------------------------------------------------
(* The users and the moderator: one transaction each, triggers included.   *)

Touch(i) ==
  /\ fresh' = IF pc = "idle" THEN {} ELSE fresh \cup {i}
  /\ stale' = stale \cup {i}
  /\ UNCHANGED <<file, pc, run>>

CreatePost(i) ==
  /\ row[i].version = 0 /\ MaxVersion > 0
  /\ \E text \in Texts : post' = [post EXCEPT ![i] = text]
  /\ row' = [row EXCEPT ![i] = [status |-> "pending", enabled |-> TRUE, version |-> 1]]
  /\ Touch(i)

\* Mutant: an edit is not a new version.
SameVersion(i) == row[i].version
NextVersion(i) == row[i].version + 1
StatusKept(i) == IF row[i].status \in {"blocked", "deleted"} THEN row[i].status ELSE "pending"

EditPost(i) ==
  /\ post[i] # "none" /\ row[i].version < MaxVersion
  /\ \E text \in Texts : post' = [post EXCEPT ![i] = text]
  /\ row' = [row EXCEPT ![i] = [status |-> StatusKept(i), enabled |-> row[i].enabled,
                                version |-> NextVersion(i)]]
  /\ Touch(i)

DeletePost(i) ==
  /\ post[i] # "none" /\ row[i].version < MaxVersion
  /\ post' = [post EXCEPT ![i] = "none"]
  /\ row' = [row EXCEPT ![i] = [status |-> "deleted", enabled |-> FALSE,
                                version |-> row[i].version + 1]]
  /\ Touch(i)

\* Nothing in the program blocks a post; the tool reads what a moderator wrote.
BlockPost(i) ==
  /\ post[i] # "none"
  /\ row' = [row EXCEPT ![i].status = "blocked"]
  /\ UNCHANGED post
  /\ Touch(i)

-----------------------------------------------------------------------------
(* A pass of the tool.                                                     *)

\* The file is loaded; one of another dimension is as good as none.
Usable(d) == file # NoFile /\ file.dim = d

Start ==
  /\ pc = "idle"
  /\ \E d \in Dims :
       /\ dim' = d /\ full' = ~Usable(d)
       /\ mem' = IF Usable(d) THEN file.chunks ELSE NoChunks
  /\ pc' = "select"
  /\ UNCHANGED <<tables, file, snap, todo, current, failed, fresh, stale>>

Select ==
  /\ pc = "select"
  /\ snap' = [i \in Posts |-> [text |-> post[i], row |-> row[i]]]
  /\ todo' = {i \in Posts : row[i].version # 0}
  /\ fresh' = {} /\ pc' = "records"
  /\ UNCHANGED <<tables, file, dim, full, current, mem, failed, stale>>

Hidden(text, r) == text = "none" \/ ~r.enabled \/ r.status \in {"blocked", "deleted"}

\* Mutant: any chunk of the post will do.
ContainsSomeSource(i, version) == mem[i] # 0
ContainsSource(i, version) == mem[i] = version

\* Mutant: what the registry calls ready is not looked for in the file.
ReadyInRegistry(i) == ~full /\ snap[i].row.status = "ready"
UpToDate(i) ==
  ~full /\ snap[i].row.status = "ready" /\ ContainsSource(i, snap[i].row.version)

Records(i) == pc = "records" /\ i \in todo /\ todo' = todo \ {i}

Remove(i) ==
  /\ Records(i) /\ Hidden(snap[i].text, snap[i].row)
  /\ mem' = [mem EXCEPT ![i] = 0]
  /\ UNCHANGED <<tables, file, pc, dim, full, snap, current, failed, fresh, stale>>

Keep(i) ==
  /\ Records(i) /\ ~Hidden(snap[i].text, snap[i].row) /\ UpToDate(i)
  /\ UNCHANGED <<tables, file, pc, dim, full, snap, current, mem, failed, fresh, stale>>

\* update_registry writes over whatever status the row has by now.
SetStatus(i, status) == row' = [row EXCEPT ![i].status = status]

\* Three of its four calls do not ask whether it has worked.
TrySetStatus(i, status) == SetStatus(i, status) \/ UNCHANGED row

NoText(i) ==
  /\ Records(i) /\ ~Hidden(snap[i].text, snap[i].row) /\ ~UpToDate(i)
  /\ snap[i].text = "empty"
  /\ TrySetStatus(i, "failed") /\ failed' = failed \cup {i}
  /\ UNCHANGED <<post, file, pc, dim, full, snap, current, mem, fresh, stale>>

Begin(i) ==
  /\ Records(i) /\ ~Hidden(snap[i].text, snap[i].row) /\ ~UpToDate(i)
  /\ snap[i].text # "empty"
  /\ TrySetStatus(i, "processing")
  /\ pc' = "indexing" /\ current' = i
  /\ UNCHANGED <<post, file, dim, full, snap, mem, failed, fresh, stale>>

\* upsert: the chunks are embedded first and replace the old ones together.
Upserted(i) == [mem EXCEPT ![i] = IF snap[i].text = "blank" THEN 0 ELSE snap[i].row.version]

Indexed ==
  /\ pc = "indexing"
  /\ mem' = Upserted(current) /\ SetStatus(current, "ready")
  /\ pc' = "records" /\ current' = NoPost
  /\ UNCHANGED <<post, file, dim, full, snap, todo, failed, fresh, stale>>

\* Mutant: the old chunks are removed before the new ones are embedded.
OldRemoved == [mem EXCEPT ![current] = 0]
NotUpserted == mem

EmbeddingFails ==
  /\ pc = "indexing" /\ snap[current].text # "blank"
  /\ mem' = NotUpserted /\ TrySetStatus(current, "failed")
  /\ failed' = failed \cup {current}
  /\ pc' = "records" /\ current' = NoPost
  /\ UNCHANGED <<post, file, dim, full, snap, todo, fresh, stale>>

\* The vector file, written beside the old one, takes its place.
Published == file' = [dim |-> dim, chunks |-> mem] /\ stale' = fresh \cup failed

Publish ==
  /\ pc = "records" /\ todo = {}
  /\ Published /\ pc' = "published"
  /\ UNCHANGED <<tables, run, fresh>>

\* The rename fails, and the old file is deleted to make it possible.
RenameFails ==
  /\ pc = "records" /\ todo = {}
  /\ file' \in {file, NoFile} /\ pc' = "republish"
  /\ UNCHANGED <<tables, run, fresh, stale>>

PublishAgain ==
  /\ pc = "republish"
  /\ Published /\ pc' = "published"
  /\ UNCHANGED <<tables, run, fresh>>

\* The tool ends; it also ends, with no trace but what is in the database and the
\* file, when SELECT, the update to "ready", the write of the file or its rename
\* fails, and when it is killed.
End ==
  /\ pc # "idle" /\ Idle
  /\ UNCHANGED <<tables, file, stale>>

Change(i) == CreatePost(i) \/ EditPost(i) \/ DeletePost(i) \/ BlockPost(i)
Record(i) == Remove(i) \/ Keep(i) \/ NoText(i) \/ Begin(i)

Next ==
  \/ \E i \in Posts : Change(i) \/ Record(i)
  \/ Start \/ Select \/ Indexed \/ EmbeddingFails
  \/ Publish \/ RenameFails \/ PublishAgain \/ End

Spec == Init /\ [][Next]_vars

-----------------------------------------------------------------------------
(* Properties.                                                             *)

\* The version whose chunks a search should find.
Wanted(i) == IF post[i] # "text" \/ Hidden(post[i], row[i]) THEN 0 ELSE row[i].version

\* Whatever happened before, once a pass has published, the file has exactly the
\* current text of every visible post and nothing of a hidden or deleted one, and
\* stays so while the post is not touched: through later passes, failures, and
\* passes killed between marking a row ready and saving.  Excepted are the posts
\* the pass counted as failed and those changed after it read the records.
IndexIsCurrent ==
  file # NoFile => \A i \in Posts \ stale : file.chunks[i] = Wanted(i)

\* A post that cannot be indexed keeps the chunks it has in the file, unless the
\* whole file has to be built anew.
KeptOnFailure ==
  [][\A i \in failed :
       ~full /\ NoFile \notin {file, file'} => file'.chunks[i] = file.chunks[i]]_vars
=============================================================================
