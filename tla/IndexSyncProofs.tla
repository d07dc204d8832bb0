--------------------------- MODULE IndexSyncProofs ---------------------------
(***************************************************************************)
(* For every set of posts and every set of dimensions: the vector file is  *)
(* current but for the posts known to be stale, and a failure takes        *)
(* nothing out of it.                                                      *)
(*                                                                         *)
(* The invariant says what the copies the tool works with are worth: a     *)
(* record it has read is the row's own as long as nobody touched the post  *)
(* (Snapshot), chunks in memory or in the file that carry the row's        *)
(* version were made from its text (Honest), records that are done are as  *)
(* wanted (Done) and those to come are still as in the file (Before).      *)
(***************************************************************************)
EXTENDS IndexSync, TLAPS

Reading == pc \in {"records", "indexing", "republish", "published"}

\* Where the pass is.
Place ==
  /\ current # NoPost <=> pc = "indexing"
  /\ pc \in {"idle", "select", "republish", "published"} => todo = {}
  /\ pc \in {"idle", "select"} => failed = {}
  /\ current \notin todo \cup failed /\ failed \cap todo = {}
  /\ pc = "indexing" => ~Hidden(snap[current].text, snap[current].row)
                        /\ snap[current].text # "empty"

\* A post has a row.
Rowed == \A i \in Posts : row[i].version = 0 => post[i] = "none"

\* An untouched post is as it was read, and the version tells texts apart.
Snapshot ==
  Reading => \A i \in Posts :
    /\ snap[i].row.version <= row[i].version
    /\ snap[i].row.version = row[i].version => snap[i].text = post[i]
    /\ i \notin fresh =>
         /\ snap[i].row.version = row[i].version /\ snap[i].text = post[i]
         /\ Hidden(snap[i].text, snap[i].row) <=> Hidden(post[i], row[i])

\* Chunks are of a version that was, and not of a text without chunks.
HonestChunks(chunks) ==
  \A i \in Posts :
    /\ chunks[i] <= row[i].version
    /\ chunks[i] # 0 /\ chunks[i] = row[i].version => post[i] = "text"
Honest == HonestChunks(mem) /\ (file # NoFile => HonestChunks(file.chunks))

\* Records that are done and untouched are as wanted.
Done ==
  Reading => \A i \in Posts \ (fresh \cup failed \cup todo \cup {current}) : mem[i] = Wanted(i)

\* Records that are not done, or failed, are as in the file.
Before ==
  pc # "idle" /\ ~full /\ file # NoFile =>
    \A i \in Posts :
      pc = "select" \/ i \in todo \cup failed \cup {current} => mem[i] = file.chunks[i]

\* What was touched during the pass the file may be wrong about.
Known == fresh \subseteq stale

Inv ==
  /\ TypeOK /\ Place /\ Rowed /\ Snapshot /\ Honest /\ Done /\ Before /\ Known
  /\ IndexIsCurrent

-----------------------------------------------------------------------------
\* Nothing is posted and no file exists.
LEMMA InitInv == Init => Inv
<1> SUFFICES ASSUME Init PROVE Inv
  OBVIOUS
<1>1. TypeOK
  <2>1. NoRow \in Rows /\ NoChunks \in Chunks
    BY IndexSyncAssumption DEF Rows, NoRow, NoChunks, Chunks, Versions, Statuses
  <2>2. NoRecords \in [Posts -> [text : Texts \cup {"none"}, row : Rows]]
    BY <2>1 DEF NoRecords
  <2> QED
    BY <2>1, <2>2 DEF Init, TypeOK
<1>2. Place /\ Rowed /\ Snapshot /\ Done /\ Before /\ Known /\ IndexIsCurrent
  BY IndexSyncAssumption DEF Init, Place, Rowed, Snapshot, Reading, Done, Before, Known, IndexIsCurrent
<1>3. Honest
  BY DEF Init, Honest, HonestChunks, NoChunks, NoRow
<1> QED
  BY <1>1, <1>2, <1>3 DEF Inv

\* The type of what a change of a post leaves.
LEMMA ChangeType ==
  ASSUME TypeOK, NEW i \in Posts, Change(i)
  PROVE  TypeOK'
<1> USE DEF TypeOK
<1>1. fresh' \subseteq Posts /\ stale' \subseteq Posts /\ UNCHANGED <<file, pc, run>>
  BY DEF Change, CreatePost, EditPost, DeletePost, BlockPost, Touch
<1>2. post' \in [Posts -> Texts \cup {"none"}]
  BY DEF Change, CreatePost, EditPost, DeletePost, BlockPost, Texts
<1>3. row' \in [Posts -> Rows]
  <2>1. CASE CreatePost(i)
    BY <2>1, IndexSyncAssumption DEF CreatePost, Rows, Statuses, Versions
  <2>2. CASE EditPost(i)
    <3>1. StatusKept(i) \in Statuses
      BY DEF StatusKept, Rows, Statuses
    <3>2. row[i].version + 1 \in Versions
      BY <2>2, IndexSyncAssumption DEF EditPost, Rows, Versions
    <3> QED
      BY <2>2, <3>1, <3>2 DEF EditPost, Rows, NextVersion
  <2>3. CASE DeletePost(i)
    BY <2>3, IndexSyncAssumption DEF DeletePost, Rows, Statuses, Versions
  <2>4. CASE BlockPost(i)
    BY <2>4, SMTT(30) DEF BlockPost, Rows, Statuses
  <2> QED
    BY <2>1, <2>2, <2>3, <2>4 DEF Change
<1> QED
  BY <1>1, <1>2, <1>3 DEF run

\* What a change does: it touches one post, and the version says when its text
\* has changed.
LEMMA ChangeEffect ==
  ASSUME TypeOK, Rowed, NEW i \in Posts, Change(i)
  PROVE  /\ \A j \in Posts \ {i} : row'[j] = row[j] /\ post'[j] = post[j]
         /\ row'[i].version >= row[i].version
         /\ row'[i].version = row[i].version => post'[i] = post[i]
         /\ row'[i].version # 0
         /\ fresh' = (IF pc = "idle" THEN {} ELSE fresh \cup {i}) /\ stale' = stale \cup {i}
         /\ UNCHANGED <<file, pc, run>>
<1> USE DEF TypeOK
<1>1. row[i] \in Rows /\ row[i].version \in Nat
  BY DEF Rows, Versions
<1>2. CASE CreatePost(i)
  BY <1>1, <1>2 DEF CreatePost, Touch
<1>3. CASE EditPost(i)
  BY <1>1, <1>3 DEF EditPost, NextVersion, Touch, Rows
<1>4. CASE DeletePost(i)
  BY <1>1, <1>4 DEF DeletePost, Touch
<1>5. CASE BlockPost(i)
  BY <1>1, <1>5 DEF BlockPost, Touch, Rowed, Rows
<1> QED
  BY <1>2, <1>3, <1>4, <1>5 DEF Change

-----------------------------------------------------------------------------
\* Users and moderators may do what they like at any moment.
LEMMA ChangeInv ==
  ASSUME Inv, NEW i \in Posts, Change(i)
  PROVE  Inv'
<1> USE DEF Inv
<1>1. TypeOK'
  BY ChangeType
<1> DEFINE Effect ==
      /\ \A j \in Posts \ {i} : row'[j] = row[j] /\ post'[j] = post[j]
      /\ row'[i].version >= row[i].version
      /\ row'[i].version = row[i].version => post'[i] = post[i]
      /\ row'[i].version # 0
      /\ fresh' = (IF pc = "idle" THEN {} ELSE fresh \cup {i}) /\ stale' = stale \cup {i}
      /\ UNCHANGED <<file, pc, run>>
<1>2. Effect
  BY ChangeEffect
<1>3. /\ \A j \in Posts : row[j].version \in Nat /\ row'[j].version \in Nat
      /\ \A j \in Posts : mem[j] \in Nat /\ snap[j].row.version \in Nat
      /\ file # NoFile => \A j \in Posts : file.chunks[j] \in Nat
  BY <1>1, IndexSyncAssumption DEF TypeOK, Rows, Chunks, Versions
<1>4. Place'
  BY <1>2 DEF Place, run
<1>5. Rowed'
  BY <1>2 DEF Rowed
<1>6. Snapshot'
  <2> SUFFICES ASSUME Reading, NEW j \in Posts
               PROVE  /\ snap[j].row.version <= row'[j].version
                      /\ snap[j].row.version = row'[j].version => snap[j].text = post'[j]
                      /\ j \notin fresh' =>
                           /\ snap[j].row.version = row'[j].version /\ snap[j].text = post'[j]
                           /\ Hidden(snap[j].text, snap[j].row) <=> Hidden(post'[j], row'[j])
    BY <1>2 DEF Snapshot, Reading, run
  <2>1. CASE j = i
    BY <1>2, <1>3, <2>1 DEF Snapshot, Reading
  <2>2. CASE j # i
    BY <1>2, <2>2 DEF Snapshot, Reading
  <2> QED
    BY <2>1, <2>2
<1>7. Honest'
  <2>1. ASSUME NEW c, HonestChunks(c), \A j \in Posts : c[j] \in Nat
        PROVE  \A j \in Posts :
                 /\ c[j] <= row'[j].version
                 /\ c[j] # 0 /\ c[j] = row'[j].version => post'[j] = "text"
    BY <1>2, <1>3, <2>1 DEF HonestChunks
  <2>2. mem' = mem /\ file' = file
    BY <1>2 DEF run
  <2>3. HonestChunks(mem)'
    BY <1>3, <2>1, <2>2 DEF HonestChunks, Honest
  <2>4. file # NoFile => HonestChunks(file.chunks)'
    BY <1>3, <2>1, <2>2 DEF HonestChunks, Honest
  <2> QED
    BY <2>2, <2>3, <2>4 DEF Honest
<1>8. \A j \in Posts \ {i} : Wanted(j)' = Wanted(j)
  BY <1>2 DEF Wanted, Hidden
<1>9. Done'
  BY <1>2, <1>8 DEF Done, Reading, run
<1>10. Before'
  BY <1>2 DEF Before, run
<1>11. IndexIsCurrent'
  BY <1>2, <1>8 DEF IndexIsCurrent
<1>12. Known'
  BY <1>2 DEF Known
<1> QED
  BY <1>1, <1>4, <1>5, <1>6, <1>7, <1>9, <1>10, <1>11, <1>12

\* A pass begins with what the file has.
LEMMA StartInv == Inv /\ Start => Inv'
<1> SUFFICES ASSUME Inv, Start PROVE Inv'
  OBVIOUS
<1> USE DEF Inv, Start
<1>1. Usable(dim') => file \in [dim : Dims, chunks : Chunks]
  BY DEF TypeOK, Usable
<1>2. mem' \in Chunks
  BY <1>1, IndexSyncAssumption DEF Chunks, NoChunks, Versions
<1>3. TypeOK'
  BY <1>2 DEF TypeOK, tables
<1>4. Place' /\ Rowed' /\ Snapshot' /\ Done'
  BY DEF Place, Rowed, Snapshot, Done, Reading, tables
<1>5. Honest'
  <2>1. HonestChunks(NoChunks)
    BY IndexSyncAssumption DEF TypeOK, HonestChunks, NoChunks, Rows, Versions
  <2>2. HonestChunks(mem')
    BY <2>1 DEF Honest, Usable
  <2> QED
    BY <2>2 DEF Honest, HonestChunks, tables
<1>6. Before'
  BY DEF Before
<1>7. Known' /\ IndexIsCurrent'
  BY DEF Known, IndexIsCurrent, Wanted, tables
<1> QED
  BY <1>3, <1>4, <1>5, <1>6, <1>7

\* The records are read in one statement.
LEMMA SelectInv == Inv /\ Select => Inv'
<1> SUFFICES ASSUME Inv, Select PROVE Inv'
  OBVIOUS
<1> USE DEF Inv, Select
<1>1. TypeOK'
  BY DEF TypeOK, tables
<1>2. Place' /\ Rowed'
  BY IndexSyncAssumption DEF Place, Rowed, tables, TypeOK
<1>3. Snapshot'
  BY IndexSyncAssumption DEF Snapshot, tables, TypeOK, Rows, Versions
<1>4. Honest' /\ Known' /\ IndexIsCurrent'
  BY DEF Honest, HonestChunks, Known, IndexIsCurrent, Wanted, tables
<1>5. Done'
  <2> SUFFICES ASSUME NEW j \in Posts, row[j].version = 0 PROVE mem[j] = Wanted(j)
    BY DEF Done, Wanted, tables
  <2>1. mem[j] \in Nat
    BY IndexSyncAssumption DEF TypeOK, Chunks, Versions
  <2> QED
    BY <2>1 DEF Honest, HonestChunks, Rowed, Wanted
<1>6. Before'
  BY DEF Before, tables
<1> QED
  BY <1>1, <1>2, <1>3, <1>4, <1>5, <1>6

-----------------------------------------------------------------------------
\* The tool writes a status, if it can, over that of a post it has found visible.
\* It changes nothing that Wanted depends on, unless somebody has hidden the post
\* since.
LEMMA StatusEffect ==
  ASSUME TypeOK, Snapshot, Reading, NEW i \in Posts, ~Hidden(snap[i].text, snap[i].row),
         NEW status \in {"processing", "ready", "failed"},
         TrySetStatus(i, status), UNCHANGED post
  PROVE  /\ row' \in [Posts -> Rows]
         /\ \A j \in Posts : row'[j].version = row[j].version
         /\ \A j \in Posts \ fresh :
              /\ Hidden(post[j], row'[j]) <=> Hidden(post[j], row[j])
              /\ Wanted(j)' = Wanted(j)
<1> USE DEF TrySetStatus, SetStatus
<1>1. row' \in [Posts -> Rows]
  BY SMTT(30) DEF TypeOK, Rows, Statuses
<1>2. \A j \in Posts :
        /\ row'[j].version = row[j].version /\ row'[j].enabled = row[j].enabled
        /\ j # i => row'[j].status = row[j].status
        /\ row'[j].status \in {row[j].status, status}
  BY DEF TypeOK, Rows
<1>3. i \notin fresh => ~Hidden(post[i], row[i])
  BY DEF Snapshot
<1>4. \A j \in Posts \ fresh : Hidden(post[j], row'[j]) <=> Hidden(post[j], row[j])
  BY <1>2, <1>3 DEF Hidden
<1>5. \A j \in Posts \ fresh : Wanted(j)' = Wanted(j)
  BY <1>2, <1>4 DEF Wanted
<1> QED
  BY <1>1, <1>2, <1>4, <1>5

\* What such a step keeps of the parts of the invariant about rows, and of the
\* file, which may be current for untouched posts only.
LEMMA StatusInv ==
  ASSUME Inv, Reading, NEW i \in Posts, ~Hidden(snap[i].text, snap[i].row),
         NEW status \in {"processing", "ready", "failed"},
         TrySetStatus(i, status), UNCHANGED <<post, file, snap, fresh, stale>>, Reading'
  PROVE  /\ row' \in [Posts -> Rows] /\ Rowed' /\ Snapshot' /\ IndexIsCurrent'
         /\ \A c : HonestChunks(c) => HonestChunks(c)'
         /\ \A j \in Posts \ fresh : Wanted(j)' = Wanted(j)
<1> USE DEF Inv
<1>1. /\ row' \in [Posts -> Rows]
      /\ \A j \in Posts : row'[j].version = row[j].version
      /\ \A j \in Posts \ fresh :
           /\ Hidden(post[j], row'[j]) <=> Hidden(post[j], row[j])
           /\ Wanted(j)' = Wanted(j)
  BY StatusEffect
<1>2. Rowed' /\ Snapshot'
  BY <1>1 DEF Rowed, Snapshot
<1>3. IndexIsCurrent'
  BY <1>1 DEF IndexIsCurrent, Known
<1>4. ASSUME NEW c, HonestChunks(c) PROVE HonestChunks(c)'
  BY <1>1, <1>4 DEF HonestChunks
<1> QED
  BY <1>1, <1>2, <1>3, <1>4

\* A record that is removed or kept is done.
LEMMA RemoveKeepInv == ASSUME Inv, NEW i \in Posts, Remove(i) \/ Keep(i) PROVE Inv'
<1> USE DEF Inv, Records
<1>1. i \in todo /\ todo' = todo \ {i} /\ pc = "records"
      /\ UNCHANGED <<tables, file, pc, dim, full, snap, current, failed, fresh, stale>>
  BY DEF Remove, Keep
<1>2. mem' = mem \/ mem' = [mem EXCEPT ![i] = 0]
  BY DEF Remove, Keep
<1>3. i \notin fresh => mem'[i] = Wanted(i)
  <2>1. CASE Remove(i)
    BY <2>1, <1>1 DEF Remove, Snapshot, Reading, Wanted, TypeOK, Chunks
  <2>2. CASE Keep(i)
    <3>1. i \notin fresh => /\ mem[i] = row[i].version /\ ~Hidden(post[i], row[i])
                            /\ post[i] = snap[i].text /\ mem' = mem
      BY <2>2, <1>1 DEF Keep, UpToDate, ContainsSource, Snapshot, Reading
    <3>2. row[i].version = 0 => Hidden(post[i], row[i])
      BY DEF Rowed, Hidden
    <3> QED
      BY <3>1, <3>2 DEF Honest, HonestChunks, Wanted
  <2> QED
    BY <2>1, <2>2
<1>4. mem' \in Chunks /\ (\A j \in Posts \ {i} : mem'[j] = mem[j]) /\ mem'[i] \in {0, mem[i]}
  BY <1>2, IndexSyncAssumption DEF TypeOK, Chunks, Versions
<1>5. TypeOK'
  BY <1>1, <1>4 DEF TypeOK, tables
<1>6. Place' /\ Rowed' /\ Snapshot' /\ Known' /\ IndexIsCurrent'
  BY <1>1 DEF Place, Rowed, Snapshot, Reading, Known, IndexIsCurrent, Wanted, tables
<1>7. Honest'
  <2>1. row[i].version \in Nat
    BY DEF TypeOK, Rows, Versions
  <2> QED
    BY <1>1, <1>4, <2>1 DEF Honest, HonestChunks, tables
<1>8. Done'
  BY <1>1, <1>3, <1>4 DEF Done, Reading, Wanted, tables
<1>9. Before'
  BY <1>1, <1>4 DEF Before, Place
<1> QED
  BY <1>5, <1>6, <1>7, <1>8, <1>9

\* A text that is empty fails; the chunks of an older one stay.
LEMMA NoTextInv == ASSUME Inv, NEW i \in Posts, NoText(i) PROVE Inv'
<1> USE DEF Inv
<1>1. /\ i \in todo /\ todo' = todo \ {i} /\ pc = "records" /\ failed' = failed \cup {i}
      /\ ~Hidden(snap[i].text, snap[i].row) /\ TrySetStatus(i, "failed")
      /\ UNCHANGED <<post, file, pc, dim, full, snap, current, mem, fresh, stale>>
  BY DEF NoText, Records
<1>2. Reading /\ Reading'
  BY <1>1 DEF Reading
<1>3. /\ row' \in [Posts -> Rows] /\ Rowed' /\ Snapshot' /\ IndexIsCurrent'
      /\ \A c : HonestChunks(c) => HonestChunks(c)'
      /\ \A j \in Posts \ fresh : Wanted(j)' = Wanted(j)
  BY <1>1, <1>2, StatusInv
<1>4. TypeOK'
  BY <1>1, <1>3 DEF TypeOK
<1>5. Place' /\ Known'
  BY <1>1 DEF Place, Known
<1>6. Honest'
  BY <1>1, <1>3 DEF Honest, HonestChunks
<1>7. Done'
  BY <1>1, <1>2, <1>3 DEF Done
<1>8. Before'
  BY <1>1 DEF Before
<1> QED
  BY <1>3, <1>4, <1>5, <1>6, <1>7, <1>8

\* Indexing of a record begins.
LEMMA BeginInv == ASSUME Inv, NEW i \in Posts, Begin(i) PROVE Inv'
<1> USE DEF Inv
<1>1. /\ i \in todo /\ todo' = todo \ {i} /\ pc = "records" /\ pc' = "indexing"
      /\ current' = i /\ snap[i].text # "empty"
      /\ ~Hidden(snap[i].text, snap[i].row) /\ TrySetStatus(i, "processing")
      /\ UNCHANGED <<post, file, dim, full, snap, mem, failed, fresh, stale>>
  BY DEF Begin, Records
<1>2. Reading /\ Reading'
  BY <1>1 DEF Reading
<1>3. /\ row' \in [Posts -> Rows] /\ Rowed' /\ Snapshot' /\ IndexIsCurrent'
      /\ \A c : HonestChunks(c) => HonestChunks(c)'
      /\ \A j \in Posts \ fresh : Wanted(j)' = Wanted(j)
  BY <1>1, <1>2, StatusInv
<1>4. TypeOK'
  BY <1>1, <1>3 DEF TypeOK
<1>5. Place' /\ Known'
  BY <1>1, IndexSyncAssumption DEF Place, Known
<1>6. Honest'
  BY <1>1, <1>3 DEF Honest, HonestChunks
<1>7. Done'
  BY <1>1, <1>2, <1>3, IndexSyncAssumption DEF Done, Place
<1>8. Before'
  BY <1>1 DEF Before
<1> QED
  BY <1>3, <1>4, <1>5, <1>6, <1>7, <1>8

\* The chunks in memory are of the text that was read.
LEMMA IndexedInv == Inv /\ Indexed => Inv'
<1> SUFFICES ASSUME Inv, Indexed PROVE Inv'
  OBVIOUS
<1> USE DEF Inv
<1>1. /\ pc = "indexing" /\ pc' = "records" /\ current' = NoPost
      /\ current \in Posts /\ ~Hidden(snap[current].text, snap[current].row)
      /\ snap[current].text # "empty"
      /\ mem' = Upserted(current) /\ TrySetStatus(current, "ready")
      /\ UNCHANGED <<post, file, dim, full, snap, todo, failed, fresh, stale>>
  BY DEF Indexed, TypeOK, Place, TrySetStatus
<1>2. Reading /\ Reading'
  BY <1>1 DEF Reading
<1>3. /\ row' \in [Posts -> Rows] /\ Rowed' /\ Snapshot' /\ IndexIsCurrent'
      /\ \A c : HonestChunks(c) => HonestChunks(c)'
      /\ \A j \in Posts \ fresh : Wanted(j)' = Wanted(j)
  BY <1>1, <1>2, StatusInv
<1>4. /\ mem' \in Chunks /\ \A j \in Posts \ {current} : mem'[j] = mem[j]
      /\ mem'[current] = IF snap[current].text = "blank" THEN 0 ELSE snap[current].row.version
  BY <1>1, IndexSyncAssumption DEF Upserted, TypeOK, Chunks, Rows, Versions
<1>5. snap[current].text \in {"text", "blank"}
  BY <1>1 DEF TypeOK, Texts, Hidden
<1>6. TypeOK'
  BY <1>1, <1>3, <1>4 DEF TypeOK
<1>7. Place' /\ Known'
  BY <1>1, IndexSyncAssumption DEF Place, Known, TypeOK
<1>8. HonestChunks(mem')
  <2>1. row[current].version \in Nat
    BY <1>1 DEF TypeOK, Rows, Versions
  <2> QED
    BY <1>1, <1>2, <1>4, <1>5, <2>1 DEF Honest, HonestChunks, Snapshot
<1>9. Honest'
  BY <1>1, <1>3, <1>8 DEF Honest, HonestChunks
<1>10. current \notin fresh => mem'[current] = Wanted(current)
  BY <1>1, <1>2, <1>4, <1>5 DEF Snapshot, Wanted
<1>11. Done'
  BY <1>1, <1>2, <1>3, <1>4, <1>10 DEF Done
<1>12. Before'
  BY <1>1, <1>4, IndexSyncAssumption DEF Before, Place
<1> QED
  BY <1>3, <1>6, <1>7, <1>9, <1>11, <1>12

\* A failing embedding leaves the store as it is.
LEMMA EmbeddingFailsInv == Inv /\ EmbeddingFails => Inv'
<1> SUFFICES ASSUME Inv, EmbeddingFails PROVE Inv'
  OBVIOUS
<1> USE DEF Inv
<1>1. /\ pc = "indexing" /\ pc' = "records" /\ current' = NoPost
      /\ current \in Posts /\ ~Hidden(snap[current].text, snap[current].row)
      /\ TrySetStatus(current, "failed") /\ failed' = failed \cup {current}
      /\ UNCHANGED <<post, file, dim, full, snap, todo, mem, fresh, stale>>
  BY DEF EmbeddingFails, TypeOK, Place, NotUpserted
<1>2. Reading /\ Reading'
  BY <1>1 DEF Reading
<1>3. /\ row' \in [Posts -> Rows] /\ Rowed' /\ Snapshot' /\ IndexIsCurrent'
      /\ \A c : HonestChunks(c) => HonestChunks(c)'
      /\ \A j \in Posts \ fresh : Wanted(j)' = Wanted(j)
  BY <1>1, <1>2, StatusInv
<1>4. TypeOK'
  BY <1>1, <1>3 DEF TypeOK
<1>5. Place' /\ Known'
  BY <1>1, IndexSyncAssumption DEF Place, Known, TypeOK
<1>6. Honest'
  BY <1>1, <1>3 DEF Honest, HonestChunks
<1>7. Done'
  BY <1>1, <1>2, <1>3 DEF Done
<1>8. Before'
  BY <1>1, IndexSyncAssumption DEF Before, Place
<1> QED
  BY <1>3, <1>4, <1>5, <1>6, <1>7, <1>8

\* With all records done, the memory becomes the file.
LEMMA PublishInv == Inv /\ (Publish \/ PublishAgain) => Inv'
<1> SUFFICES ASSUME Inv, Publish \/ PublishAgain PROVE Inv'
  OBVIOUS
<1> USE DEF Inv
<1>1. /\ pc \in {"records", "republish"} /\ pc' = "published" /\ todo = {}
      /\ file' = [dim |-> dim, chunks |-> mem] /\ stale' = fresh \cup failed
      /\ UNCHANGED <<tables, run, fresh>>
  BY DEF Publish, PublishAgain, Published, Place
<1>2. TypeOK'
  BY <1>1 DEF TypeOK, tables, run
<1>3. Place' /\ Rowed' /\ Snapshot' /\ Known'
  BY <1>1 DEF Place, Rowed, Snapshot, Reading, Known, tables, run
<1>4. Honest'
  BY <1>1 DEF Honest, HonestChunks, tables, run
<1>5. Done' /\ Before'
  BY <1>1 DEF Done, Reading, Before, Wanted, tables, run
<1>6. IndexIsCurrent'
  <2>1. current \notin Posts
    BY <1>1, IndexSyncAssumption DEF Place, TypeOK
  <2> QED
    BY <1>1, <2>1 DEF IndexIsCurrent, Done, Reading, Wanted, tables
<1> QED
  BY <1>2, <1>3, <1>4, <1>5, <1>6

\* A failing rename may cost the old file, and nothing else.
LEMMA RenameFailsInv == Inv /\ RenameFails => Inv'
<1> SUFFICES ASSUME Inv, RenameFails PROVE Inv'
  OBVIOUS
<1> USE DEF Inv, RenameFails
<1>1. TypeOK' /\ Known'
  BY DEF TypeOK, Known, tables, run
<1>2. Place' /\ Rowed' /\ Snapshot' /\ Done'
  BY DEF Place, Rowed, Snapshot, Done, Reading, Wanted, tables, run
<1>3. Honest' /\ Before' /\ IndexIsCurrent'
  BY DEF Honest, HonestChunks, Before, IndexIsCurrent, Wanted, tables, run
<1> QED
  BY <1>1, <1>2, <1>3

\* A pass that ends, or is killed, loses only what it had in memory.
LEMMA EndInv == Inv /\ End => Inv'
<1> SUFFICES ASSUME Inv, End PROVE Inv'
  OBVIOUS
<1> USE DEF Inv, End, Idle
<1>1. NoChunks \in Chunks /\ NoRecords \in [Posts -> [text : Texts \cup {"none"}, row : Rows]]
  BY IndexSyncAssumption DEF NoChunks, Chunks, NoRecords, NoRow, Rows, Versions, Statuses
<1>2. TypeOK'
  BY <1>1 DEF TypeOK, tables
<1>3. Place' /\ Rowed' /\ Snapshot' /\ Done' /\ Before' /\ Known' /\ IndexIsCurrent'
  BY DEF Place, Rowed, Snapshot, Done, Before, Known, IndexIsCurrent, Reading, Wanted, tables
<1>4. Honest'
  BY IndexSyncAssumption DEF Honest, HonestChunks, NoChunks, TypeOK, Rows, Versions, tables
<1> QED
  BY <1>2, <1>3, <1>4

-----------------------------------------------------------------------------
\* Every step, and every stutter, keeps the invariant.
LEMMA NextInv == Inv /\ [Next]_vars => Inv'
<1> SUFFICES ASSUME Inv, [Next]_vars PROVE Inv'
  OBVIOUS
<1>1. CASE UNCHANGED vars
  BY <1>1 DEF Inv, TypeOK, Place, Rowed, Snapshot, Honest, HonestChunks, Done, Before, Known,
              IndexIsCurrent, Reading, Wanted, vars, tables, run
<1>2. ASSUME NEW i \in Posts, Change(i) \/ Record(i) PROVE Inv'
  BY <1>2, ChangeInv, RemoveKeepInv, NoTextInv, BeginInv DEF Record
<1> QED
  BY <1>1, <1>2, StartInv, SelectInv, IndexedInv, EmbeddingFailsInv, PublishInv,
     RenameFailsInv, EndInv DEF Next

LEMMA SpecInv == Spec => []Inv
<1> QED
  BY InitInv, NextInv, PTL DEF Spec

\* The file is current but for the posts known to be stale, whatever fails and
\* wherever the tool is killed.
THEOREM FileIsCurrent == Spec => []IndexIsCurrent
<1>1. Inv => IndexIsCurrent
  BY DEF Inv
<1> QED
  BY <1>1, SpecInv, PTL

\* The values of the variables.
THEOREM TypeCorrect == Spec => []TypeOK
<1>1. Inv => TypeOK
  BY DEF Inv
<1> QED
  BY <1>1, SpecInv, PTL

\* A post that cannot be indexed keeps its chunks in the file.
THEOREM FailureKeepsChunks == Spec => KeptOnFailure
<1>1. ASSUME Inv, [Next]_vars
      PROVE  [\A i \in failed :
                ~full /\ NoFile \notin {file, file'} => file'.chunks[i] = file.chunks[i]]_vars
  <2> SUFFICES ASSUME Next, NEW i \in failed, ~full, file # NoFile, file' # NoFile, file' # file
               PROVE  file'.chunks[i] = file.chunks[i]
    BY <1>1
  <2>1. Publish \/ PublishAgain
    BY DEF Next, Change, CreatePost, EditPost, DeletePost, BlockPost, Touch, Record, Remove, Keep,
           NoText, Begin, Start, Select, Indexed, EmbeddingFails, RenameFails, End
  <2>2. file'.chunks = mem /\ pc # "idle"
    BY <2>1 DEF Publish, PublishAgain, Published
  <2>3. i \in Posts
    BY <1>1 DEF Inv, TypeOK
  <2> QED
    BY <1>1, <2>2, <2>3 DEF Inv, Before
<1> QED
  BY <1>1, SpecInv, PTL DEF Spec, KeptOnFailure
=============================================================================
