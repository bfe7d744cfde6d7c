---------------------------- MODULE LibraryProofs ----------------------------
(***************************************************************************)
(* What filing promises, for any jobs, episodes, folders and move modes and *)
(* any number of kills, failures, renames and rescans: the tables keep     *)
(* their types, a show keeps one marked folder, and jobs whose downloads   *)
(* do not overlap file them whole and overwrite nothing silently.          *)
(***************************************************************************)
EXTENDS Library, TLAPS, FiniteSetTheorems, SequenceTheorems, WellFoundedInduction

(* Types.                                                                  *)

Contents == [what : Jobs \cup {"user"}, whole : BOOLEAN]
Synopses == {"none", "placeholder", "real"}
Paths    == (Dirs \X Places) \cup {NoPath}
Answers  == {"none", "open", "keep", "replace", "both", "expired"}
Steps    == Busy \cup {"finalize", "waiting", "done", "failed", "lost"}

\* A folder on a disk with n inodes.
Folder(n) == [exists : BOOLEAN, marker : BOOLEAN, syn : Synopses, at : [Places -> 0 .. n]]

Row == [pc : Steps, known : BOOLEAN, dir : Dirs \cup {NoDir}, todo : SUBSET Episodes,
        place : Places \cup {NoPath[2]}, ino : Nat, first : SUBSET Episodes]

Types ==
    /\ mode \in Modes
    /\ data \in Seq(Contents)
    /\ dl \in [Jobs -> [Episodes -> 0 .. Len(data)]]
    /\ dirs \in [Dirs -> Folder(Len(data))]
    /\ known \in BOOLEAN /\ folder \in Dirs \cup {NoDir}
    /\ eps \in [Episodes -> [done : BOOLEAN, path : Paths]]
    /\ q \in [Jobs -> Answers]
    /\ job \in [Jobs -> Row]

Least(S) == CHOOSE e \in S : \A f \in S : e <= f

\* What a step knows of the files it has still to file, for a row r, the downloads
\* have of the job and n inodes.
RowOK(j, r, have, n) ==
    /\ r.todo \subseteq Holds[j]
    /\ r.pc \in Busy => r.dir \in Dirs
    /\ r.pc \in {"transfer", "copying", "record"} => r.place \in Places
    /\ r.pc \in {"transfer", "copying"} => have[r.place[1]] # NoFile
    /\ r.pc = "copying" => r.ino \in 1 .. n
    /\ r.pc = "primary" => r.first # {}
    /\ ~Batch(j) =>
          /\ r.pc \in {"decorate", "placed"} => have[Own[j]] # NoFile
          /\ r.pc \in {"transfer", "copying", "record"} => r.place[1] = Own[j]
    /\ Batch(j) =>
          /\ r.pc = "decorate" => \E e \in Holds[j] : have[e] # NoFile
          /\ r.pc \in {"placed", "transfer", "copying", "record"} =>
                /\ r.todo # {}
                /\ \A e \in r.todo : e = Least(r.todo) \/ have[e] # NoFile
          /\ r.pc = "placed" => have[Least(r.todo)] # NoFile
          /\ r.pc \in {"transfer", "copying", "record"} => r.place = <<Least(r.todo), "main">>

RowsOK == \A j \in Jobs : RowOK(j, job[j], dl[j], Len(data))

TInv == Types /\ RowsOK

-----------------------------------------------------------------------------
(* The folder of the show.                                                 *)

\* The folders a rescan would adopt.
Claimed == {d \in Dirs : dirs[d].exists /\ (dirs[d].marker \/ d = Default)}

\* Only the default folder is ever renamed away: every other folder the database
\* or a step has a path to is there, with its marker.
Stays(d) == d \in Dirs \ {Default} => dirs[d].exists /\ dirs[d].marker

FolderInv ==
    /\ Stays(folder)
    /\ \A e \in Episodes : Stays(eps[e].path[1])
    /\ \A j \in Jobs : job[j].pc \in Busy => Stays(job[j].dir)
    /\ ~raced =>
          /\ \A d, e \in Claimed : d = e
          /\ \A j \in Jobs : job[j].pc \in Busy => job[j].dir \in Marked

-----------------------------------------------------------------------------
(* Inodes.                                                                 *)

Disjoint == \A j, k \in Jobs : j # k => Holds[j] \cap Holds[k] = {}

\* The Inbox has asked about an episode.
Asked(e) == \E j \in Jobs : Own[j] = e /\ q[j] # "none"

\* No two downloads share an inode, an inode is of one episode, and what is no
\* folder is empty.
Vacant      == \A d \in Dirs : ~dirs[d].exists => \A p \in Places : dirs[d].at[p] = NoFile
OwnDownload == \A j \in Jobs, e \in Episodes : dl[j][e] # NoFile => e \in Holds[j]
OneDownload == \A j, k \in Jobs, e, f \in Episodes :
                  dl[j][e] # NoFile /\ dl[j][e] = dl[k][f] => j = k /\ e = f
OneSource   == \A d \in Dirs, p \in Places, j \in Jobs, e \in Episodes :
                  dl[j][e] # NoFile /\ dirs[d].at[p] = dl[j][e] => p[1] = e
OneEpisode  == \A c, d \in Dirs, p, r \in Places :
                  dirs[c].at[p] # NoFile /\ dirs[c].at[p] = dirs[d].at[r] => p[1] = r[1]

InodeInv == Vacant /\ OwnDownload /\ OneDownload /\ OneSource /\ OneEpisode

\* A transfer meets a file only where the Inbox has asked, and the inode a copy
\* writes is in its place, in some folder, and not whole.
TransferOK(j) ==
    /\ job[j].pc = "transfer" /\ Exists(job[j].dir, job[j].place) => Asked(job[j].place[1])
    /\ job[j].pc = "copying" =>
          /\ ~Whole(job[j].ino)
          /\ \E d \in Dirs : dirs[d].exists /\ dirs[d].at[job[j].place] = job[j].ino

DInv == TInv /\ FolderInv /\ InodeInv /\ \A j \in Jobs : TransferOK(j)

-----------------------------------------------------------------------------
(* Single files.                                                           *)

\* The two exceptions of SingleOwnsWhole.
Exempt(j) == q[j] = "keep" \/ (q[j] = "both" /\ killed /\ mode[1] = "hardlink")

\* The second version of an episode is the download itself only after "keep both"
\* and a hard link; and where that link is yet to be recorded, there was a kill.
SecondLink(j) ==
    \A d \in Dirs :
        dirs[d].at[<<Own[j], "v2">>] = dl[j][Own[j]] /\ dl[j][Own[j]] # NoFile =>
            /\ q[j] = "both" /\ mode[1] = "hardlink"
            /\ killed \/ job[j].pc \in {"record", "marked", "done"}

\* From the first look to the record the source is whole, then the copy is; a copy
\* never goes onto its own source, but for the second exception.
SingleOK(j) ==
    ~Batch(j) =>
        /\ SecondLink(j)
        /\ job[j].pc # "primary"
        /\ job[j].pc = "waiting" => q[j] = "open"
        /\ job[j].pc \in {"decorate", "placed", "transfer"} => Whole(dl[j][Own[j]])
        /\ job[j].pc = "copying" => Exempt(j) \/ Whole(dl[j][Own[j]])
        /\ job[j].pc = "transfer" /\ job[j].place[2] = "main" =>
              dirs[job[j].dir].at[job[j].place] # dl[j][Own[j]]
        /\ job[j].pc = "transfer" /\ job[j].place[2] = "v2" => q[j] = "both"
        /\ job[j].pc \in {"record", "marked", "done"} => Exempt(j) \/ FiledWhole(j)
        /\ job[j].pc \in {"marked", "done"} => Exempt(j) \/ eps[Own[j]].done

\* What a job has downloaded is its own.
WhoseInv == \A j \in Jobs, e \in Episodes : dl[j][e] # NoFile => data[dl[j][e]].what = j

SInv == DInv /\ WhoseInv /\ \A j \in Jobs : SingleOK(j)

-----------------------------------------------------------------------------
(* Helpers.                                                                *)

\* A set of episodes that is not empty has a least one.
LEMMA LeastIn ==
    ASSUME NEW S \in SUBSET Nat, S # {}
    PROVE  Least(S) \in S /\ \A f \in S : Least(S) <= f
<1> DEFINE R == OpToRel(<, Nat)
<1>1. IsWellFoundedOn(R, Nat)
  BY NatLessThanWellFounded, Zenon
<1>2. \A e, f \in Nat : f < e => <<f, e>> \in R
  BY DEF OpToRel
<1> HIDE DEF R
<1>3. PICK e \in S : \A f \in S : ~ (<<f, e>> \in R)
  BY <1>1, WFMin
<1>4. \A f \in S : ~ (f < e)
  BY <1>2, <1>3
<1>5. \A f \in S : e <= f
  BY <1>4
<1> QED
  BY <1>5 DEF Least

LEMMA CurrentIn ==
    ASSUME NEW j \in Jobs, job[j].todo \subseteq Episodes, job[j].todo # {}
    PROVE  Current(j) = Least(job[j].todo) /\ Current(j) \in job[j].todo
<1>1. job[j].todo \in SUBSET Nat
  BY LibraryAssumption
<1> QED
  BY <1>1, LeastIn DEF Current, Least

LEMMA IdleRow ==
    /\ Idle \in Row /\ Idle.pc = "finalize" /\ Idle.todo = {} /\ Idle.first = {}
    /\ Idle.dir = NoDir
BY DEF Idle, Row, Steps, Places, NoPath, NoFile

\* A disk that grows keeps its types.
LEMMA DiskGrows ==
    ASSUME NEW m \in Nat, NEW n \in Nat, m <= n
    PROVE  /\ Folder(m) \subseteq Folder(n)
           /\ [Episodes -> 0 .. m] \subseteq [Episodes -> 0 .. n]
<1>1. 0 .. m \subseteq 0 .. n
  OBVIOUS
<1>2. [Places -> 0 .. m] \subseteq [Places -> 0 .. n]
  BY <1>1
<1> QED
  BY <1>1, <1>2 DEF Folder

\* A step of one job: its new row is right, and the other jobs' downloads stay.
LEMMA OneRow ==
    ASSUME TInv, NEW j \in Jobs, NEW r \in Row, job' = [job EXCEPT ![j] = r],
           \A k \in Jobs \ {j} : dl'[k] = dl[k], Len(data) <= Len(data)',
           Len(data) \in Nat, Len(data)' \in Nat,
           RowOK(j, r, dl'[j], Len(data'))
    PROVE  job' \in [Jobs -> Row] /\ RowsOK'
<1>1. job \in [Jobs -> Row]
  BY DEF TInv, Types
<1>2. job' \in [Jobs -> Row]
  BY <1>1
<1>3. ASSUME NEW k \in Jobs PROVE RowOK(k, job'[k], dl'[k], Len(data'))
  <2>1. CASE k = j
    BY <2>1, <1>1
  <2>2. CASE k # j
    <3>1. job'[k] = job[k] /\ dl'[k] = dl[k] /\ RowOK(k, job[k], dl[k], Len(data))
      BY <2>2, <1>1 DEF TInv, RowsOK
    <3>2. 1 .. Len(data) \subseteq 1 .. Len(data)'
      OBVIOUS
    <3> QED
      BY <3>1, <3>2 DEF RowOK
  <2> QED
    BY <2>1, <2>2
<1> QED
  BY <1>2, <1>3 DEF RowsOK

\* A row whose step is over, or has yet to begin, owes nothing.
LEMMA QuietRow ==
    ASSUME NEW j \in Jobs, NEW r \in Row, r.pc \notin Busy, r.todo \subseteq Holds[j],
           NEW have, NEW n
    PROVE  RowOK(j, r, have, n)
BY DEF RowOK, Busy

LEMMA JobType ==
    ASSUME TInv, NEW j \in Jobs
    PROVE  /\ job \in [Jobs -> Row] /\ job[j] \in Row
           /\ RowOK(j, job[j], dl[j], Len(data))
           /\ Own[j] \in Episodes /\ Own[j] \in Holds[j] /\ Holds[j] \subseteq Episodes
BY LibraryAssumption DEF TInv, Types, RowsOK

LEMMA DiskType ==
    ASSUME TInv
    PROVE  /\ Len(data) \in Nat /\ data \in Seq(Contents)
           /\ dl \in [Jobs -> [Episodes -> 0 .. Len(data)]]
           /\ dirs \in [Dirs -> Folder(Len(data))]
BY DEF TInv, Types

-----------------------------------------------------------------------------
(* The types are inductive.                                                *)

\* Steps that leave the disk alone but for the folders.
LEMMA FoldersType ==
    ASSUME TInv, NEW j \in Jobs, NEW r \in Row, job' = [job EXCEPT ![j] = r],
           UNCHANGED <<mode, data, dl>>, RowOK(j, r, dl[j], Len(data)),
           dirs' \in [Dirs -> Folder(Len(data))],
           known' \in BOOLEAN, folder' \in Dirs \cup {NoDir},
           eps' \in [Episodes -> [done : BOOLEAN, path : Paths]],
           q' \in [Jobs -> Answers]
    PROVE  TInv'
<1>1. Len(data) \in Nat /\ Len(data) <= Len(data)' /\ Len(data)' \in Nat
  BY DiskType
<1>2. RowOK(j, r, dl'[j], Len(data'))
  OBVIOUS
<1>3. job' \in [Jobs -> Row] /\ RowsOK'
  BY <1>1, <1>2, OneRow
<1>4. Types'
  BY <1>3 DEF TInv, Types
<1> QED
  BY <1>3, <1>4 DEF TInv

LEMMA BeginType == ASSUME TInv, NEW j \in Jobs, Begin(j) PROVE TInv'
<1>1. job[j] \in Row /\ job[j].todo \subseteq Holds[j] /\ job[j].pc = "finalize"
  BY JobType DEF RowOK, Begin
<1>2. /\ UNCHANGED <<mode, data, dl>> /\ known' = known /\ eps' = eps /\ q' = q
      /\ known \in BOOLEAN /\ folder \in Dirs \cup {NoDir}
      /\ eps \in [Episodes -> [done : BOOLEAN, path : Paths]] /\ q \in [Jobs -> Answers]
      /\ dirs \in [Dirs -> Folder(Len(data))]
  BY DEF Begin, TInv, Types
<1>3. CASE UNCHANGED <<dirs, folder>> /\ \E pc \in {"lost", "failed"} : job' = [job EXCEPT ![j].pc = pc]
  <2>1. PICK pc \in {"lost", "failed"} : job' = [job EXCEPT ![j].pc = pc]
    BY <1>3
  <2> DEFINE r == [job[j] EXCEPT !.pc = pc]
  <2>2. r \in Row /\ r.pc = pc /\ r.todo = job[j].todo
    BY <1>1 DEF Row, Steps
  <2>3. job' = [job EXCEPT ![j] = r]
    BY <2>1
  <2>4. RowOK(j, r, dl[j], Len(data))
    <3> HIDE DEF r
    <3> QED
      BY <2>2, <1>1, QuietRow DEF Busy
  <2> HIDE DEF r
  <2> QED
    BY <2>2, <2>3, <2>4, <1>2, <1>3, FoldersType
<1>4. CASE Verified(j) /\ \E d \in resolve_show_folder :
             /\ dirs' = Opened(d)
             /\ folder' = d
             /\ job' = [job EXCEPT ![j] = [Idle EXCEPT !.pc = "decorate",
                                         !.known = known, !.dir = d]]
  <2>1. PICK d \in resolve_show_folder :
             /\ dirs' = Opened(d)
             /\ folder' = d
             /\ job' = [job EXCEPT ![j] = [Idle EXCEPT !.pc = "decorate",
                                         !.known = known, !.dir = d]]
    BY <1>4
  <2>2. d \in Dirs
    BY <2>1, <1>2, LibraryAssumption DEF resolve_show_folder, Marked, NoDir
  <2> DEFINE r == [Idle EXCEPT !.pc = "decorate", !.known = known, !.dir = d]
  <2>3. /\ r \in Row /\ r.pc = "decorate" /\ r.dir = d /\ r.todo = {}
    BY <2>2, <1>2 DEF Row, Steps, Busy, Idle, Places, NoPath, NoFile
  <2>4. job' = [job EXCEPT ![j] = r]
    BY <2>1
  <2>5. ~Batch(j) => dl[j][Own[j]] # NoFile
    BY <1>4 DEF Verified, Whole
  <2>6. Batch(j) => \E e \in Holds[j] : dl[j][e] # NoFile
    BY <1>4 DEF Verified
  <2>7. RowOK(j, r, dl[j], Len(data))
    <3> HIDE DEF r
    <3> QED
      BY <2>2, <2>3, <2>5, <2>6 DEF RowOK
  <2>8. dirs' \in [Dirs -> Folder(Len(data))]
    BY <2>1, <2>2, <1>2 DEF Opened, Folder
  <2> HIDE DEF r
  <2> QED
    BY <2>1, <2>2, <2>3, <2>4, <2>7, <2>8, <1>2, FoldersType
<1> QED
  BY <1>3, <1>4 DEF Begin

LEMMA DecorateType == ASSUME TInv, NEW j \in Jobs, Decorate(j) PROVE TInv'
<1>1. job[j] \in Row /\ job[j].pc = "decorate" /\ RowOK(j, job[j], dl[j], Len(data))
      /\ Holds[j] \subseteq Episodes /\ job[j].dir \in Dirs
  BY JobType DEF RowOK, Decorate, Busy
<1>2. /\ UNCHANGED <<mode, data, dl>> /\ known' = known /\ eps' = eps /\ q' = q
      /\ folder' = folder
      /\ known \in BOOLEAN /\ folder \in Dirs \cup {NoDir}
      /\ eps \in [Episodes -> [done : BOOLEAN, path : Paths]] /\ q \in [Jobs -> Answers]
      /\ dirs \in [Dirs -> Folder(Len(data))]
  BY DEF Decorate, TInv, Types, db
<1> DEFINE there == {e \in Holds[j] : dl[j][e] # NoFile}
           r == [job[j] EXCEPT !.pc = "placed", !.known = FALSE, !.todo = there]
<1>3. there \subseteq Holds[j] /\ there \subseteq Episodes
  BY <1>1
<1>4. r \in Row /\ r.pc = "placed" /\ r.todo = there /\ r.dir = job[j].dir
  <2> HIDE DEF there
  <2> QED
    BY <1>1, <1>3 DEF Row, Steps, Busy
<1>5. job' = [job EXCEPT ![j] = r]
  BY DEF Decorate
<1>6. Batch(j) => there # {}
  BY <1>1 DEF RowOK
<1>7. Batch(j) => Least(there) \in there
  <2>1. there \in SUBSET Nat
    BY <1>3, LibraryAssumption
  <2> HIDE DEF there
  <2> QED
    BY <2>1, <1>6, LeastIn
<1>8. RowOK(j, r, dl[j], Len(data))
  <2>1. \A e \in there : dl[j][e] # NoFile
    OBVIOUS
  <2>2. ~Batch(j) => dl[j][Own[j]] # NoFile
    BY <1>1 DEF RowOK
  <2> HIDE DEF r, there
  <2> QED
    BY <2>1, <2>2, <1>1, <1>3, <1>4, <1>6, <1>7 DEF RowOK
<1>9. dirs' \in [Dirs -> Folder(Len(data))]
  <2>1. dirs' = dirs \/ \E text \in Synopses : dirs' = [dirs EXCEPT ![job[j].dir].syn = text]
    BY DEF Decorate, Synopses
  <2> QED
    BY <2>1, <1>1, <1>2 DEF Folder
<1> HIDE DEF r
<1> QED
  BY <1>2, <1>4, <1>5, <1>8, <1>9, FoldersType

\* The part of RowOK a step keeps when it moves on inside one job.
LEMMA GoesType ==
    ASSUME TInv, NEW j \in Jobs, NEW pc \in {"transfer", "record"}, NEW p \in Places,
           job[j].pc = "placed", Goes(j, pc, p),
           ~Batch(j) => p[1] = Own[j], Batch(j) => p = <<Current(j), "main">>,
           UNCHANGED <<mode, data, dl, db>>, dirs' \in [Dirs -> Folder(Len(data))]
    PROVE  TInv'
<1>1. job[j] \in Row /\ RowOK(j, job[j], dl[j], Len(data)) /\ Holds[j] \subseteq Episodes
  BY JobType
<1>2. /\ UNCHANGED <<mode, data, dl>> /\ known' = known /\ eps' = eps /\ q' = q
      /\ folder' = folder
      /\ known \in BOOLEAN /\ folder \in Dirs \cup {NoDir}
      /\ eps \in [Episodes -> [done : BOOLEAN, path : Paths]] /\ q \in [Jobs -> Answers]
  BY DEF TInv, Types, db
<1> DEFINE r == [job[j] EXCEPT !.pc = pc, !.place = p]
<1>3. r \in Row /\ r.pc = pc /\ r.place = p /\ r.todo = job[j].todo /\ r.dir = job[j].dir
  BY <1>1 DEF Row, Steps, Busy
<1>4. job' = [job EXCEPT ![j] = r]
  BY DEF Goes
<1>5. job[j].todo \subseteq Holds[j] /\ job[j].dir \in Dirs
  BY <1>1 DEF RowOK, Busy
<1>6. CASE ~Batch(j)
  <2>1. dl[j][p[1]] # NoFile
    BY <1>1, <1>6 DEF RowOK
  <2> HIDE DEF r
  <2>2. RowOK(j, r, dl[j], Len(data))
    BY <2>1, <1>3, <1>5, <1>6 DEF RowOK
  <2> QED
    BY <2>2, <1>2, <1>3, <1>4, FoldersType
<1>7. CASE Batch(j)
  <2>1. /\ job[j].todo # {} /\ \A e \in job[j].todo : e = Least(job[j].todo) \/ dl[j][e] # NoFile
        /\ dl[j][Least(job[j].todo)] # NoFile
    BY <1>1, <1>7 DEF RowOK
  <2>2. Current(j) = Least(job[j].todo)
    BY <2>1, <1>1, <1>5, CurrentIn
  <2>3. p = <<Least(job[j].todo), "main">> /\ p[1] = Least(job[j].todo)
    BY <2>2, <1>7
  <2> HIDE DEF r
  <2>4. RowOK(j, r, dl[j], Len(data))
    BY <2>1, <2>3, <1>3, <1>5, <1>7 DEF RowOK
  <2> QED
    BY <2>4, <1>2, <1>3, <1>4, FoldersType
<1> QED
  BY <1>6, <1>7

LEMMA PlaceFreeType == ASSUME TInv, NEW j \in Jobs, PlaceFree(j) PROVE TInv'
<1>1. /\ job[j].pc = "placed" /\ ~Batch(j) /\ UNCHANGED <<mode, data, dl, db>> /\ dirs' = dirs
      /\ \E pc \in {"transfer", "record"} : Goes(j, pc, <<Own[j], "main">>)
  BY DEF PlaceFree, disk
<1>2. <<Own[j], "main">> \in Places /\ <<Own[j], "main">>[1] = Own[j]
  BY JobType DEF Places, Versions
<1>3. dirs \in [Dirs -> Folder(Len(data))]
  BY DiskType
<1> QED
  BY <1>1, <1>2, <1>3, GoesType

LEMMA PlaceBatchType == ASSUME TInv, NEW j \in Jobs, PlaceBatch(j) PROVE TInv'
<1>1. /\ job[j].pc = "placed" /\ Batch(j) /\ UNCHANGED <<mode, data, dl, db>> /\ dirs' = dirs
      /\ \E pc \in {"transfer", "record"} : Goes(j, pc, <<Current(j), "main">>)
  BY DEF PlaceBatch, disk
<1>2. job[j].todo # {} /\ job[j].todo \subseteq Episodes
  BY <1>1, JobType DEF RowOK
<1>3. <<Current(j), "main">> \in Places
  BY <1>2, CurrentIn DEF Places, Versions
<1>4. dirs \in [Dirs -> Folder(Len(data))]
  BY DiskType
<1> QED
  BY <1>1, <1>3, <1>4, GoesType

LEMMA AnsweredType == ASSUME TInv, NEW j \in Jobs, collision_answered(j) PROVE TInv'
<1> DEFINE p == <<Own[j], "main">>
           v == <<Own[j], "v2">>
<1>1. /\ job[j].pc = "placed" /\ ~Batch(j) /\ UNCHANGED <<mode, data, dl, db>>
      /\ \E pc \in {"transfer", "record"}, w \in {p, v} : Goes(j, pc, w)
      /\ dirs' = dirs \/ dirs' = [dirs EXCEPT ![job[j].dir].at[p] = NoFile]
  BY DEF collision_answered, Collides
<1>2. p \in Places /\ v \in Places /\ p[1] = Own[j] /\ v[1] = Own[j]
  BY JobType DEF Places, Versions
<1>3. dirs \in [Dirs -> Folder(Len(data))] /\ Len(data) \in Nat
  BY DiskType
<1>4. 0 \in 0 .. Len(data)
  BY <1>3
<1> HIDE DEF p, v
<1>5. dirs' \in [Dirs -> Folder(Len(data))]
  <2>1. job[j].dir \in Dirs
    BY <1>1, JobType DEF RowOK, Busy
  <2>2. dirs[job[j].dir] \in Folder(Len(data))
    BY <2>1, <1>3
  <2>3. [dirs[job[j].dir] EXCEPT !.at[p] = NoFile] \in Folder(Len(data))
    BY <2>2, <1>2, <1>4 DEF Folder, NoFile
  <2> QED
    BY <2>1, <2>3, <1>1, <1>3
<1> QED
  BY <1>1, <1>2, <1>5, GoesType

LEMMA AsksType == ASSUME TInv, NEW j \in Jobs, collision_asks(j) PROVE TInv'
<1> DEFINE r == [Idle EXCEPT !.pc = "waiting"]
<1>1. r \in Row /\ r.pc = "waiting" /\ r.todo = {}
  BY DEF Row, Steps, Idle, Places, NoPath, NoFile
<1>2. /\ job' = [job EXCEPT ![j] = r] /\ q' = [q EXCEPT ![j] = "open"]
      /\ UNCHANGED <<mode, data, dl, dirs, known, folder, eps>>
  BY DEF collision_asks, disk
<1>3. /\ known \in BOOLEAN /\ folder \in Dirs \cup {NoDir}
      /\ eps \in [Episodes -> [done : BOOLEAN, path : Paths]] /\ q \in [Jobs -> Answers]
      /\ dirs \in [Dirs -> Folder(Len(data))]
  BY DEF TInv, Types
<1>4. q' \in [Jobs -> Answers]
  BY <1>2, <1>3 DEF Answers
<1> HIDE DEF r
<1>5. RowOK(j, r, dl[j], Len(data))
  BY <1>1, QuietRow DEF Busy
<1> QED
  BY <1>1, <1>2, <1>3, <1>4, <1>5, FoldersType

\* A file of one job put into its place, and perhaps taken from the download.
LEMMA PlacedDisk ==
    ASSUME TInv, NEW d \in Dirs, NEW p \in Places, NEW i \in 0 .. Len(data)
    PROVE  [dirs EXCEPT ![d] = [@ EXCEPT !.exists = TRUE, !.at[p] = i]]
              \in [Dirs -> Folder(Len(data))]
BY DiskType DEF Folder

LEMMA TakenDisk ==
    ASSUME TInv, NEW j \in Jobs, NEW e \in Episodes
    PROVE  [dl EXCEPT ![j][e] = NoFile] \in [Jobs -> [Episodes -> 0 .. Len(data)]]
<1>1. NoFile \in 0 .. Len(data)
  BY DiskType DEF NoFile
<1> QED
  BY <1>1, DiskType

\* The row of a job that goes from its file to the record, whatever becomes of the
\* download of that file.
LEMMA RecordRow ==
    ASSUME TInv, NEW j \in Jobs, job[j].pc \in {"transfer", "copying"},
           NEW have, have \in {dl[j], [dl[j] EXCEPT ![Moving(j)] = NoFile]}, NEW n
    PROVE  /\ [job[j] EXCEPT !.pc = "record"] \in Row
           /\ RowOK(j, [job[j] EXCEPT !.pc = "record"], have, n)
<1> DEFINE r == [job[j] EXCEPT !.pc = "record"]
<1>1. job[j] \in Row /\ RowOK(j, job[j], dl[j], Len(data)) /\ dl[j] \in [Episodes -> 0 .. Len(data)]
  BY JobType, DiskType
<1>2. r \in Row /\ r.pc = "record" /\ r.todo = job[j].todo /\ r.dir = job[j].dir
      /\ r.place = job[j].place
  BY <1>1 DEF Row, Steps, Busy
<1>3. job[j].dir \in Dirs /\ job[j].place \in Places /\ job[j].todo \subseteq Holds[j]
  BY <1>1 DEF RowOK, Busy
<1>4. \A e \in Episodes : e # Moving(j) => have[e] = dl[j][e]
  BY <1>1
<1>5. job[j].todo \subseteq Episodes
  BY <1>1 DEF Row
<1>6. Batch(j) => Moving(j) = Least(job[j].todo)
  BY <1>1 DEF RowOK, Moving
<1> HIDE DEF r
<1>7. RowOK(j, r, have, n)
  BY <1>1, <1>2, <1>3, <1>4, <1>5, <1>6 DEF RowOK
<1> QED
  BY <1>2, <1>7 DEF r

LEMMA AtOnceType == ASSUME TInv, NEW j \in Jobs, transfer_at_once(j) PROVE TInv'
<1> DEFINE r == [job[j] EXCEPT !.pc = "record"]
           i == dl[j][Moving(j)]
<1>1. /\ job[j].pc = "transfer" /\ job' = [job EXCEPT ![j] = r]
      /\ dirs' = [dirs EXCEPT ![job[j].dir] = [@ EXCEPT !.exists = TRUE, !.at[job[j].place] = i]]
      /\ dl' = dl \/ dl' = [dl EXCEPT ![j][Moving(j)] = NoFile]
      /\ UNCHANGED <<mode, data, db>>
  BY DEF transfer_at_once
<1>2. job[j].dir \in Dirs /\ job[j].place \in Places
  BY <1>1, JobType DEF RowOK, Busy
<1>3. Moving(j) \in Episodes
  BY <1>2 DEF Moving, Places
<1>4. i \in 0 .. Len(data)
  BY <1>3, DiskType
<1> HIDE DEF i, r
<1>5. dirs' \in [Dirs -> Folder(Len(data))]
  BY <1>1, <1>2, <1>4, PlacedDisk
<1>6. dl' \in [Jobs -> [Episodes -> 0 .. Len(data)]]
  <2>1. [dl EXCEPT ![j][Moving(j)] = NoFile] \in [Jobs -> [Episodes -> 0 .. Len(data)]]
    BY <1>3, TakenDisk
  <2>2. dl \in [Jobs -> [Episodes -> 0 .. Len(data)]]
    BY DiskType
  <2> QED
    BY <2>1, <2>2, <1>1
<1>7. dl'[j] \in {dl[j], [dl[j] EXCEPT ![Moving(j)] = NoFile]}
      /\ \A k \in Jobs \ {j} : dl'[k] = dl[k]
  BY <1>1, DiskType
<1>8. r \in Row /\ RowOK(j, r, dl'[j], Len(data'))
  BY <1>1, <1>7, RecordRow DEF r
<1>9. Len(data) \in Nat /\ Len(data)' \in Nat /\ Len(data) <= Len(data)'
  BY <1>1, DiskType
<1>10. job' \in [Jobs -> Row] /\ RowsOK'
  BY <1>1, <1>7, <1>8, <1>9, OneRow
<1>11. Types'
  BY <1>1, <1>5, <1>6, <1>10 DEF TInv, Types, db
<1> QED
  BY <1>10, <1>11 DEF TInv

\* The disk after the first byte of a copy: a new inode, or an old one truncated.
LEMMA CopyDisk ==
    ASSUME TInv, NEW j \in Jobs, copy_starts(j)
    PROVE  LET d == job[j].dir  p == job[j].place
               i == IF Exists(d, p) THEN dirs[d].at[p] ELSE Len(data) + 1
               content == [what |-> data[dl[j][Moving(j)]].what, whole |-> FALSE]
           IN  /\ d \in Dirs /\ p \in Places /\ Moving(j) \in Episodes
               /\ dl[j][Moving(j)] \in 1 .. Len(data) /\ content \in Contents
               /\ i \in 1 .. Len(data') /\ Len(data') \in Nat /\ Len(data) <= Len(data')
               /\ data' \in Seq(Contents) /\ data'[i] = content
               /\ \A k \in 1 .. Len(data) : k # i => data'[k] = data[k]
               /\ Exists(d, p) => i \in 1 .. Len(data) /\ Len(data') = Len(data)
               /\ ~Exists(d, p) => i = Len(data) + 1 /\ Len(data') = Len(data) + 1
               /\ dirs' = [dirs EXCEPT ![d] = [@ EXCEPT !.exists = TRUE, !.at[p] = i]]
               /\ job' = [job EXCEPT ![j] = [@ EXCEPT !.pc = "copying", !.ino = i]]
<1> DEFINE d == job[j].dir
           p == job[j].place
           i == IF Exists(d, p) THEN dirs[d].at[p] ELSE Len(data) + 1
           content == [what |-> data[dl[j][Moving(j)]].what, whole |-> FALSE]
<1>1. job[j].pc = "transfer"
  BY DEF copy_starts
<1>2. d \in Dirs /\ p \in Places /\ dl[j][Moving(j)] # NoFile
  BY <1>1, JobType DEF RowOK, Busy, Moving
<1>3. Moving(j) \in Episodes
  BY <1>2 DEF Moving, Places
<1>4. Len(data) \in Nat /\ data \in Seq(Contents)
  BY DiskType
<1>5. dl[j][Moving(j)] \in 1 .. Len(data)
  <2>1. dl[j][Moving(j)] \in 0 .. Len(data)
    BY <1>3, DiskType
  <2> QED
    BY <2>1, <1>2, <1>4 DEF NoFile
<1>6. content \in Contents
  <2>1. data[dl[j][Moving(j)]] \in Contents
    BY <1>4, <1>5
  <2> QED
    BY <2>1 DEF Contents
<1>7. dirs' = [dirs EXCEPT ![d] = [@ EXCEPT !.exists = TRUE, !.at[p] = i]]
      /\ job' = [job EXCEPT ![j] = [@ EXCEPT !.pc = "copying", !.ino = i]]
  BY DEF copy_starts
<1>8. data' = IF Exists(d, p) THEN [data EXCEPT ![i] = content] ELSE Append(data, content)
  BY DEF copy_starts
<1>9. Exists(d, p) => dirs[d].at[p] \in 1 .. Len(data)
  <2>1. dirs[d].at[p] \in 0 .. Len(data)
    BY <1>2, DiskType DEF Folder
  <2> QED
    BY <2>1, <1>4 DEF Exists, NoFile
<1> HIDE DEF content, d, p
<1>10. CASE Exists(d, p)
  <2>1. i \in 1 .. Len(data) /\ data' = [data EXCEPT ![i] = content]
    BY <1>8, <1>9, <1>10
  <2> HIDE DEF i
  <2>2. data' \in Seq(Contents) /\ Len(data') = Len(data) /\ data'[i] = content
        /\ \A k \in 1 .. Len(data) : k # i => data'[k] = data[k]
    BY <2>1, <1>4, <1>6
  <2>3. i \in 1 .. Len(data') /\ Len(data') \in Nat /\ Len(data) <= Len(data')
    BY <2>1, <2>2, <1>4
  <2> QED
    BY <2>1, <2>2, <2>3, <1>2, <1>3, <1>5, <1>6, <1>7, <1>10 DEF i, d, p, content
<1>11. CASE ~Exists(d, p)
  <2>1. i = Len(data) + 1 /\ data' = Append(data, content)
    BY <1>8, <1>11
  <2> HIDE DEF i
  <2>2. data' \in Seq(Contents) /\ Len(data') = Len(data) + 1 /\ data'[i] = content
        /\ \A k \in 1 .. Len(data) : data'[k] = data[k]
    BY <2>1, <1>4, <1>6
  <2> QED
    BY <2>1, <2>2, <1>2, <1>3, <1>4, <1>5, <1>6, <1>7, <1>11 DEF i, d, p, content
<1> QED
  BY <1>10, <1>11

\* The types when the disk has grown.
LEMMA GrownType ==
    ASSUME TInv, NEW j \in Jobs, NEW r \in Row, job' = [job EXCEPT ![j] = r],
           data' \in Seq(Contents), Len(data') \in Nat, Len(data) <= Len(data'),
           \A k \in Jobs \ {j} : dl'[k] = dl[k],
           dl' \in [Jobs -> [Episodes -> 0 .. Len(data')]],
           dirs' \in [Dirs -> Folder(Len(data'))],
           RowOK(j, r, dl'[j], Len(data')), UNCHANGED <<mode, db>>
    PROVE  TInv'
<1>1. Len(data) \in Nat
  BY DiskType
<1>2. job' \in [Jobs -> Row] /\ RowsOK'
  BY <1>1, OneRow
<1>3. Types'
  BY <1>2 DEF TInv, Types, db
<1> QED
  BY <1>2, <1>3 DEF TInv

LEMMA CopyStartsType == ASSUME TInv, NEW j \in Jobs, copy_starts(j) PROVE TInv'
<1> DEFINE d == job[j].dir
           p == job[j].place
           i == IF Exists(d, p) THEN dirs[d].at[p] ELSE Len(data) + 1
<1>1.   /\ d \in Dirs /\ p \in Places /\ i \in 1 .. Len(data')
        /\ Len(data') \in Nat /\ Len(data) <= Len(data') /\ data' \in Seq(Contents)
        /\ dirs' = [dirs EXCEPT ![d] = [@ EXCEPT !.exists = TRUE, !.at[p] = i]]
        /\ job' = [job EXCEPT ![j] = [@ EXCEPT !.pc = "copying", !.ino = i]]
  BY CopyDisk
<1>0. i \in Nat
  BY <1>1
<1> HIDE DEF i
<1>2. UNCHANGED <<mode, dl, db>> /\ job[j].pc = "transfer"
  BY DEF copy_starts
<1>3. Len(data) \in Nat /\ dirs \in [Dirs -> Folder(Len(data))]
      /\ dl \in [Jobs -> [Episodes -> 0 .. Len(data)]]
  BY DiskType
<1>4. Folder(Len(data)) \subseteq Folder(Len(data'))
      /\ [Episodes -> 0 .. Len(data)] \subseteq [Episodes -> 0 .. Len(data')]
  BY <1>1, <1>3, DiskGrows
<1>5. dl' \in [Jobs -> [Episodes -> 0 .. Len(data')]] /\ \A k \in Jobs : dl'[k] = dl[k]
  BY <1>2, <1>3, <1>4
<1>6. dirs' \in [Dirs -> Folder(Len(data'))]
  <2>1. dirs[d] \in Folder(Len(data')) /\ i \in 0 .. Len(data')
    BY <1>1, <1>3, <1>4
  <2>2. [dirs[d] EXCEPT !.exists = TRUE, !.at[p] = i] \in Folder(Len(data'))
    BY <2>1 DEF Folder
  <2>3. dirs \in [Dirs -> Folder(Len(data'))]
    BY <1>3, <1>4
  <2> QED
    BY <2>2, <2>3, <1>1
<1> DEFINE r == [job[j] EXCEPT !.pc = "copying", !.ino = i]
<1>7. job[j] \in Row /\ RowOK(j, job[j], dl[j], Len(data))
  BY JobType
<1>8. /\ r \in Row /\ r.pc = "copying" /\ r.ino = i /\ r.todo = job[j].todo
      /\ r.dir = job[j].dir /\ r.place = job[j].place
  BY <1>0, <1>7 DEF Row, Steps, Busy
<1>9. job' = [job EXCEPT ![j] = r]
  BY <1>1
<1> HIDE DEF r
<1>10. RowOK(j, r, dl'[j], Len(data'))
  BY <1>1, <1>2, <1>5, <1>7, <1>8 DEF RowOK, Busy
<1> QED
  BY <1>1, <1>2, <1>5, <1>6, <1>8, <1>9, <1>10, GrownType

\* The disk after the last byte.
LEMMA CopiedDisk ==
    ASSUME TInv, NEW j \in Jobs, copy_ends(j)
    PROVE  LET i == job[j].ino
               content == [what |-> data[dl[j][Moving(j)]].what, whole |-> Whole(dl[j][Moving(j)])]
           IN  /\ job[j].dir \in Dirs /\ job[j].place \in Places /\ Moving(j) \in Episodes
               /\ dl[j][Moving(j)] \in 1 .. Len(data) /\ content \in Contents
               /\ i \in 1 .. Len(data)
               /\ data' \in Seq(Contents) /\ Len(data') = Len(data) /\ data'[i] = content
               /\ \A k \in 1 .. Len(data) : k # i => data'[k] = data[k]
<1> DEFINE i == job[j].ino
           s == dl[j][Moving(j)]
           content == [what |-> data[s].what, whole |-> Whole(s)]
<1>1. job[j].pc = "copying" /\ data' = [data EXCEPT ![i] = content]
  BY DEF copy_ends
<1>2. job[j].dir \in Dirs /\ job[j].place \in Places /\ s # NoFile /\ i \in 1 .. Len(data)
  BY <1>1, JobType DEF RowOK, Busy, Moving
<1>3. Moving(j) \in Episodes
  BY <1>2 DEF Moving, Places
<1>4. Len(data) \in Nat /\ data \in Seq(Contents)
  BY DiskType
<1>5. s \in 1 .. Len(data)
  <2>1. s \in 0 .. Len(data)
    BY <1>3, DiskType
  <2> QED
    BY <2>1, <1>2, <1>4 DEF NoFile
<1>6. content \in Contents
  <2>1. data[s] \in Contents
    BY <1>4, <1>5
  <2>2. Whole(s) \in BOOLEAN
    BY <2>1 DEF Whole, Contents
  <2> QED
    BY <2>1, <2>2 DEF Contents
<1> HIDE DEF content, i
<1>7. /\ data' \in Seq(Contents) /\ Len(data') = Len(data) /\ data'[i] = content
      /\ \A k \in 1 .. Len(data) : k # i => data'[k] = data[k]
  BY <1>1, <1>2, <1>4, <1>6
<1> QED
  BY <1>2, <1>3, <1>5, <1>6, <1>7 DEF content, i

LEMMA CopyEndsType == ASSUME TInv, NEW j \in Jobs, copy_ends(j) PROVE TInv'
<1> DEFINE r == [job[j] EXCEPT !.pc = "record"]
<1>1. data' \in Seq(Contents) /\ Len(data') = Len(data) /\ Moving(j) \in Episodes
  BY CopiedDisk
<1>2. /\ job[j].pc = "copying" /\ UNCHANGED <<mode, dirs, db>> /\ job' = [job EXCEPT ![j] = r]
      /\ dl' = dl \/ dl' = [dl EXCEPT ![j][Moving(j)] = NoFile]
  BY DEF copy_ends
<1>3. Len(data) \in Nat /\ dirs \in [Dirs -> Folder(Len(data))]
      /\ dl \in [Jobs -> [Episodes -> 0 .. Len(data)]]
  BY DiskType
<1>4. dl' \in [Jobs -> [Episodes -> 0 .. Len(data')]]
  <2>1. [dl EXCEPT ![j][Moving(j)] = NoFile] \in [Jobs -> [Episodes -> 0 .. Len(data)]]
    BY <1>1, TakenDisk
  <2> QED
    BY <2>1, <1>1, <1>2, <1>3
<1>5. dl'[j] \in {dl[j], [dl[j] EXCEPT ![Moving(j)] = NoFile]}
      /\ \A k \in Jobs \ {j} : dl'[k] = dl[k]
  BY <1>2, <1>3
<1>6. r \in Row /\ RowOK(j, r, dl'[j], Len(data'))
  BY <1>2, <1>5, RecordRow
<1>7. Len(data') \in Nat /\ Len(data) <= Len(data') /\ dirs' \in [Dirs -> Folder(Len(data'))]
  BY <1>1, <1>2, <1>3
<1> HIDE DEF r
<1> QED
  BY <1>1, <1>2, <1>4, <1>5, <1>6, <1>7, GrownType

\* Steps that change one row and the tables, not the disk.
LEMMA TablesType ==
    ASSUME TInv, NEW j \in Jobs, NEW r \in Row, job' = [job EXCEPT ![j] = r],
           UNCHANGED <<mode, data, dl, dirs, known, folder>>, RowOK(j, r, dl[j], Len(data)),
           eps' \in [Episodes -> [done : BOOLEAN, path : Paths]],
           q' \in [Jobs -> Answers]
    PROVE  TInv'
<1>1. /\ known' \in BOOLEAN /\ folder' \in Dirs \cup {NoDir}
      /\ dirs' \in [Dirs -> Folder(Len(data))]
  BY DEF TInv, Types
<1> QED
  BY <1>1, FoldersType

LEMMA TableTypes ==
    ASSUME TInv
    PROVE  /\ eps \in [Episodes -> [done : BOOLEAN, path : Paths]] /\ q \in [Jobs -> Answers]
           /\ \A e \in Episodes, path \in Paths :
                [eps EXCEPT ![e] = [done |-> TRUE, path |-> path]]
                   \in [Episodes -> [done : BOOLEAN, path : Paths]]
           /\ \A e \in Episodes, b \in BOOLEAN :
                [eps EXCEPT ![e].done = b] \in [Episodes -> [done : BOOLEAN, path : Paths]]
           /\ \A j \in Jobs, a \in Answers : [q EXCEPT ![j] = a] \in [Jobs -> Answers]
BY DEF TInv, Types

\* A row that only moves to a step that owes nothing.
LEMMA EndsRow ==
    ASSUME TInv, NEW j \in Jobs, NEW pc \in Steps \ Busy
    PROVE  /\ [job[j] EXCEPT !.pc = pc] \in Row
           /\ RowOK(j, [job[j] EXCEPT !.pc = pc], dl[j], Len(data))
<1>1. job[j] \in Row /\ job[j].todo \subseteq Holds[j]
  BY JobType DEF RowOK
<1> DEFINE r == [job[j] EXCEPT !.pc = pc]
<1>2. r \in Row /\ r.pc = pc /\ r.todo = job[j].todo
  BY <1>1 DEF Row
<1> HIDE DEF r
<1>3. RowOK(j, r, dl[j], Len(data))
  BY <1>1, <1>2, QuietRow
<1> QED
  BY <1>2, <1>3 DEF r

LEMMA CopyFailsType == ASSUME TInv, NEW j \in Jobs, copy_fails(j) PROVE TInv'
<1> DEFINE r == IF Batch(j) THEN [job[j] EXCEPT !.pc = "record"] ELSE Idle
<1>1. /\ job[j].pc = "copying" /\ job' = [job EXCEPT ![j] = r]
      /\ UNCHANGED <<mode, data, dl, dirs, known, folder>> /\ q' = q /\ eps' = eps
  BY DEF copy_fails, disk, db
<1>2. [job[j] EXCEPT !.pc = "record"] \in Row
      /\ RowOK(j, [job[j] EXCEPT !.pc = "record"], dl[j], Len(data))
  BY <1>1, RecordRow
<1>3. Idle \in Row /\ RowOK(j, Idle, dl[j], Len(data))
  BY IdleRow, QuietRow DEF Busy
<1>4. r \in Row /\ RowOK(j, r, dl[j], Len(data))
  BY <1>2, <1>3
<1> HIDE DEF r
<1> QED
  BY <1>1, <1>4, TableTypes, TablesType

\* Where a step has recorded a file.
LEMMA PathType ==
    ASSUME NEW d \in Dirs, NEW p \in Places
    PROVE  <<d, p>> \in Paths
BY DEF Paths

LEMMA MarkType ==
    ASSUME TInv, NEW j \in Jobs, mark_done(j) \/ mark_primary(j) PROVE TInv'
<1> DEFINE r == [job[j] EXCEPT !.pc = "marked"]
<1>1. /\ job[j].pc \in {"record", "primary"} /\ job' = [job EXCEPT ![j] = r]
      /\ UNCHANGED <<mode, data, dl, dirs, known, folder>> /\ q' = q
  BY DEF mark_done, mark_primary, disk
<1>2. job[j] \in Row /\ RowOK(j, job[j], dl[j], Len(data)) /\ Own[j] \in Episodes
  BY JobType
<1>3. r \in Row /\ r.pc = "marked" /\ r.todo = job[j].todo /\ r.dir = job[j].dir
  BY <1>2 DEF Row, Steps, Busy
<1>4. job[j].dir \in Dirs /\ job[j].todo \subseteq Holds[j]
  BY <1>1, <1>2 DEF RowOK, Busy
<1>5. RowOK(j, r, dl[j], Len(data))
  <2> HIDE DEF r
  <2> QED
    BY <1>3, <1>4 DEF RowOK
<1>6. eps' \in [Episodes -> [done : BOOLEAN, path : Paths]]
  <2>1. CASE mark_done(j)
    <3>1. job[j].place \in Places /\ eps' = [eps EXCEPT ![Own[j]] = [done |-> TRUE, path |-> Path(j)]]
      BY <2>1, <1>2 DEF mark_done, RowOK
    <3>2. Path(j) \in Paths
      BY <3>1, <1>4, PathType DEF Path
    <3> QED
      BY <3>1, <3>2, <1>2, TableTypes
  <2>2. CASE mark_primary(j)
    <3>1. PICK e \in job[j].first :
            eps' = [eps EXCEPT ![Own[j]] = [done |-> TRUE, path |-> <<job[j].dir, <<e, "main">>>>]]
      BY <2>2 DEF mark_primary
    <3>2. <<e, "main">> \in Places
      BY <3>1, <1>2 DEF Row, Places, Versions
    <3>3. <<job[j].dir, <<e, "main">>>> \in Paths
      BY <3>2, <1>4, PathType
    <3> QED
      BY <3>1, <3>3, <1>2, TableTypes
  <2> QED
    BY <2>1, <2>2
<1> HIDE DEF r
<1> QED
  BY <1>1, <1>3, <1>5, <1>6, TableTypes, TablesType

LEMMA RecordBatchType == ASSUME TInv, NEW j \in Jobs, record_batch(j) PROVE TInv'
<1>1. job[j] \in Row /\ RowOK(j, job[j], dl[j], Len(data)) /\ job[j].pc = "record" /\ Batch(j)
  BY JobType DEF record_batch
<1>2. /\ job[j].todo # {} /\ job[j].todo \subseteq Holds[j] /\ job[j].todo \subseteq Episodes
      /\ job[j].dir \in Dirs /\ job[j].place \in Places /\ job[j].first \subseteq Episodes
      /\ \A e \in job[j].todo : e = Least(job[j].todo) \/ dl[j][e] # NoFile
  BY <1>1 DEF RowOK, Busy, Row
<1>3. Current(j) = Least(job[j].todo) /\ Current(j) \in job[j].todo
  BY <1>2, CurrentIn
<1> DEFINE left == job[j].todo \ {Current(j)}
           first == IF job[j].first = {} THEN {Current(j)} ELSE job[j].first
           pc == IF left = {} THEN "primary" ELSE "placed"
           r == [job[j] EXCEPT !.todo = left, !.first = first, !.pc = pc]
<1>4. job' = [job EXCEPT ![j] = r]
  BY DEF record_batch
<1>5. left \subseteq Holds[j] /\ left \subseteq Episodes /\ first \subseteq Episodes /\ first # {}
      /\ pc \in {"primary", "placed"} /\ (pc = "placed" => left # {})
  BY <1>2, <1>3
<1>6. \A e \in left : dl[j][e] # NoFile
  BY <1>2, <1>3
<1> HIDE DEF left, first, pc
<1>7. r \in Row /\ r.pc = pc /\ r.todo = left /\ r.first = first /\ r.dir = job[j].dir
  BY <1>1, <1>5 DEF Row, Steps, Busy
<1>8. left # {} => Least(left) \in left
  <2>1. left \in SUBSET Nat
    BY <1>5, LibraryAssumption
  <2> QED
    BY <2>1, LeastIn
<1> HIDE DEF r
<1>9. RowOK(j, r, dl[j], Len(data))
  BY <1>1, <1>2, <1>5, <1>6, <1>7, <1>8 DEF RowOK
<1>10. /\ UNCHANGED <<mode, data, dl, dirs, known, folder>> /\ q' = q
       /\ eps' = [eps EXCEPT ![Current(j)] = [done |-> TRUE, path |-> Path(j)]]
  BY DEF record_batch, disk
<1>11. Path(j) \in Paths /\ Current(j) \in Episodes
  BY <1>2, <1>3, PathType DEF Path
<1>12. eps' \in [Episodes -> [done : BOOLEAN, path : Paths]]
  BY <1>10, <1>11, TableTypes
<1> QED
  BY <1>4, <1>7, <1>9, <1>10, <1>12, TableTypes, TablesType

LEMMA FinishType == ASSUME TInv, NEW j \in Jobs, Finish(j) PROVE TInv'
<1> DEFINE r == [Idle EXCEPT !.pc = "done"]
<1>1. r \in Row /\ r.pc = "done" /\ r.todo = {}
  BY DEF Row, Steps, Idle, Places, NoPath, NoFile
<1>2. /\ job' = [job EXCEPT ![j] = r]
      /\ UNCHANGED <<mode, data, dl, dirs, known, folder>> /\ eps' = eps /\ q' = q
  BY DEF Finish, disk, db
<1> HIDE DEF r
<1>3. RowOK(j, r, dl[j], Len(data))
  BY <1>1, QuietRow DEF Busy
<1> QED
  BY <1>1, <1>2, <1>3, TableTypes, TablesType

LEMMA InboxType ==
    ASSUME TInv, NEW j \in Jobs,
           \/ \E choice \in {"keep", "replace", "both"} : Answer(j, choice)
           \/ Expire(j) \/ Retry(j)
    PROVE  TInv'
<1>1. PICK pc \in Steps \ Busy : job' = [job EXCEPT ![j].pc = pc]
  <2>1. {"done", "finalize", "failed"} \subseteq Steps \ Busy
    BY DEF Steps, Busy
  <2>2. \E pc \in {"done", "finalize", "failed"} : job' = [job EXCEPT ![j].pc = pc]
    BY DEF Answer, Expire, Retry
  <2> QED
    BY <2>1, <2>2
<1> DEFINE r == [job[j] EXCEPT !.pc = pc]
<1>2. r \in Row /\ RowOK(j, r, dl[j], Len(data))
  BY EndsRow
<1>3. job' = [job EXCEPT ![j] = r]
  BY <1>1
<1>4. UNCHANGED <<mode, data, dl, dirs, known, folder>>
  BY DEF Answer, Expire, Retry, disk, db
<1>5. eps' \in [Episodes -> [done : BOOLEAN, path : Paths]]
  <2>1. eps' = eps \/ \E b \in BOOLEAN : eps' = [eps EXCEPT ![Own[j]].done = b]
    BY DEF Answer, Expire, Retry, db
  <2>2. Own[j] \in Episodes
    BY JobType
  <2> QED
    BY <2>1, <2>2, TableTypes
<1>6. q' \in [Jobs -> Answers]
  <2>1. q' = q \/ \E a \in Answers : q' = [q EXCEPT ![j] = a]
    BY DEF Answer, Expire, Retry, db, Answers
  <2> QED
    BY <2>1, TableTypes
<1> HIDE DEF r
<1> QED
  BY <1>2, <1>3, <1>4, <1>5, <1>6, TablesType

\* Fresh inodes for what a job downloads again: one each.
LEMMA FreshInodes ==
    ASSUME NEW S \in SUBSET Nat, IsFiniteSet(S)
    PROVE  /\ \A e \in S : Cardinality({f \in S : f <= e}) \in 1 .. Cardinality(S)
           /\ \A e, f \in S :
                Cardinality({g \in S : g <= e}) = Cardinality({g \in S : g <= f}) => e = f
<1> DEFINE upto(e) == {f \in S : f <= e}
<1>1. \A e \in S : IsFiniteSet(upto(e)) /\ Cardinality(upto(e)) \in Nat
                   /\ Cardinality(upto(e)) <= Cardinality(S) /\ Cardinality(S) \in Nat
  BY FS_Subset, FS_CardinalityType
<1>2. \A e \in S : Cardinality(upto(e)) # 0
  <2> SUFFICES ASSUME NEW e \in S PROVE Cardinality(upto(e)) # 0
    OBVIOUS
  <2>1. e \in upto(e)
    OBVIOUS
  <2> HIDE DEF upto
  <2> QED
    BY <2>1, <1>1, FS_EmptySet
<1>3. ASSUME NEW e \in S, NEW f \in S, Cardinality(upto(e)) = Cardinality(upto(f)), e < f
      PROVE  FALSE
  <2>0. e \in Nat /\ f \in Nat /\ \A g \in S : g \in Nat
    OBVIOUS
  <2>2. f <= f /\ ~ (f <= e) /\ \A g \in S : g <= e => g <= f
    BY <2>0, <1>3
  <2>1. upto(e) \in SUBSET upto(f) /\ f \in upto(f) /\ f \notin upto(e)
    BY <2>2
  <2> HIDE DEF upto
  <2>3. upto(e) = upto(f)
    BY <2>1, <1>1, <1>3, FS_Subset
  <2> QED
    BY <2>1, <2>3
<1>4. \A e, f \in S : Cardinality(upto(e)) = Cardinality(upto(f)) => e = f
  <2> SUFFICES ASSUME NEW e \in S, NEW f \in S, Cardinality(upto(e)) = Cardinality(upto(f))
               PROVE  e = f
    OBVIOUS
  <2>1. e \in Nat /\ f \in Nat
    OBVIOUS
  <2>2. ~ (e < f) /\ ~ (f < e)
    BY <1>3
  <2> QED
    BY <2>1, <2>2
<1>5. \A e \in S : Cardinality(upto(e)) \in 1 .. Cardinality(S)
  <2> HIDE DEF upto
  <2> QED
    BY <1>1, <1>2
<1> QED
  BY <1>4, <1>5

\* What a download leaves: whole files of the job, behind the old ones.
LEMMA DownloadDisk ==
    ASSUME TInv, NEW j \in Jobs, Download(j)
    PROVE  LET gone == {e \in Holds[j] : ~Whole(dl[j][e])}
           IN  /\ data' \in Seq(Contents) /\ Len(data') \in Nat /\ Len(data) <= Len(data')
               /\ \A k \in 1 .. Len(data) : data'[k] = data[k]
               /\ \A k \in (Len(data) + 1) .. Len(data') : data'[k] = [what |-> j, whole |-> TRUE]
               /\ dl' \in [Jobs -> [Episodes -> 0 .. Len(data')]]
               /\ \A k \in Jobs \ {j} : dl'[k] = dl[k]
               /\ \A e \in Episodes \ gone : dl'[j][e] = dl[j][e]
               /\ \A e \in gone : dl'[j][e] \in (Len(data) + 1) .. Len(data')
               /\ \A e, f \in gone : dl'[j][e] = dl'[j][f] => e = f
<1> DEFINE gone == {e \in Holds[j] : ~Whole(dl[j][e])}
           upto(e) == {f \in gone : f <= e}
           nth(e) == Len(data) + Cardinality(upto(e))
           n == Cardinality(gone)
           new == [k \in 1 .. n |-> [what |-> j, whole |-> TRUE]]
<1>1. /\ data' = data \o new
      /\ dl' = [dl EXCEPT ![j] = [e \in Episodes |-> IF e \in gone THEN nth(e) ELSE dl[j][e]]]
  BY DEF Download
<1>2. Len(data) \in Nat /\ data \in Seq(Contents) /\ dl \in [Jobs -> [Episodes -> 0 .. Len(data)]]
  BY DiskType
<1>3. gone \in SUBSET Nat /\ gone \subseteq Episodes /\ IsFiniteSet(gone)
  <2>1. gone \in SUBSET Episodes
    BY LibraryAssumption
  <2> HIDE DEF gone
  <2> QED
    BY <2>1, LibraryAssumption, FS_Subset
<1>4. n \in Nat
  <2> HIDE DEF gone
  <2> QED
    BY <1>3, FS_CardinalityType
<1>5. /\ \A e \in gone : Cardinality(upto(e)) \in 1 .. n
      /\ \A e, f \in gone : Cardinality(upto(e)) = Cardinality(upto(f)) => e = f
  <2> HIDE DEF gone
  <2> QED
    BY <1>3, FreshInodes
<1> HIDE DEF n
<1>6. new \in Seq(Contents) /\ Len(new) = n /\ \A k \in 1 .. n : new[k] = [what |-> j, whole |-> TRUE]
  BY <1>4 DEF Contents
<1> HIDE DEF new
<1>7. /\ data' \in Seq(Contents) /\ Len(data') = Len(data) + n
      /\ \A k \in 1 .. Len(data) : data'[k] = data[k]
      /\ \A k \in (Len(data) + 1) .. (Len(data) + n) : data'[k] = new[k - Len(data)]
  BY <1>1, <1>2, <1>6, <1>4
<1>8. Len(data') \in Nat /\ Len(data) <= Len(data')
  BY <1>7, <1>2, <1>4
<1>9. \A k \in (Len(data) + 1) .. Len(data') : data'[k] = [what |-> j, whole |-> TRUE]
  <2> SUFFICES ASSUME NEW k \in (Len(data) + 1) .. Len(data')
               PROVE  data'[k] = [what |-> j, whole |-> TRUE]
    OBVIOUS
  <2>1. k - Len(data) \in 1 .. n /\ k \in (Len(data) + 1) .. (Len(data) + n)
    BY <1>2, <1>4, <1>7
  <2> QED
    BY <2>1, <1>6, <1>7
<1>10. /\ \A e \in gone : nth(e) \in (Len(data) + 1) .. Len(data')
       /\ \A e, f \in gone : nth(e) = nth(f) => e = f
  <2> HIDE DEF gone, upto
  <2> QED
    BY <1>2, <1>4, <1>5, <1>7
<1> HIDE DEF gone, nth, upto
<1>11. /\ \A k \in Jobs \ {j} : dl'[k] = dl[k]
       /\ \A e \in Episodes : dl'[j][e] = IF e \in gone THEN nth(e) ELSE dl[j][e]
  BY <1>1, <1>2
<1>12. \A e \in Episodes : (IF e \in gone THEN nth(e) ELSE dl[j][e]) \in 0 .. Len(data')
  <2>1. 0 .. Len(data) \subseteq 0 .. Len(data')
    BY <1>2, <1>8
  <2>2. (Len(data) + 1) .. Len(data') \subseteq 0 .. Len(data')
    BY <1>2, <1>8
  <2>3. \A e \in Episodes : dl[j][e] \in 0 .. Len(data)
    BY <1>2
  <2> QED
    BY <2>1, <2>2, <2>3, <1>10
<1>13. dl' \in [Jobs -> [Episodes -> 0 .. Len(data')]]
  <2>1. [Episodes -> 0 .. Len(data)] \subseteq [Episodes -> 0 .. Len(data')]
    BY <1>2, <1>8, DiskGrows
  <2> QED
    BY <2>1, <1>1, <1>2, <1>12
<1>14. /\ \A e \in Episodes \ gone : dl'[j][e] = dl[j][e]
       /\ \A e \in gone : dl'[j][e] \in (Len(data) + 1) .. Len(data')
       /\ \A e, f \in gone : dl'[j][e] = dl'[j][f] => e = f
  BY <1>3, <1>10, <1>11
<1> QED
  BY <1>7, <1>8, <1>9, <1>11, <1>13, <1>14 DEF gone

LEMMA DownloadType == ASSUME TInv, NEW j \in Jobs, Download(j) PROVE TInv'
<1> DEFINE r == [job[j] EXCEPT !.pc = "finalize"]
<1>1. /\ data' \in Seq(Contents) /\ Len(data') \in Nat /\ Len(data) <= Len(data')
      /\ dl' \in [Jobs -> [Episodes -> 0 .. Len(data')]]
      /\ \A k \in Jobs \ {j} : dl'[k] = dl[k]
  BY DownloadDisk
<1>2. UNCHANGED <<mode, dirs, db>> /\ job' = [job EXCEPT ![j] = r]
  BY DEF Download
<1>3. job[j] \in Row /\ job[j].todo \subseteq Holds[j]
  BY JobType DEF RowOK
<1>4. r \in Row /\ r.pc = "finalize" /\ r.todo = job[j].todo
  BY <1>3 DEF Row, Steps
<1> HIDE DEF r
<1>5. RowOK(j, r, dl'[j], Len(data'))
  BY <1>3, <1>4, QuietRow DEF Busy
<1>6. dirs' \in [Dirs -> Folder(Len(data'))]
  BY <1>1, <1>2, DiskType, DiskGrows
<1> QED
  BY <1>1, <1>2, <1>4, <1>5, <1>6, GrownType

\* The rows after a kill, and after what no job does.
LEMMA KillType == ASSUME TInv, Kill PROVE TInv'
<1>1. UNCHANGED <<mode, data, dl, dirs, known, folder, eps, q>>
      /\ job' = [k \in Jobs |-> IF job[k].pc \in Busy THEN Idle ELSE job[k]]
  BY DEF Kill, disk, db
<1>2. ASSUME NEW k \in Jobs PROVE job'[k] \in Row /\ RowOK(k, job'[k], dl[k], Len(data))
  <2>1. job'[k] = Idle \/ job'[k] = job[k]
    BY <1>1
  <2>2. RowOK(k, Idle, dl[k], Len(data))
    BY IdleRow, QuietRow DEF Busy
  <2> QED
    BY <2>1, <2>2, IdleRow, JobType
<1>3. job' \in [Jobs -> Row] /\ RowsOK'
  <2>1. job' = [k \in Jobs |-> job'[k]]
    BY <1>1
  <2> QED
    BY <2>1, <1>1, <1>2 DEF RowsOK
<1> QED
  BY <1>1, <1>3 DEF TInv, Types

LEMMA OutsideType ==
    ASSUME TInv, UNCHANGED <<mode, data, dl, job, q>>,
           dirs' \in [Dirs -> Folder(Len(data))], known' \in BOOLEAN,
           folder' \in Dirs \cup {NoDir},
           eps' \in [Episodes -> [done : BOOLEAN, path : Paths]]
    PROVE  TInv'
BY DEF TInv, Types, RowsOK

\* Of the files of an episode one is read last.
LEMMA LastFile ==
    ASSUME NEW S, S # {}, NEW rank \in [S -> 0 .. 3]
    PROVE  \E f \in S : \A g \in S : rank[g] <= rank[f]
<1>1. CASE \E f \in S : rank[f] = 3
  BY <1>1
<1>2. CASE ~ (\E f \in S : rank[f] = 3) /\ \E f \in S : rank[f] = 2
  BY <1>2
<1>3. CASE ~ (\E f \in S : rank[f] \in {2, 3}) /\ \E f \in S : rank[f] = 1
  BY <1>3
<1>4. CASE ~ (\E f \in S : rank[f] \in {1, 2, 3})
  BY <1>4
<1> QED
  BY <1>1, <1>2, <1>3, <1>4

\* What a rescan writes.
LEMMA RescanWrites ==
    ASSUME TInv, Rescan
    PROVE  /\ dirs' = [d \in Dirs |-> [dirs[d] EXCEPT !.marker = @ \/ d \in Claimed]]
           /\ Claimed = {} => folder' = folder /\ eps' = eps
           /\ Claimed # {} =>
                 /\ folder' \in Claimed
                 /\ eps' \in [Episodes -> [done : BOOLEAN, path : Paths]]
                 /\ \A e \in Episodes :
                       eps'[e] = eps[e] \/ (eps'[e].path \in Paths /\ eps'[e].path[1] \in Claimed)
<1>1. dirs' = [d \in Dirs |-> [dirs[d] EXCEPT !.marker = @ \/ d \in Claimed]]
  BY DEF Rescan, Claimed
<1>2. Claimed = {} => folder' = folder /\ eps' = eps
  BY DEF Rescan, Claimed
<1>3. ASSUME Claimed # {}
      PROVE  /\ folder' \in Claimed
             /\ eps' \in [Episodes -> [done : BOOLEAN, path : Paths]]
             /\ \A e \in Episodes :
                   eps'[e] = eps[e] \/ (eps'[e].path \in Paths /\ eps'[e].path[1] \in Claimed)
  <2> DEFINE files(e) == {f \in Claimed \X Places : f[2][1] = e /\ dirs[f[1]].at[f[2]] # NoFile}
             later(last, final, f) == (IF f[1] = last THEN 2 ELSE 0) + (IF f[2][2] = final THEN 1 ELSE 0)
             read(last, final, e) == CHOOSE f \in files(e) : \A g \in files(e) : later(last, final, g) <= later(last, final, f)
  <2>1. PICK last \in Claimed, final \in Versions :
          /\ folder' = last
          /\ eps' = [e \in Episodes |-> IF files(e) = {} THEN eps[e]
                                        ELSE [done |-> TRUE, path |-> read(last, final, e)]]
    BY <1>3 DEF Rescan, Claimed
  <2>2. ASSUME NEW e \in Episodes, files(e) # {}
        PROVE  read(last, final, e) \in Claimed \X Places
    <3> DEFINE S == files(e)
               rank == [f \in S |-> later(last, final, f)]
    <3>1. rank \in [S -> 0 .. 3]
      OBVIOUS
    <3>2. \A f \in S : rank[f] = later(last, final, f)
      OBVIOUS
    <3> HIDE DEF rank
    <3>3. \E f \in S : \A g \in S : rank[g] <= rank[f]
      <4> HIDE DEF S
      <4> QED
        BY <3>1, <2>2, LastFile DEF S
    <3>4. \E f \in S : \A g \in S : later(last, final, g) <= later(last, final, f)
      <4> HIDE DEF S, later
      <4> QED
        BY <3>2, <3>3
    <3>5. read(last, final, e) \in S
      <4> HIDE DEF later
      <4> QED
        BY <3>4
    <3> QED
      BY <3>5
  <2>3. \A e \in Episodes : files(e) # {} =>
           read(last, final, e) \in Paths /\ read(last, final, e)[1] \in Claimed
    <3>1. Claimed \subseteq Dirs
      BY DEF Claimed
    <3>2. \A x \in Claimed \X Places : x \in Dirs \X Places /\ x[1] \in Claimed
      BY <3>1
    <3> HIDE DEF read, files
    <3> QED
      BY <2>2, <3>2 DEF Paths
  <2>4. eps \in [Episodes -> [done : BOOLEAN, path : Paths]]
    BY TableTypes
  <2> HIDE DEF read, files
  <2> QED
    BY <2>1, <2>3, <2>4
<1> QED
  BY <1>1, <1>2, <1>3

LEMMA RescanType == ASSUME TInv, Rescan PROVE TInv'
<1>1. UNCHANGED <<mode, data, dl, job, q, known>>
  BY DEF Rescan
<1>2. dirs \in [Dirs -> Folder(Len(data))] /\ known \in BOOLEAN /\ folder \in Dirs \cup {NoDir}
      /\ eps \in [Episodes -> [done : BOOLEAN, path : Paths]]
  BY DEF TInv, Types
<1>3. dirs' \in [Dirs -> Folder(Len(data))]
  <2>1. \A d \in Dirs : (dirs[d].marker \/ d \in Claimed) \in BOOLEAN
    OBVIOUS
  <2>2. \A d \in Dirs : [dirs[d] EXCEPT !.marker = @ \/ d \in Claimed] \in Folder(Len(data))
    BY <2>1, <1>2 DEF Folder
  <2> QED
    BY <2>2, RescanWrites
<1>4. folder' \in Dirs \cup {NoDir} /\ eps' \in [Episodes -> [done : BOOLEAN, path : Paths]]
  BY <1>2, RescanWrites DEF Claimed
<1> QED
  BY <1>1, <1>2, <1>3, <1>4, OutsideType

LEMMA UserType ==
    ASSUME TInv,
           \/ \E d, e \in Dirs : Rename(d, e)
           \/ StoreSynopsis \/ rewrite_show_folder_metadata \/ metadata_fails
    PROVE  TInv'
<1>1. UNCHANGED <<mode, data, dl, job, q>> /\ known' \in BOOLEAN /\ folder' = folder /\ eps' = eps
  BY DEF Rename, StoreSynopsis, rewrite_show_folder_metadata, metadata_fails, db, disk, TInv, Types
<1>2. dirs \in [Dirs -> Folder(Len(data))] /\ folder \in Dirs \cup {NoDir}
      /\ eps \in [Episodes -> [done : BOOLEAN, path : Paths]]
  BY DEF TInv, Types
<1>3. dirs' \in [Dirs -> Folder(Len(data))]
  <2>1. CASE \E d, e \in Dirs : Rename(d, e)
    BY <2>1, <1>2 DEF Rename
  <2>2. CASE StoreSynopsis
    BY <2>2, <1>2 DEF StoreSynopsis, disk
  <2>3. CASE rewrite_show_folder_metadata
    BY <2>3, <1>2 DEF rewrite_show_folder_metadata, Folder, Synopses
  <2>4. CASE metadata_fails
    BY <2>4, <1>2 DEF metadata_fails, Folder, Synopses
  <2> QED
    BY <2>1, <2>2, <2>3, <2>4
<1> QED
  BY <1>1, <1>2, <1>3, OutsideType

LEMMA TypesKept == TInv /\ [Next]_vars => TInv'
<1> SUFFICES ASSUME TInv, [Next]_vars PROVE TInv'
  OBVIOUS
<1>1. CASE UNCHANGED vars
  BY <1>1 DEF vars, disk, db, TInv, Types, RowsOK
<1>2. CASE \E j \in Jobs : JobStep(j)
  BY <1>2, BeginType, DecorateType, PlaceFreeType, AsksType, AnsweredType, PlaceBatchType,
     AtOnceType, CopyStartsType, CopyEndsType, CopyFailsType, MarkType, RecordBatchType,
     FinishType DEF JobStep
<1>3. CASE \E j \in Jobs :
             \/ \E choice \in {"keep", "replace", "both"} : Answer(j, choice)
             \/ Expire(j) \/ Retry(j) \/ Download(j)
  BY <1>3, InboxType, DownloadType
<1> QED
  BY <1>1, <1>2, <1>3, KillType, RescanType, UserType DEF Next

\* The sequence of the downloads names each of them once.
LEMMA DownloadedEnumerates ==
    LET S == {x \in Jobs \X Episodes : x[2] \in Holds[x[1]]}
        n == Cardinality(S)
    IN  /\ n \in Nat /\ Downloaded \in [1 .. n -> S]
        /\ \A k, l \in 1 .. n : Downloaded[k] = Downloaded[l] => k = l
        /\ \A x \in S : \E k \in 1 .. n : Downloaded[k] = x
<1> DEFINE S == {x \in Jobs \X Episodes : x[2] \in Holds[x[1]]}
           n == Cardinality(S)
<1>1. IsFiniteSet(S)
  <2>1. IsFiniteSet(Jobs \X Episodes)
    BY LibraryAssumption, FS_Product
  <2>2. S \in SUBSET (Jobs \X Episodes)
    OBVIOUS
  <2> QED
    BY <2>1, <2>2, FS_Subset
<1>2. Downloaded = CHOOSE f \in [1 .. n -> S] : IsInjective(f)
  BY DEF Downloaded, SetToSeq
<1> HIDE DEF S
<1>3. n \in Nat /\ ExistsBijection(1 .. n, S)
  BY <1>1, FS_CardinalityType
<1>4. \E f \in [1 .. n -> S] : IsInjective(f)
  <2>1. PICK f : f \in Bijection(1 .. n, S)
    BY <1>3 DEF ExistsBijection
  <2> QED
    BY <2>1 DEF Bijection, Injection, IsInjective
<1> HIDE DEF n
<1>5. Downloaded \in [1 .. n -> S] /\ IsInjective(Downloaded)
  BY <1>2, <1>4
<1>6. Downloaded \in Injection(1 .. n, S)
  BY <1>5 DEF Injection, IsInjective
<1>7. Cardinality(1 .. n) = n
  BY <1>3, FS_Interval
<1>8. Downloaded \in Surjection(1 .. n, S)
  BY <1>1, <1>6, <1>7, FS_Injection DEF n
<1>9. \A k, l \in 1 .. n : Downloaded[k] = Downloaded[l] => k = l
  BY <1>5 DEF IsInjective
<1>10. \A x \in S : \E k \in 1 .. n : Downloaded[k] = x
  BY <1>8 DEF Surjection
<1> QED
  BY <1>3, <1>5, <1>9, <1>10 DEF S, n

\* A sequence behind one element.
LEMMA BehindOne ==
    ASSUME NEW S, NEW u \in Seq(S), Len(u) = 1, NEW t \in Seq(S)
    PROVE  /\ u \o t \in Seq(S) /\ Len(u \o t) = 1 + Len(t)
           /\ \A k \in 1 .. Len(t) : (u \o t)[1 + k] = t[k]
<1>1. /\ u \o t \in Seq(S) /\ Len(u \o t) = Len(u) + Len(t)
      /\ \A i \in 1 .. Len(u) + Len(t) :
           (u \o t)[i] = IF i <= Len(u) THEN u[i] ELSE t[i - Len(u)]
  BY ConcatProperties, Zenon
<1>2. Len(t) \in Nat
  OBVIOUS
<1>3. \A k \in 1 .. Len(t) :
         1 + k \in 1 .. Len(u) + Len(t) /\ ~ (1 + k <= Len(u)) /\ (1 + k) - Len(u) = k
  BY <1>2
<1> QED
  BY <1>1, <1>3

\* The disk of a first launch: the user's file, and a whole file per download.
LEMMA InitDisk ==
    ASSUME Init
    PROVE  /\ data \in Seq(Contents) /\ Len(data) \in Nat \ {0}
           /\ dl \in [Jobs -> [Episodes -> 0 .. Len(data)]]
           /\ \A j \in Jobs, e \in Episodes : e \notin Holds[j] => dl[j][e] = NoFile
           /\ \A j \in Jobs, e \in Episodes : dl[j][e] # NoFile =>
                 dl[j][e] \in 2 .. Len(data) /\ data[dl[j][e]] = [what |-> j, whole |-> TRUE]
           /\ \A j, k \in Jobs, e, f \in Episodes :
                 dl[j][e] # NoFile /\ dl[j][e] = dl[k][f] => j = k /\ e = f
<1> DEFINE S == {x \in Jobs \X Episodes : x[2] \in Holds[x[1]]}
           n == Cardinality(S)
           user == <<[what |-> "user", whole |-> TRUE]>>
           files == [k \in DOMAIN Downloaded |-> [what |-> Downloaded[k][1], whole |-> TRUE]]
           at(j, e) == CHOOSE k \in DOMAIN Downloaded : Downloaded[k] = <<j, e>>
<1>1. /\ n \in Nat /\ Downloaded \in [1 .. n -> S]
      /\ \A k, l \in 1 .. n : Downloaded[k] = Downloaded[l] => k = l
      /\ \A x \in S : \E k \in 1 .. n : Downloaded[k] = x
  BY DownloadedEnumerates
<1>2. /\ data = user \o files
      /\ dl = [j \in Jobs |-> [e \in Episodes |-> IF e \in Holds[j] THEN 1 + at(j, e) ELSE NoFile]]
  BY DEF Init
<1>3. ASSUME NEW j \in Jobs, NEW e \in Episodes, e \in Holds[j]
      PROVE  at(j, e) \in 1 .. n /\ Downloaded[at(j, e)] = <<j, e>>
  <2>1. <<j, e>> \in S
    BY <1>3
  <2> HIDE DEF S, n
  <2> QED
    BY <2>1, <1>1
<1>4. \A x \in S : x[1] \in Jobs
  OBVIOUS
<1> HIDE DEF S, n
<1>5. files \in Seq(Contents) /\ Len(files) = n
      /\ \A k \in 1 .. n : files[k] = [what |-> Downloaded[k][1], whole |-> TRUE]
  <2>1. \A k \in 1 .. n : [what |-> Downloaded[k][1], whole |-> TRUE] \in Contents
    BY <1>1, <1>4 DEF Contents
  <2>2. files = [k \in 1 .. n |-> [what |-> Downloaded[k][1], whole |-> TRUE]]
    BY <1>1
  <2> HIDE DEF files
  <2> QED
    BY <2>1, <2>2, <1>1
<1>6. user \in Seq(Contents) /\ Len(user) = 1
  BY DEF Contents
<1> HIDE DEF files, user
<1>7. data \in Seq(Contents) /\ Len(data) = 1 + n /\ \A k \in 1 .. n : data[1 + k] = files[k]
  <2>1. data = user \o files /\ Len(files) = n /\ files \in Seq(Contents)
    BY <1>2, <1>5
  <2> QED
    BY <2>1, <1>6, BehindOne
<1> HIDE DEF at
<1>8. ASSUME NEW j \in Jobs, NEW e \in Episodes
      PROVE  /\ e \notin Holds[j] => dl[j][e] = NoFile
             /\ e \in Holds[j] => dl[j][e] = 1 + at(j, e) /\ at(j, e) \in 1 .. n
             /\ dl[j][e] \in 0 .. Len(data)
             /\ dl[j][e] # NoFile => dl[j][e] \in 2 .. Len(data) /\ e \in Holds[j]
  BY <1>1, <1>2, <1>3, <1>7 DEF NoFile
<1>9. dl \in [Jobs -> [Episodes -> 0 .. Len(data)]]
  BY <1>2, <1>8
<1>10. ASSUME NEW j \in Jobs, NEW e \in Episodes, dl[j][e] # NoFile
       PROVE  data[dl[j][e]] = [what |-> j, whole |-> TRUE]
  <2>1. dl[j][e] = 1 + at(j, e) /\ at(j, e) \in 1 .. n /\ Downloaded[at(j, e)] = <<j, e>>
    BY <1>8, <1>3, <1>10
  <2>2. data[dl[j][e]] = files[at(j, e)]
    BY <2>1, <1>7
  <2>3. files[at(j, e)] = [what |-> Downloaded[at(j, e)][1], whole |-> TRUE]
    BY <2>1, <1>5
  <2> QED
    BY <2>1, <2>2, <2>3
<1>11. ASSUME NEW j \in Jobs, NEW k \in Jobs, NEW e \in Episodes, NEW f \in Episodes,
              dl[j][e] # NoFile, dl[j][e] = dl[k][f]
       PROVE  j = k /\ e = f
  <2>1. /\ dl[j][e] = 1 + at(j, e) /\ at(j, e) \in 1 .. n /\ Downloaded[at(j, e)] = <<j, e>>
        /\ dl[k][f] = 1 + at(k, f) /\ at(k, f) \in 1 .. n /\ Downloaded[at(k, f)] = <<k, f>>
    BY <1>8, <1>3, <1>11
  <2>2. at(j, e) = at(k, f)
    BY <2>1, <1>1, <1>11
  <2>3. <<j, e>> = <<k, f>>
    BY <2>1, <2>2
  <2> QED
    BY <2>3
<1>12. Len(data) \in Nat \ {0}
  BY <1>1, <1>7
<1> QED
  BY <1>7, <1>8, <1>9, <1>10, <1>11, <1>12

LEMMA InitTypes == Init => TInv
<1> SUFFICES ASSUME Init PROVE TInv
  OBVIOUS
<1>1. data \in Seq(Contents) /\ Len(data) \in Nat \ {0}
      /\ dl \in [Jobs -> [Episodes -> 0 .. Len(data)]]
  BY InitDisk
<1>2. dirs \in [Dirs -> Folder(Len(data))]
  <2>1. PICK there \in BOOLEAN :
         dirs = [d \in Dirs |->
                   [exists |-> there /\ d = Default, marker |-> FALSE, syn |-> "none",
                    at |-> [p \in Places |->
                        IF there /\ d = Default /\ p = <<1, "main">> THEN 1 ELSE NoFile]]]
    BY DEF Init
  <2>2. 0 \in 0 .. Len(data) /\ 1 \in 0 .. Len(data)
    BY <1>1
  <2>3. \A d \in Dirs : [p \in Places |-> IF there /\ d = Default /\ p = <<1, "main">> THEN 1 ELSE NoFile]
                           \in [Places -> 0 .. Len(data)]
    BY <2>2 DEF NoFile
  <2> QED
    BY <2>1, <2>3 DEF Folder, Synopses
<1>3. eps \in [Episodes -> [done : BOOLEAN, path : Paths]] /\ q \in [Jobs -> Answers]
      /\ folder \in Dirs \cup {NoDir} /\ known \in BOOLEAN /\ mode \in Modes
  BY DEF Init, Paths, Answers
<1>4. job = [j \in Jobs |-> Idle] /\ job \in [Jobs -> Row]
  BY IdleRow DEF Init
<1>5. RowsOK
  <2> SUFFICES ASSUME NEW j \in Jobs PROVE RowOK(j, Idle, dl[j], Len(data))
    BY <1>4 DEF RowsOK
  <2> QED
    BY IdleRow, QuietRow DEF Busy
<1> QED
  BY <1>1, <1>2, <1>3, <1>4, <1>5 DEF TInv, Types

\* The tables, the disk and the jobs keep their types, every path leads to an
\* inode, and a transfer never starts from a download that is gone.
THEOREM TypeCorrect == Spec => []TypeOK
<1>1. TInv => TypeOK
  <2> SUFFICES ASSUME TInv PROVE TypeOK
    OBVIOUS
  <2>1. \A j \in Jobs : /\ job[j].pc \in Steps /\ job[j].todo \subseteq Holds[j]
                        /\ job[j].pc = "transfer" => dl[j][Moving(j)] # NoFile
    BY JobType DEF RowOK, Row, Moving
  <2>2. \A e \in Episodes : eps[e].path \in Paths
    BY TableTypes
  <2> QED
    BY <2>1, <2>2 DEF TInv, Types, TypeOK, Contents, Folder, Synopses, Paths, Answers, Steps
<1> QED
  BY <1>1, InitTypes, TypesKept, PTL DEF Spec

-----------------------------------------------------------------------------
(* The synopsis.                                                           *)

\* The steps of one job, and what the Inbox and qBittorrent do for it.
StepOf(j) ==
    \/ JobStep(j)
    \/ \E choice \in {"keep", "replace", "both"} : Answer(j, choice)
    \/ Expire(j) \/ Retry(j) \/ Download(j)

\* A job's step leaves the rows of the others alone.
LEMMA OwnRow ==
    ASSUME TInv, NEW j \in Jobs, StepOf(j), NEW k \in Jobs \ {j}
    PROVE  job'[k] = job[k]
<1>1. job \in [Jobs -> Row]
  BY JobType
<1>2. \E r : job' = [job EXCEPT ![j] = r]
  <2>1. CASE Begin(j)
    BY <2>1 DEF Begin
  <2>2. CASE Decorate(j) \/ collision_asks(j)
    BY <2>2 DEF Decorate, collision_asks
  <2>3. CASE PlaceFree(j) \/ collision_answered(j) \/ PlaceBatch(j)
    BY <2>3 DEF PlaceFree, collision_answered, PlaceBatch, Goes
  <2>4. CASE transfer_at_once(j) \/ copy_ends(j) \/ copy_fails(j)
    BY <2>4 DEF transfer_at_once, copy_ends, copy_fails
  <2>5. CASE copy_starts(j)
    BY <2>5 DEF copy_starts
  <2>6. CASE mark_done(j) \/ record_batch(j) \/ mark_primary(j) \/ Finish(j)
    BY <2>6 DEF mark_done, record_batch, mark_primary, Finish
  <2>7. CASE ~JobStep(j)
    BY <2>7 DEF StepOf, Answer, Expire, Retry, Download
  <2> QED
    BY <2>1, <2>2, <2>3, <2>4, <2>5, <2>6, <2>7 DEF JobStep
<1> QED
  BY <1>1, <1>2

\* Only its own Decorate takes a job from its folder to its files.
LEMMA OnlyDecorate ==
    ASSUME TInv, Next, NEW j \in Jobs, job[j].pc = "decorate", job'[j].pc = "placed"
    PROVE  Decorate(j)
<1>1. CASE \E k \in Jobs : StepOf(k)
  <2>1. PICK k \in Jobs : StepOf(k)
    BY <1>1
  <2>2. k = j
    BY <2>1, OwnRow
  <2> QED
    BY <2>1, <2>2 DEF StepOf, JobStep, Begin, PlaceFree, collision_asks, Collides,
       collision_answered, PlaceBatch, transfer_at_once, copy_starts, copy_ends, copy_fails,
       mark_done, record_batch, mark_primary, Finish, Answer, Expire, Retry, Download
<1>2. CASE Kill
  BY <1>2, IdleRow DEF Kill, Busy
<1>3. CASE (\E d, e \in Dirs : Rename(d, e)) \/ Rescan \/ StoreSynopsis
           \/ rewrite_show_folder_metadata \/ metadata_fails
  BY <1>3 DEF Rename, Rescan, StoreSynopsis, rewrite_show_folder_metadata, metadata_fails
<1> QED
  BY <1>1, <1>2, <1>3 DEF Next, StepOf

\* SynopsisKept: should_write looks at the file when it writes, so the row the step
\* read before its network requests cannot undo what arrived during them.
THEOREM SynopsisSurvives == Spec => SynopsisKept
<1> DEFINE A == \A j \in Jobs : job[j].pc = "decorate" /\ job'[j].pc = "placed" =>
                  \A d \in Dirs : dirs[d].syn = "real" => dirs'[d].syn = "real"
<1>1. ASSUME TInv, [Next]_vars PROVE [A]_vars
  <2> SUFFICES ASSUME Next, NEW j \in Jobs, job[j].pc = "decorate", job'[j].pc = "placed",
                      NEW d \in Dirs, dirs[d].syn = "real"
               PROVE  dirs'[d].syn = "real"
    BY <1>1
  <2>1. Decorate(j)
    BY <1>1, OnlyDecorate
  <2>2. \/ dirs' = dirs
        \/ \E text \in {"real", "placeholder"} :
              /\ should_write(dirs[job[j].dir].syn, text)
              /\ dirs' = [dirs EXCEPT ![job[j].dir].syn = text]
    BY <2>1 DEF Decorate
  <2>3. dirs \in [Dirs -> Folder(Len(data))]
    BY <1>1, DiskType
  <2> QED
    BY <2>2, <2>3 DEF should_write, Folder
<1> QED
  BY <1>1, InitTypes, TypesKept, PTL DEF Spec, SynopsisKept

-----------------------------------------------------------------------------
(* The folder.                                                             *)

\* Steps that take no folder away and adopt none.
LEMMA FolderFrame ==
    ASSUME FolderInv, raced' = raced,
           \A d \in Dirs : /\ dirs[d].exists => dirs'[d].exists
                           /\ dirs[d].marker => dirs'[d].marker,
           ~raced => Claimed' = Claimed,
           Stays(folder)', \A e \in Episodes : Stays(eps[e].path[1])',
           \A j \in Jobs : job'[j].pc \in Busy => job[j].pc \in Busy /\ job'[j].dir = job[j].dir
    PROVE  FolderInv'
<1>1. \A j \in Jobs : job'[j].pc \in Busy => Stays(job[j].dir)'
  BY DEF FolderInv, Stays
<1>2. Marked \subseteq Marked'
  BY DEF Marked
<1>3. ~raced' => \A j \in Jobs : job'[j].pc \in Busy => job'[j].dir \in Marked'
  BY <1>2 DEF FolderInv
<1>4. ~raced' => \A d, e \in Claimed' : d = e
  BY DEF FolderInv
<1> QED
  BY <1>1, <1>3, <1>4 DEF FolderInv

\* A job's step goes on with the folder it began with, or ends.
LEMMA OwnDir ==
    ASSUME TInv, NEW j \in Jobs, StepOf(j), ~Begin(j)
    PROVE  \A k \in Jobs : job'[k].pc \in Busy => job[k].pc \in Busy /\ job'[k].dir = job[k].dir
<1>1. job \in [Jobs -> Row] /\ job[j] \in Row
  BY JobType
<1>2. job'[j].pc \in Busy => job[j].pc \in Busy /\ job'[j].dir = job[j].dir
  <2>1. CASE Decorate(j)
    BY <2>1, <1>1 DEF Decorate, Busy, Row
  <2>2. CASE collision_asks(j) \/ Finish(j)
    <3>1. job'[j].pc \in {"waiting", "done"}
      BY <2>2, <1>1 DEF collision_asks, Finish, Idle
    <3> QED
      BY <3>1 DEF Busy
  <2>3. CASE PlaceFree(j) \/ collision_answered(j) \/ PlaceBatch(j)
    <3>1. job[j].pc = "placed" /\ \E pc, p : Goes(j, pc, p)
      BY <2>3 DEF PlaceFree, collision_answered, Collides, PlaceBatch
    <3> QED
      BY <3>1, <1>1 DEF Goes, Busy, Row
  <2>4. CASE transfer_at_once(j) \/ copy_ends(j)
    BY <2>4, <1>1 DEF transfer_at_once, copy_ends, Busy, Row
  <2>5. CASE copy_fails(j)
    <3>1. job'[j].pc \in Busy => job'[j] = [job[j] EXCEPT !.pc = "record"]
      BY <2>5, <1>1, IdleRow DEF copy_fails, Busy
    <3> QED
      BY <3>1, <2>5, <1>1 DEF copy_fails, Busy, Row
  <2>6. CASE copy_starts(j)
    <3>1. job[j].pc = "transfer" /\ \E i : job' = [job EXCEPT ![j] = [@ EXCEPT !.pc = "copying", !.ino = i]]
      BY <2>6 DEF copy_starts
    <3> QED
      BY <3>1, <1>1 DEF Busy, Row
  <2>7. CASE mark_done(j) \/ mark_primary(j)
    BY <2>7, <1>1 DEF mark_done, mark_primary, Busy, Row
  <2>8. CASE record_batch(j)
    <3>1. job[j].pc = "record"
          /\ \E t, f, pc : job' = [job EXCEPT ![j] = [@ EXCEPT !.todo = t, !.first = f, !.pc = pc]]
      BY <2>8 DEF record_batch
    <3> QED
      BY <3>1, <1>1 DEF Busy, Row
  <2>9. CASE ~JobStep(j)
    <3>1. job'[j].pc \in {"done", "finalize", "failed"}
      BY <2>9, <1>1 DEF StepOf, Answer, Expire, Retry, Download, Row
    <3> QED
      BY <3>1 DEF Busy
  <2> QED
    BY <2>1, <2>2, <2>3, <2>4, <2>5, <2>6, <2>7, <2>8, <2>9 DEF JobStep
<1> QED
  BY <1>2, OwnRow

\* The folders look the same to everyone who looks for the show.
SameFolders == \A d \in Dirs : dirs'[d].exists = dirs[d].exists /\ dirs'[d].marker = dirs[d].marker

LEMMA SameClaims ==
    ASSUME SameFolders
    PROVE  Claimed' = Claimed /\ Marked' = Marked /\ \A d : (d \in Dirs \ {Default} =>
              (dirs'[d].exists /\ dirs'[d].marker <=> dirs[d].exists /\ dirs[d].marker))
BY DEF SameFolders, Claimed, Marked

LEMMA BeginFolder == ASSUME TInv, FolderInv, NEW j \in Jobs, Begin(j) PROVE FolderInv'
<1>1. /\ eps' = eps /\ raced' = raced /\ job \in [Jobs -> Row] /\ dirs \in [Dirs -> Folder(Len(data))]
      /\ folder \in Dirs \cup {NoDir} /\ NoDir \notin Dirs
  BY JobType, LibraryAssumption DEF Begin, rest, TInv, Types, NoDir
<1>2. CASE UNCHANGED <<dirs, folder>> /\ \E pc \in {"lost", "failed"} : job' = [job EXCEPT ![j].pc = pc]
  <2>1. \A k \in Jobs : job'[k].pc \in Busy => job[k].pc \in Busy /\ job'[k].dir = job[k].dir
    BY <1>1, <1>2 DEF Busy, Row
  <2>2. SameFolders
    BY <1>2 DEF SameFolders
  <2> QED
    BY <2>1, <2>2, <1>1, <1>2, SameClaims, FolderFrame DEF FolderInv, Stays
<1>3. CASE \E d \in resolve_show_folder :
             /\ dirs' = Opened(d)
             /\ folder' = d
             /\ job' = [job EXCEPT ![j] = [Idle EXCEPT !.pc = "decorate",
                                         !.known = known, !.dir = d]]
  <2>1. PICK d \in resolve_show_folder :
             /\ dirs' = Opened(d)
             /\ folder' = d
             /\ job' = [job EXCEPT ![j] = [Idle EXCEPT !.pc = "decorate",
                                         !.known = known, !.dir = d]]
    BY <1>3
  <2>2. d \in Dirs
    BY <2>1, <1>1, LibraryAssumption DEF resolve_show_folder, Marked
  <2>3. /\ dirs'[d].exists /\ dirs'[d].marker
        /\ \A c \in Dirs \ {d} : dirs'[c] = dirs[c]
    BY <2>1, <2>2, <1>1 DEF Opened, Folder
  <2>4. job'[j].dir = d /\ \A k \in Jobs \ {j} : job'[k] = job[k]
    BY <2>1, <1>1 DEF Idle
  <2>5. \A c : Stays(c) => (c \in Dirs \ {Default} => dirs'[c].exists /\ dirs'[c].marker)
    BY <2>3 DEF Stays
  <2>6. Stays(folder)' /\ \A e \in Episodes : Stays(eps[e].path[1])'
    BY <2>1, <2>3, <2>5, <1>1 DEF FolderInv, Stays
  <2>7. \A k \in Jobs : job'[k].pc \in Busy => Stays(job[k].dir)'
    BY <2>3, <2>4, <2>5 DEF FolderInv, Stays
  <2>8. ASSUME ~raced
        PROVE  /\ \A a, b \in Claimed' : a = b
               /\ \A k \in Jobs : job'[k].pc \in Busy => job'[k].dir \in Marked'
    <3>1. \A a, b \in Claimed : a = b
      BY <2>8 DEF FolderInv
    <3>2. \A c \in Claimed : c = d
      <4>1. CASE folder # NoDir /\ dirs[folder].exists
        <5>1. d = folder /\ folder \in Claimed
          BY <4>1, <2>1, <1>1 DEF resolve_show_folder, FolderInv, Stays, Claimed
        <5> QED
          BY <5>1, <3>1
      <4>2. CASE ~ (folder # NoDir /\ dirs[folder].exists) /\ Marked # {}
        <5>1. d \in Marked /\ Marked \subseteq Claimed
          BY <4>2, <2>1 DEF resolve_show_folder, Marked, Claimed
        <5> QED
          BY <5>1, <3>1
      <4>3. CASE ~ (folder # NoDir /\ dirs[folder].exists) /\ Marked = {}
        <5>1. d = Default
          BY <4>3, <2>1, <1>1 DEF resolve_show_folder, FolderInv, Stays
        <5> QED
          BY <5>1, <4>3 DEF Claimed, Marked
      <4> QED
        BY <4>1, <4>2, <4>3
    <3>3. Claimed' \subseteq Claimed \cup {d}
      BY <2>3 DEF Claimed
    <3>4. Marked \subseteq Marked' /\ d \in Marked'
      BY <2>2, <2>3 DEF Marked
    <3> QED
      BY <2>4, <2>8, <3>2, <3>3, <3>4 DEF FolderInv
  <2> QED
    BY <2>6, <2>7, <2>8, <1>1 DEF FolderInv
<1> QED
  BY <1>2, <1>3 DEF Begin

\* The steps of a job that only fill its folder, and write its path down.
LEMMA StepFolder ==
    ASSUME TInv, FolderInv, NEW j \in Jobs, StepOf(j), ~Begin(j)
    PROVE  FolderInv'
<1>1. /\ job[j] \in Row /\ dirs \in [Dirs -> Folder(Len(data))]
      /\ eps \in [Episodes -> [done : BOOLEAN, path : Paths]] /\ Own[j] \in Episodes
      /\ RowOK(j, job[j], dl[j], Len(data))
  BY JobType, DiskType, TableTypes
<1>2. folder' = folder /\ raced' = raced
  BY DEF StepOf, JobStep, Decorate, PlaceFree, collision_asks, collision_answered, PlaceBatch,
     transfer_at_once, copy_starts, copy_ends, copy_fails, mark_done, record_batch,
     mark_primary, Finish, Answer, Expire, Retry, Download, db, rest
<1>3. \A k \in Jobs : job'[k].pc \in Busy => job[k].pc \in Busy /\ job'[k].dir = job[k].dir
  BY OwnDir
<1>4. \A e \in Episodes : \/ eps'[e].path = eps[e].path
                          \/ job[j].pc \in Busy /\ eps'[e].path[1] = job[j].dir
  <2>1. CASE mark_done(j)
    BY <2>1, <1>1 DEF mark_done, Path, Busy
  <2>2. CASE record_batch(j)
    BY <2>2, <1>1 DEF record_batch, Path, Busy
  <2>3. CASE mark_primary(j)
    BY <2>3, <1>1 DEF mark_primary, Busy
  <2>4. CASE ~ (mark_done(j) \/ record_batch(j) \/ mark_primary(j))
    <3>1. eps' = eps \/ \E b : eps' = [eps EXCEPT ![Own[j]].done = b]
      BY <2>4 DEF StepOf, JobStep, Decorate, PlaceFree, collision_asks, collision_answered,
         PlaceBatch, transfer_at_once, copy_starts, copy_ends, copy_fails, Finish, Answer,
         Expire, Retry, Download, db
    <3>2. ASSUME NEW b, eps' = [eps EXCEPT ![Own[j]].done = b], NEW e \in Episodes
          PROVE  eps'[e].path = eps[e].path
      BY <3>2, <1>1
    <3> QED
      BY <3>1, <3>2
  <2> QED
    BY <2>1, <2>2, <2>3, <2>4
<1>5. \/ SameFolders
      \/ /\ job[j].pc \in Busy /\ dirs'[job[j].dir].exists
         /\ \A d \in Dirs : /\ dirs'[d].marker = dirs[d].marker
                            /\ d # job[j].dir => dirs'[d].exists = dirs[d].exists
  <2>1. CASE transfer_at_once(j) \/ copy_starts(j)
    <3>1. job[j].pc = "transfer"
          /\ \E i : dirs' = [dirs EXCEPT ![job[j].dir] = [@ EXCEPT !.exists = TRUE, !.at[job[j].place] = i]]
      BY <2>1 DEF transfer_at_once, copy_starts
    <3>2. job[j].dir \in Dirs
      BY <3>1, <1>1 DEF RowOK, Busy
    <3>3. PICK i : dirs' = [dirs EXCEPT ![job[j].dir] = [@ EXCEPT !.exists = TRUE, !.at[job[j].place] = i]]
      BY <3>1
    <3>4. /\ dirs'[job[j].dir].exists = TRUE
          /\ dirs'[job[j].dir].marker = dirs[job[j].dir].marker
          /\ \A d \in Dirs \ {job[j].dir} : dirs'[d] = dirs[d]
      BY <3>2, <3>3, <1>1 DEF Folder
    <3> QED
      BY <3>1, <3>4 DEF Busy
  <2>2. CASE Decorate(j)
    <3>1. dirs' = dirs \/ \E text : dirs' = [dirs EXCEPT ![job[j].dir].syn = text]
      BY <2>2 DEF Decorate
    <3>2. ASSUME NEW text, dirs' = [dirs EXCEPT ![job[j].dir].syn = text] PROVE SameFolders
      BY <3>2, <1>1 DEF SameFolders, Folder
    <3> QED
      BY <3>1, <3>2 DEF SameFolders
  <2>3. CASE collision_answered(j)
    <3>1. dirs' = dirs \/ \E p : dirs' = [dirs EXCEPT ![job[j].dir].at[p] = NoFile]
      BY <2>3 DEF collision_answered
    <3>2. ASSUME NEW p, dirs' = [dirs EXCEPT ![job[j].dir].at[p] = NoFile] PROVE SameFolders
      BY <3>2, <1>1 DEF SameFolders, Folder
    <3> QED
      BY <3>1, <3>2 DEF SameFolders
  <2>4. CASE ~ (transfer_at_once(j) \/ copy_starts(j) \/ Decorate(j) \/ collision_answered(j))
    <3>1. dirs' = dirs
      BY <2>4 DEF StepOf, JobStep, PlaceFree, collision_asks, PlaceBatch, copy_ends, copy_fails,
         mark_done, record_batch, mark_primary, Finish, Answer, Expire, Retry, Download, disk
    <3> QED
      BY <3>1 DEF SameFolders
  <2> QED
    BY <2>1, <2>2, <2>3, <2>4
<1>6. job[j].pc \in Busy => Stays(job[j].dir) /\ (~raced => job[j].dir \in Marked)
  BY DEF FolderInv
<1>7. \A d \in Dirs : /\ dirs[d].exists => dirs'[d].exists
                      /\ dirs[d].marker => dirs'[d].marker
  BY <1>5 DEF SameFolders
<1>8. ~raced => Claimed' = Claimed
  <2>1. ~raced => SameFolders
    <3> SUFFICES ASSUME ~raced, ~SameFolders PROVE FALSE
      OBVIOUS
    <3>1. dirs[job[j].dir].exists /\ job[j].dir \in Dirs
      BY <1>5, <1>6 DEF Marked
    <3>2. \A d \in Dirs : dirs[d].exists \in BOOLEAN /\ dirs'[d].marker = dirs[d].marker
                          /\ (d # job[j].dir => dirs'[d].exists = dirs[d].exists)
      BY <1>1, <1>5 DEF Folder
    <3>3. dirs'[job[j].dir].exists = TRUE
      <4>1. dirs'[job[j].dir].exists /\ dirs'[job[j].dir].exists \in BOOLEAN
        <5>1. TInv'
          BY TypesKept DEF Next, StepOf
        <5> QED
          BY <5>1, <3>1, <1>5 DEF TInv, Types, Folder
      <4> QED
        BY <4>1
    <3> QED
      BY <3>1, <3>2, <3>3 DEF SameFolders
  <2> QED
    BY <2>1, SameClaims
<1>9. Stays(folder)' /\ \A e \in Episodes : Stays(eps[e].path[1])'
  <2>1. \A c : Stays(c) => (c \in Dirs \ {Default} => dirs'[c].exists /\ dirs'[c].marker)
    BY <1>7 DEF Stays
  <2> QED
    BY <2>1, <1>2, <1>4, <1>6 DEF FolderInv, Stays
<1> QED
  BY <1>2, <1>3, <1>7, <1>8, <1>9, FolderFrame

LEMMA KillFolder == ASSUME TInv, FolderInv, Kill PROVE FolderInv'
<1>1. /\ UNCHANGED <<dirs, folder, eps, raced>>
      /\ job' = [j \in Jobs |-> IF job[j].pc \in Busy THEN Idle ELSE job[j]]
  BY DEF Kill, disk, db
<1>2. \A k \in Jobs : job'[k].pc \notin Busy
  BY <1>1, IdleRow DEF Busy
<1>3. SameFolders
  BY <1>1 DEF SameFolders
<1> QED
  BY <1>1, <1>2, <1>3, SameClaims DEF FolderInv, Stays

LEMMA RenameFolder ==
    ASSUME TInv, FolderInv, NEW d \in Dirs, NEW e \in Dirs, Rename(d, e)
    PROVE  FolderInv'
<1>1. /\ d = Default /\ dirs[d].exists /\ ~dirs[e].exists /\ UNCHANGED <<folder, eps, job>>
      /\ dirs' = [dirs EXCEPT ![e] = dirs[d], ![d] = dirs[e]]
      /\ raced' = (raced \/ \E j \in Jobs : job[j].pc \in Busy /\ job[j].dir = d)
  BY DEF Rename, db
<1>2. d # e /\ dirs \in [Dirs -> Folder(Len(data))]
  BY <1>1, DiskType
<1>3. dirs'[e] = dirs[d] /\ dirs'[d] = dirs[e] /\ \A c \in Dirs \ {d, e} : dirs'[c] = dirs[c]
  BY <1>1, <1>2
<1>4. \A c : Stays(c) => (c \in Dirs \ {Default} => dirs'[c].exists /\ dirs'[c].marker)
  BY <1>1, <1>3 DEF Stays
<1>5. /\ Stays(folder)' /\ \A n \in Episodes : Stays(eps[n].path[1])'
      /\ \A j \in Jobs : job'[j].pc \in Busy => Stays(job[j].dir)'
  BY <1>1, <1>4 DEF FolderInv, Stays
<1>6. ASSUME ~raced'
      PROVE  /\ \A a, b \in Claimed' : a = b
             /\ \A j \in Jobs : job'[j].pc \in Busy => job'[j].dir \in Marked'
  <2>1. ~raced /\ \A j \in Jobs : job[j].pc \in Busy => job[j].dir # d
    BY <1>1, <1>6
  <2>2. \A a, b \in Claimed : a = b
    BY <2>1 DEF FolderInv
  <2>3. d \in Claimed
    BY <1>1 DEF Claimed
  <2>4. Claimed' \subseteq {e}
    BY <1>1, <1>3, <2>2, <2>3 DEF Claimed
  <2>5. \A j \in Jobs : job[j].pc \in Busy => job[j].dir \in Marked
    BY <2>1 DEF FolderInv
  <2>6. Marked \ {d} \subseteq Marked'
    BY <1>1, <1>3 DEF Marked
  <2> QED
    BY <2>1, <2>4, <2>5, <2>6, <1>1
<1> QED
  BY <1>5, <1>6 DEF FolderInv

LEMMA RescanFolder == ASSUME TInv, FolderInv, Rescan PROVE FolderInv'
<1>1. raced' = raced /\ job' = job /\ dirs \in [Dirs -> Folder(Len(data))]
      /\ eps \in [Episodes -> [done : BOOLEAN, path : Paths]]
  BY DiskType, TableTypes DEF Rescan
<1>2. \A d \in Dirs : dirs'[d].exists = dirs[d].exists
                      /\ (dirs'[d].marker <=> dirs[d].marker \/ d \in Claimed)
  <2> SUFFICES ASSUME NEW d \in Dirs
               PROVE  dirs'[d].exists = dirs[d].exists
                      /\ (dirs'[d].marker <=> dirs[d].marker \/ d \in Claimed)
    OBVIOUS
  <2> DEFINE b == dirs[d].marker \/ d \in Claimed
  <2>1. dirs'[d] = [dirs[d] EXCEPT !.marker = b]
    BY RescanWrites
  <2> HIDE DEF b
  <2>2. dirs'[d].exists = dirs[d].exists /\ dirs'[d].marker = b
    BY <2>1, <1>1 DEF Folder
  <2> QED
    BY <2>2 DEF b
<1>3. Claimed' = Claimed
  BY <1>2 DEF Claimed
<1>4. \A d \in Claimed : dirs'[d].exists /\ dirs'[d].marker
  BY <1>2 DEF Claimed
<1>5. \A c : Stays(c) => (c \in Dirs \ {Default} => dirs'[c].exists /\ dirs'[c].marker)
  BY <1>2 DEF Stays
<1>6. Stays(folder)' /\ \A e \in Episodes : Stays(eps[e].path[1])'
  BY <1>4, <1>5, RescanWrites DEF FolderInv, Stays
<1> QED
  BY <1>1, <1>2, <1>3, <1>6, FolderFrame

LEMMA SynopsisFolder ==
    ASSUME TInv, FolderInv, StoreSynopsis \/ rewrite_show_folder_metadata \/ metadata_fails
    PROVE  FolderInv'
<1>1. /\ raced' = raced /\ job' = job /\ folder' = folder /\ eps' = eps
      /\ dirs \in [Dirs -> Folder(Len(data))]
  BY DiskType DEF StoreSynopsis, rewrite_show_folder_metadata, metadata_fails, db, rest
<1>2. \A d \in Dirs : dirs'[d].exists = dirs[d].exists
                      /\ (dirs'[d].marker <=> dirs[d].marker \/ (dirs'[d].marker /\ d \in FoldersOf))
                      /\ (dirs[d].marker => dirs'[d].marker)
  <2>1. CASE StoreSynopsis
    BY <2>1 DEF StoreSynopsis, disk
  <2>2. CASE rewrite_show_folder_metadata
    BY <2>2, <1>1 DEF rewrite_show_folder_metadata, Folder
  <2>3. CASE metadata_fails
    BY <2>3, <1>1 DEF metadata_fails, Folder
  <2> QED
    BY <2>1, <2>2, <2>3
<1>3. FoldersOf \subseteq Claimed
  BY DEF FoldersOf, Claimed, FolderInv, Stays
<1>4. Claimed' = Claimed
  BY <1>2, <1>3 DEF Claimed
<1>5. \A c : Stays(c) => (c \in Dirs \ {Default} => dirs'[c].exists /\ dirs'[c].marker)
  BY <1>2 DEF Stays
<1>6. Stays(folder)' /\ \A e \in Episodes : Stays(eps[e].path[1])'
  BY <1>1, <1>5 DEF FolderInv, Stays
<1> QED
  BY <1>1, <1>2, <1>4, <1>6, FolderFrame

LEMMA InitFolder == Init => FolderInv
<1> SUFFICES ASSUME Init PROVE FolderInv
  OBVIOUS
<1>1. folder = NoDir /\ NoDir \notin Dirs /\ "" \notin Dirs
      /\ \A e \in Episodes : eps[e].path = NoPath
  BY LibraryAssumption DEF Init, NoDir
<1>2. \A d \in Dirs : dirs[d].exists => d = Default
  <2>1. PICK there \in BOOLEAN : \A d \in Dirs : dirs[d].exists = (there /\ d = Default)
    BY DEF Init
  <2> QED
    BY <2>1
<1>3. \A j \in Jobs : job[j].pc \notin Busy
  BY IdleRow DEF Init, Busy
<1>4. NoPath[1] = ""
  BY DEF NoPath
<1>5. Stays(folder) /\ \A e \in Episodes : Stays(eps[e].path[1])
  BY <1>1, <1>4 DEF Stays
<1>6. \A d, e \in Claimed : d = e
  BY <1>2 DEF Claimed
<1> QED
  BY <1>3, <1>5, <1>6 DEF FolderInv

LEMMA FolderKept == TInv /\ FolderInv /\ [Next]_vars => FolderInv'
<1> SUFFICES ASSUME TInv, FolderInv, [Next]_vars PROVE FolderInv'
  OBVIOUS
<1>1. CASE UNCHANGED vars
  BY <1>1 DEF vars, disk, db, rest, FolderInv, Stays, Claimed, Marked
<1>2. CASE \E j \in Jobs : StepOf(j)
  BY <1>2, BeginFolder, StepFolder
<1> QED
  BY <1>1, <1>2, KillFolder, RenameFolder, RescanFolder, SynopsisFolder DEF Next, StepOf

\* IdentityKept: unless a folder is renamed under a running step, the folder a job
\* resolves, a rescan adopts or a metadata write marks is always the one folder
\* that claims the show.
THEOREM ShowKeepsOneFolder == Spec => []IdentityKept
<1>1. TInv /\ FolderInv => IdentityKept
  <2> SUFFICES ASSUME FolderInv, ~raced PROVE Cardinality(Marked) <= 1
    BY DEF IdentityKept
  <2>1. \A d, e \in Marked : d = e
    BY DEF FolderInv, Claimed, Marked
  <2>2. Marked = {} \/ \E d : Marked = {d}
    BY <2>1
  <2>3. Cardinality(Marked) = 0 \/ Cardinality(Marked) = 1
    <3> HIDE DEF Marked
    <3> QED
      BY <2>2, FS_EmptySet, FS_Singleton
  <2> QED
    BY <2>3
<1> QED
  BY <1>1, InitTypes, TypesKept, InitFolder, FolderKept, PTL DEF Spec

-----------------------------------------------------------------------------
(* Inodes.                                                                 *)

\* Taking files away, or leaving them, mixes up no inodes.
LEMMA InodesFewer ==
    ASSUME InodeInv,
           \A d \in Dirs, p \in Places : dirs'[d].at[p] \in {dirs[d].at[p], NoFile},
           \A d \in Dirs : dirs[d].exists => dirs'[d].exists,
           \A j \in Jobs, e \in Episodes : dl'[j][e] \in {dl[j][e], NoFile}
    PROVE  InodeInv'
<1>1. Vacant'
  BY DEF InodeInv, Vacant
<1>2. OwnDownload' /\ OneDownload'
  BY DEF InodeInv, OwnDownload, OneDownload
<1>3. OneSource'
  BY DEF InodeInv, OneSource
<1>4. OneEpisode'
  BY DEF InodeInv, OneEpisode
<1> QED
  BY <1>1, <1>2, <1>3, <1>4 DEF InodeInv

\* Neither does putting an inode into a place of its own episode.
LEMMA InodesPut ==
    ASSUME InodeInv, NEW d \in Dirs, NEW p \in Places, NEW i,
           dirs'[d].exists, dirs'[d].at[p] = i,
           \A r \in Places \ {p} : dirs'[d].at[r] = dirs[d].at[r],
           \A c \in Dirs \ {d} : dirs'[c] = dirs[c],
           \A c \in Dirs, r \in Places : dirs[c].at[r] = i => r[1] = p[1],
           \A j \in Jobs, e \in Episodes : dl[j][e] = i => e = p[1],
           \A j \in Jobs, e \in Episodes : dl'[j][e] \in {dl[j][e], NoFile}
    PROVE  InodeInv'
<1>1. Vacant'
  BY DEF InodeInv, Vacant
<1>2. OwnDownload' /\ OneDownload'
  BY DEF InodeInv, OwnDownload, OneDownload
<1>3. \A c \in Dirs, r \in Places : dirs'[c].at[r] = dirs[c].at[r] \/ (dirs'[c].at[r] = i /\ r = p)
  OBVIOUS
<1>4. OneSource'
  BY <1>3 DEF InodeInv, OneSource
<1>5. OneEpisode'
  BY <1>3 DEF InodeInv, OneEpisode
<1> QED
  BY <1>1, <1>2, <1>4, <1>5 DEF InodeInv

\* The inodes in places and downloads are on the disk.
LEMMA InodeRange ==
    ASSUME TInv
    PROVE  /\ Len(data) \in Nat
           /\ \A d \in Dirs, p \in Places : dirs[d].at[p] \in 0 .. Len(data)
           /\ \A d \in Dirs, p \in Places : dirs[d].at[p] # NoFile => dirs[d].at[p] \in 1 .. Len(data)
           /\ \A j \in Jobs, e \in Episodes : dl[j][e] \in 0 .. Len(data)
           /\ \A j \in Jobs, e \in Episodes : dl[j][e] # NoFile => dl[j][e] \in 1 .. Len(data)
<1>1. Len(data) \in Nat
  BY DiskType
<1>2. \A d \in Dirs, p \in Places : dirs[d].at[p] \in 0 .. Len(data)
  BY DiskType DEF Folder
<1>3. \A j \in Jobs, e \in Episodes : dl[j][e] \in 0 .. Len(data)
  BY DiskType
<1>4. \A i \in 0 .. Len(data) : i # NoFile => i \in 1 .. Len(data)
  BY <1>1 DEF NoFile
<1> QED
  BY <1>1, <1>2, <1>3, <1>4

\* One folder written, the others left.
LEMMA OneFolder ==
    ASSUME TInv, NEW d \in Dirs, NEW f, dirs' = [dirs EXCEPT ![d] = f]
    PROVE  dirs'[d] = f /\ \A c \in Dirs \ {d} : dirs'[c] = dirs[c]
BY DiskType

\* A file put into a place.
LEMMA FilePut ==
    ASSUME TInv, NEW d \in Dirs, NEW p \in Places, NEW i,
           dirs' = [dirs EXCEPT ![d] = [@ EXCEPT !.exists = TRUE, !.at[p] = i]]
    PROVE  /\ dirs'[d].exists = TRUE /\ dirs'[d].at[p] = i
           /\ \A r \in Places \ {p} : dirs'[d].at[r] = dirs[d].at[r]
           /\ \A c \in Dirs \ {d} : dirs'[c] = dirs[c]
<1>1. dirs'[d] = [dirs[d] EXCEPT !.exists = TRUE, !.at[p] = i]
      /\ \A c \in Dirs \ {d} : dirs'[c] = dirs[c]
  BY OneFolder
<1>2. dirs[d] \in Folder(Len(data))
  BY DiskType
<1>3. dirs'[d].exists = TRUE /\ dirs'[d].at = [dirs[d].at EXCEPT ![p] = i]
  BY <1>1, <1>2 DEF Folder
<1>4. dirs[d].at \in [Places -> 0 .. Len(data)]
  BY <1>2 DEF Folder
<1> QED
  BY <1>1, <1>3, <1>4

\* The steps of a job that put no file anywhere.
LEMMA QuietDisk ==
    ASSUME TInv, NEW j \in Jobs, StepOf(j),
           ~transfer_at_once(j), ~copy_starts(j), ~copy_ends(j), ~Download(j)
    PROVE  /\ data' = data /\ dl' = dl
           /\ \A d \in Dirs : dirs[d].exists => dirs'[d].exists
           /\ \A d \in Dirs, p \in Places :
                 \/ dirs'[d].at[p] = dirs[d].at[p]
                 \/ /\ p = <<Own[j], "main">> /\ dirs'[d].at[p] = NoFile
                    /\ q[j] = "replace" /\ collision_answered(j)
<1>1. dirs \in [Dirs -> Folder(Len(data))]
  BY DiskType
<1>2. data' = data /\ dl' = dl
  BY DEF StepOf, JobStep, Begin, Decorate, PlaceFree, collision_asks, collision_answered,
     PlaceBatch, copy_fails, mark_done, record_batch, mark_primary, Finish, Answer, Expire,
     Retry, disk
<1>3. CASE Begin(j)
  <2>1. dirs' = dirs \/ \E d \in resolve_show_folder : dirs' = Opened(d)
    BY <1>3 DEF Begin
  <2>2. ASSUME NEW c, dirs' = Opened(c)
        PROVE  \A d \in Dirs : (dirs[d].exists => dirs'[d].exists) /\ dirs'[d].at = dirs[d].at
    BY <2>2, <1>1 DEF Opened, Folder
  <2> QED
    BY <2>1, <2>2, <1>2
<1>4. CASE Decorate(j)
  <2>1. dirs' = dirs \/ \E text : dirs' = [dirs EXCEPT ![job[j].dir].syn = text]
    BY <1>4 DEF Decorate
  <2>2. ASSUME NEW text, dirs' = [dirs EXCEPT ![job[j].dir].syn = text]
        PROVE  \A d \in Dirs : dirs'[d].exists = dirs[d].exists /\ dirs'[d].at = dirs[d].at
    BY <2>2, <1>1 DEF Folder
  <2> QED
    BY <2>1, <2>2, <1>2
<1>5. CASE collision_answered(j)
  <2> DEFINE p == <<Own[j], "main">>
  <2>1. dirs' = dirs \/ (q[j] = "replace" /\ dirs' = [dirs EXCEPT ![job[j].dir].at[p] = NoFile])
    BY <1>5 DEF collision_answered
  <2>2. p \in Places
    BY JobType DEF Places, Versions
  <2> HIDE DEF p
  <2>3. ASSUME dirs' = [dirs EXCEPT ![job[j].dir].at[p] = NoFile]
        PROVE  \A d \in Dirs : /\ dirs'[d].exists = dirs[d].exists
                               /\ \/ dirs'[d].at = dirs[d].at
                                  \/ dirs'[d].at = [dirs[d].at EXCEPT ![p] = NoFile]
    BY <2>3, <1>1 DEF Folder
  <2>4. \A d \in Dirs : dirs[d].at \in [Places -> 0 .. Len(data)]
    BY <1>1 DEF Folder
  <2> QED
    BY <2>1, <2>2, <2>3, <2>4, <1>2, <1>5 DEF p
<1>6. CASE ~Begin(j) /\ ~Decorate(j) /\ ~collision_answered(j)
  <2>1. dirs' = dirs
    BY <1>6 DEF StepOf, JobStep, PlaceFree, collision_asks, PlaceBatch, copy_fails, mark_done,
       record_batch, mark_primary, Finish, Answer, Expire, Retry, disk
  <2> QED
    BY <2>1, <1>2
<1> QED
  BY <1>3, <1>4, <1>5, <1>6

\* Where a transfer puts its file.
LEMMA Target ==
    ASSUME TInv, NEW j \in Jobs, job[j].pc \in {"transfer", "copying"}
    PROVE  /\ job[j].dir \in Dirs /\ job[j].place \in Places
           /\ Moving(j) = job[j].place[1] /\ Moving(j) \in Episodes
           /\ dl[j][Moving(j)] # NoFile /\ dl[j][Moving(j)] \in 1 .. Len(data)
<1>1. job[j].dir \in Dirs /\ job[j].place \in Places /\ dl[j][Moving(j)] # NoFile
  BY JobType DEF RowOK, Busy, Moving
<1>2. Moving(j) = job[j].place[1] /\ Moving(j) \in Episodes
  BY <1>1 DEF Moving, Places
<1> QED
  BY <1>1, <1>2, InodeRange

LEMMA TakenFile ==
    ASSUME TInv, NEW j \in Jobs, NEW e \in Episodes,
           dl' = dl \/ dl' = [dl EXCEPT ![j][e] = NoFile]
    PROVE  /\ \A k \in Jobs, f \in Episodes : dl'[k][f] \in {dl[k][f], NoFile}
           /\ \A k \in Jobs \ {j} : dl'[k] = dl[k]
           /\ \A f \in Episodes \ {e} : dl'[j][f] = dl[j][f]
BY DiskType

LEMMA AtOnceInodes ==
    ASSUME TInv, InodeInv, NEW j \in Jobs, transfer_at_once(j) PROVE InodeInv'
<1> DEFINE d == job[j].dir
           p == job[j].place
           i == dl[j][Moving(j)]
<1>1. /\ job[j].pc = "transfer"
      /\ dirs' = [dirs EXCEPT ![d] = [@ EXCEPT !.exists = TRUE, !.at[p] = i]]
      /\ dl' = dl \/ dl' = [dl EXCEPT ![j][Moving(j)] = NoFile]
  BY DEF transfer_at_once
<1>2. d \in Dirs /\ p \in Places /\ Moving(j) = p[1] /\ Moving(j) \in Episodes /\ i # NoFile
  BY <1>1, Target
<1>3. \A c \in Dirs, r \in Places : dirs[c].at[r] = i => r[1] = p[1]
  BY <1>2 DEF InodeInv, OneSource
<1>4. \A k \in Jobs, e \in Episodes : dl[k][e] = i => e = p[1]
  BY <1>2 DEF InodeInv, OneDownload
<1> HIDE DEF d, p, i
<1>5. /\ dirs'[d].exists = TRUE /\ dirs'[d].at[p] = i
      /\ \A r \in Places \ {p} : dirs'[d].at[r] = dirs[d].at[r]
      /\ \A c \in Dirs \ {d} : dirs'[c] = dirs[c]
  BY <1>1, <1>2, FilePut
<1>6. \A k \in Jobs, e \in Episodes : dl'[k][e] \in {dl[k][e], NoFile}
  BY <1>1, <1>2, TakenFile
<1> QED
  BY <1>2, <1>3, <1>4, <1>5, <1>6, InodesPut

LEMMA CopyStartsInodes ==
    ASSUME TInv, InodeInv, NEW j \in Jobs, copy_starts(j) PROVE InodeInv'
<1> DEFINE d == job[j].dir
           p == job[j].place
           i == IF Exists(d, p) THEN dirs[d].at[p] ELSE Len(data) + 1
<1>1. /\ d \in Dirs /\ p \in Places
      /\ dirs' = [dirs EXCEPT ![d] = [@ EXCEPT !.exists = TRUE, !.at[p] = i]]
  BY CopyDisk
<1>2. dl' = dl
  BY DEF copy_starts
<1>3. /\ \A c \in Dirs, r \in Places : dirs[c].at[r] = i => r[1] = p[1]
      /\ \A k \in Jobs, e \in Episodes : dl[k][e] = i => e = p[1]
  <2>1. CASE Exists(d, p)
    <3>1. i = dirs[d].at[p] /\ i # NoFile
      BY <2>1 DEF Exists
    <3> HIDE DEF i, d, p
    <3> QED
      BY <3>1, <1>1 DEF InodeInv, OneSource, OneEpisode
  <2>2. CASE ~Exists(d, p)
    <3>1. i = Len(data) + 1
      BY <2>2
    <3> HIDE DEF i
    <3>2. i \notin 0 .. Len(data)
      BY <3>1, InodeRange
    <3> QED
      BY <3>2, InodeRange
  <2> QED
    BY <2>1, <2>2
<1> HIDE DEF d, p, i
<1>4. /\ dirs'[d].exists = TRUE /\ dirs'[d].at[p] = i
      /\ \A r \in Places \ {p} : dirs'[d].at[r] = dirs[d].at[r]
      /\ \A c \in Dirs \ {d} : dirs'[c] = dirs[c]
  BY <1>1, FilePut
<1>5. \A k \in Jobs, e \in Episodes : dl'[k][e] \in {dl[k][e], NoFile}
  BY <1>2
<1> QED
  BY <1>1, <1>3, <1>4, <1>5, InodesPut

LEMMA CopyEndsInodes ==
    ASSUME TInv, InodeInv, NEW j \in Jobs, copy_ends(j) PROVE InodeInv'
<1>1. dirs' = dirs /\ (dl' = dl \/ dl' = [dl EXCEPT ![j][Moving(j)] = NoFile])
      /\ job[j].pc = "copying"
  BY DEF copy_ends
<1>2. Moving(j) \in Episodes
  BY <1>1, Target
<1>3. \A k \in Jobs, e \in Episodes : dl'[k][e] \in {dl[k][e], NoFile}
  BY <1>1, <1>2, TakenFile
<1> QED
  BY <1>1, <1>3, InodesFewer

LEMMA DownloadInodes ==
    ASSUME TInv, InodeInv, NEW j \in Jobs, Download(j) PROVE InodeInv'
<1> DEFINE gone == {e \in Holds[j] : ~Whole(dl[j][e])}
           fresh == (Len(data) + 1) .. Len(data')
<1>1. dirs' = dirs
  BY DEF Download
<1>2. /\ \A k \in Jobs \ {j} : dl'[k] = dl[k]
      /\ \A e \in Episodes \ gone : dl'[j][e] = dl[j][e]
      /\ \A e \in gone : dl'[j][e] \in fresh
      /\ \A e, f \in gone : dl'[j][e] = dl'[j][f] => e = f
  BY DownloadDisk
<1>3. gone \subseteq Holds[j]
  OBVIOUS
<1>4. /\ \A k \in Jobs, e \in Episodes : dl[k][e] \notin fresh
      /\ \A d \in Dirs, p \in Places : dirs[d].at[p] \notin fresh
  <2>1. \A i \in 0 .. Len(data) : i \notin fresh
    BY InodeRange
  <2> QED
    BY <2>1, InodeRange
<1> HIDE DEF gone, fresh
<1>5. \A k \in Jobs, e \in Episodes :
         \/ dl'[k][e] = dl[k][e] /\ (k # j \/ e \notin gone)
         \/ k = j /\ e \in gone /\ dl'[k][e] \in fresh
  BY <1>2
<1>6. Vacant' /\ OneEpisode'
  BY <1>1 DEF InodeInv, Vacant, OneEpisode
<1>7. OwnDownload'
  BY <1>3, <1>5 DEF InodeInv, OwnDownload
<1>8. OneDownload'
  BY <1>2, <1>4, <1>5 DEF InodeInv, OneDownload
<1>9. OneSource'
  BY <1>1, <1>4, <1>5 DEF InodeInv, OneSource
<1> QED
  BY <1>6, <1>7, <1>8, <1>9 DEF InodeInv

\* What a rename does to the disk.
LEMMA RenameWrites ==
    ASSUME TInv, NEW d \in Dirs, NEW e \in Dirs, Rename(d, e)
    PROVE  /\ d = Default /\ d # e /\ dirs[d].exists /\ ~dirs[e].exists
           /\ dirs'[e] = dirs[d] /\ dirs'[d] = dirs[e]
           /\ \A c \in Dirs \ {d, e} : dirs'[c] = dirs[c]
           /\ UNCHANGED <<mode, data, dl, known, folder, eps, q, job, killed>>
<1>1. /\ d = Default /\ dirs[d].exists /\ ~dirs[e].exists
      /\ dirs' = [dirs EXCEPT ![e] = dirs[d], ![d] = dirs[e]]
      /\ UNCHANGED <<mode, data, dl, known, folder, eps, q, job, killed>>
  BY DEF Rename, db
<1> QED
  BY <1>1, DiskType

LEMMA RenameInodes ==
    ASSUME TInv, InodeInv, NEW d \in Dirs, NEW e \in Dirs, Rename(d, e)
    PROVE  InodeInv'
<1>1. dl' = dl /\ \A c \in Dirs : \E b \in Dirs : dirs'[c] = dirs[b]
  BY RenameWrites
<1>2. Vacant'
  BY <1>1 DEF InodeInv, Vacant
<1>3. OwnDownload' /\ OneDownload'
  BY <1>1 DEF InodeInv, OwnDownload, OneDownload
<1>4. OneSource'
  BY <1>1 DEF InodeInv, OneSource
<1>5. OneEpisode'
  <2> SUFFICES ASSUME NEW c \in Dirs, NEW b \in Dirs, NEW p \in Places, NEW r \in Places,
                      dirs'[c].at[p] # NoFile, dirs'[c].at[p] = dirs'[b].at[r]
               PROVE  p[1] = r[1]
    BY DEF OneEpisode
  <2>1. PICK x \in Dirs : dirs'[c] = dirs[x]
    BY <1>1
  <2>2. PICK y \in Dirs : dirs'[b] = dirs[y]
    BY <1>1
  <2>3. dirs[x].at[p] # NoFile /\ dirs[x].at[p] = dirs[y].at[r]
    BY <2>1, <2>2
  <2> QED
    BY <2>3 DEF InodeInv, OneEpisode
<1> QED
  BY <1>2, <1>3, <1>4, <1>5 DEF InodeInv

\* Rescans and metadata writes leave the files where they are.
LEMMA OutsideDisk ==
    ASSUME TInv, Rescan \/ StoreSynopsis \/ rewrite_show_folder_metadata \/ metadata_fails
    PROVE  /\ UNCHANGED <<mode, data, dl, q, job, killed>>
           /\ \A d \in Dirs : dirs'[d].exists = dirs[d].exists /\ dirs'[d].at = dirs[d].at
<1>1. dirs \in [Dirs -> Folder(Len(data))]
  BY DiskType
<1>2. UNCHANGED <<mode, data, dl, q, job, killed>>
  BY DEF Rescan, StoreSynopsis, rewrite_show_folder_metadata, metadata_fails, disk, db, rest
<1>3. CASE Rescan
  <2>1. dirs' = [d \in Dirs |-> [dirs[d] EXCEPT !.marker = @ \/ d \in Claimed]]
    BY <1>3, RescanWrites
  <2> QED
    BY <2>1, <1>1, <1>2 DEF Folder
<1>4. CASE StoreSynopsis
  BY <1>4, <1>2 DEF StoreSynopsis, disk
<1>5. CASE rewrite_show_folder_metadata
  BY <1>5, <1>1, <1>2 DEF rewrite_show_folder_metadata, Folder
<1>6. CASE metadata_fails
  BY <1>6, <1>1, <1>2 DEF metadata_fails, Folder
<1> QED
  BY <1>3, <1>4, <1>5, <1>6

LEMMA InitInodes == Init => InodeInv
<1> SUFFICES ASSUME Init PROVE InodeInv
  OBVIOUS
<1>1. PICK there \in BOOLEAN :
         dirs = [d \in Dirs |->
                   [exists |-> there /\ d = Default, marker |-> FALSE, syn |-> "none",
                    at |-> [p \in Places |->
                        IF there /\ d = Default /\ p = <<1, "main">> THEN 1 ELSE NoFile]]]
  BY DEF Init
<1>2. \A d \in Dirs : /\ dirs[d].exists = (there /\ d = Default)
                      /\ \A p \in Places : dirs[d].at[p] =
                            IF there /\ d = Default /\ p = <<1, "main">> THEN 1 ELSE NoFile
  BY <1>1
<1>3. Vacant
  BY <1>2 DEF Vacant
<1>4. OwnDownload /\ OneDownload
  BY InitDisk DEF OwnDownload, OneDownload
<1>5. OneSource
  <2>1. 1 \notin 2 .. Len(data)
    BY InitDisk
  <2>2. \A j \in Jobs, e \in Episodes : dl[j][e] # NoFile => dl[j][e] # 1
    BY <2>1, InitDisk
  <2> QED
    BY <2>2, <1>2 DEF OneSource
<1>6. OneEpisode
  BY <1>2 DEF OneEpisode, NoFile
<1> QED
  BY <1>3, <1>4, <1>5, <1>6 DEF InodeInv

LEMMA InodesKept == TInv /\ InodeInv /\ [Next]_vars => InodeInv'
<1> SUFFICES ASSUME TInv, InodeInv, [Next]_vars PROVE InodeInv'
  OBVIOUS
<1>1. CASE UNCHANGED vars \/ Kill
  <2>1. dirs' = dirs /\ dl' = dl
    BY <1>1 DEF vars, Kill, disk
  <2> QED
    BY <2>1, InodesFewer
<1>2. ASSUME NEW j \in Jobs, StepOf(j) PROVE InodeInv'
  <2>1. CASE transfer_at_once(j) \/ copy_starts(j) \/ copy_ends(j) \/ Download(j)
    BY <2>1, AtOnceInodes, CopyStartsInodes, CopyEndsInodes, DownloadInodes
  <2>2. CASE ~ (transfer_at_once(j) \/ copy_starts(j) \/ copy_ends(j) \/ Download(j))
    BY <1>2, <2>2, QuietDisk, InodesFewer
  <2> QED
    BY <2>1, <2>2
<1>3. CASE \E d, e \in Dirs : Rename(d, e)
  BY <1>3, RenameInodes
<1>4. CASE Rescan \/ StoreSynopsis \/ rewrite_show_folder_metadata \/ metadata_fails
  BY <1>4, OutsideDisk, InodesFewer
<1> QED
  BY <1>1, <1>2, <1>3, <1>4 DEF Next, StepOf

-----------------------------------------------------------------------------
(* Jobs whose downloads do not overlap leave each other's files alone.     *)

Local(j) ==
    /\ \A d \in Dirs : dirs[d].exists => dirs'[d].exists
    /\ \A d \in Dirs, p \in Places : p[1] \notin Holds[j] =>
          /\ dirs'[d].at[p] = dirs[d].at[p]
          /\ dirs[d].at[p] # NoFile => data'[dirs[d].at[p]] = data[dirs[d].at[p]]
    /\ \A k \in Jobs \ {j} :
          /\ job'[k] = job[k] /\ dl'[k] = dl[k] /\ q'[k] = q[k]
          /\ \A e \in Episodes : dl[k][e] # NoFile => data'[dl[k][e]] = data[dl[k][e]]
    /\ \A e \in Episodes \ Holds[j] : eps'[e] = eps[e]
    /\ q[j] # "none" => q'[j] # "none"
    /\ UNCHANGED <<mode, killed>>

\* A step that keeps its hands on the inodes of its own episodes, or on new ones.
LEMMA LocalDisk ==
    ASSUME Disjoint, TInv, InodeInv, NEW j \in Jobs, NEW e \in Holds[j], NEW i \in Nat,
           \/ i = NoFile
           \/ i \notin 0 .. Len(data)
           \/ \E d \in Dirs, p \in Places : p[1] = e /\ dirs[d].at[p] = i /\ i # NoFile,
           \A k \in 1 .. Len(data) : k # i => data'[k] = data[k]
    PROVE  /\ \A d \in Dirs, p \in Places : p[1] # e /\ dirs[d].at[p] # NoFile =>
                 data'[dirs[d].at[p]] = data[dirs[d].at[p]]
           /\ \A k \in Jobs \ {j}, f \in Episodes : dl[k][f] # NoFile =>
                 data'[dl[k][f]] = data[dl[k][f]]
<1>1. ASSUME NEW d \in Dirs, NEW p \in Places, p[1] # e, dirs[d].at[p] # NoFile
      PROVE  data'[dirs[d].at[p]] = data[dirs[d].at[p]]
  <2>1. dirs[d].at[p] \in 1 .. Len(data) /\ dirs[d].at[p] \in 0 .. Len(data)
    BY <1>1, InodeRange
  <2>2. dirs[d].at[p] # i
    BY <2>1, <1>1 DEF InodeInv, OneEpisode
  <2> QED
    BY <2>1, <2>2
<1>2. ASSUME NEW k \in Jobs \ {j}, NEW f \in Episodes, dl[k][f] # NoFile
      PROVE  data'[dl[k][f]] = data[dl[k][f]]
  <2>1. dl[k][f] \in 1 .. Len(data) /\ dl[k][f] \in 0 .. Len(data)
    BY <1>2, InodeRange
  <2>2. f \in Holds[k] /\ e \notin Holds[k]
    BY <1>2 DEF InodeInv, OwnDownload, Disjoint
  <2>3. dl[k][f] # i
    BY <2>1, <2>2, <1>2 DEF InodeInv, OneSource
  <2> QED
    BY <2>1, <2>3
<1> QED
  BY <1>1, <1>2

\* The episode a job is moving is one of its own.
LEMMA MovesOwn ==
    ASSUME TInv, NEW j \in Jobs, job[j].pc \in {"transfer", "copying", "record"}
    PROVE  job[j].place[1] \in Holds[j]
<1>1. RowOK(j, job[j], dl[j], Len(data)) /\ job[j].todo \subseteq Holds[j]
      /\ Own[j] \in Holds[j] /\ Holds[j] \subseteq Episodes
  BY JobType DEF RowOK
<1>2. CASE ~Batch(j)
  BY <1>1, <1>2 DEF RowOK
<1>3. CASE Batch(j)
  <2>1. job[j].todo # {} /\ job[j].place = <<Least(job[j].todo), "main">>
    BY <1>1, <1>3 DEF RowOK
  <2>2. job[j].todo \in SUBSET Nat
    BY <1>1, LibraryAssumption
  <2>3. Least(job[j].todo) \in job[j].todo
    BY <2>1, <2>2, LeastIn
  <2> QED
    BY <2>1, <2>3, <1>1
<1> QED
  BY <1>2, <1>3

\* What a step does to the tables.
LEMMA LocalTables ==
    ASSUME TInv, NEW j \in Jobs, StepOf(j)
    PROVE  /\ \A k \in Jobs \ {j} : job'[k] = job[k] /\ q'[k] = q[k]
           /\ \A e \in Episodes \ Holds[j] : eps'[e] = eps[e]
           /\ q[j] # "none" => q'[j] # "none"
           /\ UNCHANGED <<mode, killed>>
<1>1. eps \in [Episodes -> [done : BOOLEAN, path : Paths]] /\ q \in [Jobs -> Answers]
      /\ Own[j] \in Holds[j] /\ Holds[j] \subseteq Episodes
  BY TableTypes, JobType
<1>2. \A k \in Jobs \ {j} : job'[k] = job[k]
  BY OwnRow
<1>3. q' = q \/ \E a \in Answers \ {"none"} : q' = [q EXCEPT ![j] = a]
  BY DEF StepOf, JobStep, Begin, Decorate, PlaceFree, collision_asks, collision_answered,
     PlaceBatch, transfer_at_once, copy_starts, copy_ends, copy_fails, mark_done, record_batch,
     mark_primary, Finish, Answer, Expire, Retry, Download, db, Answers
<1>4. \E e \in Holds[j] : eps' = eps \/ (\E x : eps' = [eps EXCEPT ![e] = x])
  <2>1. CASE record_batch(j)
    <3>1. job[j].todo # {} /\ job[j].todo \subseteq Holds[j] /\ job[j].todo \subseteq Episodes
      BY <2>1, JobType DEF record_batch, RowOK
    <3>2. Current(j) \in Holds[j]
      BY <3>1, CurrentIn
    <3> QED
      BY <3>2, <2>1 DEF record_batch
  <2>2. CASE mark_done(j) \/ mark_primary(j)
    BY <2>2, <1>1 DEF mark_done, mark_primary
  <2>3. CASE ~JobStep(j)
    BY <2>3, <1>1 DEF StepOf, Answer, Expire, Retry, Download, db
  <2>4. CASE JobStep(j) /\ ~ (record_batch(j) \/ mark_done(j) \/ mark_primary(j))
    <3>1. eps' = eps
      BY <2>4 DEF JobStep, Begin, Decorate, PlaceFree, collision_asks, collision_answered,
         PlaceBatch, transfer_at_once, copy_starts, copy_ends, copy_fails, Finish, db
    <3> QED
      BY <3>1, <1>1
  <2> QED
    BY <2>1, <2>2, <2>3, <2>4
<1>5. UNCHANGED <<mode, killed>>
  BY DEF StepOf, JobStep, Begin, Decorate, PlaceFree, collision_asks, collision_answered,
     PlaceBatch, transfer_at_once, copy_starts, copy_ends, copy_fails, mark_done, record_batch,
     mark_primary, Finish, Answer, Expire, Retry, Download, rest
<1>6. \A e \in Episodes \ Holds[j] : eps'[e] = eps[e]
  BY <1>1, <1>4
<1>7. (q[j] # "none" => q'[j] # "none") /\ \A k \in Jobs \ {j} : q'[k] = q[k]
  BY <1>1, <1>3
<1> QED
  BY <1>2, <1>5, <1>6, <1>7

LEMMA StepIsLocal ==
    ASSUME Disjoint, DInv, NEW j \in Jobs, StepOf(j)
    PROVE  Local(j)
<1>1. TInv /\ InodeInv /\ TransferOK(j)
  BY DEF DInv
<1>2. /\ \A k \in Jobs \ {j} : job'[k] = job[k] /\ q'[k] = q[k]
      /\ \A e \in Episodes \ Holds[j] : eps'[e] = eps[e]
      /\ q[j] # "none" => q'[j] # "none"
      /\ UNCHANGED <<mode, killed>>
  BY <1>1, LocalTables
<1>3. ASSUME NEW e \in Holds[j], NEW i \in Nat,
             \/ i = NoFile
             \/ i \notin 0 .. Len(data)
             \/ \E d \in Dirs, p \in Places : p[1] = e /\ dirs[d].at[p] = i /\ i # NoFile,
             \A k \in 1 .. Len(data) : k # i => data'[k] = data[k],
             \A d \in Dirs : dirs[d].exists => dirs'[d].exists,
             \A d \in Dirs, p \in Places : p[1] # e => dirs'[d].at[p] = dirs[d].at[p],
             \A k \in Jobs \ {j} : dl'[k] = dl[k]
      PROVE  Local(j)
  <2>1. /\ \A d \in Dirs, p \in Places : p[1] # e /\ dirs[d].at[p] # NoFile =>
              data'[dirs[d].at[p]] = data[dirs[d].at[p]]
        /\ \A k \in Jobs \ {j}, f \in Episodes : dl[k][f] # NoFile =>
              data'[dl[k][f]] = data[dl[k][f]]
    BY <1>1, <1>3, LocalDisk
  <2> QED
    BY <2>1, <1>2, <1>3 DEF Local
<1>4. CASE transfer_at_once(j)
  <2> DEFINE d == job[j].dir
             p == job[j].place
             i == dl[j][Moving(j)]
  <2>1. /\ job[j].pc = "transfer" /\ data' = data
        /\ dirs' = [dirs EXCEPT ![d] = [@ EXCEPT !.exists = TRUE, !.at[p] = i]]
        /\ dl' = dl \/ dl' = [dl EXCEPT ![j][Moving(j)] = NoFile]
    BY <1>4 DEF transfer_at_once
  <2>2. d \in Dirs /\ p \in Places /\ Moving(j) \in Episodes /\ p[1] \in Holds[j]
    BY <2>1, <1>1, Target, MovesOwn
  <2>3. \A k \in Jobs \ {j} : dl'[k] = dl[k]
    BY <2>1, <2>2, <1>1, TakenFile
  <2> HIDE DEF d, p, i
  <2>4. /\ dirs'[d].exists = TRUE /\ dirs'[d].at[p] = i
        /\ \A r \in Places \ {p} : dirs'[d].at[r] = dirs[d].at[r]
        /\ \A c \in Dirs \ {d} : dirs'[c] = dirs[c]
    BY <2>1, <2>2, <1>1, FilePut
  <2>5. /\ \A c \in Dirs : dirs[c].exists => dirs'[c].exists
        /\ \A c \in Dirs, r \in Places : r[1] # p[1] => dirs'[c].at[r] = dirs[c].at[r]
    BY <2>4
  <2>6. NoFile \in Nat
    BY DEF NoFile
  <2> QED
    BY <2>1, <2>2, <2>3, <2>5, <2>6, <1>3
<1>5. CASE copy_starts(j)
  <2> DEFINE d == job[j].dir
             p == job[j].place
             i == IF Exists(d, p) THEN dirs[d].at[p] ELSE Len(data) + 1
  <2>1. /\ d \in Dirs /\ p \in Places /\ Len(data') \in Nat /\ i \in 1 .. Len(data')
        /\ \A k \in 1 .. Len(data) : k # i => data'[k] = data[k]
        /\ dirs' = [dirs EXCEPT ![d] = [@ EXCEPT !.exists = TRUE, !.at[p] = i]]
    BY <1>5, <1>1, CopyDisk
  <2>2. p[1] \in Holds[j] /\ dl' = dl
    BY <1>5, <1>1, MovesOwn DEF copy_starts
  <2>3. i \notin 0 .. Len(data) \/ (dirs[d].at[p] = i /\ i # NoFile)
    <3>1. CASE Exists(d, p)
      BY <3>1 DEF Exists
    <3>2. CASE ~Exists(d, p)
      BY <3>2, <1>1, InodeRange
    <3> QED
      BY <3>1, <3>2
  <2> HIDE DEF d, p, i
  <2>4. /\ dirs'[d].exists = TRUE /\ dirs'[d].at[p] = i
        /\ \A r \in Places \ {p} : dirs'[d].at[r] = dirs[d].at[r]
        /\ \A c \in Dirs \ {d} : dirs'[c] = dirs[c]
    BY <2>1, <1>1, FilePut
  <2>5. /\ \A c \in Dirs : dirs[c].exists => dirs'[c].exists
        /\ \A c \in Dirs, r \in Places : r[1] # p[1] => dirs'[c].at[r] = dirs[c].at[r]
    BY <2>4
  <2>6. i \in Nat
    BY <2>1
  <2> QED
    BY <2>1, <2>2, <2>3, <2>5, <2>6, <1>3
<1>6. CASE copy_ends(j)
  <2> DEFINE i == job[j].ino
             p == job[j].place
  <2>1. /\ job[j].pc = "copying" /\ dirs' = dirs
        /\ dl' = dl \/ dl' = [dl EXCEPT ![j][Moving(j)] = NoFile]
    BY <1>6 DEF copy_ends
  <2>2. /\ i \in 1 .. Len(data) /\ p \in Places /\ Moving(j) \in Episodes
        /\ \A k \in 1 .. Len(data) : k # i => data'[k] = data[k]
    BY <1>6, <1>1, CopiedDisk
  <2>3. \E d \in Dirs : dirs[d].at[p] = i
    BY <2>1, <1>1 DEF TransferOK
  <2>4. p[1] \in Holds[j]
    BY <2>1, <1>1, MovesOwn
  <2>5. \A k \in Jobs \ {j} : dl'[k] = dl[k]
    BY <2>1, <2>2, <1>1, TakenFile
  <2>6. i \in Nat /\ i # NoFile
    BY <2>2, <1>1, DiskType DEF NoFile
  <2> HIDE DEF i, p
  <2> QED
    BY <2>1, <2>2, <2>3, <2>4, <2>5, <2>6, <1>3
<1>7. CASE Download(j)
  <2>1. /\ dirs' = dirs /\ \A k \in 1 .. Len(data) : data'[k] = data[k]
        /\ \A k \in Jobs \ {j} : dl'[k] = dl[k]
    BY <1>7, <1>1, DownloadDisk DEF Download
  <2>2. Own[j] \in Holds[j] /\ NoFile \in Nat
    BY <1>1, JobType DEF NoFile
  <2> QED
    BY <2>1, <2>2, <1>3
<1>8. CASE ~ (transfer_at_once(j) \/ copy_starts(j) \/ copy_ends(j) \/ Download(j))
  <2>1. /\ data' = data /\ dl' = dl
        /\ \A d \in Dirs : dirs[d].exists => dirs'[d].exists
        /\ \A d \in Dirs, p \in Places :
              dirs'[d].at[p] = dirs[d].at[p] \/ p = <<Own[j], "main">>
    BY <1>1, <1>8, QuietDisk
  <2>2. Own[j] \in Holds[j] /\ NoFile \in Nat
    BY <1>1, JobType DEF NoFile
  <2>3. \A d \in Dirs, p \in Places : p[1] # Own[j] => dirs'[d].at[p] = dirs[d].at[p]
    BY <2>1
  <2> QED
    BY <2>1, <2>2, <2>3, <1>3
<1> QED
  BY <1>4, <1>5, <1>6, <1>7, <1>8

\* Questions are not forgotten.
LEMMA AskedStays ==
    ASSUME NEW j \in Jobs, Local(j), NEW e, Asked(e)
    PROVE  Asked(e)'
BY DEF Asked, Local

\* So the transfers of the other jobs go on as they were,
LEMMA OtherTransfer ==
    ASSUME Disjoint, TInv, InodeInv, NEW j \in Jobs, Local(j), NEW k \in Jobs \ {j},
           TransferOK(k)
    PROVE  TransferOK(k)'
<1> DEFINE d == job[k].dir
           p == job[k].place
<1>1. job'[k] = job[k]
  BY DEF Local
<1>2. ASSUME job[k].pc \in {"transfer", "copying"}
      PROVE  d \in Dirs /\ p \in Places /\ p[1] \notin Holds[j]
  BY <1>2, Target, MovesOwn DEF Disjoint
<1>3. ASSUME job[k].pc = "transfer", Exists(d, p)' PROVE Asked(p[1])'
  <2>1. d \in Dirs /\ p \in Places /\ p[1] \notin Holds[j]
    BY <1>2, <1>3
  <2>2. dirs'[d].at[p] # NoFile /\ dirs'[d].at[p] = dirs[d].at[p]
    BY <1>1, <1>3, <2>1 DEF Exists, Local
  <2>3. Exists(d, p)
    BY <2>1, <2>2 DEF InodeInv, Vacant, Exists
  <2>4. Asked(p[1])
    BY <2>3, <1>3 DEF TransferOK
  <2> QED
    BY <2>4, AskedStays, <1>1
<1>4. ASSUME job[k].pc = "copying"
      PROVE  /\ ~Whole(job[k].ino)'
             /\ \E c \in Dirs : dirs'[c].exists /\ dirs'[c].at[p] = job[k].ino
  <2>1. d \in Dirs /\ p \in Places /\ p[1] \notin Holds[j]
    BY <1>2, <1>4
  <2>2. ~Whole(job[k].ino)
    BY <1>4 DEF TransferOK
  <2>3. PICK c \in Dirs : dirs[c].exists /\ dirs[c].at[p] = job[k].ino
    BY <1>4 DEF TransferOK
  <2>4. dirs'[c].exists /\ dirs'[c].at[p] = job[k].ino
    BY <2>1, <2>3 DEF Local
  <2>5. job[k].ino # NoFile => data'[job[k].ino] = data[job[k].ino]
    BY <2>1, <2>3 DEF Local
  <2>6. ~Whole(job[k].ino)'
    BY <1>1, <2>2, <2>5 DEF Whole
  <2> QED
    BY <2>4, <2>6
<1> QED
  BY <1>1, <1>3, <1>4 DEF TransferOK

\* and what they have filed stays where it is.
LEMMA OtherSingle ==
    ASSUME Disjoint, TInv, NEW j \in Jobs, Local(j), NEW k \in Jobs \ {j}, SingleOK(k)
    PROVE  SingleOK(k)'
<1>1. /\ job'[k] = job[k] /\ dl'[k] = dl[k] /\ q'[k] = q[k] /\ mode' = mode /\ killed' = killed
      /\ \A e \in Episodes : dl[k][e] # NoFile => data'[dl[k][e]] = data[dl[k][e]]
  BY DEF Local
<1>2. Own[k] \in Episodes /\ Own[k] \notin Holds[j]
  BY JobType DEF Disjoint
<1>3. \A v \in Versions : <<Own[k], v>> \in Places
  BY <1>2 DEF Places
<1>4. \A d \in Dirs, v \in Versions :
         /\ dirs[d].exists => dirs'[d].exists
         /\ dirs'[d].at[<<Own[k], v>>] = dirs[d].at[<<Own[k], v>>]
         /\ dirs[d].at[<<Own[k], v>>] # NoFile =>
               data'[dirs[d].at[<<Own[k], v>>]] = data[dirs[d].at[<<Own[k], v>>]]
  BY <1>2, <1>3 DEF Local
<1>5. Exempt(k)' = Exempt(k)
  BY <1>1 DEF Exempt
<1>6. Whole(dl[k][Own[k]])' = Whole(dl[k][Own[k]])
  BY <1>1, <1>2 DEF Whole
<1>7. FiledWhole(k) => FiledWhole(k)'
  BY <1>4 DEF FiledWhole, Whole
<1>8. eps'[Own[k]] = eps[Own[k]]
  BY <1>2 DEF Local
<1>9. SUFFICES ASSUME ~Batch(k) PROVE SingleOK(k)'
  BY DEF SingleOK, Batch
<1>10. SecondLink(k)'
  <2>1. SecondLink(k) /\ "v2" \in Versions
    BY <1>9 DEF SingleOK, Versions
  <2> QED
    BY <2>1, <1>1, <1>4 DEF SecondLink
<1>11. job[k].pc = "transfer" /\ job[k].place[2] = "main" =>
          dirs'[job[k].dir].at[job[k].place] # dl[k][Own[k]]
  <2> SUFFICES ASSUME job[k].pc = "transfer", job[k].place[2] = "main"
               PROVE  dirs'[job[k].dir].at[job[k].place] # dl[k][Own[k]]
    OBVIOUS
  <2>1. dirs[job[k].dir].at[job[k].place] # dl[k][Own[k]]
    BY <1>9 DEF SingleOK
  <2>2. job[k].dir \in Dirs /\ job[k].place \in Places /\ job[k].place[1] \notin Holds[j]
    BY Target, MovesOwn DEF Disjoint
  <2> QED
    BY <2>1, <2>2 DEF Local
<1> HIDE DEF Exempt, FiledWhole, SecondLink, Whole
<1> QED
  BY <1>1, <1>5, <1>6, <1>7, <1>8, <1>9, <1>10, <1>11 DEF SingleOK

\* Only these four steps lead into a transfer or a copy.
LEMMA NotMoving ==
    ASSUME TInv, NEW j \in Jobs, StepOf(j),
           ~PlaceFree(j), ~PlaceBatch(j), ~collision_answered(j), ~copy_starts(j)
    PROVE  job'[j].pc \notin {"transfer", "copying"}
<1>1. job \in [Jobs -> Row] /\ job[j] \in Row
  BY JobType
<1>2. CASE Begin(j)
  <2>1. CASE \E pc \in {"lost", "failed"} : job' = [job EXCEPT ![j].pc = pc]
    BY <2>1, <1>1 DEF Row
  <2>2. CASE \E d \in resolve_show_folder :
                job' = [job EXCEPT ![j] = [Idle EXCEPT !.pc = "decorate",
                                         !.known = known, !.dir = d]]
    BY <2>2, <1>1 DEF Idle
  <2> QED
    BY <2>1, <2>2, <1>2 DEF Begin
<1>7. CASE Decorate(j)
  <2> DEFINE t == {e \in Holds[j] : dl[j][e] # NoFile}
  <2>1. job' = [job EXCEPT ![j] = [@ EXCEPT !.pc = "placed", !.known = FALSE, !.todo = t]]
    BY <1>7 DEF Decorate
  <2> HIDE DEF t
  <2> QED
    BY <2>1, <1>1 DEF Row
<1>8. CASE collision_asks(j) \/ Finish(j)
  BY <1>8, <1>1 DEF collision_asks, Finish, Idle, Row
<1>3. CASE transfer_at_once(j) \/ copy_ends(j) \/ mark_done(j) \/ mark_primary(j)
  BY <1>3, <1>1 DEF transfer_at_once, copy_ends, mark_done, mark_primary, Row
<1>4. CASE copy_fails(j)
  BY <1>4, <1>1 DEF copy_fails, Idle, Row
<1>5. CASE record_batch(j)
  <2> DEFINE left == job[j].todo \ {Current(j)}
             first == IF job[j].first = {} THEN {Current(j)} ELSE job[j].first
             pc == IF left = {} THEN "primary" ELSE "placed"
  <2>1. job' = [job EXCEPT ![j] = [@ EXCEPT !.todo = left, !.first = first, !.pc = pc]]
    BY <1>5 DEF record_batch
  <2>2. pc \in {"primary", "placed"}
    OBVIOUS
  <2> HIDE DEF left, first, pc
  <2> QED
    BY <2>1, <2>2, <1>1 DEF Row
<1>6. CASE ~JobStep(j)
  BY <1>6, <1>1 DEF StepOf, Answer, Expire, Retry, Download, Row
<1> QED
  BY <1>2, <1>3, <1>4, <1>5, <1>6, <1>7, <1>8 DEF JobStep

\* Where a step that has found its place goes.
LEMMA GoesTo ==
    ASSUME TInv, NEW j \in Jobs, NEW pc, NEW p, Goes(j, pc, p)
    PROVE  job'[j].pc = pc /\ job'[j].place = p /\ job'[j].dir = job[j].dir
BY JobType DEF Goes, Row

\* A transfer begins on a free place, or one that was asked about.
LEMMA OwnTransfer ==
    ASSUME TInv, NEW j \in Jobs, StepOf(j)
    PROVE  TransferOK(j)'
<1>1. CASE PlaceFree(j) \/ PlaceBatch(j)
  <2>1. \E pc, p : /\ Goes(j, pc, p) /\ pc \in {"record", "transfer"}
                   /\ pc = "transfer" => ~Exists(job[j].dir, p)
    BY <1>1 DEF PlaceFree, PlaceBatch
  <2>2. dirs' = dirs
    BY <1>1 DEF PlaceFree, PlaceBatch, disk
  <2> QED
    BY <2>1, <2>2, GoesTo DEF TransferOK, Exists
<1>2. CASE collision_answered(j)
  <2>1. \E pc, v : Goes(j, pc, <<Own[j], v>>) /\ pc \in {"record", "transfer"}
    BY <1>2 DEF collision_answered
  <2>2. Asked(Own[j])'
    BY <1>2 DEF collision_answered, Asked, db
  <2> QED
    BY <2>1, <2>2, GoesTo DEF TransferOK
<1>3. CASE copy_starts(j)
  <2> DEFINE d == job[j].dir
             p == job[j].place
             i == IF Exists(d, p) THEN dirs[d].at[p] ELSE Len(data) + 1
  <2>1. /\ d \in Dirs /\ p \in Places
        /\ dirs' = [dirs EXCEPT ![d] = [@ EXCEPT !.exists = TRUE, !.at[p] = i]]
    BY <1>3, CopyDisk
  <2>6. data'[i] = [what |-> data[dl[j][Moving(j)]].what, whole |-> FALSE]
    BY <1>3, CopyDisk
  <2>7. job' = [job EXCEPT ![j] = [@ EXCEPT !.pc = "copying", !.ino = i]]
    BY <1>3, CopyDisk
  <2>2. job[j] \in Row /\ job \in [Jobs -> Row]
    BY JobType
  <2> HIDE DEF d, p, i
  <2>3. job'[j].pc = "copying" /\ job'[j].ino = i /\ job'[j].place = job[j].place
    BY <2>7, <2>2 DEF Row
  <2>4. /\ dirs'[d].exists = TRUE /\ dirs'[d].at[p] = i
        /\ \A r \in Places \ {p} : dirs'[d].at[r] = dirs[d].at[r]
        /\ \A c \in Dirs \ {d} : dirs'[c] = dirs[c]
    BY <2>1, FilePut
  <2>5. data'[i].whole = FALSE
    BY <2>6
  <2> QED
    BY <2>1, <2>3, <2>4, <2>5 DEF TransferOK, Whole, p
<1>4. CASE ~PlaceFree(j) /\ ~PlaceBatch(j) /\ ~collision_answered(j) /\ ~copy_starts(j)
  BY <1>4, NotMoving DEF TransferOK
<1> QED
  BY <1>1, <1>2, <1>3, <1>4

\* A rename takes the folder away from a transfer, or leaves it alone.
LEMMA RenameTransfer ==
    ASSUME TInv, FolderInv, NEW d \in Dirs, NEW e \in Dirs, Rename(d, e),
           NEW j \in Jobs, TransferOK(j)
    PROVE  TransferOK(j)'
<1>1. /\ d = Default /\ d # e /\ dirs[d].exists /\ ~dirs[e].exists
      /\ dirs'[e] = dirs[d] /\ dirs'[d] = dirs[e]
      /\ \A c \in Dirs \ {d, e} : dirs'[c] = dirs[c]
      /\ data' = data /\ q' = q /\ job' = job
  BY RenameWrites
<1>2. ASSUME job[j].pc = "transfer", Exists(job[j].dir, job[j].place)'
      PROVE  Asked(job[j].place[1])
  <2>1. job[j].dir \in Dirs /\ Stays(job[j].dir)
    BY <1>2, Target DEF FolderInv, Busy
  <2>2. job[j].dir \notin {d, e}
    BY <2>1, <1>1, <1>2 DEF Exists, Stays
  <2>3. Exists(job[j].dir, job[j].place)
    BY <2>1, <2>2, <1>1, <1>2 DEF Exists
  <2> QED
    BY <2>3, <1>2 DEF TransferOK
<1>3. ASSUME job[j].pc = "copying"
      PROVE  \E c \in Dirs : dirs'[c].exists /\ dirs'[c].at[job[j].place] = job[j].ino
  <2>1. PICK c \in Dirs : dirs[c].exists /\ dirs[c].at[job[j].place] = job[j].ino
    BY <1>3 DEF TransferOK
  <2>2. c # e
    BY <2>1, <1>1
  <2> QED
    BY <2>1, <2>2, <1>1
<1> QED
  BY <1>1, <1>2, <1>3 DEF TransferOK, Whole, Asked

LEMMA TransfersKept ==
    ASSUME Disjoint, DInv, [Next]_vars, NEW k \in Jobs
    PROVE  TransferOK(k)'
<1>1. TInv /\ FolderInv /\ InodeInv /\ TransferOK(k)
  BY DEF DInv
<1>2. CASE UNCHANGED vars
  BY <1>2, <1>1 DEF vars, disk, db, TransferOK, Exists, Whole, Asked
<1>3. ASSUME NEW j \in Jobs, StepOf(j) PROVE TransferOK(k)'
  <2>1. CASE k = j
    BY <2>1, <1>1, <1>3, OwnTransfer
  <2>2. CASE k # j
    BY <2>2, <1>1, <1>3, StepIsLocal, OtherTransfer
  <2> QED
    BY <2>1, <2>2
<1>4. CASE Kill
  <2>1. job'[k] = IF job[k].pc \in Busy THEN Idle ELSE job[k]
    BY <1>4 DEF Kill
  <2>2. job'[k].pc \notin {"transfer", "copying"}
    BY <2>1 DEF Busy, Idle
  <2> QED
    BY <2>2 DEF TransferOK
<1>5. CASE \E d, e \in Dirs : Rename(d, e)
  BY <1>5, <1>1, RenameTransfer
<1>6. CASE Rescan \/ StoreSynopsis \/ rewrite_show_folder_metadata \/ metadata_fails
  <2>1. /\ data' = data /\ q' = q /\ job' = job
        /\ \A d \in Dirs : dirs'[d].exists = dirs[d].exists /\ dirs'[d].at = dirs[d].at
    BY <1>1, <1>6, OutsideDisk
  <2>2. job[k].pc = "transfer" => job[k].dir \in Dirs
    BY <1>1, Target
  <2> QED
    BY <2>1, <2>2, <1>1 DEF TransferOK, Exists, Whole, Asked
<1> QED
  BY <1>2, <1>3, <1>4, <1>5, <1>6 DEF Next, StepOf

LEMMA InitDInv == Init => DInv
<1> SUFFICES ASSUME Init PROVE DInv
  OBVIOUS
<1>1. \A j \in Jobs : job[j].pc = "finalize"
  BY DEF Init, Idle
<1>2. \A j \in Jobs : TransferOK(j)
  BY <1>1 DEF TransferOK
<1> QED
  BY <1>2, InitTypes, InitFolder, InitInodes DEF DInv

LEMMA DKept == ASSUME Disjoint PROVE DInv /\ [Next]_vars => DInv'
<1> SUFFICES ASSUME DInv, [Next]_vars PROVE DInv'
  OBVIOUS
<1>1. TInv' /\ FolderInv' /\ InodeInv'
  BY TypesKept, FolderKept, InodesKept DEF DInv
<1>2. \A k \in Jobs : TransferOK(k)'
  BY TransfersKept
<1> QED
  BY <1>1, <1>2 DEF DInv

-----------------------------------------------------------------------------
(* Filing implements Shelf.                                                *)

\* A whole file stays in its place, in some folder.
Remains(p) ==
    \A d \in Dirs : dirs[d].exists /\ Whole(dirs[d].at[p]) =>
        \E c \in Dirs : /\ dirs'[c].exists /\ dirs'[c].at[p] = dirs[d].at[p]
                        /\ data'[dirs[d].at[p]] = data[dirs[d].at[p]]

LEMMA RemainsOn ==
    ASSUME NEW p \in Places, Remains(p)
    PROVE  OnShelf(p) \subseteq OnShelf(p)'
<1> SUFFICES ASSUME NEW x \in OnShelf(p) PROVE x \in OnShelf(p)'
  OBVIOUS
<1>1. PICK d \in Dirs : dirs[d].exists /\ Whole(dirs[d].at[p]) /\ x = data[dirs[d].at[p]].what
  BY DEF OnShelf
<1>2. PICK c \in Dirs : /\ dirs'[c].exists /\ dirs'[c].at[p] = dirs[d].at[p]
                        /\ data'[dirs[d].at[p]] = data[dirs[d].at[p]]
  BY <1>1 DEF Remains
<1>3. dirs'[c].exists /\ Whole(dirs[c].at[p])' /\ x = data'[dirs'[c].at[p]].what
  BY <1>1, <1>2 DEF Whole
<1> QED
  BY <1>3 DEF OnShelf

LEMMA ContentType ==
    ASSUME NEW D \in Seq(Contents), NEW i \in 0 .. Len(D), i # NoFile
    PROVE  D[i].what \in Jobs \cup {"user"}
<1>1. i \in 1 .. Len(D)
  BY DEF NoFile
<1>2. D[i] \in Contents
  BY <1>1
<1> QED
  BY <1>2 DEF Contents

\* A step of the filing jobs, seen on the shelf.
LEMMA FileStep ==
    ASSUME TInv', q' = q, \A p \in Places : Remains(p) \/ Asked(p[1])
    PROVE  Abstract!File
<1>1. AskedPlaces' = AskedPlaces
  BY DEF AskedPlaces
<1>2. \A p \in Places : OnShelf(p)' \subseteq Jobs \cup {"user"}
  <2>1. data' \in Seq(Contents) /\ dirs' \in [Dirs -> Folder(Len(data'))]
    BY DEF TInv, Types
  <2>2. \A d \in Dirs, p \in Places : dirs'[d].at[p] \in 0 .. Len(data')
    BY <2>1 DEF Folder
  <2>3. \A d \in Dirs, p \in Places : dirs'[d].at[p] # NoFile =>
           data'[dirs'[d].at[p]].what \in Jobs \cup {"user"}
    BY <2>1, <2>2, ContentType
  <2> QED
    BY <2>3 DEF OnShelf, Whole
<1>3. \A p \in Places : OnShelf(p) \subseteq OnShelf(p)' \/ p \in AskedPlaces
  BY RemainsOn DEF Asked, AskedPlaces
<1> HIDE DEF OnShelf, AskedPlaces
<1> QED
  BY <1>1, <1>2, <1>3 DEF Abstract!File

\* A question or an answer, seen on the shelf.
LEMMA AskStep ==
    ASSUME TInv, NEW j \in Jobs, collision_asks(j) \/ Expire(j)
              \/ \E choice \in {"keep", "replace", "both"} : Answer(j, choice)
    PROVE  Abstract!Ask
<1>1. data' = data /\ dirs' = dirs
  BY DEF collision_asks, Expire, Answer, disk
<1>2. \A k \in Jobs : q[k] # "none" => q'[k] # "none"
  BY LocalTables DEF StepOf, JobStep
<1>3. AskedPlaces \subseteq AskedPlaces' /\ AskedPlaces' \subseteq Places
  BY <1>2 DEF AskedPlaces
<1>4. \A p \in Places : OnShelf(p)' = OnShelf(p)
  BY <1>1 DEF OnShelf, Whole
<1> HIDE DEF OnShelf, AskedPlaces
<1> QED
  BY <1>3, <1>4 DEF Abstract!Ask

\* Where a job's step takes a file away, the Inbox has asked.
LEMMA AtOnceRemains ==
    ASSUME DInv, NEW j \in Jobs, transfer_at_once(j), NEW r \in Places
    PROVE  Remains(r) \/ Asked(r[1])
<1> DEFINE d == job[j].dir
           p == job[j].place
           i == dl[j][Moving(j)]
<1>0. TInv /\ TransferOK(j)
  BY DEF DInv
<1>1. /\ job[j].pc = "transfer" /\ data' = data
      /\ dirs' = [dirs EXCEPT ![d] = [@ EXCEPT !.exists = TRUE, !.at[p] = i]]
  BY DEF transfer_at_once
<1>2. d \in Dirs /\ p \in Places
  BY <1>0, <1>1, Target
<1>3. Exists(d, p) => Asked(p[1])
  BY <1>0, <1>1 DEF TransferOK
<1> HIDE DEF d, p, i
<1>4. /\ dirs'[d].exists = TRUE /\ dirs'[d].at[p] = i
      /\ \A x \in Places \ {p} : dirs'[d].at[x] = dirs[d].at[x]
      /\ \A c \in Dirs \ {d} : dirs'[c] = dirs[c]
  BY <1>0, <1>1, <1>2, FilePut
<1>5. CASE r = p /\ Exists(d, p)
  BY <1>3, <1>5
<1>6. CASE ~ (r = p /\ Exists(d, p))
  BY <1>1, <1>4, <1>6 DEF Remains, Exists, Whole
<1> QED
  BY <1>5, <1>6

LEMMA CopyStartsRemains ==
    ASSUME DInv, NEW j \in Jobs, copy_starts(j), NEW r \in Places
    PROVE  Remains(r) \/ Asked(r[1])
<1> DEFINE d == job[j].dir
           p == job[j].place
           i == IF Exists(d, p) THEN dirs[d].at[p] ELSE Len(data) + 1
<1>0. TInv /\ InodeInv /\ TransferOK(j) /\ job[j].pc = "transfer"
  BY DEF DInv, copy_starts
<1>1. /\ d \in Dirs /\ p \in Places
      /\ \A k \in 1 .. Len(data) : k # i => data'[k] = data[k]
      /\ dirs' = [dirs EXCEPT ![d] = [@ EXCEPT !.exists = TRUE, !.at[p] = i]]
  BY <1>0, CopyDisk
<1>2. Exists(d, p) => Asked(p[1])
  BY <1>0 DEF TransferOK
<1>3. ASSUME r[1] # p[1] \/ ~Exists(d, p), NEW c \in Dirs, dirs[c].exists, Whole(dirs[c].at[r])
      PROVE  dirs[c].at[r] # i /\ (c # d \/ r # p)
  <2>1. dirs[c].at[r] \in 0 .. Len(data) /\ dirs[c].at[r] # NoFile /\ Len(data) \in Nat
    BY <1>0, <1>3, InodeRange DEF Whole
  <2>2. CASE Exists(d, p)
    BY <2>1, <2>2, <1>0, <1>1, <1>3 DEF InodeInv, OneEpisode
  <2>3. CASE ~Exists(d, p)
    <3>1. i = Len(data) + 1
      BY <2>3
    <3>2. dirs[c].at[r] # i
      BY <3>1, <2>1
    <3> QED
      BY <3>2, <2>1, <2>3, <1>3 DEF Exists
  <2> QED
    BY <2>2, <2>3
<1> HIDE DEF d, p, i
<1>4. /\ dirs'[d].exists = TRUE /\ dirs'[d].at[p] = i
      /\ \A x \in Places \ {p} : dirs'[d].at[x] = dirs[d].at[x]
      /\ \A c \in Dirs \ {d} : dirs'[c] = dirs[c]
  BY <1>0, <1>1, FilePut
<1>5. CASE r[1] = p[1] /\ Exists(d, p)
  BY <1>2, <1>5
<1>6. CASE r[1] # p[1] \/ ~Exists(d, p)
  <2>1. ASSUME NEW c \in Dirs, dirs[c].exists, Whole(dirs[c].at[r])
        PROVE  /\ dirs'[c].exists /\ dirs'[c].at[r] = dirs[c].at[r]
               /\ data'[dirs[c].at[r]] = data[dirs[c].at[r]]
    <3>1. dirs[c].at[r] # i /\ (c # d \/ r # p)
      BY <2>1, <1>3, <1>6
    <3>2. dirs[c].at[r] \in 1 .. Len(data)
      BY <2>1, <1>0, InodeRange DEF Whole
    <3>3. data'[dirs[c].at[r]] = data[dirs[c].at[r]]
      BY <3>1, <3>2, <1>1
    <3> QED
      BY <3>1, <3>3, <1>4, <2>1
  <2> QED
    BY <2>1 DEF Remains
<1> QED
  BY <1>5, <1>6

LEMMA CopyEndsRemains ==
    ASSUME DInv, NEW j \in Jobs, copy_ends(j), NEW r \in Places
    PROVE  Remains(r)
<1>0. TInv /\ TransferOK(j) /\ job[j].pc = "copying" /\ dirs' = dirs
  BY DEF DInv, copy_ends
<1>1. \A k \in 1 .. Len(data) : k # job[j].ino => data'[k] = data[k]
  BY <1>0, CopiedDisk
<1>2. ~Whole(job[j].ino)
  BY <1>0 DEF TransferOK
<1>3. ASSUME NEW c \in Dirs, dirs[c].exists, Whole(dirs[c].at[r])
      PROVE  data'[dirs[c].at[r]] = data[dirs[c].at[r]]
  <2>1. dirs[c].at[r] \in 1 .. Len(data)
    BY <1>3, <1>0, InodeRange DEF Whole
  <2>2. dirs[c].at[r] # job[j].ino
    BY <1>2, <1>3
  <2> QED
    BY <2>1, <2>2, <1>1
<1> QED
  BY <1>0, <1>3 DEF Remains

LEMMA StepRemains ==
    ASSUME DInv, NEW j \in Jobs, StepOf(j), NEW r \in Places
    PROVE  Remains(r) \/ Asked(r[1])
<1>0. TInv
  BY DEF DInv
<1>1. CASE transfer_at_once(j) \/ copy_starts(j) \/ copy_ends(j)
  BY <1>1, AtOnceRemains, CopyStartsRemains, CopyEndsRemains
<1>2. CASE Download(j)
  <2>1. dirs' = dirs /\ \A k \in 1 .. Len(data) : data'[k] = data[k]
    BY <1>0, <1>2, DownloadDisk DEF Download
  <2>2. \A c \in Dirs : Whole(dirs[c].at[r]) => dirs[c].at[r] \in 1 .. Len(data)
    BY <1>0, InodeRange DEF Whole
  <2> QED
    BY <2>1, <2>2 DEF Remains
<1>3. CASE ~ (transfer_at_once(j) \/ copy_starts(j) \/ copy_ends(j) \/ Download(j))
  <2>1. /\ data' = data
        /\ \A d \in Dirs : dirs[d].exists => dirs'[d].exists
        /\ \A d \in Dirs : \/ dirs'[d].at[r] = dirs[d].at[r]
                           \/ r = <<Own[j], "main">> /\ q[j] = "replace"
    BY <1>0, <1>3, QuietDisk
  <2>2. CASE r = <<Own[j], "main">> /\ q[j] = "replace"
    BY <2>2 DEF Asked
  <2>3. CASE ~ (r = <<Own[j], "main">> /\ q[j] = "replace")
    BY <2>1, <2>3 DEF Remains
  <2> QED
    BY <2>2, <2>3
<1> QED
  BY <1>1, <1>2, <1>3

\* Every step of the daemon, its user and its metadata is a step of Shelf.
LEMMA ShelfNext ==
    ASSUME DInv, TInv', [Next]_vars
    PROVE  [Abstract!Next]_<<[p \in Places |-> OnShelf(p)], AskedPlaces>>
<1>0. TInv
  BY DEF DInv
<1>1. CASE UNCHANGED vars
  <2>1. q' = q /\ data' = data /\ dirs' = dirs
    BY <1>1 DEF vars, disk, db
  <2>2. \A p \in Places : Remains(p)
    BY <2>1 DEF Remains
  <2> QED
    BY <2>1, <2>2, FileStep DEF Abstract!Next
<1>2. ASSUME NEW j \in Jobs, StepOf(j) PROVE Abstract!Next
  <2>1. CASE collision_asks(j) \/ Expire(j)
               \/ \E choice \in {"keep", "replace", "both"} : Answer(j, choice)
    BY <2>1, <1>0, AskStep DEF Abstract!Next
  <2>2. CASE ~ (collision_asks(j) \/ Expire(j)
               \/ \E choice \in {"keep", "replace", "both"} : Answer(j, choice))
    <3>1. q' = q
      BY <1>2, <2>2 DEF StepOf, JobStep, Begin, Decorate, PlaceFree, collision_answered,
         PlaceBatch, transfer_at_once, copy_starts, copy_ends, copy_fails, mark_done,
         record_batch, mark_primary, Finish, Retry, Download, db
    <3>2. \A p \in Places : Remains(p) \/ Asked(p[1])
      BY <1>2, StepRemains
    <3> QED
      BY <3>1, <3>2, FileStep DEF Abstract!Next
  <2> QED
    BY <2>1, <2>2
<1>3. CASE Kill \/ (\E d, e \in Dirs : Rename(d, e))
             \/ Rescan \/ StoreSynopsis \/ rewrite_show_folder_metadata \/ metadata_fails
  <2>1. ASSUME Kill PROVE q' = q /\ \A p \in Places : Remains(p)
    <3>1. q' = q /\ data' = data /\ dirs' = dirs
      BY <2>1 DEF Kill, disk, db
    <3> QED
      BY <3>1 DEF Remains
  <2>2. ASSUME NEW d \in Dirs, NEW e \in Dirs, Rename(d, e)
        PROVE  q' = q /\ \A p \in Places : Remains(p)
    <3>1. /\ d # e /\ dirs[d].exists /\ ~dirs[e].exists
          /\ dirs'[e] = dirs[d] /\ dirs'[d] = dirs[e]
          /\ \A c \in Dirs \ {d, e} : dirs'[c] = dirs[c]
          /\ data' = data /\ q' = q
      BY <2>2, <1>0, RenameWrites
    <3>2. \A c \in Dirs : dirs[c].exists => \E b \in Dirs : dirs'[b] = dirs[c]
      BY <3>1
    <3> QED
      BY <3>1, <3>2 DEF Remains
  <2>3. ASSUME Rescan \/ StoreSynopsis \/ rewrite_show_folder_metadata \/ metadata_fails
        PROVE  q' = q /\ \A p \in Places : Remains(p)
    BY <2>3, <1>0, OutsideDisk DEF Remains
  <2>4. q' = q /\ \A p \in Places : Remains(p)
    BY <1>3, <2>1, <2>2, <2>3
  <2> QED
    BY <2>4, FileStep DEF Abstract!Next
<1> QED
  BY <1>1, <1>2, <1>3 DEF Next, StepOf

LEMMA ShelfInit == Init => Abstract!Init
<1> SUFFICES ASSUME Init PROVE Abstract!Init
  OBVIOUS
<1>1. data \in Seq(Contents) /\ dirs \in [Dirs -> Folder(Len(data))]
  BY InitTypes DEF TInv, Types
<1>2. \A d \in Dirs, p \in Places : dirs[d].at[p] \in 0 .. Len(data)
  BY <1>1 DEF Folder
<1>3. \A p \in Places : OnShelf(p) \subseteq Jobs \cup {"user"}
  BY <1>1, <1>2, ContentType DEF OnShelf, Whole
<1>4. AskedPlaces = {}
  BY DEF Init, AskedPlaces
<1> HIDE DEF OnShelf, AskedPlaces
<1> QED
  BY <1>3, <1>4 DEF Abstract!Init

\* Rule 6 of library/mod.rs, for any jobs whose downloads do not overlap: filing
\* implements Shelf, whatever is killed, fails, is renamed or rescanned.
THEOREM NothingIsOverwritten == ASSUME Disjoint PROVE Spec => NoSilentOverwrite
<1>1. DInv /\ DInv' /\ [Next]_vars => [Abstract!Next]_<<[p \in Places |-> OnShelf(p)], AskedPlaces>>
  BY ShelfNext DEF DInv
<1> QED
  BY <1>1, InitDInv, DKept, ShelfInit, PTL DEF Spec, NoSilentOverwrite, Abstract!Spec

-----------------------------------------------------------------------------
(* A single file is owned whole.                                           *)

\* What a job has downloaded stays its own, a copy onto it included.
LEMMA OwnWhose ==
    ASSUME DInv, WhoseInv, NEW j \in Jobs, StepOf(j), NEW e \in Episodes, dl'[j][e] # NoFile
    PROVE  data'[dl'[j][e]].what = j
<1>0. TInv /\ \A f \in Episodes : dl[j][f] # NoFile => data[dl[j][f]].what = j
  BY DEF DInv, WhoseInv
<1>1. CASE transfer_at_once(j)
  <2>1. data' = data /\ job[j].pc = "transfer" /\ (dl' = dl \/ dl' = [dl EXCEPT ![j][Moving(j)] = NoFile])
    BY <1>1 DEF transfer_at_once
  <2>2. dl'[j][e] \in {dl[j][e], NoFile}
    BY <2>1, <1>0, Target, TakenFile
  <2> QED
    BY <2>1, <2>2, <1>0
<1>2. CASE copy_starts(j)
  <2> DEFINE d == job[j].dir
             p == job[j].place
             i == IF Exists(d, p) THEN dirs[d].at[p] ELSE Len(data) + 1
  <2>1. /\ data'[i] = [what |-> data[dl[j][Moving(j)]].what, whole |-> FALSE]
        /\ \A k \in 1 .. Len(data) : k # i => data'[k] = data[k]
    BY <1>2, <1>0, CopyDisk
  <2>2. dl' = dl /\ job[j].pc = "transfer"
    BY <1>2 DEF copy_starts
  <2>3. data[dl[j][Moving(j)]].what = j
    BY <2>2, <1>0, Target
  <2>4. dl[j][e] \in 1 .. Len(data) /\ data[dl[j][e]].what = j
    BY <2>2, <1>0, InodeRange
  <2> HIDE DEF i
  <2>5. data'[i].what = j
    BY <2>1, <2>3
  <2> QED
    BY <2>1, <2>2, <2>4, <2>5
<1>3. CASE copy_ends(j)
  <2> DEFINE i == job[j].ino
  <2>1. /\ data'[i] = [what |-> data[dl[j][Moving(j)]].what, whole |-> Whole(dl[j][Moving(j)])]
        /\ \A k \in 1 .. Len(data) : k # i => data'[k] = data[k]
    BY <1>3, <1>0, CopiedDisk
  <2>2. job[j].pc = "copying" /\ (dl' = dl \/ dl' = [dl EXCEPT ![j][Moving(j)] = NoFile])
    BY <1>3 DEF copy_ends
  <2>3. data[dl[j][Moving(j)]].what = j
    BY <2>2, <1>0, Target
  <2>4. dl'[j][e] = dl[j][e]
    BY <2>2, <1>0, Target, TakenFile
  <2>5. dl[j][e] \in 1 .. Len(data) /\ data[dl[j][e]].what = j
    BY <2>4, <1>0, InodeRange
  <2> HIDE DEF i
  <2>6. data'[i].what = j
    BY <2>1, <2>3
  <2> QED
    BY <2>1, <2>4, <2>5, <2>6
<1>4. CASE Download(j)
  <2> DEFINE gone == {f \in Holds[j] : ~Whole(dl[j][f])}
  <2>1. /\ \A k \in 1 .. Len(data) : data'[k] = data[k]
        /\ \A k \in (Len(data) + 1) .. Len(data') : data'[k] = [what |-> j, whole |-> TRUE]
        /\ \A f \in Episodes \ gone : dl'[j][f] = dl[j][f]
        /\ \A f \in gone : dl'[j][f] \in (Len(data) + 1) .. Len(data')
    BY <1>4, <1>0, DownloadDisk
  <2> HIDE DEF gone
  <2>2. CASE e \in gone
    BY <2>1, <2>2
  <2>3. CASE e \notin gone
    BY <2>1, <2>3, <1>0, InodeRange
  <2> QED
    BY <2>2, <2>3
<1>5. CASE ~ (transfer_at_once(j) \/ copy_starts(j) \/ copy_ends(j) \/ Download(j))
  BY <1>0, <1>5, QuietDisk
<1> QED
  BY <1>1, <1>2, <1>3, <1>4, <1>5

\* The steps between the transfers: nothing is written but main places.
LEMMA QuietStep ==
    ASSUME TInv, NEW j \in Jobs, StepOf(j), job[j].pc \notin {"transfer", "copying", "lost"}
    PROVE  /\ data' = data /\ dl' = dl /\ mode' = mode /\ killed' = killed
           /\ \A d \in Dirs : dirs[d].exists => dirs'[d].exists
           /\ \A d \in Dirs : dirs'[d].at[<<Own[j], "v2">>] = dirs[d].at[<<Own[j], "v2">>]
<1>1. ~transfer_at_once(j) /\ ~copy_starts(j) /\ ~copy_ends(j) /\ ~Download(j)
  BY DEF transfer_at_once, copy_starts, copy_ends, Download
<1>2. <<Own[j], "v2">> \in Places /\ <<Own[j], "v2">> # <<Own[j], "main">>
  BY JobType DEF Places, Versions
<1> QED
  BY <1>1, <1>2, QuietDisk, LocalTables

LEMMA SecondFrame ==
    ASSUME NEW j \in Jobs, SecondLink(j), mode' = mode, killed => killed',
           q'[j] = q[j] \/ q[j] # "both",
           \A d \in Dirs : dirs'[d].at[<<Own[j], "v2">>] = dirs[d].at[<<Own[j], "v2">>],
           dl'[j][Own[j]] \in {dl[j][Own[j]], NoFile},
           job[j].pc \in {"record", "marked", "done"} => job'[j].pc \in {"record", "marked", "done"}
    PROVE  SecondLink(j)'
BY DEF SecondLink

\* What the two promises of a finished transfer need.
LEMMA FiledFrame ==
    ASSUME TInv, NEW j \in Jobs, FiledWhole(j), data' = data,
           \A d \in Dirs : dirs[d].exists => dirs'[d].exists,
           \A d \in Dirs, v \in Versions : dirs'[d].at[<<Own[j], v>>] = dirs[d].at[<<Own[j], v>>]
    PROVE  FiledWhole(j)'
BY DEF FiledWhole, Whole

\* The steps that neither transfer nor download, by the step the job was in.
LEMMA BeginSingle ==
    ASSUME TInv, NEW j \in Jobs, SingleOK(j), ~Batch(j), Begin(j) \/ Decorate(j)
    PROVE  SingleOK(j)'
<1>1. job \in [Jobs -> Row] /\ job[j] \in Row
  BY JobType
<1>2. StepOf(j) /\ job[j].pc \in {"finalize", "decorate"} /\ q' = q
  BY DEF StepOf, JobStep, Begin, Decorate, db
<1>3. SecondLink(j)
  BY DEF SingleOK
<1>4. /\ data' = data /\ dl' = dl /\ mode' = mode /\ killed' = killed
      /\ \A d \in Dirs : dirs'[d].at[<<Own[j], "v2">>] = dirs[d].at[<<Own[j], "v2">>]
  BY <1>2, QuietStep
<1>5. SecondLink(j)'
  BY <1>2, <1>3, <1>4, SecondFrame
<1>6. \/ job'[j].pc \in {"lost", "failed"}
      \/ job'[j].pc \in {"decorate", "placed"} /\ Whole(dl[j][Own[j]])
  <2>1. CASE Begin(j)
    <3>1. CASE \E pc \in {"lost", "failed"} : job' = [job EXCEPT ![j].pc = pc]
      BY <3>1, <1>1 DEF Row
    <3>2. CASE Verified(j) /\ \E d \in resolve_show_folder :
                  job' = [job EXCEPT ![j] = [Idle EXCEPT !.pc = "decorate",
                                           !.known = known, !.dir = d]]
      <4>1. job'[j].pc = "decorate"
        BY <3>2, <1>1 DEF Idle
      <4> QED
        BY <4>1, <3>2 DEF Verified
    <3> QED
      BY <2>1, <3>1, <3>2 DEF Begin
  <2>2. CASE Decorate(j)
    <3> DEFINE t == {e \in Holds[j] : dl[j][e] # NoFile}
    <3>1. job[j].pc = "decorate"
          /\ job' = [job EXCEPT ![j] = [@ EXCEPT !.pc = "placed", !.known = FALSE, !.todo = t]]
      BY <2>2 DEF Decorate
    <3> HIDE DEF t
    <3>2. job'[j].pc = "placed"
      BY <3>1, <1>1 DEF Row
    <3> QED
      BY <3>1, <3>2 DEF SingleOK
  <2> QED
    BY <2>1, <2>2
<1>7. Whole(dl[j][Own[j]])' = Whole(dl[j][Own[j]])
  BY <1>4 DEF Whole
<1> HIDE DEF SecondLink, Whole
<1> QED
  BY <1>5, <1>6, <1>7 DEF SingleOK

\* A place free of the download, or the download itself.
LEMMA PlaceSingle ==
    ASSUME TInv, InodeInv, WhoseInv, NEW j \in Jobs, SingleOK(j), ~Batch(j), PlaceFree(j)
    PROVE  SingleOK(j)'
<1> DEFINE p == <<Own[j], "main">>
           d == job[j].dir
<1>1. /\ job[j].pc = "placed" /\ UNCHANGED <<mode, data, dl, dirs, q, killed>>
      /\ \/ ~Exists(d, p) /\ Goes(j, "transfer", p)
         \/ Exists(d, p) /\ dirs[d].at[p] = dl[j][Own[j]] /\ Goes(j, "record", p)
  BY DEF PlaceFree, disk, db, rest
<1>2. SecondLink(j) /\ Whole(dl[j][Own[j]])
  BY <1>1 DEF SingleOK
<1>3. d \in Dirs /\ p \in Places /\ Own[j] \in Episodes /\ "main" \in Versions
  BY <1>1, JobType DEF RowOK, Busy, Places, Versions
<1>4. SecondLink(j)'
  BY <1>1, <1>2, SecondFrame
<1>5. Whole(dl[j][Own[j]])'
  BY <1>1, <1>2 DEF Whole
<1>6. CASE ~Exists(d, p) /\ Goes(j, "transfer", p)
  <2>1. job'[j].pc = "transfer" /\ job'[j].place = p /\ job'[j].dir = d
    BY <1>6, GoesTo
  <2>2. dirs[d].at[p] = NoFile
    BY <1>3, <1>6 DEF InodeInv, Vacant, Exists
  <2>3. dirs'[job'[j].dir].at[job'[j].place] # dl'[j][Own[j]]
    BY <2>1, <2>2, <1>1, <1>2 DEF Whole
  <2>4. job'[j].place[2] = "main"
    BY <2>1
  <2> QED
    BY <2>1, <2>3, <2>4, <1>4, <1>5 DEF SingleOK
<1>7. CASE Exists(d, p) /\ dirs[d].at[p] = dl[j][Own[j]] /\ Goes(j, "record", p)
  <2>1. job'[j].pc = "record"
    BY <1>7, GoesTo
  <2>2. dirs[d].exists /\ Whole(dirs[d].at[p]) /\ data[dirs[d].at[p]].what = j
    BY <1>2, <1>3, <1>7 DEF WhoseInv, Exists, Whole
  <2>3. FiledWhole(j)'
    BY <2>2, <1>1, <1>3 DEF FiledWhole, Whole
  <2> QED
    BY <2>1, <2>3, <1>4 DEF SingleOK
<1> QED
  BY <1>1, <1>6, <1>7

LEMMA AnsweredSingle ==
    ASSUME TInv, NEW j \in Jobs, SingleOK(j), ~Batch(j), collision_answered(j)
    PROVE  SingleOK(j)'
<1> DEFINE p == <<Own[j], "main">>
           d == job[j].dir
<1>1. /\ job[j].pc = "placed" /\ dirs[d].at[p] # dl[j][Own[j]]
      /\ UNCHANGED <<mode, data, dl, q, killed>>
  BY DEF collision_answered, Collides, db, rest
<1>2. SecondLink(j) /\ Whole(dl[j][Own[j]])
  BY <1>1 DEF SingleOK
<1>3. d \in Dirs /\ p \in Places /\ StepOf(j)
  BY <1>1, JobType DEF RowOK, Busy, Places, Versions, StepOf, JobStep
<1>4. \A c \in Dirs : dirs'[c].at[<<Own[j], "v2">>] = dirs[c].at[<<Own[j], "v2">>]
  BY <1>1, <1>3, QuietStep
<1>5. SecondLink(j)'
  BY <1>1, <1>2, <1>4, SecondFrame
<1>6. Whole(dl[j][Own[j]])'
  BY <1>1, <1>2 DEF Whole
<1>7. CASE q[j] = "keep" /\ Goes(j, "record", p)
  <2>1. job'[j].pc = "record" /\ Exempt(j)'
    BY <1>7, <1>1, GoesTo DEF Exempt
  <2> QED
    BY <2>1, <1>5 DEF SingleOK
<1>8. CASE Goes(j, "transfer", p) /\ (dirs' = dirs \/ dirs' = [dirs EXCEPT ![d].at[p] = NoFile])
  <2>1. job'[j].pc = "transfer" /\ job'[j].place = p /\ job'[j].dir = d
    BY <1>8, GoesTo
  <2>2. dirs'[d].at[p] \in {dirs[d].at[p], NoFile}
    <3>1. dirs[d] \in Folder(Len(data)) /\ dirs \in [Dirs -> Folder(Len(data))]
      BY <1>3, DiskType
    <3> HIDE DEF p, d
    <3>2. dirs'[d].at = dirs[d].at \/ dirs'[d].at = [dirs[d].at EXCEPT ![p] = NoFile]
      BY <3>1, <1>3, <1>8 DEF Folder
    <3>3. dirs[d].at \in [Places -> 0 .. Len(data)]
      BY <3>1 DEF Folder
    <3> QED
      BY <3>2, <3>3, <1>3
  <2>3. dirs'[job'[j].dir].at[job'[j].place] # dl'[j][Own[j]]
    BY <2>1, <2>2, <1>1, <1>2 DEF Whole
  <2>4. job'[j].place[2] = "main"
    BY <2>1
  <2> QED
    BY <2>1, <2>3, <2>4, <1>5, <1>6 DEF SingleOK
<1>9. CASE q[j] = "both" /\ Goes(j, "transfer", <<Own[j], "v2">>)
  <2>1. job'[j].pc = "transfer" /\ job'[j].place[2] = "v2" /\ q'[j] = "both"
    BY <1>9, <1>1, GoesTo
  <2> QED
    BY <2>1, <1>5, <1>6 DEF SingleOK
<1> QED
  BY <1>7, <1>8, <1>9 DEF collision_answered

\* The record, and the end.
LEMMA RecordSingle ==
    ASSUME TInv, NEW j \in Jobs, SingleOK(j), ~Batch(j), mark_done(j) \/ Finish(j)
    PROVE  SingleOK(j)'
<1>1. job \in [Jobs -> Row] /\ job[j] \in Row /\ Own[j] \in Episodes
  BY JobType
<1>2. UNCHANGED <<mode, data, dl, dirs, q, killed>>
  BY DEF mark_done, Finish, disk, db, rest
<1>3. job[j].pc \in {"record", "marked"} /\ job'[j].pc \in {"marked", "done"}
  BY <1>1 DEF mark_done, Finish, Idle, Row
<1>4. SecondLink(j) /\ (Exempt(j) \/ FiledWhole(j))
  BY <1>3 DEF SingleOK
<1>5. SecondLink(j)'
  BY <1>2, <1>3, <1>4, SecondFrame
<1>6. Exempt(j)' = Exempt(j) /\ FiledWhole(j)' = FiledWhole(j)
  BY <1>2 DEF Exempt, FiledWhole, Whole
<1>7. Exempt(j) \/ eps'[Own[j]].done
  <2>1. CASE mark_done(j)
    BY <2>1, <1>1, TableTypes DEF mark_done
  <2>2. CASE Finish(j)
    BY <2>2 DEF Finish, db, SingleOK
  <2> QED
    BY <2>1, <2>2
<1> HIDE DEF SecondLink, Exempt, FiledWhole
<1> QED
  BY <1>3, <1>4, <1>5, <1>6, <1>7 DEF SingleOK

\* The Inbox, a retry, and a copy that fails.
LEMMA InboxSingle ==
    ASSUME TInv, NEW j \in Jobs, SingleOK(j), ~Batch(j),
           \/ collision_asks(j) \/ Expire(j) \/ Retry(j) \/ copy_fails(j)
           \/ \E choice \in {"keep", "replace", "both"} : Answer(j, choice)
    PROVE  SingleOK(j)'
<1>1. job \in [Jobs -> Row] /\ job[j] \in Row /\ q \in [Jobs -> Answers]
  BY JobType, TableTypes
<1>2. UNCHANGED <<mode, data, dl, dirs, killed>>
  BY DEF collision_asks, Expire, Retry, copy_fails, Answer, disk, rest
<1>3. /\ job[j].pc \notin {"record", "marked", "done"}
      /\ q'[j] = q[j] \/ q[j] # "both"
      /\ \/ job'[j].pc \in {"finalize", "failed"}
         \/ job'[j].pc = "waiting" /\ q'[j] = "open"
         \/ job'[j].pc = "done" /\ q'[j] = "keep"
  <2>1. CASE collision_asks(j)
    <3>1. job[j].pc = "placed" /\ q[j] # "both" /\ q'[j] = "open" /\ job'[j].pc = "waiting"
      BY <2>1, <1>1 DEF collision_asks, Collides, Idle
    <3> QED
      BY <3>1
  <2>2. CASE Expire(j)
    <3>1. job[j].pc = "waiting" /\ q[j] = "open" /\ job'[j].pc = "failed"
      BY <2>2, <1>1 DEF Expire, SingleOK, Row
    <3> QED
      BY <3>1
  <2>3. CASE Retry(j)
    <3>1. job[j].pc = "failed" /\ q' = q /\ job'[j].pc = "finalize"
      BY <2>3, <1>1 DEF Retry, Row, db
    <3> QED
      BY <3>1
  <2>4. CASE copy_fails(j)
    <3>1. job[j].pc = "copying" /\ q' = q /\ job'[j].pc = "finalize"
      BY <2>4, <1>1 DEF copy_fails, Idle, db
    <3> QED
      BY <3>1
  <2>5. ASSUME NEW choice \in {"keep", "replace", "both"}, Answer(j, choice)
        PROVE  /\ job[j].pc = "waiting" /\ q[j] = "open" /\ q'[j] = choice
               /\ job'[j].pc = IF choice = "keep" THEN "done" ELSE "finalize"
    BY <2>5, <1>1 DEF Answer, SingleOK, Row
  <2> QED
    BY <2>1, <2>2, <2>3, <2>4, <2>5
<1>4. SecondLink(j)
  BY DEF SingleOK
<1>5. SecondLink(j)'
  BY <1>2, <1>3, <1>4, SecondFrame
<1>6. q'[j] = "keep" => Exempt(j)'
  BY DEF Exempt
<1> HIDE DEF SecondLink, Exempt
<1> QED
  BY <1>3, <1>5, <1>6 DEF SingleOK

\* The place of a single file.
LEMMA SinglePlace ==
    ASSUME TInv, NEW j \in Jobs, ~Batch(j), job[j].pc \in {"transfer", "copying"}
    PROVE  /\ job[j].place \in Places /\ Moving(j) = Own[j] /\ Own[j] \in Episodes
           /\ \E v \in Versions : job[j].place = <<Own[j], v>> /\ job[j].place[2] = v
<1>1. job[j].place \in Places /\ job[j].place[1] = Own[j]
  BY JobType DEF RowOK
<1>2. PICK e \in Episodes, v \in Versions : job[j].place = <<e, v>>
  BY <1>1 DEF Places
<1> QED
  BY <1>1, <1>2 DEF Moving

LEMMA AtOnceSingle ==
    ASSUME TInv, WhoseInv, NEW j \in Jobs, SingleOK(j), ~Batch(j), transfer_at_once(j)
    PROVE  SingleOK(j)'
<1> DEFINE d == job[j].dir
           p == job[j].place
           i == dl[j][Own[j]]
<1>1. /\ job[j].pc = "transfer" /\ (Links(j) \/ Renames(j))
      /\ UNCHANGED <<mode, data, q, killed>>
      /\ dirs' = [dirs EXCEPT ![d] = [@ EXCEPT !.exists = TRUE, !.at[p] = dl[j][Moving(j)]]]
      /\ dl' = IF Renames(j) THEN [dl EXCEPT ![j][Moving(j)] = NoFile] ELSE dl
      /\ job' = [job EXCEPT ![j].pc = "record"]
  BY DEF transfer_at_once, db, rest
<1>2. d \in Dirs /\ p \in Places /\ Moving(j) = Own[j] /\ Own[j] \in Episodes
      /\ \E v \in Versions : p = <<Own[j], v>> /\ p[2] = v
  BY <1>1, SinglePlace, Target
<1>3. SecondLink(j) /\ Whole(i) /\ (p[2] = "v2" => q[j] = "both")
  BY <1>1 DEF SingleOK
<1>4. job'[j].pc = "record"
  BY <1>1, JobType DEF Row
<1>5. data[i].what = j
  BY <1>2, <1>3 DEF WhoseInv, Whole
<1>9. dirs' = [dirs EXCEPT ![d] = [@ EXCEPT !.exists = TRUE, !.at[p] = i]]
  BY <1>1, <1>2
<1> HIDE DEF d, p, i
<1>6. /\ dirs'[d].exists = TRUE /\ dirs'[d].at[p] = i
      /\ \A r \in Places \ {p} : dirs'[d].at[r] = dirs[d].at[r]
      /\ \A c \in Dirs \ {d} : dirs'[c] = dirs[c]
  BY <1>2, <1>9, FilePut
<1>7. FiledWhole(j)'
  <2>1. PICK v \in Versions : p = <<Own[j], v>>
    BY <1>2
  <2>2. /\ dirs'[d].exists /\ i # NoFile /\ data'[i].whole /\ data'[i].what = j
        /\ dirs'[d].at[<<Own[j], v>>] = i
    BY <2>1, <1>1, <1>3, <1>5, <1>6 DEF Whole
  <2> QED
    BY <2>2, <1>2 DEF FiledWhole, Whole
<1>8. SecondLink(j)'
  <2>1. CASE Renames(j)
    <3>1. dl'[j][Own[j]] = NoFile
      BY <2>1, <1>1, <1>2, DiskType
    <3> QED
      BY <3>1 DEF SecondLink
  <2>2. CASE ~Renames(j)
    <3>0. mode = <<"hardlink", TRUE>>
      BY <2>2, <1>1 DEF Links
    <3>1. dl' = dl /\ mode[1] = "hardlink"
      <4>1. dl' = dl
        BY <2>2, <1>1
      <4> QED
        BY <4>1, <3>0
    <3>2. ASSUME NEW c \in Dirs, dirs'[c].at[<<Own[j], "v2">>] = dl[j][Own[j]],
                 dl[j][Own[j]] # NoFile
          PROVE  q[j] = "both"
      <4>1. CASE c = d /\ p = <<Own[j], "v2">>
        BY <4>1, <1>3
      <4>2. CASE ~ (c = d /\ p = <<Own[j], "v2">>)
        <5>1. <<Own[j], "v2">> \in Places
          BY <1>2 DEF Places, Versions
        <5>2. dirs'[c].at[<<Own[j], "v2">>] = dirs[c].at[<<Own[j], "v2">>]
          BY <4>2, <5>1, <1>6
        <5> QED
          BY <5>2, <3>2, <1>3 DEF SecondLink
      <4> QED
        BY <4>1, <4>2
    <3> QED
      BY <3>1, <3>2, <1>1, <1>4 DEF SecondLink
  <2> QED
    BY <2>1, <2>2
<1> QED
  BY <1>4, <1>7, <1>8 DEF SingleOK

\* A copy truncates its own source only where SecondLink allows it.
LEMMA CopyStartsSingle ==
    ASSUME TInv, InodeInv, NEW j \in Jobs, SingleOK(j), ~Batch(j), copy_starts(j)
    PROVE  SingleOK(j)'
<1> DEFINE d == job[j].dir
           p == job[j].place
           i == IF Exists(d, p) THEN dirs[d].at[p] ELSE Len(data) + 1
           s == dl[j][Own[j]]
<1>1. /\ d \in Dirs /\ p \in Places
      /\ dirs' = [dirs EXCEPT ![d] = [@ EXCEPT !.exists = TRUE, !.at[p] = i]]
  BY CopyDisk
<1>2. \A k \in 1 .. Len(data) : k # i => data'[k] = data[k]
  BY CopyDisk
<1>3. job' = [job EXCEPT ![j] = [@ EXCEPT !.pc = "copying", !.ino = i]]
  BY CopyDisk
<1>4. job[j].pc = "transfer" /\ UNCHANGED <<mode, dl, q, killed>>
  BY DEF copy_starts, db, rest
<1>5. Own[j] \in Episodes /\ \E v \in Versions : p = <<Own[j], v>> /\ p[2] = v
  BY <1>4, SinglePlace
<1>6. /\ SecondLink(j) /\ Whole(s)
      /\ p[2] = "main" => dirs[d].at[p] # s
  BY <1>4 DEF SingleOK
<1>7. s \in 1 .. Len(data) /\ Len(data) \in Nat
  BY <1>5, <1>6, InodeRange DEF Whole
<1>8. i = s => Exists(d, p) /\ dirs[d].at[p] = s
  <2>1. CASE Exists(d, p)
    BY <2>1
  <2>2. CASE ~Exists(d, p)
    <3>1. i = Len(data) + 1
      BY <2>2
    <3> HIDE DEF i, s
    <3> QED
      BY <3>1, <1>7
  <2> QED
    BY <2>1, <2>2
<1>9. i = s => Exempt(j)
  <2> SUFFICES ASSUME i = s PROVE Exempt(j)
    OBVIOUS
  <2>1. p = <<Own[j], "v2">> /\ dirs[d].at[p] = s /\ s # NoFile
    BY <1>5, <1>6, <1>8 DEF Versions, Whole
  <2> QED
    BY <2>1, <1>1, <1>4, <1>6 DEF SecondLink, Exempt
<1>10. Exists(d, p) => i = dirs[d].at[p]
  OBVIOUS
<1> HIDE DEF d, p, i
<1>11. job'[j].pc = "copying"
  BY <1>3, JobType DEF Row
<1>12. Exempt(j)' \/ Whole(dl[j][Own[j]])'
  <2>1. CASE i = s
    BY <2>1, <1>4, <1>9 DEF Exempt
  <2>2. CASE i # s
    BY <2>2, <1>2, <1>4, <1>6, <1>7 DEF Whole
  <2> QED
    BY <2>1, <2>2
<1>13. /\ dirs'[d].exists = TRUE /\ dirs'[d].at[p] = i
       /\ \A r \in Places \ {p} : dirs'[d].at[r] = dirs[d].at[r]
       /\ \A c \in Dirs \ {d} : dirs'[c] = dirs[c]
  BY <1>1, FilePut
<1>14. SecondLink(j)'
  <2> SUFFICES ASSUME NEW c \in Dirs, dirs'[c].at[<<Own[j], "v2">>] = s, s # NoFile
               PROVE  dirs[c].at[<<Own[j], "v2">>] = s
    <3>1. SecondLink(j)' <=> \A c \in Dirs :
             dirs'[c].at[<<Own[j], "v2">>] = s /\ s # NoFile =>
                /\ q[j] = "both" /\ mode[1] = "hardlink"
                /\ killed \/ job'[j].pc \in {"record", "marked", "done"}
      BY <1>4 DEF SecondLink
    <3> QED
      BY <3>1, <1>4, <1>6 DEF SecondLink
  <2>1. <<Own[j], "v2">> \in Places
    BY <1>5 DEF Places, Versions
  <2>2. CASE c = d /\ p = <<Own[j], "v2">>
    BY <2>2, <1>8, <1>13
  <2>3. CASE ~ (c = d /\ p = <<Own[j], "v2">>)
    BY <2>1, <2>3, <1>13
  <2> QED
    BY <2>2, <2>3
<1> QED
  BY <1>11, <1>12, <1>14 DEF SingleOK

LEMMA CopyEndsSingle ==
    ASSUME TInv, WhoseInv, NEW j \in Jobs, TransferOK(j), SingleOK(j), ~Batch(j), copy_ends(j)
    PROVE  SingleOK(j)'
<1> DEFINE i == job[j].ino
           s == dl[j][Own[j]]
<1>1. /\ job[j].pc = "copying" /\ UNCHANGED <<mode, dirs, q, killed>>
      /\ dl' = dl \/ dl' = [dl EXCEPT ![j][Moving(j)] = NoFile]
      /\ job' = [job EXCEPT ![j].pc = "record"]
  BY DEF copy_ends, db, rest
<1>2. Moving(j) = Own[j] /\ Own[j] \in Episodes /\ s # NoFile
      /\ \E v \in Versions : job[j].place = <<Own[j], v>>
  BY <1>1, SinglePlace, Target
<1>3. /\ data'[i] = [what |-> data[dl[j][Moving(j)]].what, whole |-> Whole(dl[j][Moving(j)])]
      /\ i \in 1 .. Len(data)
  BY CopiedDisk
<1>4. data'[i].what = j /\ data'[i].whole = Whole(s) /\ i # NoFile
  BY <1>2, <1>3, InodeRange DEF WhoseInv, NoFile
<1>5. \E d \in Dirs : dirs[d].exists /\ dirs[d].at[job[j].place] = i
  BY <1>1 DEF TransferOK
<1>6. SecondLink(j) /\ (Exempt(j) \/ Whole(s))
  BY <1>1 DEF SingleOK
<1>7. dl'[j][Own[j]] \in {dl[j][Own[j]], NoFile}
  BY <1>1, <1>2, TakenFile
<1>8. SecondLink(j)'
  BY <1>1, <1>6, <1>7, SecondFrame
<1>9. job'[j].pc = "record"
  BY <1>1, JobType DEF Row
<1>10. Whole(s) => FiledWhole(j)'
  <2>1. PICK v \in Versions : job[j].place = <<Own[j], v>>
    BY <1>2
  <2>2. PICK d \in Dirs : dirs[d].exists /\ dirs[d].at[<<Own[j], v>>] = i
    BY <2>1, <1>5
  <2>3. dirs'[d].exists /\ dirs'[d].at[<<Own[j], v>>] = i
    BY <2>2, <1>1
  <2> HIDE DEF i
  <2>4. Whole(s) => i # NoFile /\ data'[i].whole /\ data'[i].what = j
    BY <1>4
  <2> QED
    BY <2>3, <2>4 DEF FiledWhole, Whole
<1>11. Exempt(j)' = Exempt(j)
  BY <1>1 DEF Exempt
<1> HIDE DEF SecondLink, Exempt, FiledWhole, Whole, s, i
<1> QED
  BY <1>6, <1>8, <1>9, <1>10, <1>11 DEF SingleOK

LEMMA DownloadSingle ==
    ASSUME TInv, NEW j \in Jobs, SingleOK(j), ~Batch(j), Download(j)
    PROVE  SingleOK(j)'
<1> DEFINE gone == {e \in Holds[j] : ~Whole(dl[j][e])}
<1>1. /\ \A e \in Episodes \ gone : dl'[j][e] = dl[j][e]
      /\ \A e \in gone : dl'[j][e] \in (Len(data) + 1) .. Len(data')
  BY DownloadDisk
<1>2. UNCHANGED <<mode, dirs, q, killed>> /\ job[j].pc = "lost" /\ job'[j].pc = "finalize"
  BY JobType DEF Download, db, rest, Row
<1>3. SecondLink(j) /\ Own[j] \in Episodes
  BY JobType DEF SingleOK
<1> HIDE DEF gone
<1>4. SecondLink(j)'
  <2>1. CASE Own[j] \in gone
    <3>1. \A d \in Dirs : dirs[d].at[<<Own[j], "v2">>] \in 0 .. Len(data)
      <4>1. <<Own[j], "v2">> \in Places
        BY <1>3 DEF Places, Versions
      <4> QED
        BY <4>1, InodeRange
    <3>2. dl'[j][Own[j]] \notin 0 .. Len(data)
      BY <2>1, <1>1, InodeRange
    <3> QED
      BY <3>1, <3>2, <1>2 DEF SecondLink
  <2>2. CASE Own[j] \notin gone
    BY <2>2, <1>1, <1>2, <1>3, SecondFrame
  <2> QED
    BY <2>1, <2>2
<1> QED
  BY <1>2, <1>4 DEF SingleOK

LEMMA OwnSingle ==
    ASSUME DInv, WhoseInv, NEW j \in Jobs, StepOf(j), SingleOK(j)
    PROVE  SingleOK(j)'
<1>0. TInv /\ InodeInv /\ TransferOK(j)
  BY DEF DInv
<1>1. CASE Batch(j)
  BY <1>1 DEF SingleOK, Batch
<1>2. CASE ~Batch(j)
  <2>1. ~PlaceBatch(j) /\ ~record_batch(j) /\ ~mark_primary(j)
    BY <1>2 DEF PlaceBatch, record_batch, mark_primary, SingleOK
  <2>2. CASE Begin(j) \/ Decorate(j)
    BY <2>2, <1>0, <1>2, BeginSingle
  <2>3. CASE PlaceFree(j)
    BY <2>3, <1>0, <1>2, PlaceSingle
  <2>4. CASE collision_answered(j)
    BY <2>4, <1>0, <1>2, AnsweredSingle
  <2>5. CASE mark_done(j) \/ Finish(j)
    BY <2>5, <1>0, <1>2, RecordSingle
  <2>6. CASE \/ collision_asks(j) \/ Expire(j) \/ Retry(j) \/ copy_fails(j)
             \/ \E choice \in {"keep", "replace", "both"} : Answer(j, choice)
    BY <2>6, <1>0, <1>2, InboxSingle
  <2>7. CASE transfer_at_once(j)
    BY <2>7, <1>0, <1>2, AtOnceSingle
  <2>8. CASE copy_starts(j)
    BY <2>8, <1>0, <1>2, CopyStartsSingle
  <2>9. CASE copy_ends(j)
    BY <2>9, <1>0, <1>2, CopyEndsSingle
  <2>10. CASE Download(j)
    BY <2>10, <1>0, <1>2, DownloadSingle
  <2> QED
    BY <2>1, <2>2, <2>3, <2>4, <2>5, <2>6, <2>7, <2>8, <2>9, <2>10 DEF StepOf, JobStep
<1> QED
  BY <1>1, <1>2

\* A kill is remembered, and what is filed stays.
LEMMA KillSingle ==
    ASSUME TInv, NEW j \in Jobs, SingleOK(j), Kill
    PROVE  SingleOK(j)'
<1>1. /\ UNCHANGED <<mode, data, dl, dirs, q, eps>> /\ killed' = TRUE
      /\ job'[j] = IF job[j].pc \in Busy THEN Idle ELSE job[j]
  BY DEF Kill, disk, db
<1>2. job'[j].pc = "finalize" \/ (job'[j] = job[j] /\ job[j].pc \notin Busy)
  BY <1>1 DEF Idle
<1>3. (Exempt(j) => Exempt(j)') /\ FiledWhole(j)' = FiledWhole(j)
  BY <1>1 DEF Exempt, FiledWhole, Whole
<1>4. SUFFICES ASSUME ~Batch(j) PROVE SingleOK(j)'
  BY DEF SingleOK, Batch
<1>5. SecondLink(j)'
  BY <1>1, <1>4 DEF SecondLink, SingleOK
<1> HIDE DEF SecondLink, Exempt, FiledWhole
<1> QED
  BY <1>1, <1>2, <1>3, <1>4, <1>5 DEF SingleOK, Busy

\* A rename takes the file along.
LEMMA RenameSingle ==
    ASSUME TInv, FolderInv, InodeInv, NEW d \in Dirs, NEW e \in Dirs, Rename(d, e),
           NEW j \in Jobs, SingleOK(j)
    PROVE  SingleOK(j)'
<1>1. /\ d = Default /\ d # e /\ dirs[d].exists /\ ~dirs[e].exists
      /\ dirs'[e] = dirs[d] /\ dirs'[d] = dirs[e]
      /\ \A c \in Dirs \ {d, e} : dirs'[c] = dirs[c]
      /\ UNCHANGED <<mode, data, dl, eps, q, job, killed>>
  BY RenameWrites
<1>2. SUFFICES ASSUME ~Batch(j) PROVE SingleOK(j)'
  BY DEF SingleOK, Batch
<1>3. /\ \A c \in Dirs : \E b \in Dirs : dirs'[c] = dirs[b]
      /\ \A c \in Dirs : \E b \in Dirs : dirs'[b] = dirs[c]
  BY <1>1
<1>4. SecondLink(j)'
  <2>1. SecondLink(j)
    BY <1>2 DEF SingleOK
  <2>2. ASSUME NEW c \in Dirs, dirs'[c].at[<<Own[j], "v2">>] = dl[j][Own[j]],
               dl[j][Own[j]] # NoFile
        PROVE  /\ q[j] = "both" /\ mode[1] = "hardlink"
               /\ killed \/ job[j].pc \in {"record", "marked", "done"}
    <3>1. PICK b \in Dirs : dirs'[c] = dirs[b]
      BY <1>3
    <3> QED
      BY <2>1, <2>2, <3>1 DEF SecondLink
  <2> QED
    BY <2>2, <1>1 DEF SecondLink
<1>5. FiledWhole(j) => FiledWhole(j)'
  <2> SUFFICES ASSUME NEW c \in Dirs, NEW v \in Versions, dirs[c].exists,
                      Whole(dirs[c].at[<<Own[j], v>>]), data[dirs[c].at[<<Own[j], v>>]].what = j
               PROVE  FiledWhole(j)'
    BY DEF FiledWhole
  <2>1. PICK b \in Dirs : dirs'[b] = dirs[c]
    BY <1>3
  <2>2. /\ dirs'[b].exists /\ Whole(dirs[b].at[<<Own[j], v>>])'
        /\ data'[dirs'[b].at[<<Own[j], v>>]].what = j
    BY <2>1, <1>1 DEF Whole
  <2> QED
    BY <2>2 DEF FiledWhole
<1>6. Exempt(j)' = Exempt(j) /\ Whole(dl[j][Own[j]])' = Whole(dl[j][Own[j]])
  BY <1>1 DEF Exempt, Whole
<1>7. ASSUME job[j].pc = "transfer", job[j].place[2] = "main"
      PROVE  dirs'[job[j].dir].at[job[j].place] # dl[j][Own[j]]
  <2>1. /\ job[j].dir \in Dirs /\ job[j].place \in Places /\ Stays(job[j].dir)
    BY <1>7, Target DEF FolderInv, Busy
  <2>2. /\ dirs[job[j].dir].at[job[j].place] # dl[j][Own[j]]
        /\ Whole(dl[j][Own[j]])
    BY <1>2, <1>7 DEF SingleOK
  <2>3. CASE job[j].dir = d
    BY <2>1, <2>2, <2>3, <1>1 DEF InodeInv, Vacant, Whole
  <2>4. CASE job[j].dir # d
    BY <2>1, <2>2, <2>4, <1>1 DEF Stays
  <2> QED
    BY <2>3, <2>4
<1> HIDE DEF SecondLink, Exempt, FiledWhole, Whole
<1> QED
  BY <1>1, <1>2, <1>4, <1>5, <1>6, <1>7 DEF SingleOK

\* A rescan finds files, and takes none away.
LEMMA RescanDone ==
    ASSUME Rescan, NEW e \in Episodes
    PROVE  eps'[e] = eps[e] \/ eps'[e].done = TRUE
<1> DEFINE seen == {d \in Dirs : dirs[d].exists /\ (dirs[d].marker \/ d = Default)}
           files(f) == {x \in seen \X Places : x[2][1] = f /\ dirs[x[1]].at[x[2]] # NoFile}
           later(last, final, f) == (IF f[1] = last THEN 2 ELSE 0) + (IF f[2][2] = final THEN 1 ELSE 0)
           found(last, final, f) == CHOOSE x \in files(f) : \A g \in files(f) :
                                      later(last, final, g) <= later(last, final, x)
<1>1. \/ eps' = eps
      \/ \E last \in seen, final \in Versions :
            eps' = [f \in Episodes |-> IF files(f) = {} THEN eps[f]
                                       ELSE [done |-> TRUE, path |-> found(last, final, f)]]
  BY DEF Rescan
<1> HIDE DEF seen, files, found
<1> QED
  BY <1>1

LEMMA OutsideSingle ==
    ASSUME TInv, NEW j \in Jobs, SingleOK(j),
           Rescan \/ StoreSynopsis \/ rewrite_show_folder_metadata \/ metadata_fails
    PROVE  SingleOK(j)'
<1>1. /\ UNCHANGED <<mode, data, dl, q, job, killed>>
      /\ \A d \in Dirs : dirs'[d].exists = dirs[d].exists /\ dirs'[d].at = dirs[d].at
  BY OutsideDisk
<1>2. eps'[Own[j]] = eps[Own[j]] \/ eps'[Own[j]].done = TRUE
  <2>1. CASE Rescan
    BY <2>1, RescanDone, JobType
  <2>2. CASE ~Rescan
    BY <2>2 DEF StoreSynopsis, rewrite_show_folder_metadata, metadata_fails, db
  <2> QED
    BY <2>1, <2>2
<1>3. SUFFICES ASSUME ~Batch(j) PROVE SingleOK(j)'
  BY DEF SingleOK, Batch
<1>4. SecondLink(j)'
  <2>1. SecondLink(j)
    BY <1>3 DEF SingleOK
  <2> QED
    BY <2>1, <1>1 DEF SecondLink
<1>5. FiledWhole(j) => FiledWhole(j)'
  BY <1>1 DEF FiledWhole, Whole
<1>6. Exempt(j)' = Exempt(j) /\ Whole(dl[j][Own[j]])' = Whole(dl[j][Own[j]])
  BY <1>1 DEF Exempt, Whole
<1>7. job[j].pc = "transfer" => dirs'[job[j].dir].at = dirs[job[j].dir].at
  BY <1>1, Target
<1> HIDE DEF SecondLink, Exempt, FiledWhole, Whole
<1> QED
  BY <1>1, <1>2, <1>3, <1>4, <1>5, <1>6, <1>7 DEF SingleOK

LEMMA WhoseKept ==
    ASSUME Disjoint, DInv, WhoseInv, [Next]_vars
    PROVE  WhoseInv'
<1>0. TInv
  BY DEF DInv
<1>1. ASSUME NEW j \in Jobs, StepOf(j) PROVE WhoseInv'
  <2>1. Local(j)
    BY <1>1, StepIsLocal
  <2>2. ASSUME NEW k \in Jobs \ {j}, NEW e \in Episodes, dl'[k][e] # NoFile
        PROVE  data'[dl'[k][e]].what = k
    BY <2>1, <2>2 DEF Local, WhoseInv
  <2>3. ASSUME NEW e \in Episodes, dl'[j][e] # NoFile PROVE data'[dl'[j][e]].what = j
    BY <1>1, <2>3, OwnWhose
  <2> QED
    BY <2>2, <2>3 DEF WhoseInv
<1>2. CASE UNCHANGED vars \/ Kill \/ (\E d, e \in Dirs : Rename(d, e))
             \/ Rescan \/ StoreSynopsis \/ rewrite_show_folder_metadata \/ metadata_fails
  <2>1. data' = data /\ dl' = dl
    BY <1>2, <1>0, RenameWrites, OutsideDisk DEF vars, Kill, disk
  <2> QED
    BY <2>1 DEF WhoseInv
<1> QED
  BY <1>1, <1>2 DEF Next, StepOf

LEMMA SKept == ASSUME Disjoint PROVE SInv /\ [Next]_vars => SInv'
<1> SUFFICES ASSUME SInv, [Next]_vars PROVE SInv'
  OBVIOUS
<1>0. DInv /\ WhoseInv /\ TInv /\ FolderInv /\ InodeInv /\ \A k \in Jobs : SingleOK(k)
  BY DEF SInv, DInv
<1>1. DInv' /\ WhoseInv'
  BY <1>0, DKept, WhoseKept
<1>2. ASSUME NEW k \in Jobs PROVE SingleOK(k)'
  <2>1. CASE UNCHANGED vars
    BY <2>1, <1>0 DEF vars, disk, db, rest, SingleOK, SecondLink, Exempt, FiledWhole, Whole
  <2>2. ASSUME NEW j \in Jobs, StepOf(j) PROVE SingleOK(k)'
    <3>1. CASE k = j
      BY <3>1, <2>2, <1>0, OwnSingle
    <3>2. CASE k # j
      BY <3>2, <2>2, <1>0, StepIsLocal, OtherSingle
    <3> QED
      BY <3>1, <3>2
  <2>3. CASE Kill
    BY <2>3, <1>0, KillSingle
  <2>4. CASE \E d, e \in Dirs : Rename(d, e)
    BY <2>4, <1>0, RenameSingle
  <2>5. CASE Rescan \/ StoreSynopsis \/ rewrite_show_folder_metadata \/ metadata_fails
    BY <2>5, <1>0, OutsideSingle
  <2> QED
    BY <2>1, <2>2, <2>3, <2>4, <2>5 DEF Next, StepOf
<1> QED
  BY <1>1, <1>2 DEF SInv

LEMMA InitSInv == Init => SInv
<1> SUFFICES ASSUME Init PROVE SInv
  OBVIOUS
<1>1. \A j \in Jobs : job[j].pc = "finalize"
  BY DEF Init, Idle
<1>2. DInv
  BY InitDInv
<1>3. WhoseInv
  <2> SUFFICES ASSUME NEW j \in Jobs, NEW e \in Episodes, dl[j][e] # NoFile
               PROVE  data[dl[j][e]].what = j
    BY DEF WhoseInv
  <2>1. data[dl[j][e]] = [what |-> j, whole |-> TRUE]
    BY InitDisk
  <2> QED
    BY <2>1
<1>4. ASSUME NEW j \in Jobs PROVE SecondLink(j)
  <2>1. \A d \in Dirs : dirs[d].at[<<Own[j], "v2">>] = NoFile
    <3>1. <<Own[j], "v2">> \in Places /\ <<Own[j], "v2">> # <<1, "main">>
      BY <1>2, JobType DEF DInv, Places, Versions
    <3> QED
      BY <3>1 DEF Init
  <2> QED
    BY <2>1 DEF SecondLink
<1> QED
  BY <1>1, <1>2, <1>3, <1>4 DEF SInv, SingleOK

\* A single-file job that is done has filed its download, whole, for any jobs whose
\* downloads do not overlap, whatever is killed, fails, is renamed, answered or
\* rescanned on the way; the two exceptions are those of the code.
THEOREM SingleFilesAreOwned == ASSUME Disjoint PROVE Spec => []SingleOwnsWhole
<1>1. SInv => SingleOwnsWhole
  BY DEF SInv, SingleOK, SingleOwnsWhole, Exempt
<1> QED
  BY <1>1, InitSInv, SKept, PTL DEF Spec
=============================================================================
