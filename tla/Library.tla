------------------------------- MODULE Library -------------------------------
(***************************************************************************)
(* Filing finished downloads: library/finalizer.rs, folders.rs, service.rs *)
(* (batches) and rescan.rs, with finalize_step around them.                *)
(*                                                                         *)
(* One show.  Its jobs file their downloads at the same time; between any  *)
(* two file operations the daemon may be killed, the user may rename the   *)
(* show's folder or rescan the library, and the other job goes on.  A path *)
(* holds an inode, so that a hard link and its source share their data;    *)
(* fs::copy truncates what it opens for writing.                           *)
(*                                                                         *)
(* Of the decoration (synopsis, NFO, icon) the synopsis is kept: it is     *)
(* written after network requests, from a row read before them, while      *)
(* rewrite_show_folder_metadata may write it too.                          *)
(***************************************************************************)
EXTENDS Naturals, FiniteSets, SequencesExt

CONSTANTS
    Jobs,
    Episodes,       \* numbers
    Own,            \* [Jobs -> Episodes]: the episode a job is for
    Holds,          \* [Jobs -> SUBSET Episodes]: a batch holds more than one
    Dirs,           \* names a folder of the show may have
    Default,        \* "<title> (<year>)"
    Modes,          \* <<move mode, same device>> pairs
    MaxEvents       \* kills, failing copies, renames, rescans, repeated
                    \* downloads, retries, synopses stored and lost (bound)

ASSUME LibraryAssumption ==
    /\ IsFiniteSet(Jobs) /\ IsFiniteSet(Episodes) /\ Episodes \subseteq Nat
    /\ Default \in Dirs /\ {"none", ""} \cap Dirs = {}
    /\ Own \in [Jobs -> Episodes]
    /\ \A j \in Jobs : Holds[j] \subseteq Episodes /\ Own[j] \in Holds[j]
    /\ Modes \subseteq {"hardlink", "move", "copy"} \X BOOLEAN

VARIABLES
    mode,       \* settings.move_mode, and whether a link can reach the library
    data,       \* inodes: what they hold, and whether all of it
    dl,         \* the downloads: [Jobs -> [Episodes -> inode]], 0 when absent
    dirs,       \* show folders: exists, marker, syn(opsis), an inode per place
    known,      \* shows.synopsis is a real one
    folder,     \* shows.folder_path
    eps,        \* episodes: done, and file_path
    q,          \* the file_exists question of a job
    job,        \* pc; what its step holds: known, dir, todo, place, ino, first
    killed,     \* history: the daemon was killed while it was filing
    events,     \* counts what MaxEvents bounds
    raced       \* history: a folder was renamed while a job was using it

disk == <<data, dl, dirs>>
db   == <<known, folder, eps, q>>
rest == <<killed, events, raced>>
vars == <<mode, disk, db, job, rest>>

Event == events < MaxEvents /\ events' = events + 1

Versions == {"main", "v2"}
Places == Episodes \X Versions
NoDir  == "none"
NoFile == 0
NoPath == <<"", <<0, "main">>>>

Batch(j) == Cardinality(Holds[j]) > 1
Idle     == [pc |-> "finalize", known |-> FALSE, dir |-> NoDir, todo |-> {},
             place |-> NoPath[2], ino |-> NoFile, first |-> {}]
Busy     == {"decorate", "placed", "transfer", "copying", "record", "primary", "marked"}

Exists(d, p) == dirs[d].exists /\ dirs[d].at[p] # NoFile
Whole(i)     == i # NoFile /\ data[i].whole
\* video_files.sort()
Current(j)   == CHOOSE e \in job[j].todo : \A f \in job[j].todo : e <= f

-----------------------------------------------------------------------------
(* The folder.                                                             *)

Marked == {d \in Dirs : dirs[d].exists /\ dirs[d].marker}

\* Mutant: the markers are not scanned.
resolve_show_folder_by_path ==
    IF folder # NoDir THEN {folder} ELSE {Default}

\* resolve_show_folder: the recorded folder while it exists, else a folder with
\* the show's marker, else the recorded one or the default one, made anew.
resolve_show_folder ==
    IF folder # NoDir /\ dirs[folder].exists THEN {folder}
    ELSE IF Marked # {} THEN Marked
    ELSE IF folder # NoDir THEN {folder}
    ELSE {Default}

\* create_dir_all, and the marker.
Opened(d) == [dirs EXCEPT ![d] = [@ EXCEPT !.exists = TRUE, !.marker = TRUE]]

-----------------------------------------------------------------------------
(* A finalize step, from its first look to the finished row.               *)

\* Mutant: nothing is verified.
Verified_unchecked(j) == TRUE

\* finalize_step: the download must be there and whole; a batch folder must
\* not be empty.
Verified(j) ==
    IF Batch(j) THEN \E e \in Holds[j] : dl[j][e] # NoFile
    ELSE Whole(dl[j][Own[j]])

\* Unverified, the job searches again when qBittorrent has forgotten the
\* torrent, and fails otherwise.  Verified, the show's row is read and its
\* folder resolved.
Begin(j) ==
    /\ job[j].pc = "finalize"
    /\ \/ /\ ~Verified(j)
          /\ \E pc \in {"lost", "failed"} : job' = [job EXCEPT ![j].pc = pc]
          /\ UNCHANGED <<dirs, folder>>
       \/ /\ Verified(j)
          /\ \E d \in resolve_show_folder :
               /\ dirs' = Opened(d)
               /\ folder' = d
               /\ job' = [job EXCEPT ![j] = [Idle EXCEPT !.pc = "decorate",
                                           !.known = known, !.dir = d]]
    /\ UNCHANGED <<mode, data, dl, known, eps, q, rest>>

\* Mutant: the text is written whatever the file holds.
should_write_always(file, text) == TRUE

\* should_write_syn: nothing there, or a placeholder and now something better.
should_write(file, text) ==
    file = "none" \/ (file = "placeholder" /\ text = "real")

\* With anything of the decoration missing, ask Jikan (which may not answer)
\* and write the synopsis; then list the files of a batch.
Decorate(j) ==
    /\ job[j].pc = "decorate"
    /\ LET d == job[j].dir  file == dirs[d].syn
       IN  \/ file # "none" /\ UNCHANGED dirs
           \/ \E fetched \in BOOLEAN :
                LET text == IF fetched \/ job[j].known THEN "real" ELSE "placeholder"
                IN  /\ dirs[d].exists /\ should_write(file, text)
                    /\ dirs' = [dirs EXCEPT ![d].syn = text]
           \/ ~dirs[d].exists /\ UNCHANGED dirs
    /\ job' = [job EXCEPT ![j] = [@ EXCEPT !.pc = "placed", !.known = FALSE,
                 !.todo = {e \in Holds[j] : dl[j][e] # NoFile}]]
    /\ UNCHANGED <<mode, data, dl, db, rest>>

Goes(j, pc, place) == job' = [job EXCEPT ![j] = [@ EXCEPT !.pc = pc, !.place = place]]

\* Mutant: any file with the name is taken for the download.
PlaceFree_any(j) ==
    /\ job[j].pc = "placed" /\ ~Batch(j)
    /\ LET p == <<Own[j], "main">>
       IN  Goes(j, IF Exists(job[j].dir, p) THEN "record" ELSE "transfer", p)
    /\ UNCHANGED <<mode, disk, db, rest>>

\* finalize: no file there, or a file that is the download itself.
PlaceFree(j) ==
    /\ job[j].pc = "placed" /\ ~Batch(j)
    /\ LET p == <<Own[j], "main">>  d == job[j].dir
       IN  \/ ~Exists(d, p) /\ Goes(j, "transfer", p)
           \/ /\ Exists(d, p) /\ dirs[d].at[p] = dl[j][Own[j]]
              /\ Goes(j, "record", p)
    /\ UNCHANGED <<mode, disk, db, rest>>

Collides(j) ==
    /\ job[j].pc = "placed" /\ ~Batch(j)
    /\ Exists(job[j].dir, <<Own[j], "main">>)
    /\ dirs[job[j].dir].at[<<Own[j], "main">>] # dl[j][Own[j]]

\* Mutant: an unasked collision is filed over what is there.
collision_asks_not(j) ==
    /\ Collides(j) /\ q[j] \in {"none", "open"}
    /\ Goes(j, "transfer", <<Own[j], "main">>)
    /\ UNCHANGED <<mode, disk, db, rest>>

\* A collision nobody has been asked about, or not yet answered: wait.
collision_asks(j) ==
    /\ Collides(j) /\ q[j] \in {"none", "open"}
    /\ q' = [q EXCEPT ![j] = "open"]
    /\ job' = [job EXCEPT ![j] = [Idle EXCEPT !.pc = "waiting"]]
    /\ UNCHANGED <<mode, disk, known, folder, eps, rest>>

\* A collision with an answer.  Replace removes the file first; an answer that
\* is none of the three (an expired question) goes on to the transfer.
collision_answered(j) ==
    /\ Collides(j)
    /\ LET p == <<Own[j], "main">>  d == job[j].dir
       IN  \/ /\ q[j] = "keep" /\ Goes(j, "record", p)
              /\ UNCHANGED dirs
           \/ /\ q[j] = "replace" /\ Goes(j, "transfer", p)
              /\ dirs' = [dirs EXCEPT ![d].at[p] = NoFile]
           \/ /\ q[j] = "both" /\ Goes(j, "transfer", <<Own[j], "v2">>)
              /\ UNCHANGED dirs
           \/ /\ q[j] = "expired" /\ Goes(j, "transfer", p)
              /\ UNCHANGED dirs
    /\ UNCHANGED <<mode, data, dl, db, rest>>

\* finalize_batch: file after file; one that is there is left alone.
PlaceBatch(j) ==
    /\ job[j].pc = "placed" /\ Batch(j)
    /\ LET p == <<Current(j), "main">>
       IN  Goes(j, IF Exists(job[j].dir, p) THEN "record" ELSE "transfer", p)
    /\ UNCHANGED <<mode, disk, db, rest>>

\* The episode whose file a job is moving.
Moving(j) == job[j].place[1]

Links(j)   == mode = <<"hardlink", TRUE>> /\ ~Exists(job[j].dir, job[j].place)
Renames(j) == mode = <<"move", TRUE>>

\* transfer_file by hard_link or rename: one step.
transfer_at_once(j) ==
    /\ job[j].pc = "transfer" /\ (Links(j) \/ Renames(j))
    /\ LET i == dl[j][Moving(j)]
       IN  /\ i # NoFile
           /\ dirs' = [dirs EXCEPT ![job[j].dir] =
                         [@ EXCEPT !.exists = TRUE, !.at[job[j].place] = i]]
           /\ dl' = IF Renames(j) THEN [dl EXCEPT ![j][Moving(j)] = NoFile] ELSE dl
    /\ job' = [job EXCEPT ![j].pc = "record"]
    /\ UNCHANGED <<mode, data, db, rest>>

\* transfer_file by fs::copy, also as the fallback of both: the target is
\* created, or opened and truncated, whatever inode it is.
copy_starts(j) ==
    /\ job[j].pc = "transfer" /\ ~Links(j) /\ ~Renames(j)
    /\ LET d == job[j].dir  p == job[j].place
           new == ~Exists(d, p)
           i   == IF new THEN Len(data) + 1 ELSE dirs[d].at[p]
           content == [what |-> data[dl[j][Moving(j)]].what, whole |-> FALSE]
       IN  /\ dl[j][Moving(j)] # NoFile
           /\ data' = IF new THEN Append(data, content) ELSE [data EXCEPT ![i] = content]
           /\ dirs' = [dirs EXCEPT ![d] = [@ EXCEPT !.exists = TRUE, !.at[p] = i]]
           /\ job' = [job EXCEPT ![j] = [@ EXCEPT !.pc = "copying", !.ino = i]]
    /\ UNCHANGED <<mode, dl, db, rest>>

copy_ends(j) ==
    /\ job[j].pc = "copying"
    /\ data' = [data EXCEPT ![job[j].ino] =
                  [what |-> data[dl[j][Moving(j)]].what, whole |-> Whole(dl[j][Moving(j)])]]
    /\ dl' = IF mode[1] = "move" THEN [dl EXCEPT ![j][Moving(j)] = NoFile] ELSE dl
    /\ job' = [job EXCEPT ![j].pc = "record"]
    /\ UNCHANGED <<mode, dirs, db, rest>>

\* The copy fails half-way: a single file blocks its job, which tries again
\* later; a batch ignores the error.
copy_fails(j) ==
    /\ job[j].pc = "copying" /\ Event
    /\ job' = [job EXCEPT ![j] = IF Batch(j) THEN [@ EXCEPT !.pc = "record"] ELSE Idle]
    /\ UNCHANGED <<mode, disk, db, killed, raced>>

Path(j) == <<job[j].dir, job[j].place>>

\* mark_done of a single file.
mark_done(j) ==
    /\ job[j].pc = "record" /\ ~Batch(j)
    /\ eps' = [eps EXCEPT ![Own[j]] = [done |-> TRUE, path |-> Path(j)]]
    /\ job' = [job EXCEPT ![j].pc = "marked"]
    /\ UNCHANGED <<mode, disk, known, folder, q, rest>>

\* finalize_batch records each file under the episode its name says.
record_batch(j) ==
    /\ job[j].pc = "record" /\ Batch(j)
    /\ eps' = [eps EXCEPT ![Current(j)] = [done |-> TRUE, path |-> Path(j)]]
    /\ LET left  == job[j].todo \ {Current(j)}
           \* primary_dest: the first file of this run
           first == IF job[j].first = {} THEN {Current(j)} ELSE job[j].first
       IN  job' = [job EXCEPT ![j] = [@ EXCEPT !.todo = left, !.first = first,
                     !.pc = IF left = {} THEN "primary" ELSE "placed"]]
    /\ UNCHANGED <<mode, disk, known, folder, q, rest>>

\* finalize_step marks the job's own episode done, at the batch's first file.
mark_primary(j) ==
    /\ job[j].pc = "primary"
    /\ \E e \in job[j].first :
          eps' = [eps EXCEPT ![Own[j]] =
                    [done |-> TRUE, path |-> <<job[j].dir, <<e, "main">>>>]]
    /\ job' = [job EXCEPT ![j].pc = "marked"]
    /\ UNCHANGED <<mode, disk, known, folder, q, rest>>

\* The transition to done.
Finish(j) ==
    /\ job[j].pc = "marked"
    /\ job' = [job EXCEPT ![j] = [Idle EXCEPT !.pc = "done"]]
    /\ UNCHANGED <<mode, disk, db, rest>>

-----------------------------------------------------------------------------
(* Around it.                                                              *)

\* The daemon is killed; at the next launch reconcile runs the steps again.
Kill ==
    /\ (\E j \in Jobs : job[j].pc \in Busy) /\ Event
    /\ killed' = TRUE
    /\ job' = [j \in Jobs |-> IF job[j].pc \in Busy THEN Idle ELSE job[j]]
    /\ UNCHANGED <<mode, disk, db, raced>>

\* apply_answer: keep ends the job with the path the row already has, which
\* is "" for one that had none.
Answer(j, choice) ==
    /\ job[j].pc = "waiting"
    /\ q' = [q EXCEPT ![j] = choice]
    /\ IF choice = "keep"
       THEN /\ eps' = [eps EXCEPT ![Own[j]].done = TRUE]
            /\ job' = [job EXCEPT ![j].pc = "done"]
       ELSE /\ job' = [job EXCEPT ![j].pc = "finalize"]
            /\ UNCHANGED eps
    /\ UNCHANGED <<mode, disk, known, folder, rest>>

\* Mutant: the sweep forgets the job behind the question.
Expire_question_only(j) ==
    /\ job[j].pc = "waiting"
    /\ q' = [q EXCEPT ![j] = "expired"]
    /\ UNCHANGED <<mode, disk, known, folder, eps, job, rest>>

\* sweep: the question expires, the job fails and its episode is missing.
Expire(j) ==
    /\ job[j].pc = "waiting"
    /\ q' = [q EXCEPT ![j] = "expired"]
    /\ eps' = [eps EXCEPT ![Own[j]].done = FALSE]
    /\ job' = [job EXCEPT ![j].pc = "failed"]
    /\ UNCHANGED <<mode, disk, known, folder, rest>>

\* "Retry later": the job comes back to a torrent that is complete.
Retry(j) ==
    /\ job[j].pc = "failed" /\ Event
    /\ job' = [job EXCEPT ![j].pc = "finalize"]
    /\ UNCHANGED <<mode, disk, db, killed, raced>>

\* A job that searches again downloads what it lost.
Download(j) ==
    /\ job[j].pc = "lost" /\ Event
    /\ LET gone == {e \in Holds[j] : ~Whole(dl[j][e])}
           nth(e) == Len(data) + Cardinality({f \in gone : f <= e})
       IN  /\ data' = data \o [k \in 1 .. Cardinality(gone) |-> [what |-> j, whole |-> TRUE]]
           /\ dl' = [dl EXCEPT ![j] =
                       [e \in Episodes |-> IF e \in gone THEN nth(e) ELSE @[e]]]
    /\ job' = [job EXCEPT ![j].pc = "finalize"]
    /\ UNCHANGED <<mode, dirs, db, killed, raced>>

\* The user renames the show's folder, and not back again.
Rename(d, e) ==
    /\ d = Default
    /\ dirs[d].exists /\ ~dirs[e].exists /\ Event
    /\ dirs' = [dirs EXCEPT ![e] = dirs[d], ![d] = dirs[e]]
    /\ raced' = (raced \/ \E j \in Jobs : job[j].pc \in Busy /\ job[j].dir = d)
    /\ UNCHANGED <<mode, data, dl, db, job, killed>>

\* rescan_library: adopt the folders that have the marker or the show's name,
\* and index their files.  What is read last stays: the folder `last`, and of
\* an episode's files the version `final`.
Rescan ==
    LET seen == {d \in Dirs : dirs[d].exists /\ (dirs[d].marker \/ d = Default)}
        files(e) == {f \in seen \X Places : f[2][1] = e /\ dirs[f[1]].at[f[2]] # NoFile}
        later(last, final, f) == (IF f[1] = last THEN 2 ELSE 0) + (IF f[2][2] = final THEN 1 ELSE 0)
    IN  /\ Event
        /\ dirs' = [d \in Dirs |-> [dirs[d] EXCEPT !.marker = @ \/ d \in seen]]
        /\ IF seen = {} THEN UNCHANGED <<folder, eps>>
           ELSE \E last \in seen, final \in Versions :
                  /\ folder' = last
                  /\ eps' = [e \in Episodes |->
                        IF files(e) = {} THEN eps[e]
                        ELSE [done |-> TRUE, path |-> CHOOSE f \in files(e) :
                               \A g \in files(e) : later(last, final, g) <= later(last, final, f)]]
        /\ UNCHANGED <<mode, data, dl, known, q, job, killed, raced>>

\* metadata/apply.rs stores a synopsis ...
StoreSynopsis ==
    /\ ~known /\ known' = TRUE /\ Event
    /\ UNCHANGED <<mode, disk, folder, eps, q, job, killed, raced>>

\* The folders rewrite_show_folder_metadata knows: the recorded one, those of
\* recorded files, and those with the marker.
FoldersOf ==
    {d \in Dirs : dirs[d].exists
                    /\ (d = folder \/ dirs[d].marker \/ \E e \in Episodes : eps[e].path[1] = d)}

\* ... and rewrite_show_folder_metadata writes it into them.
rewrite_show_folder_metadata ==
    /\ known
    /\ dirs' = [d \in Dirs |-> IF d \in FoldersOf
                 THEN [dirs[d] EXCEPT !.syn = "real", !.marker = TRUE] ELSE dirs[d]]
    /\ UNCHANGED <<mode, data, dl, db, job, rest>>

\* A metadata fetch that fails clears the synopsis and leaves a placeholder in
\* the folder that was recorded when it began, whatever the file holds.
metadata_fails ==
    /\ Event /\ known' = FALSE
    /\ dirs' = IF folder # NoDir /\ dirs[folder].exists
               THEN [dirs EXCEPT ![folder].syn = "placeholder"] ELSE dirs
    /\ UNCHANGED <<mode, data, dl, folder, eps, q, job, killed, raced>>

-----------------------------------------------------------------------------
\* Every file the jobs have downloaded, with inodes from 2 on.
Downloaded == SetToSeq({x \in Jobs \X Episodes : x[2] \in Holds[x[1]]})

\* The downloads are complete; the user may have a folder with a file of their
\* own for the first episode (inode 1) that the database does not know.
Init ==
    /\ mode \in Modes
    /\ data = <<[what |-> "user", whole |-> TRUE]>>
              \o [k \in DOMAIN Downloaded |-> [what |-> Downloaded[k][1], whole |-> TRUE]]
    /\ dl = [j \in Jobs |-> [e \in Episodes |->
              IF e \in Holds[j]
              THEN 1 + CHOOSE k \in DOMAIN Downloaded : Downloaded[k] = <<j, e>>
              ELSE NoFile]]
    /\ \E there \in BOOLEAN :
         dirs = [d \in Dirs |->
                   [exists |-> there /\ d = Default, marker |-> FALSE, syn |-> "none",
                    at |-> [p \in Places |->
                        IF there /\ d = Default /\ p = <<1, "main">> THEN 1 ELSE NoFile]]]
    /\ folder = NoDir /\ known = FALSE
    /\ eps = [e \in Episodes |-> [done |-> FALSE, path |-> NoPath]]
    /\ q = [j \in Jobs |-> "none"]
    /\ job = [j \in Jobs |-> Idle]
    /\ killed = FALSE /\ events = 0 /\ raced = FALSE

JobStep(j) ==
    \/ Begin(j) \/ Decorate(j)
    \/ PlaceFree(j) \/ collision_asks(j) \/ collision_answered(j) \/ PlaceBatch(j)
    \/ transfer_at_once(j) \/ copy_starts(j) \/ copy_ends(j) \/ copy_fails(j)
    \/ mark_done(j) \/ record_batch(j) \/ mark_primary(j) \/ Finish(j)

Next ==
    \/ \E j \in Jobs :
         \/ JobStep(j)
         \/ \E choice \in {"keep", "replace", "both"} : Answer(j, choice)
         \/ Expire(j) \/ Retry(j) \/ Download(j)
    \/ Kill
    \/ \E d, e \in Dirs : Rename(d, e)
    \/ Rescan
    \/ StoreSynopsis
    \/ rewrite_show_folder_metadata
    \/ metadata_fails

Spec == Init /\ [][Next]_vars

\* The scheduler dispatches the steps of due jobs, and its sweep expires the
\* questions nobody answers.
FairSpec == Spec /\ \A j \in Jobs : WF_vars(JobStep(j)) /\ WF_vars(Expire(j))

-----------------------------------------------------------------------------
(* Properties.                                                             *)

\* The disk, the tables and the jobs have their types, every path leads to an
\* inode, and a transfer starts from a file that is there.
TypeOK ==
    /\ mode \in Modes
    /\ data \in Seq([what : Jobs \cup {"user"}, whole : BOOLEAN])
    /\ dl \in [Jobs -> [Episodes -> 0 .. Len(data)]]
    /\ dirs \in [Dirs -> [exists : BOOLEAN, marker : BOOLEAN,
                          syn : {"none", "placeholder", "real"},
                          at : [Places -> 0 .. Len(data)]]]
    /\ known \in BOOLEAN /\ folder \in Dirs \cup {NoDir}
    /\ \A e \in Episodes : eps[e].path \in (Dirs \X Places) \cup {NoPath}
    /\ q \in [Jobs -> {"none", "open", "keep", "replace", "both", "expired"}]
    /\ \A j \in Jobs : /\ job[j].pc \in Busy \cup {"finalize", "waiting", "done", "failed", "lost"}
                       /\ job[j].todo \subseteq Holds[j]
                       /\ job[j].pc = "transfer" => dl[j][Moving(j)] # NoFile

\* Some version of an episode is whole, in some folder of the show.
WholeSomewhere(e) ==
    \E d \in Dirs, v \in Versions : dirs[d].exists /\ Whole(dirs[d].at[<<e, v>>])

\* Its own download is whole, in some folder of the show.
FiledWhole(j) ==
    \E d \in Dirs, v \in Versions :
        LET i == dirs[d].at[<<Own[j], v>>]
        IN  dirs[d].exists /\ Whole(i) /\ data[i].what = j

\* A single-file job that is done has filed its download, whole, whatever was
\* killed, failed, renamed or answered on the way, with the two exceptions the
\* code makes: "keep" drops the download for the file that is there, and "keep
\* both" that runs again after a kill copies a hard link over itself.
SingleOwnsWhole ==
    \A j \in Jobs :
        /\ job[j].pc = "done" /\ ~Batch(j)
        /\ q[j] # "keep"
        /\ ~(q[j] = "both" /\ killed /\ mode[1] = "hardlink")
        => eps[Own[j]].done /\ FiledWhole(j)

\* The same for every episode of a batch: rule 1 of library/mod.rs verifies a
\* file before it is owned.
BatchOwnsWhole ==
    \A j \in Jobs : job[j].pc = "done" /\ Batch(j) =>
        \A e \in Holds[j] : eps[e].done => WholeSomewhere(e)

\* Rule 2: "renaming folders never loses show identity".  Unless a folder is
\* renamed under a running step, a show never gets a second marked folder.
IdentityKept == ~raced => Cardinality(Marked) <= 1

\* A filing step that asked Jikan in vain never replaces a real synopsis by its
\* placeholder, also when the synopsis arrived after the step had read the
\* show's row.
SynopsisKept ==
    [][\A j \in Jobs : job[j].pc = "decorate" /\ job'[j].pc = "placed" =>
         \A d \in Dirs : dirs[d].syn = "real" => dirs'[d].syn = "real"]_vars

\* The shelf of the show, in all its folders: the whole files of a place; and the
\* places whose episode was the subject of a question.
OnShelf(p) == {data[dirs[d].at[p]].what :
                 d \in {c \in Dirs : dirs[c].exists /\ Whole(dirs[c].at[p])}}
AskedPlaces == {p \in Places : \E j \in Jobs : Own[j] = p[1] /\ q[j] # "none"}

Abstract ==
    INSTANCE Shelf WITH
        Files <- Jobs \cup {"user"},
        shelf <- [p \in Places |-> OnShelf(p)],
        asked <- AskedPlaces

\* Rule 6: filing implements Shelf, in which what is on the shelf is replaced
\* only after the Inbox has asked about its episode.
NoSilentOverwrite == Abstract!Spec

\* A job that files a download does not hang: it is done, failed or searching
\* again, even when nobody answers its question.
FilingEnds ==
    \A j \in Jobs : job[j].pc = "finalize" ~> job[j].pc \in {"done", "failed", "lost"}
=============================================================================
