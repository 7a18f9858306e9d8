------------------------- MODULE DownloadJobsProofs -------------------------
(***************************************************************************)
(* The download manager for any number of jobs, albums and downloads, any  *)
(* matching of albums by name, any number of failing calls and restarts,   *)
(* and all sweepers at work.                                               *)
(***************************************************************************)
EXTENDS DownloadJobs, TLAPS

USE LidarrAssumption, NoneAssumption, TaskAssumption, MissingAssumption

RequestLabels == {"add", "record", "replace", "await", "tell", "fail", "over", "refused"}
SweeperLabels ==
    {"off", "rest", "read", "pending", "judge", "finish", "sync", "retry", "replace", "await", "tell", "fail"}

boundVars == <<faults, crashes>>

\* What a task may hold: rows of some of the jobs.
Holdings == UNION {[S -> Row] : S \in SUBSET Jobs}

HasAlbum(j) == \E a \in files : PassesFor(a, job[j].album)

\* A task past its read still holds the row it is about to write, which is there; rows
\* found on disk or in Lidarr have their album, rows to be synced are of the album read.
InHand(t) ==
    /\ t \in Jobs => pc[t] \in RequestLabels
    /\ t \in Sweepers => pc[t] \in SweeperLabels
    /\ t \in Jobs /\ pc[t] \in {"record", "replace", "await", "tell", "fail"} => t \in DOMAIN held[t]
    /\ t \in Jobs /\ pc[t] = "add" => job[t].status # "absent"
    /\ t \in Sweepers /\ pc[t] \in {"replace", "await", "tell", "fail"} => at[t] \in DOMAIN held[t]
    /\ \A j \in DOMAIN held[t] : job[j].status # "absent"
    /\ pc[t] = "await" => child[t] \in Jobs
    /\ pc[t] = "finish" => \A j \in DOMAIN held[t] : HasAlbum(j)
    /\ pc[t] = "sync" => \A j \in DOMAIN held[t] : held[t][j].album = job[j].album

\* Somebody has read the row before, or is to note the job's completion in it.
IsHeld(j)  == \E t \in Tasks : j \in DOMAIN held[t]
IsNoted(j) == \E n \in notes : n[1] = j

\* Snapshots and imports are of albums that have arrived.
Arrived ==
    /\ snap.files \subseteq files
    /\ \A d \in Downloads : lidarr[d] = "imported" => AlbumOf[d] \in files

\* Each sweeper goes through its own passes.
OwnPasses ==
    /\ pass[Cycle] \in {"stale", "lidarr", "local", "sync"}
    /\ pass[Cleaner] \in {"stale", "local", "stuck", "history"}
    /\ pass[Scanner] \in {"title", "local"}

Types == TypeOK /\ held \in [Tasks -> Holdings] /\ OwnPasses

\* What is to be noted in a row is for one that is there.
Noted == \A n \in notes : job[n[1]].status # "absent"

IInv == Types /\ Arrived /\ (\A t \in Tasks : InHand(t)) /\ Noted /\ CompletedHasAlbum /\ RefNamesAlbum

-----------------------------------------------------------------------------
(* Rows.                                                                    *)

LEMMA FreshRow ==
  ASSUME NEW a \in Albums, NEW k \in Kinds, NEW st \in Statuses
  PROVE  /\ Fresh(a, k, st) \in Row
         /\ Fresh(a, k, st).status = st /\ Fresh(a, k, st).ref = None /\ Fresh(a, k, st).album = a
BY DEF Fresh, Row

LEMMA AbsentRow == Absent \in Row
BY DEF Absent, Fresh, Row, Kinds, Statuses

LEMMA SettledRow ==
  ASSUME NEW r \in Row, NEW st \in Statuses
  PROVE  /\ [r EXCEPT !.status = st, !.old = FALSE] \in Row
         /\ [r EXCEPT !.status = st, !.old = FALSE].album = r.album
         /\ [r EXCEPT !.status = st, !.old = FALSE].ref = r.ref
         /\ [r EXCEPT !.status = st, !.old = FALSE].status = st
BY DEF Row

LEMMA MetadataRow ==
  ASSUME NEW r \in Row, NEW m \in Row
  PROVE  /\ WithMetadata(r, m) \in Row
         /\ WithMetadata(r, m).album = r.album /\ WithMetadata(r, m).ref = r.ref
         /\ WithMetadata(r, m).status = r.status
BY DEF Row, WithMetadata

LEMMA WriteEffect ==
  ASSUME job \in [Jobs -> Row], NEW j \in Jobs, NEW r \in Row, Write(j, r)
  PROVE  job' \in [Jobs -> Row] /\ job'[j] = r /\ \A k \in Jobs : k # j => job'[k] = job[k]
BY DEF Write

LEMMA WriteAllEffect ==
  ASSUME job \in [Jobs -> Row], NEW S, NEW st \in Statuses, WriteAll(S, st)
  PROVE  /\ job' \in [Jobs -> Row]
         /\ \A j \in Jobs : IF j \in S
                              THEN /\ job'[j].album = job[j].album /\ job'[j].ref = job[j].ref
                                   /\ job'[j].status = st
                              ELSE job'[j] = job[j]
<1>1. \A j \in Jobs : job'[j] = IF j \in S THEN [job[j] EXCEPT !.status = st, !.old = FALSE] ELSE job[j]
  BY DEF WriteAll
<1>2. ASSUME NEW j \in Jobs PROVE job'[j] \in Row
  <2>. DEFINE r == [job[j] EXCEPT !.status = st, !.old = FALSE]
  <2>1. r \in Row
    BY SettledRow
  <2>. QED
    BY <1>1, <2>1
<1>3. job' \in [Jobs -> Row]
  BY <1>2 DEF WriteAll
<1>4. ASSUME NEW j \in S \cap Jobs
      PROVE  job'[j].album = job[j].album /\ job'[j].ref = job[j].ref /\ job'[j].status = st
  <2>. DEFINE r == [job[j] EXCEPT !.status = st, !.old = FALSE]
  <2>1. job'[j] = r
    BY <1>1
  <2>2. job[j] \in Row
    OBVIOUS
  <2>3. r.album = job[j].album /\ r.ref = job[j].ref /\ r.status = st
    BY <2>2, SettledRow
  <2>. QED
    BY <2>1, <2>3
<1>. QED
  BY <1>1, <1>3, <1>4

\* The row a request or a sweeper is about to write: in its hand, and there.
LEMMA InHandRow ==
  ASSUME Types, NEW t \in Tasks, InHand(t), pc[t] \in {"record", "replace", "await", "tell", "fail"}
  PROVE  /\ On(t) \in Jobs /\ On(t) \in DOMAIN held[t] /\ held[t][On(t)] \in Row
         /\ job[On(t)] \in Row /\ job[On(t)].status # "absent" /\ IsHeld(On(t))
<1>1. On(t) \in DOMAIN held[t]
  BY DEF InHand, On, Tasks, SweeperLabels
<1>. QED
  BY <1>1 DEF InHand, Types, TypeOK, IsHeld

-----------------------------------------------------------------------------
(* What a step may do to a row: create it, or change one that is there      *)
(* without giving it another album or the download of one that does not     *)
(* pass for its own; complete it only once its album has arrived; and,      *)
(* where it was settled, only by a task that holds it, or with the status   *)
(* it has, for a notification.                                              *)

Created(j) ==
    /\ job[j].status = "absent"
    /\ job'[j].status \in {"pending", "processing"}
    /\ job'[j].ref # None => PassesFor(AlbumOf[job'[j].ref], job'[j].album)

Changed(j) ==
    /\ job[j].status # "absent" /\ job'[j].status # "absent"
    /\ job'[j].album = job[j].album
    /\ job'[j].ref \in {job[j].ref, None} \/ PassesFor(AlbumOf[job'[j].ref], job[j].album)
    /\ job'[j].status = "completed" => HasAlbum(j)
    /\ Settled(j) => IsHeld(j) \/ (job'[j].status = job[j].status /\ IsNoted(j))

MayChange(j) == job'[j] = job[j] \/ Created(j) \/ Changed(j)

RowsChange == job' \in [Jobs -> Row] /\ \A j \in Jobs : MayChange(j)

\* One row that is there, written by whoever holds it or while it is open.
LEMMA OneChanges ==
  ASSUME Types, NEW j \in Jobs, NEW r \in Row, Write(j, r),
         job[j].status # "absent", r.status # "absent", r.album = job[j].album,
         r.ref \in {job[j].ref, None} \/ PassesFor(AlbumOf[r.ref], job[j].album),
         r.status = "completed" => HasAlbum(j),
         Settled(j) => IsHeld(j) \/ (r.status = job[j].status /\ IsNoted(j))
  PROVE  RowsChange
<1>1. job' \in [Jobs -> Row] /\ job'[j] = r /\ \A k \in Jobs : k # j => job'[k] = job[k]
  BY WriteEffect DEF Types, TypeOK
<1>2. Changed(j)
  BY <1>1 DEF Changed
<1>. QED
  BY <1>1, <1>2 DEF RowsChange, MayChange

\* Rows that are there, settled by whoever holds them or while they are open.
LEMMA ManyChange ==
  ASSUME Types, NEW S \in SUBSET Jobs, NEW st \in Statuses \ {"absent"}, WriteAll(S, st),
         \A j \in S : job[j].status # "absent",
         st = "completed" => \A j \in S : HasAlbum(j),
         \A j \in S : Settled(j) => IsHeld(j)
  PROVE  RowsChange
<1>1. /\ job' \in [Jobs -> Row]
      /\ \A j \in Jobs : IF j \in S
                           THEN /\ job'[j].album = job[j].album /\ job'[j].ref = job[j].ref
                                /\ job'[j].status = st
                           ELSE job'[j] = job[j]
  BY WriteAllEffect DEF Types, TypeOK
<1>2. ASSUME NEW j \in S PROVE Changed(j)
  BY <1>1, <1>2 DEF Changed
<1>. QED
  BY <1>1, <1>2 DEF RowsChange, MayChange

LEMMA DuplicateHasAlbum ==
  ASSUME CompletedHasAlbum, NEW j \in Jobs, CompletedDuplicates(j) # {}
  PROVE  HasAlbum(j)
<1>. PICK k \in With("completed") \cap SameAlbum(j) : TRUE
  BY DEF CompletedDuplicates
<1>1. job[k].album = job[j].album
  BY DEF SameAlbum
<1>. QED
  BY <1>1 DEF CompletedHasAlbum, HasAlbum

LEMMA ClosedRow ==
  ASSUME Types, NEW t \in Tasks, InHand(t), pc[t] \in {"record", "replace", "await", "tell", "fail"},
         NEW st \in Statuses
  PROVE  /\ Closed(t, st) \in Row
         /\ Closed(t, st).album = job[On(t)].album /\ Closed(t, st).ref = job[On(t)].ref
         /\ Closed(t, st).status = st
<1>1. job[On(t)] \in Row /\ held[t][On(t)] \in Row
  BY InHandRow
<1>. DEFINE r == WithMetadata(job[On(t)], held[t][On(t)])
<1>2. r \in Row /\ r.album = job[On(t)].album /\ r.ref = job[On(t)].ref
  BY <1>1, MetadataRow
<1>. HIDE DEF r
<1>. DEFINE x == [r EXCEPT !.status = st, !.old = FALSE]
<1>3. Closed(t, st) = x
  BY DEF Closed, r
<1>4. x \in Row /\ x.album = r.album /\ x.ref = r.ref /\ x.status = st
  BY <1>2, SettledRow
<1>. HIDE DEF x
<1>. QED
  BY <1>2, <1>3, <1>4

LEMMA RecordRows == ASSUME IInv, NEW j \in Jobs, Record(j) PROVE RowsChange
<1>1. j \in Tasks /\ InHand(j) /\ Types /\ pc[j] = "record" /\ On(j) = j
  BY DEF IInv, Tasks, Record, On
<1>2. IsHeld(j) /\ job[j].status # "absent"
  BY <1>1, InHandRow
<1>. DEFINE r == Closed(j, "processing")
<1>3. r \in Row /\ r.album = job[j].album /\ r.ref = job[j].ref /\ r.status = "processing"
  BY <1>1, ClosedRow DEF Statuses
<1>4. Write(j, r)
  BY <1>1 DEF Record, Closed
<1>. HIDE DEF r
<1>. QED
  BY <1>1, <1>2, <1>3, <1>4, OneChanges

LEMMA ReplaceRows == ASSUME IInv, NEW t \in Tasks, Replace(t) PROVE RowsChange
<1>1. InHand(t) /\ Types /\ pc[t] = "replace"
  BY DEF IInv, Replace
<1>. DEFINE i == On(t)
<1>2. /\ i \in Jobs /\ IsHeld(i) /\ job[i] \in Row /\ job[i].status # "absent"
  BY <1>1, InHandRow
<1>. HIDE DEF i
<1>. PICK k \in With("absent"), a \in Albums :
        job' = [job EXCEPT ![i].status = "exhausted", ![i].old = FALSE, ![k] = Fresh(a, "library", "pending")]
  BY DEF Replace, i
<1>3. k \in Jobs /\ job[k].status = "absent" /\ k # i
  BY <1>2 DEF With
<1>. DEFINE r == [job[i] EXCEPT !.status = "exhausted", !.old = FALSE]
            n == Fresh(a, "library", "pending")
<1>4. r \in Row /\ r.album = job[i].album /\ r.ref = job[i].ref /\ r.status = "exhausted"
  BY <1>2, SettledRow DEF Statuses
<1>5. n \in Row /\ n.status = "pending" /\ n.ref = None
  BY FreshRow DEF Kinds, Statuses
<1>6. job' = [job EXCEPT ![i] = r, ![k] = n]
  BY <1>1, <1>2, <1>3 DEF Types, TypeOK
<1>. HIDE DEF r, n
<1>7. job' \in [Jobs -> Row] /\ job'[i] = r /\ job'[k] = n /\ \A j \in Jobs \ {i, k} : job'[j] = job[j]
  BY <1>1, <1>2, <1>3, <1>4, <1>5, <1>6 DEF Types, TypeOK
<1>8. Changed(i)
  BY <1>2, <1>4, <1>7 DEF Changed
<1>9. Created(k)
  BY <1>3, <1>5, <1>7 DEF Created
<1>. QED
  BY <1>7, <1>8, <1>9 DEF RowsChange, MayChange

LEMMA ExhaustedRows == ASSUME IInv, NEW t \in Tasks, Exhausted(t) PROVE RowsChange
<1>1. InHand(t) /\ Types /\ pc[t] = "replace"
  BY DEF IInv, Exhausted
<1>2. On(t) \in Jobs /\ IsHeld(On(t)) /\ job[On(t)].status # "absent"
  BY <1>1, InHandRow
<1>3. CASE CompletedDuplicates(On(t)) # {} /\ Write(On(t), Closed(t, "completed"))
  <2>1. /\ Closed(t, "completed") \in Row /\ Closed(t, "completed").album = job[On(t)].album
        /\ Closed(t, "completed").ref = job[On(t)].ref /\ Closed(t, "completed").status = "completed"
    BY <1>1, ClosedRow DEF Statuses
  <2>2. HasAlbum(On(t))
    BY <1>2, <1>3, DuplicateHasAlbum DEF IInv
  <2>. QED
    BY <1>1, <1>2, <1>3, <2>1, <2>2, OneChanges
<1>4. CASE WriteAll({On(t)}, "failed")
  BY <1>1, <1>2, <1>4, ManyChange DEF Statuses
<1>. QED
  BY <1>3, <1>4 DEF Exhausted

LEMMA FailRows == ASSUME IInv, NEW t \in Tasks, Fail(t) PROVE RowsChange
<1>1. InHand(t) /\ Types /\ pc[t] = "fail"
  BY DEF IInv, Fail
<1>2. On(t) \in Jobs /\ IsHeld(On(t)) /\ job[On(t)].status # "absent"
  BY <1>1, InHandRow
<1>3. CASE t \in Jobs
  <2>1. /\ Closed(t, "failed") \in Row /\ Closed(t, "failed").album = job[On(t)].album
        /\ Closed(t, "failed").ref = job[On(t)].ref /\ Closed(t, "failed").status = "failed"
    BY <1>1, ClosedRow DEF Statuses
  <2>2. On(t) = t /\ Write(t, Closed(t, "failed"))
    BY <1>3 DEF Fail, On
  <2>. QED
    BY <1>1, <1>2, <2>1, <2>2, OneChanges
<1>4. CASE t \notin Jobs
  <2>1. On(t) = at[t] /\ WriteAll({at[t]}, "failed")
    BY <1>4 DEF Fail, On
  <2>. QED
    BY <1>1, <1>2, <2>1, ManyChange DEF Statuses
<1>. QED
  BY <1>3, <1>4

LEMMA GrabRow ==
  ASSUME NEW r \in Row, NEW d \in Downloads
  PROVE  /\ Grab(r, d) \in Row /\ Grab(r, d).status = "processing" /\ Grab(r, d).ref = d
         /\ Grab(r, d).album = r.album
BY DEF Grab, Row, Statuses

LEMMA GrabbedRows == ASSUME IInv, NEW d \in Downloads, Grabbed(d) PROVE RowsChange
<1>0. Types /\ job \in [Jobs -> Row]
  BY DEF IInv, Types, TypeOK
<1>1. ASSUME NEW j \in Unassigned(d), Write(j, Grab(job[j], d)) PROVE RowsChange
  <2>1. /\ j \in Jobs /\ PassesFor(AlbumOf[d], job[j].album) /\ job[j].status \in {"pending", "processing"}
        /\ job[j] \in Row
    BY <1>0, <1>1 DEF Unassigned, Active, With
  <2>. DEFINE r == Grab(job[j], d)
  <2>2. r \in Row /\ r.status = "processing" /\ r.ref = d /\ r.album = job[j].album
    BY <2>1, GrabRow
  <2>3. Write(j, r)
    BY <1>1
  <2>. HIDE DEF r
  <2>4. ~Settled(j)
    BY <2>1 DEF Settled
  <2>. QED
    BY <1>0, <2>1, <2>2, <2>3, <2>4, OneChanges
<1>2. ASSUME NEW k \in With("absent"), Write(k, Grab(Fresh(AlbumOf[d], "tracking", "pending"), d))
      PROVE  RowsChange
  <2>1. k \in Jobs /\ job[k].status = "absent"
    BY DEF With
  <2>. DEFINE n == Fresh(AlbumOf[d], "tracking", "pending")
              r == Grab(n, d)
  <2>0. n \in Row /\ n.album = AlbumOf[d]
    BY FreshRow DEF Kinds, Statuses
  <2>3. Write(k, r)
    BY <1>2
  <2>. HIDE DEF n
  <2>2. r \in Row /\ r.status = "processing" /\ r.ref = d /\ r.album = AlbumOf[d]
    BY <2>0, GrabRow
  <2>. HIDE DEF r
  <2>4. job' \in [Jobs -> Row] /\ job'[k] = r /\ \A j \in Jobs : j # k => job'[j] = job[j]
    BY <1>0, <2>1, <2>2, <2>3, WriteEffect
  <2>5. Created(k)
    BY <2>1, <2>2, <2>4 DEF Created, PassesFor
  <2>. QED
    BY <2>4, <2>5 DEF RowsChange, MayChange
<1>. QED
  BY <1>1, <1>2 DEF Grabbed

LEMMA CompleteRows == ASSUME IInv, NEW d \in Downloads, Complete(d) PROVE RowsChange
<1>0. Types
  BY DEF IInv
<1>. PICK j \in Active :
        /\ job[j].ref = d \/ PassesFor(AlbumOf[d], job[j].album)
        /\ WriteAll({j} \cup (Active \cap SameAlbum(j)), "completed")
  BY DEF Complete
<1>. DEFINE S == {j} \cup (Active \cap SameAlbum(j))
<1>1. \A i \in S : i \in Jobs /\ job[i].status \in {"pending", "processing"} /\ job[i].album = job[j].album
  BY DEF Active, With, SameAlbum
<1>2. PassesFor(AlbumOf[d], job[j].album)
  BY <1>1, NoneAssumption DEF IInv, RefNamesAlbum
<1>3. AlbumOf[d] \in files
  BY DEF Complete, IInv, Arrived
<1>4. \A i \in S : HasAlbum(i)
  BY <1>1, <1>2, <1>3 DEF HasAlbum
<1>. HIDE DEF S
<1>5. WriteAll(S, "completed")
  BY DEF S
<1>6. \A i \in S : ~Settled(i)
  BY <1>1 DEF Settled
<1>. QED
  BY <1>0, <1>1, <1>4, <1>5, <1>6, ManyChange DEF Statuses

\* Metadata written back, by who holds the row or for a notification.
LEMMA MetadataChanges ==
  ASSUME IInv, NEW j \in Jobs, NEW m \in Row, job[j].status # "absent",
         Write(j, WithMetadata(job[j], m)), IsHeld(j) \/ IsNoted(j)
  PROVE  RowsChange
<1>1. Types /\ job[j] \in Row
  BY DEF IInv, Types, TypeOK
<1>. DEFINE r == WithMetadata(job[j], m)
<1>2. r \in Row /\ r.album = job[j].album /\ r.ref = job[j].ref /\ r.status = job[j].status
  BY <1>1, MetadataRow
<1>3. job[j].status = "completed" => HasAlbum(j)
  BY DEF IInv, CompletedHasAlbum, HasAlbum, With
<1>4. Write(j, r)
  OBVIOUS
<1>. HIDE DEF r
<1>. QED
  BY <1>1, <1>2, <1>3, <1>4, OneChanges

LEMMA ToldRows == ASSUME IInv, NEW t \in Tasks, Told(t) PROVE RowsChange
<1>1. InHand(t) /\ Types /\ pc[t] = "tell"
  BY DEF IInv, Told
<1>2. /\ On(t) \in Jobs /\ held[t][On(t)] \in Row /\ job[On(t)].status # "absent" /\ IsHeld(On(t))
  BY <1>1, InHandRow
<1>3. CASE Write(On(t), WithMetadata(job[On(t)], held[t][On(t)]))
  BY <1>2, <1>3, MetadataChanges
<1>4. CASE UNCHANGED job
  BY <1>1, <1>4 DEF Types, TypeOK, RowsChange, MayChange
<1>. QED
  BY <1>3, <1>4 DEF Told

LEMMA NotifiedRows == ASSUME IInv, Notified PROVE RowsChange
<1>. PICK n \in notes : Write(n[1], WithMetadata(job[n[1]], n[2])) \/ UNCHANGED job
  BY DEF Notified
<1>1. /\ Types /\ n[1] \in Jobs /\ n[2] \in Row /\ job[n[1]].status # "absent" /\ IsNoted(n[1])
  BY DEF IInv, Types, TypeOK, Noted, IsNoted
<1>2. CASE Write(n[1], WithMetadata(job[n[1]], n[2]))
  BY <1>1, <1>2, MetadataChanges
<1>3. CASE UNCHANGED job
  BY <1>1, <1>3 DEF Types, TypeOK, RowsChange, MayChange
<1>. QED
  BY <1>2, <1>3

\* The scanner's own updates are of open jobs whose album is on disk.
LEMMA ScannedRows == ASSUME IInv, Scanned PROVE RowsChange
<1>0. Types /\ job \in [Jobs -> Row]
  BY DEF IInv, Types, TypeOK
<1>1. ASSUME NEW a \in files, WriteAll({j \in Active : job[j].album = a}, "completed") PROVE RowsChange
  <2>. DEFINE S == {j \in Active : job[j].album = a}
  <2>1. \A j \in S : j \in Jobs /\ job[j].status \in {"pending", "processing"} /\ ~Settled(j)
    BY DEF Active, With, Settled
  <2>2. \A j \in S : HasAlbum(j)
    BY DEF HasAlbum, PassesFor
  <2>3. WriteAll(S, "completed")
    BY <1>1
  <2>. HIDE DEF S
  <2>. QED
    BY <1>0, <2>1, <2>2, <2>3, ManyChange DEF Statuses
<1>2. CASE UNCHANGED job
  BY <1>0, <1>2 DEF RowsChange, MayChange
<1>. QED
  BY <1>1, <1>2 DEF Scanned

LEMMA ScannedTitleRows == ASSUME IInv, ScannedTitle PROVE RowsChange
<1>. PICK a \in files : \E S \in SUBSET (Active \cap Held({a})) : WriteAll(S, "completed")
  BY DEF ScannedTitle
<1>. PICK S \in SUBSET (Active \cap Held({a})) : WriteAll(S, "completed")
  OBVIOUS
<1>1. \A j \in S : j \in Jobs /\ job[j].status \in {"pending", "processing"} /\ ~Settled(j)
  BY DEF Active, With, Settled
<1>2. \A j \in S : HasAlbum(j)
  BY DEF HasAlbum, Held
<1>. QED
  BY <1>1, <1>2, ManyChange DEF IInv, Statuses

LEMMA ImportFailedRows == ASSUME IInv, NEW d \in Downloads, ImportFailed(d) PROVE RowsChange
<1>0. Types /\ job \in [Jobs -> Row]
  BY DEF IInv, Types, TypeOK
<1>1. ASSUME NEW j \in With("processing"), Write(j, [job[j] EXCEPT !.ref = None]) PROVE RowsChange
  <2>1. j \in Jobs /\ job[j].status = "processing" /\ job[j] \in Row /\ ~Settled(j)
    BY <1>0 DEF With, Settled
  <2>. DEFINE r == [job[j] EXCEPT !.ref = None]
  <2>2. r \in Row /\ r.status = "processing" /\ r.ref = None /\ r.album = job[j].album
    BY <2>1 DEF Row
  <2>3. Write(j, r)
    BY <1>1
  <2>. HIDE DEF r
  <2>. QED
    BY <1>0, <2>1, <2>2, <2>3, OneChanges
<1>2. CASE UNCHANGED job
  BY <1>0, <1>2 DEF RowsChange, MayChange
<1>. QED
  BY <1>1, <1>2 DEF ImportFailed

\* The rows a sweeper holds are there.
LEMMA HeldRow ==
  ASSUME IInv, NEW s \in Sweepers, NEW j \in DOMAIN held[s]
  PROVE  /\ s \in Tasks /\ j \in Jobs /\ held[s][j] \in Row /\ job[j] \in Row /\ job[j].status # "absent"
         /\ IsHeld(j)
BY DEF IInv, Types, TypeOK, InHand, Tasks, IsHeld

LEMMA FailPendingRows == ASSUME IInv, NEW s \in Sweepers, FailPending(s) PROVE RowsChange
<1>. DEFINE S == {j \in DOMAIN held[s] : held[s][j].status = "pending"}
<1>1. S \in SUBSET Jobs /\ \A j \in S : job[j].status # "absent" /\ IsHeld(j)
  BY HeldRow
<1>2. WriteAll(S, "failed")
  BY DEF FailPending
<1>. HIDE DEF S
<1>. QED
  BY <1>1, <1>2, ManyChange DEF IInv, Statuses

LEMMA FinishRows == ASSUME IInv, NEW s \in Sweepers, Finish(s) PROVE RowsChange
<1>. DEFINE S == DOMAIN held[s]
<1>1. S \in SUBSET Jobs /\ \A j \in S : job[j].status # "absent" /\ IsHeld(j)
  BY HeldRow
<1>2. WriteAll(S, "completed") /\ \A j \in S : HasAlbum(j)
  BY DEF Finish, IInv, InHand, Tasks
<1>. HIDE DEF S
<1>. QED
  BY <1>1, <1>2, ManyChange DEF IInv, Statuses

LEMMA JudgeRows == ASSUME IInv, NEW s \in Sweepers, Judge(s) PROVE RowsChange
<1>0. Types /\ job \in [Jobs -> Row]
  BY DEF IInv, Types, TypeOK
<1>1. ASSUME NEW j \in DOMAIN held[s], Extend(s, j) PROVE RowsChange
  <2>1. /\ j \in Jobs /\ held[s][j] \in Row /\ job[j] \in Row /\ job[j].status # "absent"
        /\ IsHeld(j)
    BY HeldRow
  <2>. DEFINE m == WithMetadata(job[j], held[s][j])
              r == [m EXCEPT !.old = FALSE]
  <2>2. m \in Row /\ m.album = job[j].album /\ m.ref = job[j].ref /\ m.status = job[j].status
    BY <2>1, MetadataRow
  <2>. HIDE DEF m
  <2>3. r \in Row /\ r.album = job[j].album /\ r.ref = job[j].ref /\ r.status = job[j].status
    BY <2>2 DEF Row
  <2>4. Write(j, r)
    BY <1>1 DEF Extend, m
  <2>5. job[j].status = "completed" => HasAlbum(j)
    BY <2>1 DEF IInv, CompletedHasAlbum, HasAlbum, With
  <2>. HIDE DEF r
  <2>. QED
    BY <1>0, <2>1, <2>3, <2>4, <2>5, OneChanges
<1>2. ASSUME NEW j \in DOMAIN held[s], Merge(s, j) PROVE RowsChange
  <2>1. /\ j \in Jobs /\ held[s][j] \in Row /\ job[j] \in Row /\ job[j].status # "absent"
        /\ IsHeld(j)
    BY HeldRow
  <2>. DEFINE m == WithMetadata(job[j], held[s][j])
              r == [m EXCEPT !.status = "completed", !.old = FALSE]
  <2>2. m \in Row /\ m.album = job[j].album /\ m.ref = job[j].ref
    BY <2>1, MetadataRow
  <2>. HIDE DEF m
  <2>3. r \in Row /\ r.album = job[j].album /\ r.ref = job[j].ref /\ r.status = "completed"
    BY <2>2, SettledRow DEF Statuses
  <2>4. Write(j, r)
    BY <1>2 DEF Merge, m
  <2>5. HasAlbum(j)
    BY <1>2, <2>1, DuplicateHasAlbum DEF Merge, IInv
  <2>. HIDE DEF r
  <2>. QED
    BY <1>0, <2>1, <2>3, <2>4, <2>5, OneChanges
<1>3. ASSUME NEW j \in DOMAIN held[s], TimeOut(s, j) PROVE RowsChange
  BY <1>0, <1>3 DEF TimeOut, RowsChange, MayChange
<1>. QED
  BY <1>1, <1>2, <1>3 DEF Judge

LEMMA RetryRows == ASSUME IInv, NEW s \in Sweepers, Retry(s) PROVE RowsChange
<1>. PICK j \in DOMAIN held[s] : Write(j, WithMetadata(job[j], held[s][j]))
  BY DEF Retry
<1>1. j \in Jobs /\ held[s][j] \in Row /\ job[j].status # "absent" /\ IsHeld(j)
  BY HeldRow
<1>. QED
  BY <1>1, MetadataChanges

\* The writes of syncWithLidarrQueue: another download, completed, or given up.
LEMMA Redirected ==
  ASSUME NEW m \in Row, NEW d \in Downloads
  PROVE  /\ [m EXCEPT !.ref = d, !.missing = 0] \in Row
         /\ [m EXCEPT !.ref = d, !.missing = 0].ref = d
         /\ [m EXCEPT !.ref = d, !.missing = 0].album = m.album
         /\ [m EXCEPT !.ref = d, !.missing = 0].status = m.status
<1>1. ASSUME NEW n \in 0..MaxMissing
      PROVE  /\ [m EXCEPT !.ref = d, !.missing = n] \in Row
             /\ [m EXCEPT !.ref = d, !.missing = n].ref = d
             /\ [m EXCEPT !.ref = d, !.missing = n].album = m.album
             /\ [m EXCEPT !.ref = d, !.missing = n].status = m.status
  BY DEF Row
<1>2. 0 \in 0..MaxMissing
  BY SMT
<1>. QED
  BY <1>1, <1>2

LEMMA FoundAfterAll ==
  ASSUME NEW m \in Row, NEW n \in 0..MaxMissing
  PROVE  /\ [m EXCEPT !.status = "completed", !.missing = n, !.old = FALSE] \in Row
         /\ [m EXCEPT !.status = "completed", !.missing = n, !.old = FALSE].ref = m.ref
         /\ [m EXCEPT !.status = "completed", !.missing = n, !.old = FALSE].album = m.album
         /\ [m EXCEPT !.status = "completed", !.missing = n, !.old = FALSE].status = "completed"
BY DEF Row, Statuses

LEMMA GivenUp ==
  ASSUME NEW m \in Row, NEW n \in 0..MaxMissing
  PROVE  /\ [m EXCEPT !.status = "failed", !.ref = None, !.missing = n, !.old = FALSE] \in Row
         /\ [m EXCEPT !.status = "failed", !.ref = None, !.missing = n, !.old = FALSE].ref = None
         /\ [m EXCEPT !.status = "failed", !.ref = None, !.missing = n, !.old = FALSE].album = m.album
         /\ [m EXCEPT !.status = "failed", !.ref = None, !.missing = n, !.old = FALSE].status = "failed"
BY DEF Row, Statuses

\* What syncWithLidarrQueue makes of a row.
LEMMA SyncedRow ==
  ASSUME IInv, NEW j \in Jobs, job[j].status # "absent", NEW h \in Row, h.album = job[j].album,
         NEW r \in Synced(job[j], h)
  PROVE  /\ r \in Row /\ r.album = job[j].album /\ r.status # "absent"
         /\ r.ref \in {job[j].ref, None} \/ PassesFor(AlbumOf[r.ref], job[j].album)
         /\ r.status = "completed" => HasAlbum(j)
<1>. DEFINE m == WithMetadata(job[j], h)
<1>0. job[j] \in Row /\ snap.queue \subseteq Downloads /\ snap.files \subseteq files
  BY DEF IInv, Types, TypeOK, Arrived
<1>1. m \in Row /\ m.album = job[j].album /\ m.ref = job[j].ref /\ m.status = job[j].status
  BY <1>0, MetadataRow
<1>2. job[j].status = "completed" => HasAlbum(j)
  BY DEF IInv, CompletedHasAlbum, HasAlbum, With
<1>3. m.missing = h.missing /\ 0 \in 0..MaxMissing /\ MaxMissing \in 0..MaxMissing
  BY <1>0 DEF WithMetadata, Row
<1>. HIDE DEF m
<1>4. CASE r \in {[m EXCEPT !.missing = 0], job[j]}
  BY <1>0, <1>1, <1>2, <1>4 DEF Row
<1>5. CASE h.missing + 1 < MaxMissing /\ r = [m EXCEPT !.missing = @ + 1]
  <2>1. m.missing + 1 \in 0..MaxMissing
    BY <1>3, <1>5 DEF Row
  <2>. QED
    BY <1>1, <1>2, <1>5, <2>1 DEF Row
<1>6. ASSUME NEW d \in Replacements(h), r = [m EXCEPT !.ref = d, !.missing = 0] PROVE
         /\ r \in Row /\ r.album = job[j].album /\ r.status = job[j].status
         /\ PassesFor(AlbumOf[r.ref], job[j].album)
  <2>1. d \in Downloads /\ PassesFor(AlbumOf[d], job[j].album)
    BY <1>0 DEF Replacements
  <2>. DEFINE x == [m EXCEPT !.ref = d, !.missing = 0]
  <2>2. x \in Row /\ x.ref = d /\ x.album = m.album /\ x.status = m.status
    BY <1>1, <2>1, Redirected
  <2>3. r = x
    BY <1>6
  <2>. HIDE DEF x
  <2>. QED
    BY <1>1, <2>1, <2>2, <2>3
<1>7. CASE /\ \E a \in snap.files : PassesFor(a, h.album)
           /\ r = [m EXCEPT !.status = "completed", !.missing = 0, !.old = FALSE]
  <2>1. HasAlbum(j)
    BY <1>0, <1>7 DEF HasAlbum
  <2>. DEFINE x == [m EXCEPT !.status = "completed", !.missing = 0, !.old = FALSE]
  <2>2. x \in Row /\ x.ref = m.ref /\ x.album = m.album /\ x.status = "completed"
    BY <1>1, <1>3, FoundAfterAll
  <2>3. r = x
    BY <1>7
  <2>. HIDE DEF x
  <2>. QED
    BY <1>1, <2>1, <2>2, <2>3
<1>8. CASE r = [m EXCEPT !.status = "failed", !.ref = None, !.missing = MaxMissing, !.old = FALSE]
  <2>. DEFINE x == [m EXCEPT !.status = "failed", !.ref = None, !.missing = MaxMissing, !.old = FALSE]
  <2>1. x \in Row /\ x.ref = None /\ x.album = m.album /\ x.status = "failed"
    BY <1>1, <1>3, GivenUp
  <2>2. r = x
    BY <1>8
  <2>. HIDE DEF x
  <2>. QED
    BY <1>1, <2>1, <2>2
<1>9. h.album \in snap.files => \E a \in snap.files : PassesFor(a, h.album)
  BY DEF PassesFor
<1>. QED
  BY <1>2, <1>4, <1>5, <1>6, <1>7, <1>8, <1>9 DEF Synced, m

LEMMA SyncRows == ASSUME IInv, NEW s \in Sweepers, Sync(s) PROVE RowsChange
<1>. PICK j \in DOMAIN held[s] : \E r \in Synced(job[j], held[s][j]) : Write(j, r)
  BY DEF Sync
<1>. PICK r \in Synced(job[j], held[s][j]) : Write(j, r)
  OBVIOUS
<1>1. /\ j \in Jobs /\ held[s][j] \in Row /\ job[j].status # "absent"
      /\ IsHeld(j)
  BY HeldRow
<1>2. held[s][j].album = job[j].album
  BY DEF Sync, IInv, InHand, Tasks
<1>3. /\ r \in Row /\ r.album = job[j].album /\ r.status # "absent"
      /\ r.ref \in {job[j].ref, None} \/ PassesFor(AlbumOf[r.ref], job[j].album)
      /\ r.status = "completed" => HasAlbum(j)
  BY <1>1, <1>2, SyncedRow
<1>. QED
  BY <1>1, <1>3, OneChanges DEF IInv

LEMMA TickRows == ASSUME IInv, NEW j \in Jobs, Tick(j) PROVE RowsChange
<1>1. Types /\ job[j] \in Row /\ job[j].status \in {"pending", "processing"} /\ ~Settled(j)
  BY DEF IInv, Types, TypeOK, Tick, Active, With, Settled
<1>. DEFINE r == [job[j] EXCEPT !.old = TRUE]
<1>2. r \in Row /\ r.status = job[j].status /\ r.ref = job[j].ref /\ r.album = job[j].album
  BY <1>1 DEF Row
<1>3. Write(j, r)
  BY DEF Tick
<1>. HIDE DEF r
<1>. QED
  BY <1>1, <1>2, <1>3, OneChanges

LEMMA RowsStep == IInv /\ [Next]_vars => RowsChange
<1>. SUFFICES ASSUME IInv, [Next]_vars PROVE RowsChange
  OBVIOUS
<1>0. ASSUME UNCHANGED job PROVE RowsChange
  BY <1>0 DEF IInv, Types, TypeOK, RowsChange, MayChange
<1>1. ASSUME NEW j \in Jobs, Starting(j) PROVE RowsChange
  BY <1>0, <1>1, RecordRows DEF Starting, Added, AddFails
<1>2. ASSUME NEW j \in Jobs, Tick(j) PROVE RowsChange
  BY <1>2, TickRows
<1>3. ASSUME NEW t \in Tasks, GivingUp(t) PROVE RowsChange
  BY <1>0, <1>3, ReplaceRows, ExhaustedRows, ToldRows, FailRows DEF GivingUp, Replaced
<1>4. ASSUME NEW s \in Sweepers, Sweep(s) PROVE RowsChange
  BY <1>0, <1>4, FailPendingRows, JudgeRows, FinishRows, SyncRows, RetryRows
     DEF Sweep, StaleRead, Find, SyncRead, Stuck
<1>5. ASSUME NEW d \in Downloads, Webhook(d) PROVE RowsChange
  BY <1>5, GrabbedRows, CompleteRows, ImportFailedRows DEF Webhook
<1>6. CASE BeginCycle \/ Lidarr \/ Crash
  BY <1>0, <1>6 DEF BeginCycle, Lidarr, Crash
<1>7. CASE Notified \/ Scanned \/ ScannedTitle
  BY <1>7, NotifiedRows, ScannedRows, ScannedTitleRows
<1>8. CASE UNCHANGED vars
  BY <1>0, <1>8 DEF vars
<1>. QED
  BY <1>1, <1>2, <1>3, <1>4, <1>5, <1>6, <1>7, <1>8 DEF Next

-----------------------------------------------------------------------------
(* Tasks.                                                                   *)

Labels == RequestLabels \cup SweeperLabels

TasksTyped ==
    /\ pc \in [Tasks -> Labels] /\ pass \in [Sweepers -> Passes] /\ OwnPasses
    /\ held \in [Tasks -> Holdings]
    /\ at \in [Sweepers -> Jobs \cup {None}] /\ child \in [Tasks -> Jobs \cup {None}]

LEMMA TypesOfTasks == Types => TasksTyped
BY DEF Types, TypeOK, TasksTyped, Labels, RequestLabels, SweeperLabels

LEMMA HoldingsAre ==
  /\ \A f \in Holdings : DOMAIN f \subseteq Jobs /\ \A j \in DOMAIN f : f[j] \in Row
  /\ \A S \in SUBSET Jobs : \A f \in [S -> Row] : f \in Holdings
BY DEF Holdings

\* What has been true of a row stays so as rows change and albums arrive.
Onwards ==
    /\ RowsChange /\ files \subseteq files'

LEMMA RowsEndure ==
  ASSUME Onwards, NEW j \in Jobs, job[j].status # "absent"
  PROVE  job'[j].status # "absent" /\ job'[j].album = job[j].album /\ (HasAlbum(j) => HasAlbum(j)')
<1>1. job'[j].status # "absent" /\ job'[j].album = job[j].album
  BY DEF Onwards, RowsChange, MayChange, Created, Changed
<1>. QED
  BY <1>1 DEF HasAlbum, Onwards

\* Where a task and what it holds are as before, nothing changes for it.
LEMMA OthersGoOn ==
  ASSUME IInv, Onwards, NEW u \in Tasks, pc'[u] = pc[u], held'[u] = held[u], child'[u] = child[u],
         u \in Sweepers => at'[u] = at[u]
  PROVE  InHand(u)'
<1>1. InHand(u) /\ DOMAIN held[u] \subseteq Jobs
  BY HoldingsAre DEF IInv, Types
<1>2. u \in Jobs /\ pc'[u] = "add" => job'[u].status # "absent"
  BY <1>1, RowsEndure DEF InHand
<1>3. \A j \in DOMAIN held'[u] : job'[j].status # "absent"
  BY <1>1, RowsEndure DEF InHand
<1>4. pc'[u] = "finish" => \A j \in DOMAIN held'[u] : HasAlbum(j)'
  BY <1>1, RowsEndure DEF InHand
<1>5. pc'[u] = "sync" => \A j \in DOMAIN held'[u] : held'[u][j].album = job'[j].album
  BY <1>1, RowsEndure DEF InHand
<1>. QED
  BY <1>1, <1>2, <1>3, <1>4, <1>5 DEF InHand

\* Between two passes, before a row is judged, and after its request, a task needs no more
\* than rows that are there.
LEMMA RestsWithRows ==
  ASSUME Onwards, NEW u \in Tasks, held'[u] \in Holdings,
         u \in Jobs => pc'[u] \in {"over", "refused"},
         u \in Sweepers => pc'[u] \in {"off", "rest", "read", "pending", "judge", "retry"},
         \A j \in DOMAIN held'[u] : job[j].status # "absent"
  PROVE  InHand(u)'
<1>1. \A j \in DOMAIN held'[u] : job'[j].status # "absent"
  BY HoldingsAre, RowsEndure
<1>. QED
  BY <1>1 DEF InHand, RequestLabels, SweeperLabels, Tasks

\* Task t moves to one of L; the others stay where they are.
Moves(t, L) ==
    /\ pc' \in [Tasks -> Labels] /\ pc'[t] \in L /\ \A u \in Tasks : u # t => pc'[u] = pc[u]
    /\ pass' \in [Sweepers -> Passes] /\ OwnPasses'

\* Task t holds no more than it held; the others what they hold.
Drops(t) ==
    /\ held' \in [Tasks -> Holdings] /\ \A u \in Tasks : u # t => held'[u] = held[u]
    /\ \A j \in DOMAIN held'[t] : j \in DOMAIN held[t] /\ held'[t][j] = held[t][j]

LEMMA GotoMoves ==
  ASSUME TasksTyped, NEW t \in Tasks, NEW l \in Labels, Goto(t, l), UNCHANGED pass
  PROVE  Moves(t, {l})
BY DEF TasksTyped, Goto, Moves, OwnPasses

LEMMA NextPassMoves ==
  ASSUME TasksTyped, NEW s \in Sweepers, NextPass(s)
  PROVE  Moves(s, {"read", "rest"}) /\ snap' \in {snap, NoSnapshot}
<1>0. s \in Tasks /\ {"read", "rest"} \subseteq Labels
  BY DEF Tasks, Labels, SweeperLabels
<1>1. /\ s = Cycle => After(s) \in {"lidarr", "local", "sync", "rest"}
      /\ s = Cleaner => After(s) \in {"local", "stuck", "history", "rest"}
      /\ s = Scanner => After(s) \in {"local", "rest"}
  <2>1. CASE s = Cycle
    BY <2>1 DEF After, TasksTyped, OwnPasses
  <2>2. CASE s = Cleaner
    BY <2>2 DEF After, TasksTyped, OwnPasses
  <2>3. CASE s = Scanner
    BY <2>3 DEF After, TasksTyped, OwnPasses
  <2>. QED
    BY <2>1, <2>2, <2>3 DEF Sweepers
<1>2. CASE After(s) # "rest"
  <2>1. pc' \in [Tasks -> Labels] /\ pc'[s] = "read" /\ \A u \in Tasks : u # s => pc'[u] = pc[u]
    BY <1>0, <1>2 DEF NextPass, Goto, TasksTyped
  <2>2. pass' = [pass EXCEPT ![s] = After(s)] /\ snap' = snap
    BY <1>2 DEF NextPass
  <2>3. pass' \in [Sweepers -> Passes] /\ OwnPasses'
    BY <1>1, <1>2, <2>2 DEF TasksTyped, Passes, OwnPasses, Sweepers
  <2>. QED
    BY <2>1, <2>2, <2>3 DEF Moves
<1>3. CASE After(s) = "rest"
  <2>1. pc' \in [Tasks -> Labels] /\ pc'[s] = "rest" /\ \A u \in Tasks : u # s => pc'[u] = pc[u]
    BY <1>0, <1>3 DEF NextPass, Goto, TasksTyped
  <2>2. pass' = [pass EXCEPT ![s] = First(s)] /\ snap' \in {snap, NoSnapshot}
    BY <1>3 DEF NextPass
  <2>3. pass' \in [Sweepers -> Passes] /\ OwnPasses'
    BY <2>2 DEF TasksTyped, Passes, OwnPasses, Sweepers, First
  <2>. QED
    BY <2>1, <2>2, <2>3 DEF Moves
<1>. QED
  BY <1>2, <1>3

LEMMA WithoutDrops ==
  ASSUME TasksTyped, NEW t \in Tasks, NEW j, held' = Without(t, j)
  PROVE  Drops(t)
<1>. DEFINE f == [k \in DOMAIN held[t] \ {j} |-> held[t][k]]
<1>1. held[t] \in Holdings
  BY DEF TasksTyped
<1>2. DOMAIN held[t] \ {j} \in SUBSET Jobs /\ f \in [DOMAIN held[t] \ {j} -> Row]
  BY <1>1, HoldingsAre
<1>3. f \in Holdings
  BY <1>2, HoldingsAre
<1>4. \A k \in DOMAIN f : k \in DOMAIN held[t] /\ f[k] = held[t][k]
  OBVIOUS
<1>5. held' = [held EXCEPT ![t] = f]
  BY DEF Without
<1>. HIDE DEF f
<1>. QED
  BY <1>3, <1>4, <1>5 DEF Drops, TasksTyped

LEMMA NextRowMoves ==
  ASSUME TasksTyped, NEW s \in Sweepers, NEW j, NEW l \in {"judge", "sync"}, NextRow(s, j, l)
  PROVE  Moves(s, {"read", "rest", l}) /\ Drops(s) /\ snap' \in {snap, NoSnapshot}
<1>0. s \in Tasks /\ l \in Labels
  BY DEF Tasks, Labels, SweeperLabels
<1>1. Drops(s)
  BY <1>0, WithoutDrops DEF NextRow
<1>2. CASE NextPass(s)
  BY <1>1, <1>2, NextPassMoves DEF Moves
<1>3. CASE Goto(s, l) /\ UNCHANGED <<pass, snap>>
  BY <1>0, <1>1, <1>3, GotoMoves DEF Moves
<1>. QED
  BY <1>2, <1>3 DEF NextRow

LEMMA LeaveMoves ==
  ASSUME TasksTyped, NEW t \in Tasks, NEW l \in {"over", "refused"}, Leave(t, l)
  PROVE  /\ Moves(t, IF t \in Jobs THEN {l} ELSE {"read", "rest", "judge"}) /\ Drops(t)
         /\ snap' \in {snap, NoSnapshot}
         /\ at' \in [Sweepers -> Jobs \cup {None}] /\ \A s \in Sweepers : s # t => at'[s] = at[s]
<1>1. CASE t \in Jobs
  <2>1. l \in Labels /\ Goto(t, l) /\ UNCHANGED pass /\ held' = Without(t, t) /\ at' = at /\ snap' = snap
    BY <1>1 DEF Leave, Labels, RequestLabels
  <2>. QED
    BY <1>1, <2>1, GotoMoves, WithoutDrops DEF TasksTyped
<1>2. CASE t \notin Jobs
  <2>1. t \in Sweepers /\ NextRow(t, at[t], "judge") /\ at' = [at EXCEPT ![t] = None]
    BY <1>2 DEF Leave, Tasks
  <2>2. Moves(t, {"read", "rest", "judge"}) /\ Drops(t) /\ snap' \in {snap, NoSnapshot}
    BY <2>1, NextRowMoves
  <2>. QED
    BY <1>2, <2>1, <2>2 DEF TasksTyped
<1>. QED
  BY <1>1, <1>2

LEMMA HoldMoves ==
  ASSUME TasksTyped, NEW s \in Sweepers, NEW f \in Holdings, NEW l \in SweeperLabels, Hold(s, f, l)
  PROVE  /\ snap' \in {snap, NoSnapshot}
         /\ \/ Moves(s, {"read", "rest"}) /\ held' = held
            \/ /\ Moves(s, {l}) /\ held'[s] = f
               /\ held' \in [Tasks -> Holdings] /\ \A u \in Tasks : u # s => held'[u] = held[u]
<1>0. s \in Tasks /\ l \in Labels
  BY DEF Tasks, Labels
<1>1. CASE NextPass(s) /\ UNCHANGED held
  BY <1>1, NextPassMoves
<1>2. CASE held' = [held EXCEPT ![s] = f] /\ Goto(s, l) /\ UNCHANGED <<pass, snap>>
  BY <1>0, <1>2, GotoMoves DEF TasksTyped
<1>. QED
  BY <1>1, <1>2 DEF Hold

TasksInOrder == TasksTyped /\ \A u \in Tasks : InHand(u)

LEMMA InOrder == IInv => TasksInOrder
BY TypesOfTasks DEF IInv, TasksInOrder

LEMMA OneTask ==
  ASSUME IInv, Onwards, NEW t \in Tasks, NEW L, Moves(t, L), InHand(t)',
         held' \in [Tasks -> Holdings], \A u \in Tasks : u # t => held'[u] = held[u],
         child' \in [Tasks -> Jobs \cup {None}], \A u \in Tasks : u # t => child'[u] = child[u],
         at' \in [Sweepers -> Jobs \cup {None}], \A s \in Sweepers : s # t => at'[s] = at[s]
  PROVE  TasksInOrder'
<1>1. TasksTyped'
  BY DEF Moves, TasksTyped
<1>2. ASSUME NEW u \in Tasks, u # t PROVE InHand(u)'
  <2>1. pc'[u] = pc[u] /\ held'[u] = held[u] /\ child'[u] = child[u]
    BY <1>2 DEF Moves
  <2>. QED
    BY <1>2, <2>1, OthersGoOn
<1>. QED
  BY <1>1, <1>2 DEF TasksInOrder

\* Where no task moves.
LEMMA NoTask ==
  ASSUME IInv, Onwards, UNCHANGED taskVars
  PROVE  TasksInOrder'
<1>1. TasksTyped'
  BY TypesOfTasks DEF IInv, TasksTyped, OwnPasses, taskVars
<1>2. ASSUME NEW u \in Tasks PROVE InHand(u)'
  BY OthersGoOn DEF taskVars
<1>. QED
  BY <1>1, <1>2 DEF TasksInOrder

LEMMA HoldingsOfRows ==
  ASSUME Types, NEW S \in SUBSET Jobs
  PROVE  Rows(S) \in Holdings /\ Ids(S) \in Holdings /\ DOMAIN Rows(S) = S /\ DOMAIN Ids(S) = S
<1>1. Rows(S) \in [S -> Row] /\ Ids(S) \in [S -> Row]
  BY AbsentRow DEF Types, TypeOK, Rows, Ids
<1>. QED
  BY <1>1, HoldingsAre

LEMMA NothingHeld == Nothing \in Holdings /\ DOMAIN Nothing = {}
<1>1. Nothing \in [{} -> Row] /\ DOMAIN Nothing = {}
  BY DEF Nothing
<1>. QED
  BY <1>1, HoldingsAre

\* A request reads its row once Lidarr has answered.
LEMMA RequestReads ==
  ASSUME IInv, Onwards, NEW j \in Jobs, pc[j] = "add", NEW l \in {"record", "replace", "fail"},
         held' = [held EXCEPT ![j] = [k \in {j} |-> Metadata(j)]], Goto(j, l), UNCHANGED <<pass, at, child>>
  PROVE  TasksInOrder'
<1>0. TasksTyped /\ InHand(j) /\ j \in Tasks /\ job[j] \in Row /\ l \in Labels
  BY TypesOfTasks DEF IInv, Types, TypeOK, Tasks, Labels, RequestLabels
<1>1. Metadata(j) \in Row
  BY <1>0, AbsentRow DEF Metadata, Row
<1>. DEFINE f == [k \in {j} |-> Metadata(j)]
<1>2. f \in [{j} -> Row] /\ DOMAIN f = {j}
  BY <1>1
<1>3. f \in Holdings
  BY <1>2, HoldingsAre
<1>4. held' = [held EXCEPT ![j] = f]
  OBVIOUS
<1>. HIDE DEF f
<1>5. Moves(j, {l})
  BY <1>0, GotoMoves
<1>6. job[j].status # "absent"
  BY <1>0 DEF InHand
<1>7. job'[j].status # "absent"
  BY <1>6, RowsEndure
<1>8. held'[j] = f /\ held' \in [Tasks -> Holdings] /\ \A u \in Tasks : u # j => held'[u] = held[u]
  BY <1>0, <1>3, <1>4 DEF TasksTyped
<1>9. InHand(j)'
  BY <1>2, <1>5, <1>7, <1>8 DEF InHand, Moves, RequestLabels, Sweepers
<1>. QED
  BY <1>0, <1>5, <1>8, <1>9, OneTask DEF TasksTyped

LEMMA TaskLeaves ==
  ASSUME IInv, Onwards, NEW t \in Tasks, NEW l \in {"over", "refused"}, Leave(t, l),
         child' \in [Tasks -> Jobs \cup {None}], \A u \in Tasks : u # t => child'[u] = child[u]
  PROVE  TasksInOrder' /\ snap' \in {snap, NoSnapshot}
<1>0. TasksTyped /\ InHand(t)
  BY TypesOfTasks DEF IInv
<1>1. /\ Moves(t, IF t \in Jobs THEN {l} ELSE {"read", "rest", "judge"}) /\ Drops(t)
      /\ snap' \in {snap, NoSnapshot}
      /\ at' \in [Sweepers -> Jobs \cup {None}] /\ \A s \in Sweepers : s # t => at'[s] = at[s]
  BY <1>0, LeaveMoves
<1>2. t \in Jobs => pc'[t] \in {"over", "refused"}
  BY <1>1 DEF Moves
<1>3. t \in Sweepers => pc'[t] \in {"off", "rest", "read", "pending", "judge", "retry"}
  BY <1>1 DEF Moves
<1>4. \A j \in DOMAIN held'[t] : job[j].status # "absent"
  BY <1>0, <1>1 DEF Drops, InHand
<1>5. held'[t] \in Holdings
  BY <1>1 DEF Drops
<1>6. InHand(t)'
  BY <1>2, <1>3, <1>4, <1>5, RestsWithRows
<1>. QED
  BY <1>1, <1>6, OneTask DEF Drops

LEMMA StartingTasks == ASSUME IInv, Onwards, NEW j \in Jobs, Starting(j) PROVE TasksInOrder'
<1>1. CASE Added(j)
  BY <1>1, RequestReads DEF Added
<1>2. CASE AddFails(j)
  BY <1>2, RequestReads DEF AddFails
<1>3. CASE Record(j)
  <2>1. child' \in [Tasks -> Jobs \cup {None}] /\ child' = child /\ j \in Tasks /\ Leave(j, "over")
    BY <1>3, TypesOfTasks DEF IInv, TasksTyped, Record, Tasks
  <2>. QED
    BY <2>1, TaskLeaves
<1>. QED
  BY <1>1, <1>2, <1>3 DEF Starting

\* The task that waits and the row it has made.
LEMMA ReplaceTasks == ASSUME IInv, Onwards, NEW t \in Tasks, Replace(t) PROVE TasksInOrder'
<1>0. TasksTyped /\ InHand(t) /\ Types /\ pc[t] = "replace"
  BY TypesOfTasks DEF IInv, Replace
<1>1. On(t) \in Jobs /\ On(t) \in DOMAIN held[t] /\ job[On(t)].status # "absent"
  BY <1>0, InHandRow
<1>. PICK k \in With("absent"), a \in Albums :
        /\ job' = [job EXCEPT ![On(t)].status = "exhausted", ![On(t)].old = FALSE,
                              ![k] = Fresh(a, "library", "pending")]
        /\ child' = [child EXCEPT ![t] = k]
        /\ pc' = [pc EXCEPT ![t] = "await", ![k] = "add"]
  BY DEF Replace
<1>2. k \in Jobs /\ k \in Tasks /\ job[k].status = "absent" /\ k # t
  BY <1>1 DEF With, On, Tasks
<1>3. UNCHANGED <<pass, held, at>>
  BY DEF Replace
<1>4. /\ pc' \in [Tasks -> Labels] /\ pc'[t] = "await" /\ pc'[k] = "add"
      /\ \A u \in Tasks : u \notin {t, k} => pc'[u] = pc[u]
  BY <1>0, <1>2 DEF TasksTyped, Labels, RequestLabels
<1>5. /\ child' \in [Tasks -> Jobs \cup {None}] /\ child'[t] = k
      /\ \A u \in Tasks : u # t => child'[u] = child[u]
  BY <1>0, <1>2 DEF TasksTyped
<1>6. job'[k].status = "pending"
  BY <1>0, <1>1, <1>2 DEF Types, TypeOK, Fresh
<1>7. ASSUME NEW u \in Tasks PROVE \A j \in DOMAIN held'[u] : job'[j].status # "absent"
  BY <1>3, RowsEndure, HoldingsAre DEF IInv, Types, InHand
<1>8. InHand(t)'
  <2>1. t \in Jobs => t \in DOMAIN held[t]
    BY <1>1 DEF On
  <2>2. t \in Sweepers => at[t] \in DOMAIN held[t]
    BY <1>1 DEF On
  <2>. QED
    BY <1>2, <1>3, <1>4, <1>5, <1>7, <2>1, <2>2 DEF InHand, RequestLabels, SweeperLabels
<1>9. InHand(k)'
  BY <1>2, <1>4, <1>6, <1>7 DEF InHand, RequestLabels, Sweepers
<1>10. ASSUME NEW u \in Tasks \ {t, k} PROVE InHand(u)'
  BY <1>3, <1>4, <1>5, OthersGoOn
<1>11. TasksTyped'
  BY <1>0, <1>3, <1>4, <1>5 DEF TasksTyped, OwnPasses
<1>. QED
  BY <1>8, <1>9, <1>10, <1>11 DEF TasksInOrder

\* Without a replacement the task goes on to fail the row it holds, and perhaps tells first.
LEMMA TaskToFail ==
  ASSUME IInv, Onwards, NEW t \in Tasks, pc[t] \in {"replace", "await", "tell"},
         NEW l \in {"tell", "fail"}, Goto(t, l), UNCHANGED <<pass, held, at>>,
         child' \in [Tasks -> Jobs \cup {None}], \A u \in Tasks : u # t => child'[u] = child[u]
  PROVE  TasksInOrder'
<1>0. TasksTyped /\ InHand(t) /\ Types
  BY TypesOfTasks DEF IInv
<1>1. Moves(t, {l})
  BY <1>0, GotoMoves DEF Labels, RequestLabels
<1>2. \A j \in DOMAIN held'[t] : job'[j].status # "absent"
  BY <1>0, RowsEndure, HoldingsAre DEF Types, InHand
<1>3. InHand(t)'
  BY <1>0, <1>1, <1>2 DEF InHand, Moves, RequestLabels, SweeperLabels
<1>. QED
  BY <1>0, <1>1, <1>3, OneTask DEF TasksTyped

LEMMA GivingUpTasks == ASSUME IInv, Onwards, NEW t \in Tasks, GivingUp(t) PROVE TasksInOrder'
<1>0. TasksTyped
  BY TypesOfTasks DEF IInv
<1>1. CASE Replace(t)
  BY <1>1, ReplaceTasks
<1>2. CASE Replaced(t)
  <2>1. child' \in [Tasks -> Jobs \cup {None}] /\ \A u \in Tasks : u # t => child'[u] = child[u]
    BY <1>0, <1>2 DEF Replaced, TasksTyped
  <2>2. (Goto(t, "fail") /\ UNCHANGED <<pass, held, at>>) \/ Leave(t, "over")
    BY <1>2 DEF Replaced
  <2>3. pc[t] = "await"
    BY <1>2 DEF Replaced
  <2>. QED
    BY <2>1, <2>2, <2>3, TaskToFail, TaskLeaves
<1>3. CASE Exhausted(t) \/ Told(t)
  <2>1. /\ pc[t] \in {"replace", "tell"} /\ (Goto(t, "fail") \/ Goto(t, "tell"))
        /\ UNCHANGED <<pass, held, at, child>>
    BY <1>3 DEF Exhausted, Told
  <2>. QED
    BY <1>0, <2>1, TaskToFail DEF TasksTyped
<1>4. CASE Fail(t)
  <2>1. Leave(t, "refused") /\ child' = child
    BY <1>4 DEF Fail
  <2>. QED
    BY <1>0, <2>1, TaskLeaves DEF TasksTyped
<1>. QED
  BY <1>1, <1>2, <1>3, <1>4 DEF GivingUp

\* A sweeper between rows or passes needs no more than rows that are there.
LEMMA SweeperGoesOn ==
  ASSUME IInv, Onwards, NEW s \in Sweepers, Moves(s, {"off", "rest", "read", "pending", "judge", "retry"}),
         held' \in [Tasks -> Holdings], \A u \in Tasks : u # s => held'[u] = held[u],
         \A j \in DOMAIN held'[s] : job[j].status # "absent", UNCHANGED <<at, child>>
  PROVE  TasksInOrder'
<1>0. TasksTyped /\ s \in Tasks /\ s \notin Jobs
  BY TypesOfTasks DEF IInv, Tasks
<1>1. pc'[s] \in {"off", "rest", "read", "pending", "judge", "retry"} /\ held'[s] \in Holdings
  BY <1>0 DEF Moves
<1>2. InHand(s)'
  BY <1>0, <1>1, RestsWithRows
<1>. QED
  BY <1>0, <1>2, OneTask DEF TasksTyped

\* What a pass finds: the sweeper holds it, or goes on to its next pass.
LEMMA SweeperHolds ==
  ASSUME IInv, Onwards, NEW s \in Sweepers, NEW f \in Holdings,
         NEW l \in {"pending", "judge", "finish", "sync"},
         Hold(s, f, l), UNCHANGED <<at, child>>, pc[s] \in {"read", "rest"},
         \A j \in DOMAIN f : job[j].status # "absent",
         l = "finish" => \A j \in DOMAIN f : HasAlbum(j),
         l = "sync" => \A j \in DOMAIN f : f[j].album = job[j].album
  PROVE  TasksInOrder' /\ snap' \in {snap, NoSnapshot}
<1>0. TasksTyped /\ InHand(s) /\ s \in Tasks /\ s \notin Jobs /\ l \in SweeperLabels
  BY TypesOfTasks DEF IInv, Tasks, SweeperLabels
<1>1. snap' \in {snap, NoSnapshot}
  BY <1>0, HoldMoves
<1>2. CASE Moves(s, {"read", "rest"}) /\ held' = held
  <2>1. Moves(s, {"off", "rest", "read", "pending", "judge", "retry"})
    BY <1>2 DEF Moves
  <2>2. \A j \in DOMAIN held'[s] : job[j].status # "absent"
    BY <1>0, <1>2 DEF InHand
  <2>. QED
    BY <1>0, <1>1, <1>2, <2>1, <2>2, SweeperGoesOn DEF TasksTyped
<1>3. CASE /\ Moves(s, {l}) /\ held'[s] = f
           /\ held' \in [Tasks -> Holdings] /\ \A u \in Tasks : u # s => held'[u] = held[u]
  <2>1. \A j \in DOMAIN f : /\ job'[j].status # "absent" /\ job'[j].album = job[j].album
                            /\ (HasAlbum(j) => HasAlbum(j)')
    BY HoldingsAre, RowsEndure
  <2>2. pc'[s] = l
    BY <1>3 DEF Moves
  <2>3. l = "finish" => \A j \in DOMAIN held'[s] : HasAlbum(j)'
    BY <1>3, <2>1
  <2>4. l = "sync" => \A j \in DOMAIN held'[s] : held'[s][j].album = job'[j].album
    BY <1>3, <2>1
  <2>5. InHand(s)'
    BY <1>0, <1>3, <2>1, <2>2, <2>3, <2>4 DEF InHand, SweeperLabels
  <2>. QED
    BY <1>0, <1>1, <1>3, <2>5, OneTask DEF TasksTyped
<1>. QED
  BY <1>0, <1>2, <1>3, HoldMoves

LEMMA StaleReadTasks ==
  ASSUME IInv, Onwards, NEW s \in Sweepers, StaleRead(s)
  PROVE  TasksInOrder' /\ snap' \in {snap, NoSnapshot}
<1>0. Types /\ pc[s] \in {"read", "rest"} /\ UNCHANGED <<at, child>>
  BY DEF IInv, StaleRead
<1>1. PICK S \in {Overdue(s), StalePending \cup Overdue(s)}, l \in {"pending", "judge"} : Hold(s, Rows(S), l)
  BY DEF StaleRead
<1>2. S \in SUBSET Jobs /\ \A j \in S : job[j].status # "absent"
  BY DEF Overdue, StalePending, With
<1>3. Rows(S) \in Holdings /\ DOMAIN Rows(S) = S
  BY <1>0, <1>2, HoldingsOfRows
<1>. QED
  BY <1>0, <1>1, <1>2, <1>3, SweeperHolds

LEMMA FailPendingTasks ==
  ASSUME IInv, Onwards, NEW s \in Sweepers, FailPending(s)
  PROVE  TasksInOrder' /\ snap' \in {snap, NoSnapshot}
<1>0. TasksTyped /\ InHand(s) /\ s \in Tasks /\ UNCHANGED <<at, child>> /\ held[s] \in Holdings
  BY TypesOfTasks DEF IInv, FailPending, Tasks, TasksTyped
<1>. DEFINE rest == DOMAIN held[s] \ {j \in DOMAIN held[s] : held[s][j].status = "pending"}
            f == [j \in rest |-> held[s][j]]
<1>1. held' = [held EXCEPT ![s] = f] /\ (NextPass(s) \/ (Goto(s, "judge") /\ UNCHANGED <<pass, snap>>))
  BY DEF FailPending
<1>2. f \in [rest -> Row] /\ rest \in SUBSET Jobs /\ DOMAIN f = rest
  BY <1>0, HoldingsAre
<1>3. f \in Holdings
  BY <1>2, HoldingsAre
<1>4. \A j \in rest : job[j].status # "absent"
  BY <1>0 DEF InHand
<1>. HIDE DEF rest, f
<1>5. held'[s] = f /\ held' \in [Tasks -> Holdings] /\ \A u \in Tasks : u # s => held'[u] = held[u]
  BY <1>0, <1>1, <1>3 DEF TasksTyped
<1>6. Moves(s, {"read", "rest"}) \/ Moves(s, {"judge"})
  BY <1>0, <1>1, NextPassMoves, GotoMoves DEF Labels, SweeperLabels
<1>7. Moves(s, {"off", "rest", "read", "pending", "judge", "retry"})
  BY <1>6 DEF Moves
<1>8. snap' \in {snap, NoSnapshot}
  BY <1>0, <1>1, NextPassMoves
<1>. QED
  BY <1>0, <1>2, <1>4, <1>5, <1>7, <1>8, SweeperGoesOn

LEMMA SweeperDropsRow ==
  ASSUME IInv, Onwards, NEW s \in Sweepers, NEW j, NextRow(s, j, "judge"), UNCHANGED <<at, child>>
  PROVE  TasksInOrder' /\ snap' \in {snap, NoSnapshot}
<1>0. TasksTyped /\ InHand(s) /\ s \in Tasks
  BY TypesOfTasks DEF IInv, Tasks
<1>1. Moves(s, {"read", "rest", "judge"}) /\ Drops(s) /\ snap' \in {snap, NoSnapshot}
  BY <1>0, NextRowMoves
<1>2. Moves(s, {"off", "rest", "read", "pending", "judge", "retry"})
  BY <1>1 DEF Moves
<1>3. \A i \in DOMAIN held'[s] : job[i].status # "absent"
  BY <1>0, <1>1 DEF Drops, InHand
<1>. QED
  BY <1>1, <1>2, <1>3, SweeperGoesOn DEF Drops

LEMMA JudgeTasks ==
  ASSUME IInv, Onwards, NEW s \in Sweepers, Judge(s) PROVE TasksInOrder' /\ snap' \in {snap, NoSnapshot}
<1>0. TasksTyped /\ InHand(s) /\ s \in Tasks /\ s \notin Jobs /\ UNCHANGED child /\ held[s] \in Holdings
  BY TypesOfTasks DEF IInv, Judge, Tasks, TasksTyped
<1>1. ASSUME NEW j \in DOMAIN held[s], Extend(s, j) \/ Merge(s, j)
      PROVE  TasksInOrder' /\ snap' \in {snap, NoSnapshot}
  BY <1>0, <1>1, SweeperDropsRow DEF Extend, Merge
<1>2. ASSUME NEW j \in DOMAIN held[s], TimeOut(s, j) PROVE TasksInOrder' /\ snap' \in {snap, NoSnapshot}
  <2>1. /\ at' = [at EXCEPT ![s] = j] /\ (Goto(s, "replace") \/ Goto(s, "fail"))
        /\ UNCHANGED <<pass, held, snap>>
    BY <1>2 DEF TimeOut
  <2>2. PICK l \in {"replace", "fail"} : Goto(s, l)
    BY <2>1
  <2>3. Moves(s, {l})
    BY <1>0, <2>1, <2>2, GotoMoves DEF Labels, SweeperLabels
  <2>4. /\ at' \in [Sweepers -> Jobs \cup {None}] /\ at'[s] = j
        /\ \A r \in Sweepers : r # s => at'[r] = at[r]
    BY <1>0, <2>1, HoldingsAre DEF TasksTyped
  <2>5. \A i \in DOMAIN held'[s] : job'[i].status # "absent"
    BY <1>0, <2>1, RowsEndure, HoldingsAre DEF InHand
  <2>6. InHand(s)'
    BY <1>0, <2>1, <2>3, <2>4, <2>5 DEF InHand, Moves, SweeperLabels
  <2>. QED
    BY <1>0, <2>1, <2>3, <2>4, <2>6, OneTask DEF TasksTyped
<1>. QED
  BY <1>1, <1>2 DEF Judge

\* Whatever a reconciliation finds, its album has arrived.
LEMMA MatchesHaveAlbum ==
  ASSUME IInv, NEW s \in Sweepers, pass[s] \in {"lidarr", "local", "history"}, NEW S \in Matches(s)
  PROVE  S \in SUBSET Jobs /\ \A j \in S : job[j].status # "absent" /\ HasAlbum(j)
<1>1. CASE pass[s] = "lidarr"
  <2>1. PICK X \in SUBSET (Known \cap Held(snap.files)) :
           S = {j \in Known : job[j].album \in snap.files} \cup X
    BY <1>1 DEF Matches, Between
  <2>2. ASSUME NEW j \in S PROVE j \in Jobs /\ job[j].status # "absent" /\ HasAlbum(j)
    <3>1. j \in Known /\ \E a \in snap.files : PassesFor(a, job[j].album)
      BY <2>1 DEF Held, PassesFor
    <3>. QED
      BY <3>1 DEF Known, With, HasAlbum, IInv, Arrived
  <2>. QED
    BY <2>2
<1>2. CASE pass[s] = "local"
  <2>1. S \subseteq Active \cap Held(files)
    BY <1>2 DEF Matches
  <2>. QED
    BY <2>1 DEF With, Active, Held, HasAlbum
<1>3. CASE pass[s] = "history"
  <2>1. PICK D \in SUBSET {d \in Downloads : lidarr[d] = "imported"} :
           S = {j \in Active : \E d \in D : job[j].ref = d \/ job[j].album = AlbumOf[d]}
    BY <1>3 DEF Matches
  <2>2. ASSUME NEW j \in S PROVE j \in Jobs /\ job[j].status # "absent" /\ HasAlbum(j)
    <3>1. j \in Jobs /\ job[j].status # "absent"
      BY <2>1 DEF Active, With
    <3>2. PICK d \in Downloads : lidarr[d] = "imported" /\ (job[j].ref = d \/ job[j].album = AlbumOf[d])
      BY <2>1
    <3>3. PassesFor(AlbumOf[d], job[j].album)
      BY <3>1, <3>2 DEF IInv, RefNamesAlbum, PassesFor
    <3>. QED
      BY <3>1, <3>2, <3>3 DEF HasAlbum, IInv, Arrived
  <2>. QED
    BY <2>2
<1>. QED
  BY <1>1, <1>2, <1>3

LEMMA FindTasks ==
  ASSUME IInv, Onwards, NEW s \in Sweepers, Find(s) PROVE TasksInOrder' /\ snap' \in {snap, NoSnapshot}
<1>0. Types /\ pc[s] = "read" /\ pass[s] \in {"lidarr", "local", "history"} /\ UNCHANGED <<at, child>>
  BY DEF IInv, Find
<1>. PICK S \in Matches(s) : Hold(s, Ids(S), "finish")
  BY DEF Find
<1>1. S \in SUBSET Jobs /\ \A j \in S : job[j].status # "absent" /\ HasAlbum(j)
  BY <1>0, MatchesHaveAlbum
<1>2. Ids(S) \in Holdings /\ DOMAIN Ids(S) = S
  BY <1>0, <1>1, HoldingsOfRows
<1>. QED
  BY <1>0, <1>1, <1>2, SweeperHolds

LEMMA FinishTasks ==
  ASSUME IInv, Onwards, NEW s \in Sweepers, Finish(s)
  PROVE  TasksInOrder' /\ snap' \in {snap, NoSnapshot}
<1>0. TasksTyped /\ s \in Tasks /\ UNCHANGED <<at, child>>
      /\ held' = [held EXCEPT ![s] = Nothing] /\ NextPass(s)
  BY TypesOfTasks DEF IInv, Finish, Tasks
<1>1. Moves(s, {"read", "rest"}) /\ snap' \in {snap, NoSnapshot}
  BY <1>0, NextPassMoves
<1>2. held'[s] = Nothing /\ held' \in [Tasks -> Holdings] /\ \A u \in Tasks : u # s => held'[u] = held[u]
  BY <1>0, NothingHeld DEF TasksTyped
<1>3. Moves(s, {"off", "rest", "read", "pending", "judge", "retry"})
  BY <1>1 DEF Moves
<1>. QED
  BY <1>0, <1>1, <1>2, <1>3, NothingHeld, SweeperGoesOn

LEMMA SyncReadTasks ==
  ASSUME IInv, Onwards, NEW s \in Sweepers, SyncRead(s)
  PROVE  TasksInOrder' /\ snap' \in {snap, NoSnapshot}
<1>0. Types /\ pc[s] = "read" /\ UNCHANGED <<at, child>>
  BY DEF IInv, SyncRead
<1>. DEFINE S == {j \in Known : job[j].ref # None}
<1>1. S \in SUBSET Jobs /\ (\A j \in S : job[j].status # "absent") /\ Hold(s, Rows(S), "sync")
  BY DEF SyncRead, Known, With
<1>. HIDE DEF S
<1>2. Rows(S) \in Holdings /\ DOMAIN Rows(S) = S /\ \A j \in S : Rows(S)[j].album = job[j].album
  BY <1>0, <1>1, HoldingsOfRows DEF Rows
<1>. QED
  BY <1>0, <1>1, <1>2, SweeperHolds

LEMMA SyncTasks ==
  ASSUME IInv, Onwards, NEW s \in Sweepers, Sync(s) PROVE TasksInOrder' /\ snap' \in {snap, NoSnapshot}
<1>0. TasksTyped /\ InHand(s) /\ s \in Tasks /\ s \notin Jobs /\ UNCHANGED <<at, child>> /\ pc[s] = "sync"
      /\ held[s] \in Holdings
  BY TypesOfTasks DEF IInv, Sync, Tasks, TasksTyped
<1>. PICK j \in DOMAIN held[s] : NextRow(s, j, "sync")
  BY DEF Sync
<1>1. Moves(s, {"read", "rest", "sync"}) /\ Drops(s) /\ snap' \in {snap, NoSnapshot}
  BY <1>0, NextRowMoves
<1>2. CASE pc'[s] \in {"read", "rest"}
  <2>1. Moves(s, {"off", "rest", "read", "pending", "judge", "retry"})
    BY <1>1, <1>2 DEF Moves
  <2>2. \A i \in DOMAIN held'[s] : job[i].status # "absent"
    BY <1>0, <1>1 DEF Drops, InHand
  <2>. QED
    BY <1>0, <1>1, <2>1, <2>2, SweeperGoesOn DEF Drops
<1>3. CASE pc'[s] = "sync"
  <2>1. \A i \in DOMAIN held'[s] : /\ job[i].status # "absent" /\ i \in Jobs
                                   /\ held'[s][i].album = job[i].album
    BY <1>0, <1>1, HoldingsAre DEF Drops, InHand
  <2>2. \A i \in DOMAIN held'[s] : job'[i].status # "absent" /\ held'[s][i].album = job'[i].album
    BY <2>1, RowsEndure
  <2>3. InHand(s)'
    BY <1>0, <1>3, <2>2 DEF InHand, SweeperLabels
  <2>. QED
    BY <1>0, <1>1, <2>3, OneTask DEF TasksTyped, Drops
<1>. QED
  BY <1>1, <1>2, <1>3 DEF Moves

\* The cleaner reads the jobs of a stuck download, and counts a retry for each.
LEMMA StuckTasks ==
  ASSUME IInv, Onwards, NEW s \in Sweepers, Stuck(s) PROVE TasksInOrder' /\ snap' \in {snap, NoSnapshot}
<1>0. TasksTyped /\ Types /\ InHand(s) /\ s \in Tasks /\ UNCHANGED <<at, child>>
  BY TypesOfTasks DEF IInv, Stuck, Tasks
<1>1. CASE NextPass(s) /\ UNCHANGED held
  <2>1. Moves(s, {"read", "rest"}) /\ snap' \in {snap, NoSnapshot}
    BY <1>0, <1>1, NextPassMoves
  <2>2. Moves(s, {"off", "rest", "read", "pending", "judge", "retry"})
    BY <2>1 DEF Moves
  <2>3. \A j \in DOMAIN held'[s] : job[j].status # "absent"
    BY <1>0, <1>1 DEF InHand
  <2>. QED
    BY <1>0, <1>1, <2>1, <2>2, <2>3, SweeperGoesOn DEF TasksTyped
<1>2. ASSUME NEW S \in SUBSET With("processing"), NEW l \in {"read", "retry"},
             held' = [held EXCEPT ![s] = Rows(S)], Goto(s, l), UNCHANGED <<pass, snap>>
      PROVE  TasksInOrder' /\ snap' \in {snap, NoSnapshot}
  <2>1. S \in SUBSET Jobs /\ \A j \in S : job[j].status # "absent"
    BY DEF With
  <2>2. Rows(S) \in Holdings /\ DOMAIN Rows(S) = S
    BY <1>0, <2>1, HoldingsOfRows
  <2>3. Moves(s, {l})
    BY <1>0, <1>2, GotoMoves DEF Labels, SweeperLabels
  <2>4. Moves(s, {"off", "rest", "read", "pending", "judge", "retry"})
    BY <2>3 DEF Moves
  <2>5. held'[s] = Rows(S) /\ held' \in [Tasks -> Holdings] /\ \A u \in Tasks : u # s => held'[u] = held[u]
    BY <1>0, <1>2, <2>2 DEF TasksTyped
  <2>. QED
    BY <1>0, <1>2, <2>1, <2>2, <2>4, <2>5, SweeperGoesOn
<1>3. \/ NextPass(s) /\ UNCHANGED held
      \/ \E S \in SUBSET With("processing"), l \in {"read", "retry"} :
           held' = [held EXCEPT ![s] = Rows(S)] /\ Goto(s, l) /\ UNCHANGED <<pass, snap>>
  BY DEF Stuck
<1>. QED
  BY <1>1, <1>2, <1>3

LEMMA RetryTasks ==
  ASSUME IInv, Onwards, NEW s \in Sweepers, Retry(s) PROVE TasksInOrder' /\ snap' \in {snap, NoSnapshot}
<1>0. TasksTyped /\ InHand(s) /\ s \in Tasks /\ UNCHANGED <<pass, at, child, snap>>
  BY TypesOfTasks DEF IInv, Retry, Tasks
<1>. PICK j \in DOMAIN held[s], l \in {"read", "retry"} : held' = Without(s, j) /\ Goto(s, l)
  BY DEF Retry
<1>1. Drops(s)
  BY <1>0, WithoutDrops
<1>2. Moves(s, {l})
  BY <1>0, GotoMoves DEF Labels, SweeperLabels
<1>3. Moves(s, {"off", "rest", "read", "pending", "judge", "retry"})
  BY <1>2 DEF Moves
<1>4. \A i \in DOMAIN held'[s] : job[i].status # "absent"
  BY <1>0, <1>1 DEF Drops, InHand
<1>. QED
  BY <1>0, <1>1, <1>3, <1>4, SweeperGoesOn DEF Drops

LEMMA ScannedTasks == ASSUME IInv, Onwards, Scanned PROVE TasksInOrder'
<1>0. TasksTyped /\ InHand(Scanner) /\ Scanner \in Sweepers /\ Scanner \in Tasks
  BY TypesOfTasks DEF IInv, Tasks, Sweepers
<1>1. /\ UNCHANGED <<held, at, child>> /\ Goto(Scanner, "read")
      /\ \E p \in {"title", "local"} : pass' = [pass EXCEPT ![Scanner] = p]
  BY DEF Scanned
<1>2. pc' \in [Tasks -> Labels] /\ pc'[Scanner] = "read" /\ \A u \in Tasks : u # Scanner => pc'[u] = pc[u]
  BY <1>0, <1>1 DEF TasksTyped, Goto, Labels, SweeperLabels
<1>3. pass' \in [Sweepers -> Passes] /\ OwnPasses'
  BY <1>0, <1>1 DEF TasksTyped, OwnPasses, Passes, Sweepers
<1>4. Moves(Scanner, {"off", "rest", "read", "pending", "judge", "retry"})
  BY <1>2, <1>3 DEF Moves
<1>5. \A j \in DOMAIN held'[Scanner] : job[j].status # "absent"
  BY <1>0, <1>1 DEF InHand
<1>. QED
  BY <1>0, <1>1, <1>4, <1>5, SweeperGoesOn DEF TasksTyped

LEMMA ScannedTitleTasks ==
  ASSUME IInv, Onwards, ScannedTitle PROVE TasksInOrder' /\ snap' \in {snap, NoSnapshot}
<1>0. /\ TasksTyped /\ InHand(Scanner) /\ Scanner \in Sweepers /\ Scanner \in Tasks
      /\ NextPass(Scanner) /\ UNCHANGED <<held, at, child>>
  BY TypesOfTasks DEF IInv, Tasks, Sweepers, ScannedTitle
<1>1. Moves(Scanner, {"read", "rest"}) /\ snap' \in {snap, NoSnapshot}
  BY <1>0, NextPassMoves
<1>2. Moves(Scanner, {"off", "rest", "read", "pending", "judge", "retry"})
  BY <1>1 DEF Moves
<1>3. \A j \in DOMAIN held'[Scanner] : job[j].status # "absent"
  BY <1>0 DEF InHand
<1>. QED
  BY <1>0, <1>1, <1>2, <1>3, SweeperGoesOn DEF TasksTyped

LEMMA SweepTasks ==
  ASSUME IInv, Onwards, NEW s \in Sweepers, Sweep(s) PROVE TasksInOrder' /\ snap' \in {snap, NoSnapshot}
BY StaleReadTasks, FailPendingTasks, JudgeTasks, FindTasks, FinishTasks, SyncReadTasks,
   SyncTasks, StuckTasks, RetryTasks DEF Sweep

-----------------------------------------------------------------------------
(* Lidarr, and the theorems.                                                *)

World ==
    /\ lidarr \in [Downloads -> {"never", "none", "queued", "gone", "imported"}]
    /\ files \subseteq Albums
    /\ snap \in [known: BOOLEAN, queue: SUBSET Downloads, files: SUBSET Albums]
    /\ faults \in Nat /\ crashes \in Nat
    /\ Arrived

LEMMA SameWorld ==
  ASSUME World, UNCHANGED <<extVars, boundVars>>, snap' \in {snap, NoSnapshot}
  PROVE  World' /\ files \subseteq files'
<1>1. NoSnapshot \in [known: BOOLEAN, queue: SUBSET Downloads, files: SUBSET Albums] /\ NoSnapshot.files = {}
  BY DEF NoSnapshot
<1>2. snap'.files \subseteq files
  BY <1>1 DEF World, Arrived
<1>. QED
  BY <1>1, <1>2 DEF World, Arrived, extVars, boundVars

\* A download may drop out of Lidarr's queue without its album.
LEMMA Dropped ==
  ASSUME World, UNCHANGED <<files, snap, boundVars>>,
         lidarr' \in [Downloads -> {"never", "none", "queued", "gone", "imported"}],
         \A d \in Downloads : lidarr'[d] \in {lidarr[d], "queued", "gone"}
  PROVE  World' /\ files \subseteq files'
BY DEF World, Arrived, boundVars

LEMMA LidarrWorld == ASSUME World, Lidarr PROVE World' /\ files \subseteq files'
<1>. PICK d \in Downloads : LidarrGrabs(d) \/ LidarrEnds(d)
  BY DEF Lidarr
<1>0. UNCHANGED <<snap, boundVars>>
  BY DEF Lidarr, sideVars, boundVars
<1>1. CASE \E l \in {"queued", "gone"} : lidarr' = [lidarr EXCEPT ![d] = l] /\ UNCHANGED files
  BY <1>0, <1>1, Dropped DEF World
<1>2. CASE lidarr' = [lidarr EXCEPT ![d] = "imported"] /\ files' = files \cup {AlbumOf[d]}
  BY <1>0, <1>2 DEF World, Arrived, boundVars
<1>. QED
  BY <1>1, <1>2 DEF LidarrGrabs, LidarrEnds

LEMMA BeginCycleWorld == ASSUME World, BeginCycle PROVE World' /\ files \subseteq files'
<1>. DEFINE whole == [known |-> TRUE, queue |-> {d \in Downloads : lidarr[d] = "queued"}, files |-> files]
<1>1. UNCHANGED <<lidarr, files, crashes>> /\ faults' \in Nat
  BY DEF BeginCycle, World, extVars
<1>2. snap' \in {whole, [whole EXCEPT !.queue = {}], [whole EXCEPT !.files = {}], NoSnapshot}
  BY DEF BeginCycle
<1>. DEFINE Snapshots == [known: BOOLEAN, queue: SUBSET Downloads, files: SUBSET Albums]
<1>3. snap' \in Snapshots /\ snap'.files \subseteq files
  <2>1. whole \in Snapshots /\ whole.files = files
    BY DEF World
  <2>2. NoSnapshot \in Snapshots /\ NoSnapshot.files = {}
    BY DEF NoSnapshot
  <2>. HIDE DEF whole
  <2>3. /\ [whole EXCEPT !.queue = {}] \in Snapshots /\ [whole EXCEPT !.queue = {}].files = files
        /\ [whole EXCEPT !.files = {}] \in Snapshots /\ [whole EXCEPT !.files = {}].files = {}
    BY <2>1
  <2>. QED
    BY <1>2, <2>1, <2>2, <2>3
<1>. QED
  BY <1>1, <1>3 DEF World, Arrived

LEMMA CrashWorld == ASSUME World, Crash PROVE World' /\ files \subseteq files'
<1>1. NoSnapshot \in [known: BOOLEAN, queue: SUBSET Downloads, files: SUBSET Albums] /\ NoSnapshot.files = {}
  BY DEF NoSnapshot
<1>2. snap' = NoSnapshot /\ UNCHANGED <<lidarr, files, faults>> /\ crashes' \in Nat
  BY DEF Crash, World, extVars
<1>. QED
  BY <1>1, <1>2 DEF World, Arrived

\* A restart leaves no task with a row.
LEMMA CrashTasks == ASSUME IInv, Crash PROVE TasksInOrder'
<1>0. TasksTyped /\ \A u \in Tasks : InHand(u)
  BY TypesOfTasks DEF IInv
<1>1. /\ pc' \in [Tasks -> Labels]
      /\ \A u \in Tasks : /\ u \in Jobs => pc'[u] \in {"over", "refused"}
                          /\ u \in Sweepers => pc'[u] \in {"off", "rest"}
  BY DEF Crash, Labels, RequestLabels, SweeperLabels, Tasks
<1>2. pass' \in [Sweepers -> Passes] /\ OwnPasses' /\ at' \in [Sweepers -> Jobs \cup {None}]
  BY DEF Crash, Passes, OwnPasses, Sweepers, First
<1>3. child' \in [Tasks -> Jobs \cup {None}] /\ held' \in [Tasks -> Holdings]
      /\ \A u \in Tasks : DOMAIN held'[u] = {}
  BY NothingHeld DEF Crash
<1>4. ASSUME NEW u \in Tasks PROVE InHand(u)'
  BY <1>1, <1>3 DEF InHand, RequestLabels, SweeperLabels, Tasks
<1>. QED
  BY <1>1, <1>2, <1>3, <1>4 DEF TasksInOrder, TasksTyped

LEMMA BeginCycleTasks == ASSUME IInv, Onwards, BeginCycle PROVE TasksInOrder'
<1>0. TasksTyped /\ InHand(Cycle) /\ Cycle \in Tasks /\ Cycle \in Sweepers
  BY TypesOfTasks DEF IInv, Tasks, Sweepers
<1>1. Goto(Cycle, "read") /\ UNCHANGED <<pass, held, at, child>>
  BY DEF BeginCycle
<1>2. Moves(Cycle, {"read"})
  BY <1>0, <1>1, GotoMoves DEF Labels, SweeperLabels
<1>3. Moves(Cycle, {"off", "rest", "read", "pending", "judge", "retry"})
  BY <1>2 DEF Moves
<1>. QED
  BY <1>0, <1>1, <1>3, SweeperGoesOn DEF TasksTyped, InHand

LEMMA ControlStep == IInv /\ [Next]_vars => TasksInOrder' /\ World' /\ files \subseteq files'
<1>. SUFFICES ASSUME IInv, [Next]_vars PROVE TasksInOrder' /\ World' /\ files \subseteq files'
  OBVIOUS
<1>0. World /\ TasksTyped /\ RowsChange /\ (files \subseteq files' => Onwards)
  BY RowsStep, TypesOfTasks DEF IInv, Types, TypeOK, World, Onwards
<1>1. ASSUME NEW j \in Jobs, Starting(j) PROVE TasksInOrder' /\ World' /\ files \subseteq files'
  <2>1. UNCHANGED <<extVars, boundVars>> /\ snap' = snap
    BY <1>1, TaskAssumption DEF Starting, Added, AddFails, Record, Leave, sideVars, boundVars
  <2>. QED
    BY <1>0, <1>1, <2>1, SameWorld, StartingTasks
<1>2. ASSUME NEW j \in Jobs, Tick(j) PROVE TasksInOrder' /\ World' /\ files \subseteq files'
  BY <1>0, <1>2, SameWorld, NoTask DEF Tick, sideVars, boundVars
<1>3. ASSUME NEW t \in Tasks, GivingUp(t) PROVE TasksInOrder' /\ World' /\ files \subseteq files'
  <2>1. UNCHANGED <<extVars, boundVars>>
    BY <1>3 DEF GivingUp, Replace, Replaced, Exhausted, Told, Fail, sideVars, boundVars
  <2>2. snap' = snap \/ \E l \in {"over", "refused"} : Leave(t, l)
    BY <1>3 DEF GivingUp, Replace, Replaced, Exhausted, Told, Fail
  <2>3. snap' \in {snap, NoSnapshot}
    BY <1>0, <2>2, LeaveMoves
  <2>. QED
    BY <1>0, <1>3, <2>1, <2>3, SameWorld, GivingUpTasks
<1>4. ASSUME NEW s \in Sweepers, Sweep(s) PROVE TasksInOrder' /\ World' /\ files \subseteq files'
  <2>1. files' = files /\ UNCHANGED boundVars
    BY <1>4 DEF Sweep, StaleRead, FailPending, Judge, Extend, Merge, TimeOut, Find, Finish, SyncRead,
       Sync, Stuck, Retry, extVars, sideVars, boundVars
  <2>2. TasksInOrder' /\ snap' \in {snap, NoSnapshot}
    BY <1>0, <1>4, <2>1, SweepTasks
  <2>3. CASE lidarr' = lidarr
    BY <1>0, <2>1, <2>2, <2>3, SameWorld DEF extVars
  <2>4. ASSUME NEW j \in DOMAIN held[s], TimeOut(s, j) PROVE World'
    <3>1. /\ snap' = snap
          /\ lidarr' = [d \in Downloads |-> IF d = held[s][j].ref /\ lidarr[d] = "queued"
                                            THEN "gone" ELSE lidarr[d]]
      BY <2>4 DEF TimeOut
    <3>2. /\ lidarr' \in [Downloads -> {"never", "none", "queued", "gone", "imported"}]
          /\ \A d \in Downloads : lidarr'[d] \in {lidarr[d], "queued", "gone"}
      BY <1>0, <3>1 DEF World
    <3>. QED
      BY <1>0, <2>1, <3>1, <3>2, Dropped
  <2>5. ASSUME NEW d \in Downloads, lidarr' = [lidarr EXCEPT ![d] = "gone"], snap' = snap PROVE World'
    <3>1. /\ lidarr' \in [Downloads -> {"never", "none", "queued", "gone", "imported"}]
          /\ \A e \in Downloads : lidarr'[e] \in {lidarr[e], "queued", "gone"}
      BY <1>0, <2>5 DEF World
    <3>. QED
      BY <1>0, <2>1, <2>5, <3>1, Dropped
  <2>6. \/ lidarr' = lidarr \/ \E j \in DOMAIN held[s] : TimeOut(s, j)
        \/ \E d \in Downloads : lidarr' = [lidarr EXCEPT ![d] = "gone"] /\ snap' = snap
    BY <1>4 DEF Sweep, StaleRead, FailPending, Judge, Extend, Merge, Find, Finish, SyncRead, Sync,
       Stuck, Retry, extVars
  <2>. QED
    BY <2>1, <2>2, <2>3, <2>4, <2>5, <2>6
<1>5. ASSUME NEW d \in Downloads, Webhook(d) PROVE TasksInOrder' /\ World' /\ files \subseteq files'
  <2>1. UNCHANGED <<files, taskVars, snap, boundVars>>
    BY <1>5 DEF Webhook, Grabbed, Complete, ImportFailed, extVars, sideVars, boundVars
  <2>2. lidarr' = lidarr \/ lidarr' = [lidarr EXCEPT ![d] = "gone"]
    BY <1>5 DEF Webhook, Grabbed, Complete, ImportFailed, extVars
  <2>3. /\ lidarr' \in [Downloads -> {"never", "none", "queued", "gone", "imported"}]
        /\ \A e \in Downloads : lidarr'[e] \in {lidarr[e], "queued", "gone"}
    BY <1>0, <2>2 DEF World
  <2>. QED
    BY <1>0, <2>1, <2>3, Dropped, NoTask
<1>6. CASE BeginCycle
  BY <1>0, <1>6, BeginCycleWorld, BeginCycleTasks
<1>7. CASE Lidarr
  BY <1>0, <1>7, LidarrWorld, NoTask DEF Lidarr
<1>8. CASE Crash
  BY <1>0, <1>8, CrashWorld, CrashTasks
<1>9. CASE Notified
  BY <1>0, <1>9, SameWorld, NoTask DEF Notified, extVars, boundVars
<1>10. CASE Scanned
  BY <1>0, <1>10, SameWorld, ScannedTasks DEF Scanned, extVars, sideVars, boundVars
<1>11. CASE ScannedTitle
  <2>1. UNCHANGED <<extVars, boundVars>>
    BY <1>11 DEF ScannedTitle, extVars, sideVars, boundVars
  <2>. QED
    BY <1>0, <1>11, <2>1, SameWorld, ScannedTitleTasks DEF extVars
<1>12. CASE UNCHANGED vars
  BY <1>0, <1>12, SameWorld, NoTask DEF vars, extVars, sideVars, boundVars
<1>. QED
  BY <1>1, <1>2, <1>3, <1>4, <1>5, <1>6, <1>7, <1>8, <1>9, <1>10, <1>11, <1>12 DEF Next

\* A notification is of a row that was read, which stays.
LEMMA NotesStep == IInv /\ [Next]_vars /\ Onwards => notes' \subseteq Jobs \X Row /\ Noted'
<1>. SUFFICES ASSUME IInv, [Next]_vars, Onwards PROVE notes' \subseteq Jobs \X Row /\ Noted'
  OBVIOUS
<1>0. notes \subseteq Jobs \X Row /\ job \in [Jobs -> Row] /\ Noted
  BY DEF IInv, Types, TypeOK
<1>1. ASSUME NEW d \in Downloads, Complete(d)
      PROVE  notes' \subseteq notes \/ \E j \in Active : notes' = notes \cup {<<j, job[j]>>}
  BY <1>1 DEF Complete
<1>2. notes' \subseteq notes \/ \E j \in Active : notes' = notes \cup {<<j, job[j]>>}
  <2>0. CASE notes' = notes
    BY <2>0
  <2>1. ASSUME NEW j \in Jobs, Starting(j) \/ Tick(j) PROVE notes' = notes
    BY <2>1 DEF Starting, Added, Record, AddFails, Tick, sideVars
  <2>2. ASSUME NEW t \in Tasks, GivingUp(t) PROVE notes' = notes
    BY <2>2 DEF GivingUp, Replace, Replaced, Exhausted, Told, Fail, sideVars
  <2>3. ASSUME NEW s \in Sweepers, Sweep(s) PROVE notes' = notes
    BY <2>3 DEF Sweep, StaleRead, FailPending, Judge, Find, Finish, SyncRead, Sync, Stuck, Retry, sideVars
  <2>4. ASSUME NEW d \in Downloads, Grabbed(d) \/ ImportFailed(d) PROVE notes' = notes
    BY <2>4 DEF Grabbed, ImportFailed, sideVars
  <2>5. ASSUME BeginCycle \/ Scanned \/ ScannedTitle \/ Lidarr PROVE notes' = notes
    BY <2>5 DEF BeginCycle, Scanned, ScannedTitle, Lidarr, sideVars
  <2>6. ASSUME Notified \/ Crash PROVE notes' \subseteq notes
    BY <2>6 DEF Notified, Crash
  <2>7. ASSUME UNCHANGED vars PROVE notes' = notes
    BY <2>7 DEF vars, sideVars
  <2>. QED
    BY <1>1, <2>0, <2>1, <2>2, <2>3, <2>4, <2>5, <2>6, <2>7 DEF Next, Webhook
<1>3. ASSUME NEW n \in notes' PROVE n \in Jobs \X Row /\ job[n[1]].status # "absent"
  <2>1. CASE n \in notes
    BY <1>0, <2>1 DEF Noted
  <2>2. ASSUME NEW j \in Active, n = <<j, job[j]>> PROVE n \in Jobs \X Row /\ job[n[1]].status # "absent"
    BY <1>0, <2>2 DEF Active, With
  <2>. QED
    BY <1>2, <2>1, <2>2
<1>4. ASSUME NEW n \in notes' PROVE job'[n[1]].status # "absent"
  <2>1. n[1] \in Jobs /\ job[n[1]].status # "absent"
    BY <1>3
  <2>. QED
    BY <2>1, RowsEndure
<1>. QED
  BY <1>3, <1>4 DEF Noted


LEMMA CompletedStep == IInv /\ Onwards => CompletedHasAlbum'
<1>. SUFFICES ASSUME IInv, Onwards, NEW j \in Jobs, job'[j].status = "completed" PROVE HasAlbum(j)'
  BY DEF CompletedHasAlbum, HasAlbum, With
<1>1. job[j].status = "completed" => HasAlbum(j)
  BY DEF IInv, CompletedHasAlbum, HasAlbum, With
<1>2. job[j].status # "absent" /\ HasAlbum(j)
  BY <1>1 DEF Onwards, RowsChange, MayChange, Created, Changed
<1>. QED
  BY <1>2, RowsEndure

LEMMA RefStep == IInv /\ Onwards => RefNamesAlbum'
<1>. SUFFICES ASSUME IInv, Onwards, NEW j \in Jobs, job'[j].ref # None
              PROVE  PassesFor(AlbumOf[job'[j].ref], job'[j].album)
  BY DEF RefNamesAlbum
<1>1. MayChange(j) /\ (job[j].ref # None => PassesFor(AlbumOf[job[j].ref], job[j].album))
  BY DEF Onwards, RowsChange, IInv, RefNamesAlbum
<1>. QED
  BY <1>1 DEF MayChange, Created, Changed

LEMMA InitHolds == Init => IInv
<1>. SUFFICES ASSUME Init PROVE IInv
  OBVIOUS
<1>. PICK z \in Scenarios : Start(z)
  BY DEF Init
<1>0. /\ DOMAIN z.own \subseteq Jobs /\ DOMAIN z.batch \subseteq Jobs \ DOMAIN z.own
      /\ DOMAIN z.done \subseteq Jobs \ (DOMAIN z.own \cup DOMAIN z.batch)
      /\ \A f \in {z.own, z.batch, z.done} : \A j \in DOMAIN f : f[j] \in Albums
      /\ DOMAIN z.lost \subseteq DOMAIN z.batch
      /\ \A j \in DOMAIN z.lost : z.lost[j] \in Downloads /\ AlbumOf[z.lost[j]] = z.batch[j]
      /\ z.offers \subseteq Downloads /\ z.faults \in Nat /\ z.crashes \in Nat
  BY ScenarioAssumption
<1>1. ASSUME NEW j \in Jobs
      PROVE  /\ job[j] \in Row /\ (job[j].ref # None => PassesFor(AlbumOf[job[j].ref], job[j].album))
             /\ job[j].status = "completed" => HasAlbum(j)
             /\ pc[j] = "add" => job[j].status # "absent"
  <2>0. /\ job[j] = IF j \in DOMAIN z.own THEN Fresh(z.own[j], "library", "pending")
                    ELSE IF j \in DOMAIN z.lost THEN Grab(Fresh(z.batch[j], "batch", "pending"), z.lost[j])
                    ELSE IF j \in DOMAIN z.batch THEN Fresh(z.batch[j], "batch", "pending")
                    ELSE IF j \in DOMAIN z.done THEN Fresh(z.done[j], "library", "completed")
                    ELSE Absent
        /\ files = {z.done[k] : k \in DOMAIN z.done}
        /\ pc[j] = "add" => j \in DOMAIN z.own \cup DOMAIN z.batch
    BY DEF Start, Tasks
  <2>1. CASE j \in DOMAIN z.own
    BY <1>0, <2>0, <2>1, FreshRow DEF Kinds, Statuses
  <2>2. CASE j \in DOMAIN z.lost
    <3>. DEFINE n == Fresh(z.batch[j], "batch", "pending")
    <3>1. n \in Row /\ n.album = z.batch[j]
      BY <1>0, <2>2, FreshRow DEF Kinds, Statuses
    <3>2. job[j] = Grab(n, z.lost[j])
      BY <1>0, <2>0, <2>2
    <3>. HIDE DEF n
    <3>3. /\ job[j] \in Row /\ job[j].status = "processing" /\ job[j].ref = z.lost[j]
          /\ job[j].album = z.batch[j]
      BY <1>0, <2>2, <3>1, <3>2, GrabRow
    <3>. QED
      BY <1>0, <2>2, <3>3 DEF PassesFor
  <2>3. CASE j \in DOMAIN z.batch \ DOMAIN z.lost
    BY <1>0, <2>0, <2>3, FreshRow DEF Kinds, Statuses
  <2>4. CASE j \in DOMAIN z.done
    <3>1. job[j] = Fresh(z.done[j], "library", "completed") /\ z.done[j] \in Albums /\ pc[j] # "add"
      BY <1>0, <2>0, <2>4
    <3>2. job[j] \in Row /\ job[j].ref = None /\ job[j].album = z.done[j]
      BY <3>1, FreshRow DEF Kinds, Statuses
    <3>3. HasAlbum(j)
      BY <2>0, <2>4, <3>2 DEF HasAlbum, PassesFor
    <3>. QED
      BY <3>1, <3>2, <3>3
  <2>5. CASE j \notin DOMAIN z.own \cup DOMAIN z.batch \cup DOMAIN z.done
    BY <1>0, <2>0, <2>5, AbsentRow DEF Absent, Fresh
  <2>. QED
    BY <2>1, <2>2, <2>3, <2>4, <2>5
<1>2. job \in [Jobs -> Row]
  BY <1>1 DEF Start
<1>3. files \subseteq Albums /\ lidarr \in [Downloads -> {"none", "never", "gone"}]
  BY <1>0 DEF Start
<1>4. /\ pc \in [Tasks -> {"add", "over", "off", "rest"}]
      /\ \A t \in Tasks : /\ t \in Jobs => pc[t] \in {"add", "over"}
                          /\ t \in Sweepers => pc[t] \in {"off", "rest"}
  <2>1. ASSUME NEW t \in Tasks
        PROVE  (t \in Jobs => pc[t] \in {"add", "over"}) /\ (t \in Sweepers => pc[t] \in {"off", "rest"})
    BY <1>0 DEF Start, Tasks
  <2>. QED
    BY <2>1 DEF Start, Tasks
<1>5. held \in [Tasks -> Holdings] /\ \A t \in Tasks : DOMAIN held[t] = {}
  BY NothingHeld DEF Init
<1>6. /\ pass \in [Sweepers -> Passes] /\ OwnPasses /\ at \in [Sweepers -> Jobs \cup {None}]
      /\ child \in [Tasks -> Jobs \cup {None}]
  BY DEF Init, Passes, OwnPasses, Sweepers, First
<1>7. snap \in [known: BOOLEAN, queue: SUBSET Downloads, files: SUBSET Albums] /\ snap.files = {}
  BY DEF Init, NoSnapshot
<1>8. faults \in Nat /\ crashes \in Nat /\ notes = {}
  BY <1>0 DEF Start, Init
<1>9. Types
  BY <1>2, <1>3, <1>4, <1>5, <1>6, <1>7, <1>8, HoldingsAre DEF Types, TypeOK
<1>10. ASSUME NEW t \in Tasks PROVE InHand(t)
  BY <1>1, <1>4, <1>5 DEF InHand, RequestLabels, SweeperLabels
<1>11. Arrived /\ CompletedHasAlbum /\ RefNamesAlbum /\ Noted
  BY <1>1, <1>3, <1>7, <1>8 DEF Arrived, CompletedHasAlbum, HasAlbum, RefNamesAlbum, With, Noted
<1>. QED
  BY <1>9, <1>10, <1>11 DEF IInv

\* No row is written but by the task that holds it, by the note of its completion, while it
\* is open, or to create it.
THEOREM Invariance == Spec => []IInv
<1>1. IInv /\ [Next]_vars => IInv'
  <2>. SUFFICES ASSUME IInv, [Next]_vars PROVE IInv'
    OBVIOUS
  <2>1. RowsChange /\ TasksInOrder' /\ World' /\ Onwards
    BY RowsStep, ControlStep DEF Onwards
  <2>2. CompletedHasAlbum' /\ RefNamesAlbum'
    BY <2>1, CompletedStep, RefStep
  <2>0. notes' \subseteq Jobs \X Row /\ Noted'
    BY <2>1, NotesStep
  <2>3. pc' \in [Tasks -> {"add", "record", "replace", "await", "fail", "over", "refused", "tell",
                           "off", "rest", "read", "pending", "judge", "finish", "sync", "retry"}]
    BY <2>1 DEF TasksInOrder, TasksTyped, Labels, RequestLabels, SweeperLabels
  <2>4. \A t \in Tasks : DOMAIN held'[t] \subseteq Jobs /\ \A j \in DOMAIN held'[t] : held'[t][j] \in Row
    BY <2>1, HoldingsAre DEF TasksInOrder, TasksTyped
  <2>5. job' \in [Jobs -> Row]
    BY <2>1 DEF RowsChange
  <2>6. Types'
    BY <2>0, <2>1, <2>3, <2>4, <2>5 DEF Types, TypeOK, TasksInOrder, TasksTyped, World
  <2>. QED
    BY <2>0, <2>1, <2>2, <2>6 DEF IInv, World, TasksInOrder
<1>. QED
  BY <1>1, InitHolds, PTL DEF Spec

\* Whichever of the webhooks, sweeps, scans, duplicates and late requests completed a job,
\* its album or one that passes for it has arrived in Lidarr, and no job is tied to the
\* download of an album that does not pass for its own.
THEOREM JobsSafe == Spec => []JobsConsistent
<1>1. IInv => JobsConsistent
  BY DEF IInv, Types, JobsConsistent
<1>. QED
  BY <1>1, Invariance, PTL

\* A settled job is written again only by a task that read it before, or keeps its status:
\* no webhook, however late or often it comes, no scan and no notification reopens one.
THEOREM SettledSafe == Spec => OnlyLateTasksUndo
<1>1. IInv /\ [Next]_vars =>
        [\A j \in Jobs : Settled(j) /\ job'[j] # job[j] =>
              \/ \E t \in Tasks : j \in DOMAIN held[t]
              \/ job'[j].status = job[j].status /\ \E n \in notes : n[1] = j]_vars
  <2>. SUFFICES ASSUME IInv, Next, NEW j \in Jobs, Settled(j), job'[j] # job[j]
                PROVE  IsHeld(j) \/ (job'[j].status = job[j].status /\ IsNoted(j))
    BY DEF IsHeld, IsNoted
  <2>1. MayChange(j)
    BY RowsStep DEF RowsChange
  <2>. QED
    BY <2>1 DEF MayChange, Created, Changed, Settled
<1>. QED
  BY <1>1, Invariance, PTL DEF Spec, OnlyLateTasksUndo
=============================================================================
