------------------------ MODULE DiscoveryAlbumsProofs ------------------------
(***************************************************************************)
(* What is kept is not deleted, for any number of users and albums, and    *)
(* however often everything happens.                                       *)
(***************************************************************************)
EXTENDS DiscoveryAlbums, TLAPS

USE AlbumsAssumption, ScenarioAssumption

-----------------------------------------------------------------------------
\* What one call does to what it writes.

LEMMA SpendTyping ==
  ASSUME left \in [Bounds -> Nat], NEW b \in Bounds, Spend(b)
  PROVE  left' \in [Bounds -> Nat]
BY DEF Spend

LEMMA LidarrTyping ==
  ASSUME TypeOK, (\E a \in Albums : LidarrDeletesAlbum(a)) \/ LidarrDeletesArtist
  PROVE  /\ files' \subseteq Albums /\ known' \subseteq Albums
         /\ artist' \in {"gone", "plain", "tagged"} /\ (artist' = "gone" => known' = {})
BY DEF LidarrDeletesAlbum, LidarrDeletesArtist, TypeOK

\* A call of Lidarr that is answered or not.
LEMMA CallTyping ==
  ASSUME TypeOK,
         \/ ((\E a \in Albums : LidarrDeletesAlbum(a)) \/ LidarrDeletesArtist) /\ UNCHANGED left
         \/ Untagged \/ LidarrFails
  PROVE  /\ files' \subseteq Albums /\ known' \subseteq Albums
         /\ artist' \in {"gone", "plain", "tagged"} /\ (artist' = "gone" => known' = {})
         /\ left' \in [Bounds -> Nat]
<1>1. CASE LidarrFails
  <2>1. Spend("lidarr") /\ UNCHANGED <<files, lidarrVars>>
    BY <1>1 DEF LidarrFails
  <2>2. left' \in [Bounds -> Nat]
    BY <2>1, SpendTyping DEF TypeOK, Bounds
  <2>. QED
    BY <2>1, <2>2 DEF TypeOK, lidarrVars
<1>2. CASE ((\E a \in Albums : LidarrDeletesAlbum(a)) \/ LidarrDeletesArtist) /\ UNCHANGED left
  BY <1>2, LidarrTyping DEF TypeOK
<1>3. CASE Untagged
  BY <1>3 DEF Untagged, TypeOK
<1>. QED
  BY <1>1, <1>2, <1>3

LocationType == [Albums -> {"absent", "DISCOVER", "LIBRARY"}]
SourceType == [Albums -> {"none", "native_scan", "discover_liked", "discovery_liked"}]
RowType == [Users -> [Albums -> {"none", "ACTIVE", "DELETED", "old"} \cup Kept]]
LateType == SUBSET ((Users \cup {"library"}) \X Albums)
PassedType == SUBSET ({"clear", "repair"} \X Albums)

\* The fields of a clear, of the sweep of a generation, of a repair, of a like.
Running == [user : Users, phase : {"moves", "kills", "extras", "failed", "orphans", "tags"},
            step : {"next", "delete", "owned", "kept", "artist", "rows", "held", "orphan", "untag"},
            moves : SUBSET Albums, kills : SUBSET Albums, at : Albums \cup {NoOne}, checked : BOOLEAN]
ClearType == {NoClear} \cup Running
Sweeping == [user : Users, todo : [Albums -> {"out", "move", "check", "delete", "claim"}]]
GenType == {NoGen} \cup Sweeping
Repairing == [by : {"worker", "admin"}, todo : SUBSET Albums, at : SUBSET Albums,
              step : {"rows", "held", "orphans", "owned", "kept", "count", "write", "disown"}]
RepairType == {NoRepair} \cup Repairing
HeartType == [Users -> {Idle} \cup [step : {"like", "untag", "keep", "unlike"}, album : Albums]]

LEMMA Fields ==
  ASSUME TypeOK
  PROVE  /\ album \in LocationType /\ owned \in SourceType /\ row \in RowType /\ heart \in HeartType
         /\ gen \in GenType /\ clear \in ClearType /\ repair \in RepairType
         /\ late \in LateType /\ passed \in PassedType /\ left \in [Bounds -> Nat]
BY DEF TypeOK, LocationType, SourceType, RowType, HeartType, GenType, Sweeping, ClearType, Running, RepairType, Repairing,
       LateType, PassedType

LEMMA PassesTyping ==
  ASSUME TypeOK, NEW a \in Albums, Passes(a)
  PROVE  passed' \in PassedType
BY DEF Passes, Ahead, TypeOK, PassedType

LEMMA DoneTyping ==
  ASSUME TypeOK, NEW w, Done(w)
  PROVE  passed' \in PassedType
BY DEF Done, TypeOK, PassedType

LEMMA WithoutTyping ==
  ASSUME TypeOK, NEW gone \in SUBSET Albums, Without(gone)
  PROVE  album' \in LocationType /\ owned' \in SourceType
BY DEF Without, TypeOK, LocationType, SourceType

LEMMA MoveLikedTyping ==
  ASSUME TypeOK, NEW u \in Users, NEW a \in Albums, MoveLiked(u, a)
  PROVE  /\ album' \in LocationType /\ owned' \in SourceType /\ row' \in RowType
         /\ late' \in LateType /\ passed' \in PassedType
<1>0. passed' \in PassedType
  BY PassesTyping DEF MoveLiked
<1>. USE DEF TypeOK, MoveLiked
<1>1. album' \in LocationType
  BY DEF LocationType
<1>2. owned' \in SourceType
  <2>1. CASE album[a] = "absent"
    BY <2>1 DEF SourceType
  <2>2. CASE album[a] # "absent"
    <3>1. owned' = [b \in Albums |-> IF b = a /\ owned[a] = "none" THEN "discover_liked" ELSE owned[b]]
      BY <2>2
    <3>. QED
      BY <3>1 DEF SourceType
  <2>. QED
    BY <2>1, <2>2
<1>3. row' \in RowType
  BY DEF RowType, Kept
<1>4. late' \in LateType
  BY DEF LateType
<1>. QED
  BY <1>0, <1>1, <1>2, <1>3, <1>4

LEMMA DropTyping ==
  ASSUME TypeOK, NEW a, DropDiscovery(a)
  PROVE  album' \in LocationType
BY DEF DropDiscovery, TypeOK, LocationType

LEMMA GenTyping ==
  ASSUME TypeOK, NEW a \in Albums, NEW s \in {"out", "delete", "claim"}, gen.todo[a] # "out", GenNext(a, s)
  PROVE  gen.user \in Users /\ gen' \in GenType
<1>1. gen \in Sweeping
  BY Fields DEF GenType, NoGen
<1>2. [gen.todo EXCEPT ![a] = s] \in [Albums -> {"out", "move", "check", "delete", "claim"}]
  BY <1>1 DEF Sweeping
<1>. QED
  BY <1>1, <1>2 DEF GenNext, GenType, Sweeping

\* Rows, files, Lidarr and everything under way stay well formed.
LEMMA LibraryTyping ==
  ASSUME TypeOK, NEW a \in Albums, Download(a) \/ Scan(a) \/ ScanTouched(a) \/ OrphanedOwned(a)
  PROVE  TypeOK'
<1>1. CASE Download(a)
  <2>1. left' \in [Bounds -> Nat]
    BY <1>1, SpendTyping DEF Download, TypeOK, Bounds
  <2>. QED
    BY <1>1, <2>1 DEF Download, TypeOK, lidarrVars, dbVars, sweepVars, history, Kept
<1>2. CASE Scan(a) \/ ScanTouched(a)
  <2>1. left' \in [Bounds -> Nat]
    BY <1>2, SpendTyping DEF Scan, ScanTouched, TypeOK, Bounds
  <2>2. album' \in LocationType
    BY <1>2 DEF Scan, ScanTouched, TypeOK, LocationType
  <2>3. owned' \in SourceType /\ late' \in LateType
    <3>1. CASE Own(a)
      <4>1. owned' = [b \in Albums |-> IF b = a /\ owned[a] = "none" THEN "native_scan" ELSE owned[b]]
        BY <3>1 DEF Own, TypeOK
      <4>. QED
        BY <3>1, <4>1 DEF Own, TypeOK, SourceType, LateType
    <3>2. CASE UNCHANGED <<owned, late>>
      BY <3>2 DEF TypeOK, SourceType, LateType
    <3>. QED
      BY <1>2, <3>1, <3>2 DEF Scan, ScanTouched
  <2>. QED
    BY <1>2, <2>1, <2>2, <2>3 DEF Scan, ScanTouched, TypeOK, lidarrVars, sweepVars, LocationType, SourceType, LateType
<1>3. CASE OrphanedOwned(a)
  BY <1>3 DEF OrphanedOwned, TypeOK, lidarrVars, sweepVars, history
<1>. QED
  BY <1>1, <1>2, <1>3

LEMMA MissingTyping ==
  ASSUME TypeOK, ScanMissing
  PROVE  TypeOK'
<1>1. album' \in LocationType /\ owned' \in SourceType
  BY WithoutTyping DEF ScanMissing
<1>2. UNCHANGED <<files, lidarrVars, row, heart, sweepVars, history, case, left>>
  BY DEF ScanMissing
<1>. QED
  BY <1>1, <1>2 DEF TypeOK, lidarrVars, sweepVars, history, LocationType, SourceType

\* A repair that goes on, with the albums that are left, or ends.
LEMMA RepairNextTyping ==
  ASSUME repair \in Repairing, NEW todo \in SUBSET Albums, RepairNext(todo)
  PROVE  repair' \in RepairType
BY DEF RepairNext, Repairing, RepairType

LEMMA RepairTyping ==
  ASSUME TypeOK, RepairStart \/ RepairStep
  PROVE  TypeOK'
<1>1. UNCHANGED RepairVars
  BY DEF RepairStart, RepairStep, OrphanRows, OrphanHeld, OrphanDelete, OrphansDone, RepairOwned, RepairKept, RepairCount,
     RepairWrite, RepairDisown
<1>2. left' \in [Bounds -> Nat]
  <2>1. CASE RepairStart
    BY <2>1, SpendTyping DEF RepairStart, TypeOK, Bounds
  <2>2. CASE RepairStep
    <3>1. UNCHANGED left
      BY <2>2 DEF RepairStep, OrphanRows, OrphanHeld, OrphanDelete, OrphansDone, RepairOwned, RepairKept, RepairCount,
         RepairWrite, RepairDisown
    <3>. QED
      BY <3>1 DEF TypeOK
  <2>. QED
    BY <2>1, <2>2
<1>3. passed' \in PassedType
  <2>1. UNCHANGED passed \/ Done("repair")
    BY DEF RepairStart, RepairStep, OrphanRows, OrphanHeld, OrphanDelete, OrphansDone, RepairOwned, RepairKept, RepairCount,
       RepairWrite, RepairDisown
  <2>. QED
    BY <2>1, DoneTyping DEF TypeOK, PassedType
<1>4. album' \in LocationType /\ owned' \in SourceType
  <2>1. CASE \E a \in Albums : OrphanDelete(a)
    <3>1. PICK a \in Albums : OrphanDelete(a)
      BY <2>1
    <3>2. UNCHANGED <<album, owned>> \/ Without({a})
      BY <3>1 DEF OrphanDelete
    <3>. QED
      BY <3>2, WithoutTyping DEF TypeOK, LocationType, SourceType
  <2>2. CASE RepairWrite
    BY <2>2 DEF RepairWrite, TypeOK, LocationType, SourceType
  <2>3. CASE RepairDisown
    BY <2>3 DEF RepairDisown, TypeOK, LocationType, SourceType
  <2>4. CASE UNCHANGED <<album, owned>>
    BY <2>4 DEF TypeOK, LocationType, SourceType
  <2>. QED
    BY <2>1, <2>2, <2>3, <2>4 DEF RepairStart, RepairStep, OrphanRows, OrphanHeld, OrphansDone, RepairOwned, RepairKept,
       RepairCount
<1>5. repair' \in RepairType
  <2>1. CASE RepairStart
    BY <2>1 DEF RepairStart, RepairType, Repairing, Placed
  <2>2. CASE RepairStep
    <3>1. repair \in Repairing
      <4>1. repair.step # "off"
        BY <2>2 DEF RepairStep, OrphanRows, OrphanHeld, OrphanDelete, OrphansDone, RepairOwned,
           RepairKept, RepairCount, RepairWrite, RepairDisown
      <4>2. repair # NoRepair
        BY <4>1 DEF NoRepair
      <4>. QED
        BY <4>2, Fields DEF RepairType
    <3>2. CASE OrphanRows \/ OrphanHeld \/ (\E a \in Albums : OrphanDelete(a))
      <4>1. CASE OrphanRows
        BY <3>1, <4>1 DEF OrphanRows, RepairType, Repairing
      <4>2. CASE OrphanHeld
        BY <3>1, <4>2 DEF OrphanHeld, RepairType, Repairing
      <4>3. CASE \E a \in Albums : OrphanDelete(a)
        <5>1. PICK a \in Albums : repair' = NoRepair \/ repair' = [repair EXCEPT !.todo = @ \ {a}]
          BY <4>3 DEF OrphanDelete
        <5>. QED
          BY <3>1, <5>1 DEF RepairType, Repairing
      <4>. QED
        BY <3>2, <4>1, <4>2, <4>3
    <3>3. CASE OrphansDone
      BY <3>1, <3>3, RepairNextTyping DEF OrphansDone, Placed
    <3>4. repair.todo \ repair.at \in SUBSET Albums /\ \A S : repair.todo \ S \in SUBSET Albums
      BY <3>1 DEF Repairing
    <3>5. CASE \E S \in SUBSET Albums : RepairOwned(S)
      <4>1. PICK S \in SUBSET Albums : repair' = [repair EXCEPT !.step = "kept", !.at = S] \/ RepairNext(repair.todo \ S)
        BY <3>5 DEF RepairOwned
      <4>2. CASE repair' = [repair EXCEPT !.step = "kept", !.at = S]
        BY <3>1, <4>2 DEF RepairType, Repairing
      <4>. QED
        BY <3>1, <3>4, <4>1, <4>2, RepairNextTyping
    <3>6. CASE RepairKept \/ RepairCount \/ RepairWrite \/ RepairDisown
      <4>1. \/ repair' = NoRepair \/ RepairNext(repair.todo \ repair.at)
            \/ \E step \in {"count", "write", "disown"} : repair' = [repair EXCEPT !.step = step]
        BY <3>6 DEF RepairKept, RepairCount, RepairWrite, RepairDisown
      <4>2. CASE \E step \in {"count", "write", "disown"} : repair' = [repair EXCEPT !.step = step]
        BY <3>1, <4>2 DEF RepairType, Repairing
      <4>. QED
        BY <3>1, <3>4, <4>1, <4>2, RepairNextTyping DEF RepairType
    <3>. QED
      BY <2>2, <3>2, <3>3, <3>5, <3>6 DEF RepairStep
  <2>. QED
    BY <2>1, <2>2
<1>. QED
  BY <1>1, <1>2, <1>3, <1>4, <1>5 DEF TypeOK, RepairVars, lidarrVars, LocationType, SourceType, PassedType, RepairType, Repairing

LEMMA HeartTyping ==
  ASSUME TypeOK, NEW u \in Users, Claim(u) \/ Untag(u) \/ Keep(u) \/ Unlike(u)
  PROVE  TypeOK'
<1>. USE DEF TypeOK, HeartType
<1>1. heart' \in HeartType
  <2>0. heart \in HeartType
    BY Fields
  <2>1. CASE heart' = [heart EXCEPT ![u] = Idle]
    BY ONLY <2>0, <2>1 DEF HeartType
  <2>2. CASE /\ heart[u] # Idle
             /\ heart' \in {[heart EXCEPT ![u] = [@ EXCEPT !.step = "untag"]], [heart EXCEPT ![u] = [@ EXCEPT !.step = "keep"]]}
    BY ONLY <2>0, <2>2 DEF HeartType
  <2>. QED
    BY <2>1, <2>2 DEF Claim, Untag, Keep, Unlike, Idle
<1>2. CASE Claim(u)
  <2>1. heart[u].album \in Albums
    BY <1>2 DEF Claim, Idle
  <2>2. row' \in RowType
    <3>1. row' = row \/ row' = [row EXCEPT ![u] = [@ EXCEPT ![heart[u].album] = "LIKED"]]
      BY <1>2 DEF Claim, SetRow
    <3>. QED
      BY <2>1, <3>1 DEF RowType, Kept
  <2>3. late' \in LateType
    <3>1. late' = late \/ late' = late \cup {<<u, heart[u].album>>}
      BY <1>2 DEF Claim, history
    <3>2. late \in LateType
      BY Fields
    <3>. QED
      BY ONLY <2>1, <3>1, <3>2, u \in Users DEF LateType
  <2>4. passed' \in PassedType
    BY <1>2, <2>1, PassesTyping DEF Claim, history, PassedType
  <2>. QED
    BY <1>1, <1>2, <2>2, <2>3, <2>4 DEF Claim, RowType, LateType, PassedType, lidarrVars, sweepVars
<1>3. CASE Untag(u)
  <2>1. /\ files' \subseteq Albums /\ known' \subseteq Albums
        /\ artist' \in {"gone", "plain", "tagged"} /\ (artist' = "gone" => known' = {})
        /\ left' \in [Bounds -> Nat]
    BY <1>3, CallTyping DEF Untag
  <2>. QED
    BY <1>1, <1>3, <2>1 DEF Untag, dbVars, sweepVars, history
<1>4. CASE Keep(u)
  <2>1. album' \in LocationType /\ owned' \in SourceType
    BY <1>4 DEF Keep, LocationType, SourceType
  <2>. QED
    BY <1>1, <1>4, <2>1 DEF Keep, LocationType, SourceType, lidarrVars, sweepVars, history
<1>5. CASE Unlike(u)
  <2>1. row' \in RowType /\ late' \in LateType
    <3>1. heart[u].album \in Albums
      BY <1>5 DEF Unlike, Idle
    <3>2. row' = row \/ row' = [row EXCEPT ![u] = [@ EXCEPT ![heart[u].album] = "ACTIVE"]]
      BY <1>5 DEF Unlike, SetRow
    <3>3. row' \in RowType
      BY <3>1, <3>2 DEF RowType, Kept
    <3>. QED
      BY <1>5, <3>3 DEF Unlike, LateType
  <2>2. owned' \in SourceType
    <3>1. owned' = owned \/ owned' = [b \in Albums |-> IF b = heart[u].album /\ owned[b] = "discovery_liked" THEN "none" ELSE owned[b]]
      BY <1>5 DEF Unlike
    <3>. QED
      BY <3>1 DEF SourceType
  <2>. QED
    <3>1. UNCHANGED <<files, lidarrVars, album, sweepVars, passed, case, left>>
      BY <1>5 DEF Unlike
    <3>. QED
      BY <1>1, <2>1, <2>2, <3>1 DEF RowType, LateType, SourceType, lidarrVars, sweepVars
<1>. QED
  BY <1>2, <1>3, <1>4, <1>5

LEMMA RequestTyping ==
  ASSUME TypeOK, NEW u \in Users, NEW a \in Albums, Publish(u, a) \/ Give(u, a) \/ GenStart(u) \/ ClearStart(u)
  PROVE  TypeOK'
<1>. USE DEF TypeOK
<1>1. CASE Publish(u, a)
  <2>1. row' \in RowType
    BY <1>1 DEF Publish, SetRow, RowType, Kept
  <2>. QED
    BY <1>1, <2>1 DEF Publish, RowType, lidarrVars, sweepVars, history
<1>2. CASE Give(u, a)
  <2>1. heart' \in HeartType
    BY <1>2 DEF Give, HeartType
  <2>2. left' \in [Bounds -> Nat]
    BY <1>2, SpendTyping DEF Give, Bounds
  <2>. QED
    BY <1>2, <2>1, <2>2 DEF Give, HeartType, lidarrVars, dbVars, sweepVars, history
<1>3. CASE GenStart(u)
  <2>1. gen' \in GenType
    BY <1>3 DEF GenStart, GenType, Sweeping
  <2>. QED
    BY <1>3, <2>1 DEF GenStart, GenType, Sweeping, lidarrVars, dbVars, history
<1>4. CASE ClearStart(u)
  <2>1. clear' \in ClearType
    BY <1>4 DEF ClearStart, ClearType, Running, NoClear
  <2>2. left' \in [Bounds -> Nat]
    BY <1>4, SpendTyping DEF ClearStart, Bounds
  <2>. QED
    <3>1. UNCHANGED <<files, lidarrVars, dbVars, history, ClearVars>>
      BY <1>4 DEF ClearStart
    <3>. QED
      BY <2>1, <2>2, <3>1 DEF ClearType, Running, lidarrVars, dbVars, history, ClearVars
<1>. QED
  BY <1>1, <1>2, <1>3, <1>4

LEMMA GenStepTyping ==
  ASSUME TypeOK, NEW a \in Albums, GenStep(a)
  PROVE  TypeOK'
<1>1. gen.todo[a] \in {"move", "check", "delete", "claim"}
  BY DEF GenStep, GenMove, GenCheck, GenVerdict, GenDelete, GenClaim
<1>2. PICK s \in {"out", "delete", "claim"} : GenNext(a, s)
  BY DEF GenStep, GenMove, GenCheck, GenVerdict, GenDelete, GenClaim
<1>3. gen.user \in Users /\ gen' \in GenType
  BY <1>1, <1>2, GenTyping
<1>4. CASE GenMove(a)
  <2>1. album' \in LocationType /\ owned' \in SourceType /\ row' \in RowType /\ late' \in LateType
        /\ passed' \in PassedType
    BY <1>3, <1>4, MoveLikedTyping DEF GenMove
  <2>2. UNCHANGED <<files, lidarrVars, heart, clear, purge, repair, case, left>>
    BY <1>4 DEF GenMove
  <2>. QED
    BY <1>3, <2>1, <2>2 DEF TypeOK, GenType, Sweeping, LocationType, SourceType, RowType, LateType, PassedType, lidarrVars
<1>5. CASE GenCheck(a)
  BY <1>3, <1>5 DEF GenCheck, TypeOK, GenType, Sweeping, lidarrVars, dbVars, history
<1>6. CASE GenDelete(a)
  <2>1. \/ LidarrDeletesAlbum(a) /\ UNCHANGED left
        \/ LidarrFails
    BY <1>6 DEF GenDelete
  <2>2. /\ files' \subseteq Albums /\ known' \subseteq Albums
        /\ artist' \in {"gone", "plain", "tagged"} /\ (artist' = "gone" => known' = {})
        /\ left' \in [Bounds -> Nat]
    BY <2>1, CallTyping
  <2>3. UNCHANGED <<dbVars, heart, clear, purge, repair, history, case>>
    BY <1>6 DEF GenDelete
  <2>. QED
    BY <1>3, <2>2, <2>3 DEF TypeOK, GenType, Sweeping, dbVars, history
<1>7. CASE GenClaim(a)
  <2>1. album' \in LocationType
    BY <1>7, DropTyping DEF GenClaim, TypeOK, LocationType
  <2>2. row' \in RowType
    <3>1. row' = row \/ row' = [row EXCEPT ![gen.user] = [@ EXCEPT ![a] = "DELETED"]]
      BY <1>7 DEF GenClaim, SetRow
    <3>2. row \in RowType
      BY Fields
    <3>3. [row[gen.user] EXCEPT ![a] = "DELETED"] \in [Albums -> {"none", "ACTIVE", "DELETED", "old"} \cup Kept]
      BY <1>3, <3>2 DEF RowType
    <3>. QED
      BY ONLY <1>3, <3>1, <3>2, <3>3 DEF RowType
  <2>3. UNCHANGED <<files, lidarrVars, owned, heart, clear, purge, repair, history, case, left>>
    BY <1>7 DEF GenClaim
  <2>. QED
    BY <1>3, <2>1, <2>2, <2>3 DEF TypeOK, GenType, Sweeping, LocationType, RowType, lidarrVars, history
<1>. QED
  BY <1>4, <1>5, <1>6, <1>7 DEF GenStep

\* What a step of a clear does to the clear itself.
LEMMA ClearOwnTyping ==
  ASSUME TypeOK, ClearStep
  PROVE  clear \in Running /\ clear' \in ClearType
<1>1. clear # NoClear
  <2>1. clear.phase # "off" \/ clear.step # "next"
    BY DEF ClearStep, ClearMove, ClearClaim, ClearExtra, ClearOrphanRows, ClearDelete, ClearOwned, ClearKept, ClearArtist,
           ClearRows, ClearExtras, ClearFailed, ClearOrphans, ClearOrphanHeld, ClearOrphan, ClearTags, ClearByTag, ClearUntag
  <2>. QED
    BY <2>1 DEF NoClear
<1>2. clear \in Running
  BY <1>1, Fields DEF ClearType
<1>3. \A a \in Albums : Skipped(a) \in Running /\ At(a) \in Running /\ Passed(a) \in Running
  <2>. TAKE a \in Albums
  <2>1. Skipped(a) \in Running /\ At(a) \in Running
    BY <1>2 DEF Skipped, At, Running
  <2>. QED
    BY <2>1 DEF Passed, Running
<1>4. CASE \E a \in Albums : ClearMove(a)
  <2>1. PICK a \in Albums : clear' = [clear EXCEPT !.moves = @ \ {a}]
    BY <1>4 DEF ClearMove
  <2>. QED
    BY <1>2, <2>1 DEF Running, ClearType
<1>5. CASE \E a \in Albums : ClearClaim(a) \/ ClearExtra(a)
  <2>1. PICK a \in Albums :
          clear' \in {[At(a) EXCEPT !.phase = "kills"], [Skipped(a) EXCEPT !.phase = "kills"], Skipped(a), [At(a) EXCEPT !.checked = FALSE]}
    BY <1>5 DEF ClearClaim, ClearExtra
  <2>2. [At(a) EXCEPT !.phase = "kills"] \in Running /\ [At(a) EXCEPT !.checked = FALSE] \in Running
    <3>1. At(a) \in Running
      BY <1>3
    <3>. QED
      BY ONLY <3>1 DEF Running
  <2>3. [Skipped(a) EXCEPT !.phase = "kills"] \in Running
    BY <1>3 DEF Running
  <2>. QED
    BY <1>2, <1>3, <2>1, <2>2, <2>3 DEF ClearType
<1>6. CASE ClearDelete
  <2>1. CASE clear' = [clear EXCEPT !.step = "rows"]
    BY <1>2, <2>1 DEF Running, ClearType
  <2>2. CASE clear' # [clear EXCEPT !.step = "rows"]
    <3>. DEFINE look == clear.at \in known /\ ~clear.checked
    <3>1. PICK step \in {"rows", "kept", "owned"} :
            clear' = [clear EXCEPT !.step = step, !.checked = clear.checked \/ (look /\ clear.phase = "kills")]
      BY <1>6, <2>2 DEF ClearDelete
    <3>2. (clear.checked \/ (look /\ clear.phase = "kills")) \in BOOLEAN
      BY <1>2 DEF Running
    <3>. HIDE DEF look
    <3>. QED
      BY <1>2, <3>1, <3>2 DEF Running, ClearType
  <2>. QED
    BY <2>1, <2>2
<1>7. CASE ClearOwned \/ ClearKept \/ ClearArtist \/ ClearUntag \/ ClearByTag
  <2>1. clear' = NoClear \/ \E step \in {"rows", "kept", "owned", "artist", "untag"} : clear' = [clear EXCEPT !.step = step]
    BY <1>7 DEF ClearOwned, ClearKept, ClearArtist, ClearUntag, ClearByTag
  <2>. QED
    BY <1>2, <2>1 DEF Running, ClearType
<1>8. CASE ClearRows
  BY <1>2, <1>8 DEF ClearRows, Running, ClearType
<1>9. CASE ClearFailed \/ ClearTags
  <2>1. \/ clear' = [clear EXCEPT !.phase = "tags"]
        \/ \E step \in {"next", "owned"} : clear' = [clear EXCEPT !.phase = "failed", !.step = step]
    BY <1>9 DEF ClearFailed, ClearTags
  <2>. QED
    BY <1>2, <2>1 DEF Running, ClearType
<1>10. CASE ClearExtras \/ ClearOrphans
  <2>1. Extras(clear.user) \subseteq Albums /\ Placed("DISCOVER") \subseteq Albums
    BY <1>2 DEF Extras, Placed, Situation, TypeOK, Running
  <2>2. PICK kills \in SUBSET Albums, phase \in {"extras", "orphans"} : clear' = [clear EXCEPT !.phase = phase, !.kills = kills]
    BY <1>10, <2>1 DEF ClearExtras, ClearOrphans
  <2>. QED
    BY <1>2, <2>2 DEF Running, ClearType
<1>11. CASE \E a \in Albums : ClearOrphanRows(a)
  <2>1. PICK a \in Albums : clear' = Skipped(a) \/ clear' = [clear EXCEPT !.at = a, !.step = "held"]
    BY <1>11 DEF ClearOrphanRows
  <2>. QED
    BY <1>2, <1>3, <2>1 DEF Running, ClearType
<1>12. CASE ClearOrphanHeld \/ ClearOrphan
  <2>1. clear' = [clear EXCEPT !.step = "orphan"] \/ clear' = Passed(clear.at) \/ clear' = NoClear
    BY <1>12 DEF ClearOrphanHeld, ClearOrphan
  <2>2. Passed(clear.at) \in Running
    BY <1>2 DEF Passed, Skipped, Running
  <2>. QED
    BY <1>2, <2>1, <2>2 DEF Running, ClearType
<1>. QED
  BY <1>2, <1>4, <1>5, <1>6, <1>7, <1>8, <1>9, <1>10, <1>11, <1>12 DEF ClearStep

LEMMA ClearTyping ==
  ASSUME TypeOK, ClearStep
  PROVE  TypeOK'
<1>1. clear \in Running /\ clear.user \in Users /\ clear' \in ClearType
  BY ClearOwnTyping DEF Running
<1>2. CASE \E a \in Albums : ClearMove(a)
  <2>1. PICK a \in Albums : ClearMove(a)
    BY <1>2
  <2>2. /\ album' \in LocationType /\ owned' \in SourceType /\ row' \in RowType
        /\ late' \in LateType /\ passed' \in PassedType
    BY <1>1, <2>1, MoveLikedTyping DEF ClearMove
  <2>3. UNCHANGED <<files, lidarrVars, heart, gen, purge, repair, case, left>>
    BY <2>1 DEF ClearMove, ClearVars
  <2>. QED
    BY <1>1, <2>2, <2>3 DEF TypeOK, ClearType, Running, LocationType, SourceType, RowType, LateType, PassedType, lidarrVars
<1>3. CASE \E a \in Albums : ClearClaim(a)
  <2>1. PICK a \in Albums : ClearClaim(a)
    BY <1>3
  <2>2. row' \in RowType
    <3>1. row' = row \/ row' = [row EXCEPT ![clear.user] = [@ EXCEPT ![a] = "DELETED"]]
      BY <2>1 DEF ClearClaim, SetRow
    <3>2. row \in RowType /\ row[clear.user] \in [Albums -> {"none", "ACTIVE", "DELETED", "old"} \cup Kept]
      BY <1>1, Fields DEF RowType
    <3>3. [row[clear.user] EXCEPT ![a] = "DELETED"] \in [Albums -> {"none", "ACTIVE", "DELETED", "old"} \cup Kept]
      BY <3>2
    <3>. QED
      BY <1>1, <3>1, <3>2, <3>3 DEF RowType
  <2>3. UNCHANGED <<files, lidarrVars, album, owned, history, heart, gen, purge, repair, case, left>>
    BY <2>1 DEF ClearClaim, ClearVars
  <2>. QED
    BY <1>1, <2>2, <2>3 DEF TypeOK, ClearType, Running, RowType, lidarrVars, history
<1>4. CASE \/ \E a \in Albums : ClearExtra(a) \/ ClearOrphanRows(a)
           \/ ClearOwned \/ ClearKept \/ ClearExtras \/ ClearFailed \/ ClearOrphans \/ ClearByTag
  <2>1. UNCHANGED <<files, lidarrVars, dbVars, history, heart, gen, purge, repair, case, left>>
    BY <1>4 DEF ClearExtra, ClearOrphanRows, ClearOwned, ClearKept, ClearExtras, ClearFailed, ClearOrphans, ClearByTag, ClearVars
  <2>. QED
    BY <1>1, <2>1 DEF TypeOK, ClearType, Running, lidarrVars, dbVars, history
<1>5. CASE ClearDelete \/ ClearArtist \/ ClearUntag
  <2>1. /\ files' \subseteq Albums /\ known' \subseteq Albums
        /\ artist' \in {"gone", "plain", "tagged"} /\ (artist' = "gone" => known' = {})
        /\ left' \in [Bounds -> Nat]
    <3>1. CASE ClearDelete
      <4>1. CASE LidarrFails
        BY <4>1, CallTyping
      <4>2. CASE LidarrDeletesAlbum(clear.at) /\ UNCHANGED left
        BY <4>2 DEF LidarrDeletesAlbum, TypeOK
      <4>. QED
        BY <3>1, <4>1, <4>2 DEF ClearDelete
    <3>2. CASE ClearArtist \/ ClearUntag
      BY <3>2, CallTyping DEF ClearArtist, ClearUntag
    <3>. QED
      BY <1>5, <3>1, <3>2
  <2>2. UNCHANGED <<dbVars, history, heart, gen, purge, repair, case>>
    BY <1>5 DEF ClearDelete, ClearArtist, ClearUntag, ClearVars
  <2>. QED
    BY <1>1, <2>1, <2>2 DEF TypeOK, ClearType, Running, dbVars, history
<1>6. CASE ClearRows
  <2>1. album' \in LocationType
    BY <1>6, DropTyping DEF ClearRows, TypeOK, LocationType
  <2>2. UNCHANGED <<files, lidarrVars, owned, row, history, heart, gen, purge, repair, case, left>>
    BY <1>6 DEF ClearRows, ClearVars
  <2>. QED
    BY <1>1, <2>1, <2>2 DEF TypeOK, ClearType, Running, LocationType, lidarrVars, history
<1>7. CASE ClearTags
  <2>1. row' \in RowType
    <3>1. row' = row \/ row' = [row EXCEPT ![clear.user] = [a \in Albums |-> IF row[clear.user][a] \in {"DELETED", "MOVED"} THEN "old" ELSE row[clear.user][a]]]
      BY <1>7 DEF ClearTags
    <3>2. row \in RowType
      BY Fields
    <3>. QED
      BY ONLY <1>1, <3>1, <3>2 DEF RowType
  <2>2. left' \in [Bounds -> Nat]
    BY <1>7, SpendTyping DEF ClearTags, TypeOK, Bounds
  <2>3. UNCHANGED <<files, lidarrVars, album, owned, history, heart, gen, purge, repair, case>>
    BY <1>7 DEF ClearTags, ClearVars
  <2>. QED
    BY <1>1, <2>1, <2>2, <2>3 DEF TypeOK, ClearType, Running, RowType, lidarrVars, history
<1>8. CASE ClearOrphanHeld \/ ClearOrphan
  <2>1. passed' \in PassedType
    <3>1. UNCHANGED passed \/ Done("clear")
      BY <1>8 DEF ClearOrphanHeld, ClearOrphan
    <3>. QED
      BY <3>1, DoneTyping, Fields
  <2>2. album' \in LocationType /\ owned' \in SourceType
    <3>1. CASE UNCHANGED <<album, owned>>
      BY <3>1, Fields
    <3>2. CASE Without({clear.at})
      BY <3>2, Fields DEF Without, LocationType, SourceType
    <3>. QED
      BY <1>8, <3>1, <3>2 DEF ClearOrphanHeld, ClearOrphan, dbVars
  <2>3. UNCHANGED <<files, lidarrVars, row, late, heart, gen, purge, repair, case, left>>
    BY <1>8 DEF ClearOrphanHeld, ClearOrphan, ClearVars, dbVars
  <2>. QED
    BY <1>1, <2>1, <2>2, <2>3 DEF TypeOK, ClearType, Running, LocationType, SourceType, PassedType, lidarrVars
<1>. QED
  BY <1>2, <1>3, <1>4, <1>5, <1>6, <1>7, <1>8 DEF ClearStep

LEMMA PurgeTyping ==
  ASSUME TypeOK, PurgeStart \/ PurgeAsk \/ PurgeUntag \/ PurgeArtist \/ Crash
  PROVE  TypeOK'
<1>1. CASE PurgeStart \/ PurgeAsk
  <2>1. left' \in [Bounds -> Nat]
    BY <1>1, SpendTyping DEF PurgeStart, PurgeAsk, TypeOK, Bounds
  <2>2. purge' \in {"off", "owned", "kept", "active", "admin", "tagged", "untag", "other", "batch"}
    BY <1>1 DEF PurgeStart, PurgeAsk
  <2>3. UNCHANGED <<files, lidarrVars, dbVars, heart, gen, clear, repair, history, case>>
    BY <1>1 DEF PurgeStart, PurgeAsk
  <2>. QED
    BY <2>1, <2>2, <2>3 DEF TypeOK, lidarrVars, dbVars, history
<1>2. CASE PurgeUntag \/ PurgeArtist
  <2>1. /\ files' \subseteq Albums /\ known' \subseteq Albums
        /\ artist' \in {"gone", "plain", "tagged"} /\ (artist' = "gone" => known' = {})
        /\ left' \in [Bounds -> Nat]
    BY <1>2, CallTyping DEF PurgeUntag, PurgeArtist
  <2>. QED
    BY <1>2, <2>1 DEF PurgeUntag, PurgeArtist, TypeOK, dbVars, history
<1>3. CASE Crash
  <2>1. left' \in [Bounds -> Nat]
    BY <1>3, SpendTyping DEF Crash, TypeOK, Bounds
  <2>. QED
    BY <1>3, <2>1 DEF Crash, TypeOK, lidarrVars, dbVars
<1>. QED
  BY <1>1, <1>2, <1>3

LEMMA TypingInit == Init => TypeOK
BY DEF Init, TypeOK, Situation, Picked

LEMMA TypingStep ==
  ASSUME TypeOK, [Next]_vars
  PROVE  TypeOK'
<1>1. CASE \E u \in Users : HeartStep(u) \/ GenStart(u) \/ ClearStart(u)
  <2>1. PICK u \in Users : HeartStep(u) \/ GenStart(u) \/ ClearStart(u)
    BY <1>1
  <2>2. CASE HeartStep(u)
    BY <2>2, HeartTyping DEF HeartStep
  <2>3. CASE GenStart(u) \/ ClearStart(u)
    <3>1. PICK a \in Albums : TRUE
      BY <2>3 DEF GenStart, ClearStart, NoGen
    <3>. QED
      BY <2>3, <3>1, RequestTyping
  <2>. QED
    BY <2>1, <2>2, <2>3
<1>2. CASE \E u \in Users, a \in Albums : Publish(u, a) \/ Give(u, a)
  BY <1>2, RequestTyping
<1>3. CASE \E a \in Albums : LibraryStep(a) \/ GenStep(a)
  BY <1>3, LibraryTyping, GenStepTyping DEF LibraryStep
<1>4. CASE ScanMissing \/ RepairStart \/ RepairStep
  BY <1>4, MissingTyping, RepairTyping
<1>5. CASE ClearStep
  BY <1>5, ClearTyping
<1>6. CASE PurgeStart \/ PurgeAsk \/ PurgeUntag \/ PurgeArtist \/ Crash
  BY <1>6, PurgeTyping
<1>7. CASE UNCHANGED vars
  BY <1>7 DEF vars, lidarrVars, dbVars, sweepVars, history, TypeOK
<1>. QED
  BY <1>1, <1>2, <1>3, <1>4, <1>5, <1>6, <1>7 DEF Next

\* The types hold of every state: the steps of one user never leave another's half written.
THEOREM Typing == Spec => []TypeOK
<1>. QED
  BY TypingInit, TypingStep, PTL DEF Spec

-----------------------------------------------------------------------------
\* Rows, and who writes them.

RowQuiet == UNCHANGED <<row, late, case>>

\* Only these steps write a row, or who was late.
LEMMA RowWriters ==
  ASSUME [Next]_vars
  PROVE  \/ RowQuiet
         \/ \E u \in Users, a \in Albums : Publish(u, a)
         \/ \E a \in Albums : Scan(a) \/ ScanTouched(a)
         \/ \E u \in Users : Claim(u) \/ Unlike(u)
         \/ \E a \in Albums : GenMove(a) \/ GenClaim(a) \/ ClearMove(a) \/ ClearClaim(a)
         \/ ClearTags
<1>1. CASE \E u \in Users : HeartStep(u) \/ GenStart(u) \/ ClearStart(u)
  BY <1>1 DEF HeartStep, Untag, Keep, GenStart, ClearStart, ClearVars, dbVars, history, RowQuiet
<1>2. CASE \E u \in Users, a \in Albums : Publish(u, a) \/ Give(u, a)
  BY <1>2 DEF Give, dbVars, history, RowQuiet
<1>3. CASE \E a \in Albums : LibraryStep(a) \/ GenStep(a)
  BY <1>3 DEF LibraryStep, GenStep, Download, OrphanedOwned, GenCheck, GenDelete, dbVars, history, RowQuiet
<1>4. CASE ScanMissing \/ RepairStart \/ RepairStep
  BY <1>4 DEF ScanMissing, RepairStart, RepairStep, OrphanRows, OrphanHeld, OrphanDelete, OrphansDone, RepairOwned, RepairKept,
     RepairCount, RepairWrite, RepairDisown, RepairVars, history, RowQuiet
<1>5. CASE ClearStep
  BY <1>5 DEF ClearStep, ClearExtra, ClearOrphanRows, ClearDelete, ClearOwned, ClearKept, ClearArtist, ClearRows, ClearExtras,
     ClearFailed, ClearOrphans, ClearOrphanHeld, ClearOrphan, ClearByTag, ClearUntag, ClearVars, dbVars, history, RowQuiet
<1>6. CASE PurgeStart \/ PurgeAsk \/ PurgeUntag \/ PurgeArtist \/ Crash
  BY <1>6 DEF PurgeStart, PurgeAsk, PurgeUntag, PurgeArtist, Crash, dbVars, history, RowQuiet
<1>7. CASE UNCHANGED vars
  BY <1>7 DEF vars, dbVars, history, RowQuiet
<1>. QED
  BY <1>1, <1>2, <1>3, <1>4, <1>5, <1>6, <1>7 DEF Next

LEMMA SetRowGives ==
  ASSUME TypeOK, NEW u \in Users, NEW a, NEW s, SetRow(u, a, s), NEW v \in Users, NEW b \in Albums
  PROVE  row'[v][b] = IF v = u /\ b = a THEN s ELSE row[v][b]
BY DEF SetRow, TypeOK

\* What a step can make of a verdict, and of being late.
LEMMA RowChange ==
  ASSUME TypeOK, [Next]_vars, NEW u \in Users, NEW a \in Albums
  PROVE  \/ row'[u][a] = row[u][a]
         \/ row'[u][a] = "ACTIVE" /\ ((row[u][a] = "none" /\ a \in case.picks[u]) \/ (heart[u].step = "unlike" /\ heart[u].album = a))
         \/ row[u][a] = "ACTIVE" /\ row'[u][a] = "LIKED" /\ (Doomed(u, a) => <<u, a>> \in late')
         \/ row[u][a] = "ACTIVE" /\ row'[u][a] = "DELETED"
         \/ /\ row'[u][a] = "MOVED" /\ (row[u][a] # "LIKED" => <<u, a>> \in late')
            /\ (gen.user = u /\ gen.todo[a] = "move") \/ (clear.user = u /\ a \in clear.moves)
         \/ row'[u][a] = "old" /\ row[u][a] \in {"DELETED", "MOVED"}
<1>1. CASE RowQuiet \/ \E b \in Albums : Scan(b) \/ ScanTouched(b)
  BY <1>1 DEF RowQuiet, Scan, ScanTouched
<1>2. CASE \E v \in Users, b \in Albums : Publish(v, b)
  BY <1>2, SetRowGives DEF Publish
<1>3. CASE \E v \in Users : Claim(v)
  <2>1. PICK v \in Users : Claim(v)
    BY <1>3
  <2>2. CASE Claimable(v, heart[v].album)
    <3>1. /\ SetRow(v, heart[v].album, "LIKED") /\ row[v][heart[v].album] = "ACTIVE"
          /\ Doomed(v, heart[v].album) => <<v, heart[v].album>> \in late'
      BY <2>1, <2>2 DEF Claim, Claimable
    <3>2. row'[u][a] = IF u = v /\ a = heart[v].album THEN "LIKED" ELSE row[u][a]
      BY <3>1, SetRowGives
    <3>. QED
      BY <3>1, <3>2
  <2>3. CASE ~Claimable(v, heart[v].album)
    BY <2>1, <2>3 DEF Claim
  <2>. QED
    BY <2>2, <2>3
<1>4. CASE \E v \in Users : Unlike(v)
  BY <1>4, SetRowGives DEF Unlike
<1>5. CASE \E b \in Albums : GenMove(b) \/ ClearMove(b)
  <2>1. PICK b \in Albums, v \in Users :
          /\ MoveLiked(v, b)
          /\ (gen.user = v /\ gen.todo[b] = "move") \/ (clear.user = v /\ b \in clear.moves)
    <3>1. ASSUME NEW b \in Albums, GenMove(b)
          PROVE  gen.user \in Users
      BY <3>1 DEF GenMove, TypeOK, NoGen
    <3>2. ASSUME NEW b \in Albums, ClearMove(b)
          PROVE  clear.user \in Users
      BY <3>2 DEF ClearMove, TypeOK, NoClear
    <3>. QED
      BY <1>5, <3>1, <3>2 DEF GenMove, ClearMove
  <2>2. CASE row[v][b] = "old"
    BY <2>1, <2>2 DEF MoveLiked
  <2>3. CASE row[v][b] # "old"
    <3>1. SetRow(v, b, "MOVED")
      BY <2>1, <2>3 DEF MoveLiked, SetRow
    <3>2. row'[u][a] = IF u = v /\ a = b THEN "MOVED" ELSE row[u][a]
      BY <3>1, SetRowGives
    <3>3. row[v][b] # "LIKED" => <<v, b>> \in late'
      BY <2>1 DEF MoveLiked
    <3>. QED
      BY <2>1, <3>2, <3>3
  <2>. QED
    BY <2>2, <2>3
<1>6. CASE \E b \in Albums : GenClaim(b) \/ ClearClaim(b)
  <2>1. PICK b \in Albums, v \in Users : UNCHANGED row \/ (SetRow(v, b, "DELETED") /\ row[v][b] = "ACTIVE")
    <3>1. ASSUME NEW b \in Albums, GenClaim(b)
          PROVE  gen.user \in Users
      BY <3>1 DEF GenClaim, TypeOK, NoGen
    <3>2. ASSUME NEW b \in Albums, ClearClaim(b)
          PROVE  clear.user \in Users
      BY <3>2 DEF ClearClaim, TypeOK, NoClear
    <3>. QED
      BY <1>6, <3>1, <3>2 DEF GenClaim, ClearClaim
  <2>. QED
    BY <2>1, SetRowGives
<1>7. CASE ClearTags
  BY <1>7 DEF ClearTags, TypeOK
<1>. QED
  BY RowWriters, <1>1, <1>2, <1>3, <1>4, <1>5, <1>6, <1>7

\* Who was late stays late, until the user takes the heart back.
LEMMA LateStays ==
  ASSUME TypeOK, [Next]_vars, NEW u \in Users \cup {"library"}, NEW a \in Albums, <<u, a>> \in late
  PROVE  <<u, a>> \in late' \/ (u \in Users /\ row'[u][a] \notin Kept)
<1>1. CASE \E v \in Users : Unlike(v)
  <2>1. PICK v \in Users : Unlike(v)
    BY <1>1
  <2>. QED
    BY <2>1, SetRowGives, AlbumsAssumption DEF Unlike, Kept
<1>2. CASE ~ \E v \in Users : Unlike(v)
  BY <1>2, RowWriters DEF RowQuiet, Publish, history, Scan, ScanTouched, Own, Claim, GenMove, GenClaim, ClearMove, ClearClaim,
     ClearTags, MoveLiked
<1>. QED
  BY <1>1, <1>2

\* Claims are conditional on the status, so the later of a like and a rejection gives way: DiscoveryAlbums.NoVerdictOverturned.
THEOREM VerdictsStand == Spec => NoVerdictOverturned
<1>1. TypeOK /\ [Next]_vars
      => [\A u \in Users, a \in Albums :
            /\ row[u][a] \in Kept => row'[u][a] # "DELETED"
            /\ row[u][a] = "DELETED" => row'[u][a] # "LIKED"]_vars
  <2>. SUFFICES ASSUME TypeOK, [Next]_vars, NEW u \in Users, NEW a \in Albums
                PROVE  /\ row[u][a] \in Kept => row'[u][a] # "DELETED"
                       /\ row[u][a] = "DELETED" => row'[u][a] # "LIKED"
    OBVIOUS
  <2>. QED
    BY RowChange DEF Kept
<1>. QED
  BY <1>1, Typing, PTL DEF Spec, NoVerdictOverturned

-----------------------------------------------------------------------------
\* A like is seen by whoever deletes, or late: the invariant.

KeptUndoomed == \A u \in Users, a \in Albums : row[u][a] \in Kept /\ Doomed(u, a) => <<u, a>> \in late

AnyClear == [user : Users \cup {NoOne}, phase : {"off", "moves", "kills", "extras", "failed", "orphans", "tags"},
             step : {"next", "delete", "owned", "kept", "artist", "rows", "held", "orphan", "untag"},
             moves : SUBSET Albums, kills : SUBSET Albums, at : Albums \cup {NoOne}, checked : BOOLEAN]

LEMMA ClearFields ==
  ASSUME TypeOK
  PROVE  clear \in AnyClear
<1>1. NoClear \in AnyClear
  BY DEF NoClear, AnyClear
<1>2. clear \in ClearType
  BY Fields
<1>3. CASE clear # NoClear
  <2>1. clear \in Running
    BY <1>2, <1>3 DEF ClearType
  <2>. QED
    BY ONLY <2>1 DEF AnyClear, Running
<1>. QED
  BY <1>1, <1>3

\* Where a step of a clear leads that neither claims an album nor asks for what is kept.
LEMMA ClearLeads ==
  ASSUME TypeOK, ClearStep, ~ClearKept, ~ \E a \in Albums : ClearClaim(a) \/ ClearExtra(a)
  PROVE  /\ UNCHANGED <<gen, purge>>
         /\ clear'.step = "delete" => clear.step = "delete" /\ clear'.at = clear.at /\ clear'.user = clear.user
         /\ clear'.step = "artist" => clear'.phase = clear.phase
                                      /\ (clear.step = "artist" \/ (ClearOwned /\ ~HasNative /\ clear.phase = "extras" /\ clear.step = "owned"))
         /\ clear'.step = "owned" => clear'.phase # "extras" \/ (clear.step = "owned" /\ clear'.phase = clear.phase)
         /\ clear'.step = "kept" => \/ clear'.phase \in {"extras", "tags"}
                                    \/ clear'.phase = clear.phase /\ clear.step = "kept"
                                    \/ ClearOwned /\ ~HasNative
<1>1. clear \in AnyClear
  BY ClearFields
<1>2. UNCHANGED <<gen, purge>>
  BY DEF ClearStep, ClearMove, ClearOrphanRows, ClearDelete, ClearOwned, ClearArtist, ClearRows, ClearExtras, ClearFailed,
         ClearOrphans, ClearOrphanHeld, ClearOrphan, ClearTags, ClearByTag, ClearUntag, ClearVars
<1>3. CASE \E a \in Albums : ClearMove(a)
  <2>1. clear'.step = clear.step /\ clear'.phase = clear.phase /\ clear'.at = clear.at /\ clear'.user = clear.user
    BY <1>1, <1>3 DEF ClearMove, AnyClear
  <2>2. clear.phase = "moves"
    BY <1>3 DEF ClearMove
  <2>. QED
    BY <1>2, <2>1, <2>2
<1>4. CASE \E a \in Albums : ClearOrphanRows(a)
  <2>1. PICK a \in Albums : clear.step = "next" /\ (clear' = Skipped(a) \/ clear' = [clear EXCEPT !.at = a, !.step = "held"])
    BY <1>4 DEF ClearOrphanRows
  <2>2. clear'.step \in {"next", "held"}
    BY <1>1, <2>1 DEF Skipped, AnyClear
  <2>. QED
    BY <1>2, <2>2
<1>5. CASE ClearDelete
  <2>1. clear'.step \in {"rows", "owned"} \/ (clear'.step = "kept" /\ clear.phase = "extras")
    BY <1>1, <1>5 DEF ClearDelete, AnyClear
  <2>2. clear'.phase = clear.phase
    BY <1>1, <1>5 DEF ClearDelete, AnyClear
  <2>3. clear'.step = "owned" => clear.phase # "extras"
    BY <1>1, <1>5 DEF ClearDelete, AnyClear
  <2>. QED
    BY <1>2, <2>1, <2>2, <2>3
<1>6. CASE ClearOwned
  <2>1. /\ clear'.phase = clear.phase /\ clear.step = "owned"
        /\ \/ clear'.step = "rows"
           \/ ~HasNative /\ clear'.step = (IF clear.phase = "extras" THEN "artist" ELSE "kept")
    BY <1>1, <1>6 DEF ClearOwned, AnyClear
  <2>. QED
    BY <1>2, <1>6, <2>1
<1>7. CASE ClearArtist \/ ClearUntag \/ ClearByTag
  <2>1. CASE ClearArtist
    BY <1>1, <1>2, <2>1 DEF ClearArtist, NoClear, AnyClear
  <2>2. CASE ClearUntag \/ ClearByTag
    <3>1. clear' = NoClear \/ (clear' = [clear EXCEPT !.step = "kept"] /\ clear.phase = "tags")
      BY <2>2 DEF ClearUntag, ClearByTag
    <3>2. clear'.step = "next" \/ (clear'.step = "kept" /\ clear'.phase = "tags")
      BY <1>1, <3>1 DEF NoClear, AnyClear
    <3>. QED
      BY <1>2, <3>2
  <2>. QED
    BY <1>7, <2>1, <2>2
<1>8. CASE ClearRows \/ ClearFailed
  <2>1. clear'.step = "next" \/ (clear'.step = "owned" /\ clear'.phase = "failed")
    <3>1. CASE ClearRows
      BY <1>1, <3>1 DEF ClearRows, AnyClear
    <3>2. CASE ClearFailed
      <4>1. PICK step \in {"next", "owned"} : clear' = [clear EXCEPT !.phase = "failed", !.step = step]
        BY <3>2 DEF ClearFailed
      <4>. QED
        BY <1>1, <4>1 DEF AnyClear
    <3>. QED
      BY <1>8, <3>1, <3>2
  <2>. QED
    BY <1>2, <2>1
<1>9. CASE ClearExtras \/ ClearOrphans \/ ClearTags
  <2>1. clear'.step = "next"
    <3>1. clear.step = "next"
      BY <1>9 DEF ClearExtras, ClearOrphans, ClearTags
    <3>2. CASE ClearExtras
      BY <1>1, <3>1, <3>2 DEF ClearExtras, AnyClear
    <3>3. CASE ClearOrphans
      BY <1>1, <3>1, <3>3 DEF ClearOrphans, AnyClear
    <3>4. CASE ClearTags
      BY <1>1, <3>1, <3>4 DEF ClearTags, AnyClear
    <3>. QED
      BY <1>9, <3>2, <3>3, <3>4
  <2>. QED
    BY <1>2, <2>1
<1>10. CASE ClearOrphanHeld \/ ClearOrphan
  <2>1. clear' = [clear EXCEPT !.step = "orphan"] \/ clear' = Passed(clear.at) \/ clear' = NoClear
    BY <1>10 DEF ClearOrphanHeld, ClearOrphan
  <2>2. Skipped(clear.at) \in AnyClear
    BY <1>1 DEF Skipped, AnyClear
  <2>3. Passed(clear.at).step = "next" /\ NoClear.step = "next"
    BY <2>2 DEF Passed, NoClear, AnyClear
  <2>4. clear'.step \in {"orphan", "next"}
    BY <1>1, <2>1, <2>3 DEF AnyClear
  <2>. QED
    BY <1>2, <2>4
<1>. QED
  BY <1>3, <1>4, <1>5, <1>6, <1>7, <1>8, <1>9, <1>10 DEF ClearStep

\* The steps that decide a deletion.
Decision ==
    \/ \E a \in Albums : GenCheck(a) \/ ClearClaim(a) \/ ClearExtra(a)
    \/ ClearKept \/ PurgeAsk

LEMMA OnlyDecisionsDoom ==
  ASSUME TypeOK, [Next]_vars, ~Decision, NEW u \in Users, NEW a \in Albums, Doomed(u, a)'
  PROVE  Doomed(u, a)
<1>. USE DEF Doomed, KeptLooked
<1>1. CASE UNCHANGED <<gen, clear, purge>>
  BY <1>1
<1>2. CASE \E v \in Users : GenStart(v) \/ ClearStart(v)
  <2>1. CASE \E v \in Users : GenStart(v)
    <3>1. gen'.todo[a] \in {"move", "check", "out"} /\ UNCHANGED <<clear, purge>>
      BY <2>1 DEF GenStart
    <3>. QED
      BY <3>1
  <2>2. CASE \E v \in Users : ClearStart(v)
    <3>1. clear'.step = "next" /\ UNCHANGED <<gen, purge>>
      BY <2>2 DEF ClearStart, NoClear, ClearVars
    <3>. QED
      BY <3>1
  <2>. QED
    BY <1>2, <2>1, <2>2
<1>3. CASE \E b \in Albums : GenMove(b) \/ GenDelete(b) \/ GenClaim(b)
  <2>1. PICK b \in Albums, s \in {"out", "claim"} : GenNext(b, s) /\ gen.todo[b] # "out" /\ UNCHANGED <<clear, purge>>
    BY <1>3 DEF GenMove, GenDelete, GenClaim
  <2>2. gen \in Sweeping
    BY <2>1, Fields DEF GenType, NoGen
  <2>3. gen' = NoGen \/ gen' = [gen EXCEPT !.todo = [gen.todo EXCEPT ![b] = s]]
    BY <2>1 DEF GenNext
  <2>4. gen'.todo[a] # "delete" \/ (gen'.todo[a] = gen.todo[a] /\ gen'.user = gen.user)
    BY <2>2, <2>3 DEF NoGen, Sweeping
  <2>. QED
    BY <2>1, <2>4
<1>4. CASE ClearStep
  <2>1. ~ClearKept /\ ~ \E b \in Albums : ClearClaim(b) \/ ClearExtra(b)
    BY DEF Decision
  <2>. QED
    BY <1>4, <2>1, ClearLeads
<1>5. CASE PurgeStart \/ PurgeUntag \/ PurgeArtist
  <2>1. purge' \in {"off", "owned", "tagged"} /\ UNCHANGED <<gen, clear>>
    BY <1>5 DEF PurgeStart, PurgeUntag, PurgeArtist
  <2>. QED
    BY <2>1
<1>6. CASE Crash
  BY <1>6 DEF Crash, NoGen, NoClear
<1>7. Next => \/ UNCHANGED <<gen, clear, purge>>
              \/ \E v \in Users : GenStart(v) \/ ClearStart(v)
              \/ \E b \in Albums : GenMove(b) \/ GenDelete(b) \/ GenClaim(b)
              \/ ClearStep \/ PurgeStart \/ PurgeUntag \/ PurgeArtist \/ Crash
  BY DEF Next, Decision, HeartStep, Claim, Untag, Keep, Unlike, Publish, Give, LibraryStep, Download, Scan, ScanTouched,
     OrphanedOwned, GenStep, ScanMissing, RepairStart, RepairStep, OrphanRows, OrphanHeld, OrphanDelete, OrphansDone,
     RepairOwned, RepairKept, RepairCount, RepairWrite, RepairDisown, RepairVars, sweepVars
<1>. QED
  BY <1>1, <1>2, <1>3, <1>4, <1>5, <1>6, <1>7 DEF vars, sweepVars

\* A deletion is decided upon rows that are not kept.
LEMMA NewlyDoomed ==
  ASSUME TypeOK, [Next]_vars, NEW u \in Users, NEW a \in Albums, Doomed(u, a)', ~Doomed(u, a)
  PROVE  row'[u][a] \notin Kept
<1>1. CASE \E b \in Albums : GenCheck(b)
  <2>1. PICK b \in Albums : GenCheck(b)
    BY <1>1
  <2>2. UNCHANGED <<row, clear, purge>>
    BY <2>1 DEF GenCheck, dbVars
  <2>3. row[gen.user][b] = "ACTIVE" /\ gen.user = u /\ b = a
    <3>1. gen'.user = u /\ gen'.todo[a] = "delete"
      BY <2>2 DEF Doomed, KeptLooked
    <3>2. PICK s \in {"out", "claim", "delete"} : GenNext(b, s) /\ (s = "delete" => row[gen.user][b] = "ACTIVE")
      BY <2>1 DEF GenCheck, GenVerdict
    <3>3. gen' = [gen EXCEPT !.todo = [gen.todo EXCEPT ![b] = s]]
      BY <3>1, <3>2 DEF GenNext, NoGen
    <3>4. gen \in Sweeping
      BY <2>1, Fields DEF GenCheck, GenVerdict, GenType, NoGen
    <3>. QED
      BY <3>1, <3>2, <3>3, <3>4 DEF Doomed, Sweeping
  <2>. QED
    BY <2>2, <2>3 DEF Kept
<1>2. CASE ClearKept \/ PurgeAsk
  <2>1. UNCHANGED row
    BY <1>2 DEF ClearKept, PurgeAsk, dbVars
  <2>2. ~HasKept
    <3>1. CASE ClearKept
      <4>1. UNCHANGED <<gen, purge>> /\ clear \in AnyClear
        BY <3>1, ClearFields DEF ClearKept, ClearVars
      <4>2. clear'.step \in {"untag", "rows"} \/ ~HasKept
        BY <3>1, <4>1 DEF ClearKept, AnyClear
      <4>. QED
        BY <4>1, <4>2 DEF Doomed, KeptLooked
    <3>2. CASE PurgeAsk
      BY <3>2 DEF PurgeAsk, Doomed, KeptLooked
    <3>. QED
      BY <1>2, <3>1, <3>2
  <2>. QED
    BY <2>1, <2>2 DEF HasKept, Rows
<1>3. CASE \E b \in Albums : ClearClaim(b) \/ ClearExtra(b)
  <2>1. PICK b \in Albums : ClearClaim(b) \/ ClearExtra(b)
    BY <1>3
  <2>2. clear.user \in Users /\ clear.step = "next"
    BY <2>1, Fields DEF ClearClaim, ClearExtra, NoClear, ClearType, Running
  <2>3. UNCHANGED <<gen, purge>>
    BY <2>1 DEF ClearClaim, ClearExtra, ClearVars
  <2>4. clear'.step # "next"
    BY <2>2, <2>3 DEF Doomed, KeptLooked
  <2>5. Skipped(b).step = "next" /\ [Skipped(b) EXCEPT !.phase = "kills"].step = "next"
    <3>1. clear \in AnyClear
      BY ClearFields
    <3>. QED
      BY <2>2, <3>1 DEF Skipped, AnyClear
  <2>6. \/ SetRow(clear.user, b, "DELETED") /\ clear' = [At(b) EXCEPT !.phase = "kills"]
        \/ row[clear.user][b] \notin Kept /\ UNCHANGED row /\ clear' = [At(b) EXCEPT !.checked = FALSE]
    BY <2>1, <2>4, <2>5 DEF ClearClaim, ClearExtra, dbVars
  <2>7. clear'.user = clear.user /\ clear'.at = b /\ clear'.step \in {"delete", "rows"}
    <3>1. clear \in AnyClear
      BY ClearFields
    <3>2. At(b) \in AnyClear /\ At(b).user = clear.user /\ At(b).at = b /\ At(b).step \in {"delete", "rows"}
      BY <3>1 DEF At, AnyClear
    <3>3. clear' = [At(b) EXCEPT !.phase = "kills"] \/ clear' = [At(b) EXCEPT !.checked = FALSE]
      BY <2>6
    <3>. QED
      BY ONLY <3>2, <3>3 DEF AnyClear
  <2>8. u = clear.user /\ a = b
    BY <2>3, <2>7 DEF Doomed, KeptLooked
  <2>. QED
    BY <2>2, <2>6, <2>8, SetRowGives DEF Kept
<1>. QED
  BY <1>1, <1>2, <1>3, OnlyDecisionsDoom DEF Decision

LEMMA KeptUndoomedStep ==
  ASSUME TypeOK, KeptUndoomed, [Next]_vars
  PROVE  KeptUndoomed'
<1>. SUFFICES ASSUME NEW u \in Users, NEW a \in Albums, row'[u][a] \in Kept, Doomed(u, a)'
              PROVE  <<u, a>> \in late'
  BY DEF KeptUndoomed
<1>1. Doomed(u, a)
  BY NewlyDoomed
<1>2. CASE row[u][a] \in Kept
  BY <1>1, <1>2, LateStays DEF KeptUndoomed
<1>3. CASE row[u][a] \notin Kept
  BY <1>1, <1>3, RowChange DEF Kept
<1>. QED
  BY <1>2, <1>3

LEMMA KeptUndoomedInvariant == Spec => []KeptUndoomed
<1>1. Init => KeptUndoomed
  BY DEF Init, KeptUndoomed, Kept
<1>. QED
  BY <1>1, KeptUndoomedStep, Typing, PTL DEF Spec

\* Files go with an album or with the artist, and each deletion was decided before.
LEMMA FilesGo ==
  ASSUME TypeOK, [Next]_vars, NEW a \in Albums, a \in files \ files'
  PROVE  \/ gen.user \in Users /\ gen.todo[a] = "delete"
         \/ clear.user \in Users /\ clear.at = a /\ clear.step = "delete"
         \/ clear.step = "artist"
         \/ purge \in {"admin", "batch"}
<1>1. CASE \E b \in Albums : GenDelete(b)
  <2>1. PICK b \in Albums : GenDelete(b)
    BY <1>1
  <2>2. gen.user \in Users
    BY <2>1, Fields DEF GenDelete, GenType, Sweeping, NoGen
  <2>. QED
    BY <2>1, <2>2 DEF GenDelete, LidarrDeletesAlbum, LidarrFails
<1>2. CASE ClearDelete
  <2>1. clear.user \in Users
    BY <1>2, Fields DEF ClearDelete, ClearType, Running, NoClear
  <2>. QED
    BY <1>2, <2>1 DEF ClearDelete, LidarrDeletesAlbum, LidarrFails
<1>3. CASE ClearArtist \/ PurgeArtist
  BY <1>3 DEF ClearArtist, PurgeArtist
<1>4. CASE UNCHANGED files
  BY <1>4
<1>5. CASE \E b \in Albums : Download(b)
  BY <1>5 DEF Download
<1>6. Next => \/ UNCHANGED files
              \/ \E b \in Albums : GenDelete(b) \/ Download(b)
              \/ ClearDelete \/ ClearArtist \/ PurgeArtist
  <2>1. ClearStep => UNCHANGED files \/ ClearDelete \/ ClearArtist
    BY DEF ClearStep, ClearMove, ClearClaim, ClearExtra, ClearOrphanRows, ClearOwned, ClearKept, ClearRows, ClearExtras,
       ClearFailed, ClearOrphans, ClearOrphanHeld, ClearOrphan, ClearTags, ClearByTag, ClearUntag, Untagged, LidarrFails
  <2>2. RepairStart \/ RepairStep => UNCHANGED files
    BY DEF RepairStart, RepairStep, OrphanRows, OrphanHeld, OrphanDelete, OrphansDone, RepairOwned, RepairKept, RepairCount,
       RepairWrite, RepairDisown, RepairVars
  <2>. QED
    BY <2>1, <2>2 DEF Next, HeartStep, Claim, Untag, Untagged, LidarrFails, Keep, Unlike, Publish, Give, LibraryStep, Scan,
       ScanTouched, OrphanedOwned, GenStart, ClearStart, GenStep, GenMove, GenCheck, GenClaim, ScanMissing, PurgeStart,
       PurgeAsk, PurgeUntag, Crash
<1>. QED
  BY <1>1, <1>2, <1>3, <1>4, <1>5, <1>6 DEF vars

\* Whoever deletes has looked for what is kept before, once an album or for the artist: DiscoveryAlbums.LikedKeepsFiles.
THEOREM LikesKeepFiles == Spec => LikedKeepsFiles
<1>1. TypeOK /\ KeptUndoomed /\ [Next]_vars
      => [\A u \in Users, a \in Albums :
            row[u][a] \in Kept /\ a \in files \ files' /\ <<u, a>> \notin late
            => \/ gen.user # u /\ gen.todo[a] = "delete"
               \/ clear.user # u /\ clear.at = a /\ clear.step = "delete"]_vars
  <2>. SUFFICES ASSUME TypeOK, KeptUndoomed, [Next]_vars, NEW u \in Users, NEW a \in Albums,
                       row[u][a] \in Kept, a \in files \ files', <<u, a>> \notin late
                PROVE  \/ gen.user # u /\ gen.todo[a] = "delete"
                       \/ clear.user # u /\ clear.at = a /\ clear.step = "delete"
    OBVIOUS
  <2>1. ~Doomed(u, a)
    BY DEF KeptUndoomed
  <2>. QED
    BY <2>1, FilesGo DEF Doomed, KeptLooked
<1>. QED
  BY <1>1, KeptUndoomedInvariant, Typing, PTL DEF Spec, LikedKeepsFiles

-----------------------------------------------------------------------------
\* Whoever deletes the files of an album deletes what was picked, never what the user added.

PicksRest ==
    /\ \A u \in Users : heart[u].step # "idle" => heart[u].album \in case.picks[u]
    /\ \A a \in Albums : gen.todo[a] # "out" => gen.user \in Users /\ a \in case.picks[gen.user]
    /\ \A a \in clear.moves : a \in case.picks[clear.user]
    /\ clear.phase # "orphans" => \A a \in clear.kills : a \in case.picks[clear.user]
    /\ clear.step = "delete" => clear.user \in Users /\ clear.at \in case.picks[clear.user]

PicksOnly == PicksRest /\ \A u \in Users, a \in Albums : row[u][a] # "none" => a \in case.picks[u]

LEMMA CaseStays ==
  ASSUME [Next]_vars
  PROVE  UNCHANGED case
<1>1. ClearStep => UNCHANGED case
  BY DEF ClearStep, ClearMove, ClearClaim, ClearExtra, ClearOrphanRows, ClearDelete, ClearOwned, ClearKept, ClearArtist,
     ClearRows, ClearExtras, ClearFailed, ClearOrphans, ClearOrphanHeld, ClearOrphan, ClearTags, ClearByTag, ClearUntag, ClearVars
<1>2. RepairStart \/ RepairStep => UNCHANGED case
  BY DEF RepairStart, RepairStep, OrphanRows, OrphanHeld, OrphanDelete, OrphansDone, RepairOwned, RepairKept, RepairCount,
     RepairWrite, RepairDisown, RepairVars
<1>. QED
  BY <1>1, <1>2 DEF Next, vars, HeartStep, Claim, Untag, Keep, Unlike, Publish, Give, LibraryStep, Download, Scan, ScanTouched,
     OrphanedOwned, GenStart, ClearStart, GenStep, GenMove, GenCheck, GenDelete, GenClaim, ScanMissing, PurgeStart, PurgeAsk,
     PurgeUntag, PurgeArtist, Crash, ClearVars

LEMMA PicksRow ==
  ASSUME TypeOK, PicksOnly, [Next]_vars
  PROVE  \A u \in Users, a \in Albums : row'[u][a] # "none" => a \in case'.picks[u]
<1>. SUFFICES ASSUME NEW u \in Users, NEW a \in Albums, row'[u][a] # "none", row[u][a] = "none"
              PROVE  a \in case.picks[u]
  BY CaseStays DEF PicksOnly, PicksRest
<1>1. \/ a \in case.picks[u]
      \/ heart[u].step = "unlike" /\ heart[u].album = a
      \/ gen.user = u /\ gen.todo[a] = "move"
      \/ clear.user = u /\ a \in clear.moves
  BY RowChange
<1>. QED
  BY <1>1 DEF PicksOnly, PicksRest

\* The rest of it, of a clear.
LEMMA PicksClear ==
  ASSUME TypeOK, PicksOnly, ClearStep
  PROVE  /\ \A a \in clear'.moves : a \in case.picks[clear'.user]
         /\ clear'.phase # "orphans" => \A a \in clear'.kills : a \in case.picks[clear'.user]
         /\ clear'.step = "delete" => clear'.user \in Users /\ clear'.at \in case.picks[clear'.user]
<1>1. clear \in AnyClear /\ clear.user \in Users
  BY ClearFields, ClearOwnTyping DEF Running
<1>. USE DEF PicksOnly, PicksRest
<1>2. CASE clear' = NoClear
  BY <1>2 DEF NoClear
\* Nothing is added, nor chosen for a deletion.
<1>3. ASSUME clear'.user = clear.user, clear'.moves \subseteq clear.moves, clear'.kills \subseteq clear.kills,
             clear'.phase # "orphans" => clear.phase # "orphans" \/ clear'.kills = {},
             clear'.step = "delete" => clear.step = "delete" /\ clear'.at = clear.at
      PROVE  /\ \A a \in clear'.moves : a \in case.picks[clear'.user]
             /\ clear'.phase # "orphans" => \A a \in clear'.kills : a \in case.picks[clear'.user]
             /\ clear'.step = "delete" => clear'.user \in Users /\ clear'.at \in case.picks[clear'.user]
  BY <1>1, <1>3
<1>4. CASE \E a \in Albums : ClearMove(a)
  <2>1. PICK a \in Albums : clear' = [clear EXCEPT !.moves = @ \ {a}] /\ clear.phase = "moves"
    BY <1>4 DEF ClearMove
  <2>. QED
    BY <1>1, <1>3, <2>1 DEF AnyClear
<1>5. CASE \E a \in Albums : ClearClaim(a) \/ ClearExtra(a)
  <2>1. PICK a \in Albums : ClearClaim(a) \/ ClearExtra(a)
    BY <1>5
  <2>2. a \in clear.kills /\ clear.phase # "orphans" /\ clear.step = "next"
    BY <2>1 DEF ClearClaim, ClearExtra
  <2>3. clear' \in {[At(a) EXCEPT !.phase = "kills"], [Skipped(a) EXCEPT !.phase = "kills"], Skipped(a), [At(a) EXCEPT !.checked = FALSE]}
    BY <2>1 DEF ClearClaim, ClearExtra
  <2>5. At(a) \in AnyClear /\ At(a).user = clear.user /\ At(a).at = a /\ At(a).moves = clear.moves /\ At(a).kills = clear.kills
    BY <1>1 DEF At, AnyClear
  <2>6. /\ Skipped(a) \in AnyClear /\ Skipped(a).user = clear.user /\ Skipped(a).step = "next"
        /\ Skipped(a).moves = clear.moves /\ Skipped(a).kills \subseteq clear.kills
    BY <1>1, <2>2 DEF Skipped, AnyClear
  <2>7. clear'.user = clear.user /\ clear'.moves = clear.moves /\ clear'.kills \subseteq clear.kills
        /\ (clear'.at = a \/ clear'.step = "next")
    BY ONLY <2>3, <2>5, <2>6 DEF AnyClear
  <2>. QED
    BY <1>1, <2>2, <2>7
<1>6. CASE ClearDelete \/ ClearOwned \/ ClearKept \/ ClearArtist \/ ClearUntag \/ ClearByTag
  <2>1. \/ clear' = NoClear
        \/ /\ clear'.user = clear.user /\ clear'.moves = clear.moves /\ clear'.kills = clear.kills
           /\ clear'.phase = clear.phase /\ clear'.step # "delete"
    <3>1. CASE ClearDelete
      BY <1>1, <3>1 DEF ClearDelete, AnyClear
    <3>2. CASE ClearOwned \/ ClearKept
      <4>1. PICK step \in {"rows", "artist", "kept", "untag", "owned"} : clear' = [clear EXCEPT !.step = step]
        BY <3>2 DEF ClearOwned, ClearKept
      <4>. QED
        BY <1>1, <4>1 DEF AnyClear
    <3>3. CASE ClearArtist \/ ClearUntag \/ ClearByTag
      <4>1. clear' = NoClear \/ \E step \in {"rows", "kept"} : clear' = [clear EXCEPT !.step = step]
        BY <3>3 DEF ClearArtist, ClearUntag, ClearByTag
      <4>. QED
        BY <1>1, <4>1 DEF AnyClear
    <3>. QED
      BY <1>6, <3>1, <3>2, <3>3
  <2>. QED
    BY <1>2, <1>3, <2>1
<1>7. CASE ClearRows
  BY <1>1, <1>3, <1>7 DEF ClearRows, AnyClear
<1>8. CASE ClearFailed \/ ClearTags
  <2>1. PICK phase \in {"failed", "tags"}, step \in {"next", "owned"} :
          clear' = [clear EXCEPT !.phase = phase, !.step = step] /\ clear.kills = {}
    <3>1. CASE ClearFailed
      BY <3>1 DEF ClearFailed
    <3>2. CASE ClearTags
      <4>1. clear' = [clear EXCEPT !.phase = "tags", !.step = "next"] /\ clear.kills = {}
        BY <1>1, <3>2 DEF ClearTags, AnyClear
      <4>. QED
        BY <4>1
    <3>. QED
      BY <1>8, <3>1, <3>2
  <2>. QED
    BY <1>1, <1>3, <2>1 DEF AnyClear
<1>9. CASE ClearExtras
  <2>1. /\ clear'.user = clear.user /\ clear'.moves = clear.moves /\ clear'.kills = Extras(clear.user) /\ clear'.step = "next"
    BY <1>1, <1>9 DEF ClearExtras, AnyClear
  <2>. QED
    BY <1>1, <2>1 DEF Extras
<1>10. CASE ClearOrphans
  <2>1. clear'.user = clear.user /\ clear'.moves = clear.moves /\ clear'.phase = "orphans" /\ clear'.step = "next"
    BY <1>1, <1>10 DEF ClearOrphans, AnyClear
  <2>. QED
    BY <1>1, <2>1
<1>11. CASE \E a \in Albums : ClearOrphanRows(a)
  <2>1. PICK a \in Albums : /\ clear.phase = "orphans" /\ clear.step = "next"
                            /\ clear' = Skipped(a) \/ clear' = [clear EXCEPT !.at = a, !.step = "held"]
    BY <1>11 DEF ClearOrphanRows
  <2>2. /\ clear'.user = clear.user /\ clear'.moves = clear.moves /\ clear'.kills \subseteq clear.kills
        /\ clear'.phase = "orphans" /\ clear'.step \in {"next", "held"}
    BY <1>1, <2>1 DEF Skipped, AnyClear
  <2>. QED
    BY <1>3, <2>2
<1>12. CASE ClearOrphanHeld \/ ClearOrphan
  <2>1. clear' = [clear EXCEPT !.step = "orphan"] \/ clear' = Passed(clear.at) \/ clear' = NoClear
    BY <1>12 DEF ClearOrphanHeld, ClearOrphan
  <2>2. /\ Passed(clear.at).user = clear.user /\ Passed(clear.at).moves = clear.moves /\ Passed(clear.at).step = "next"
        /\ Passed(clear.at).kills \subseteq clear.kills /\ Passed(clear.at).phase = clear.phase
    BY <1>1 DEF Passed, Skipped, AnyClear
  <2>3. CASE clear' = [clear EXCEPT !.step = "orphan"]
    BY <1>1, <1>3, <2>3 DEF AnyClear
  <2>4. CASE clear' = Passed(clear.at)
    BY <1>3, <2>2, <2>4
  <2>. QED
    BY <1>2, <2>1, <2>3, <2>4
<1>. QED
  BY <1>4, <1>5, <1>6, <1>7, <1>8, <1>9, <1>10, <1>11, <1>12 DEF ClearStep

LEMMA PicksRestStep ==
  ASSUME TypeOK, PicksOnly, [Next]_vars
  PROVE  PicksRest'
<1>1. UNCHANGED case
  BY CaseStays
<1>. USE DEF PicksRest, PicksOnly
<1>2. CASE UNCHANGED <<heart, gen, clear>>
  BY <1>1, <1>2
<1>3. CASE \E u \in Users : HeartStep(u)
  <2>1. PICK u \in Users : HeartStep(u)
    BY <1>3
  <2>2. \/ heart' = [heart EXCEPT ![u] = Idle]
        \/ /\ heart[u] # Idle
           /\ heart' \in {[heart EXCEPT ![u] = [@ EXCEPT !.step = "untag"]], [heart EXCEPT ![u] = [@ EXCEPT !.step = "keep"]]}
    BY <2>1 DEF HeartStep, Claim, Untag, Keep, Unlike, Idle
  <2>2a. heart \in HeartType
    BY Fields
  <2>3. \A v \in Users : heart'[v].step # "idle" => heart[v].step # "idle" /\ heart'[v].album = heart[v].album
    BY ONLY <2>2, <2>2a DEF HeartType, Idle
  <2>4. UNCHANGED <<gen, clear>>
    BY <2>1 DEF HeartStep, Claim, Untag, Keep, Unlike, sweepVars
  <2>. QED
    BY <1>1, <2>3, <2>4
<1>4. CASE \E u \in Users, a \in Albums : Give(u, a)
  <2>1. PICK u \in Users, a \in Albums : Give(u, a)
    BY <1>4
  <2>2. \E step \in {"like", "unlike"} : heart' = [heart EXCEPT ![u] = [step |-> step, album |-> a]]
    BY <2>1 DEF Give
  <2>3. row[u][a] # "none" /\ UNCHANGED <<gen, clear>>
    BY <2>1 DEF Give, sweepVars
  <2>4. heart \in HeartType
    BY Fields
  <2>. QED
    BY <1>1, <2>2, <2>3, <2>4 DEF HeartType
<1>5. CASE \E u \in Users : GenStart(u)
  <2>1. PICK u \in Users : GenStart(u)
    BY <1>5
  <2>2. /\ gen'.user = u /\ UNCHANGED <<heart, clear>>
        /\ \A a \in Albums : gen'.todo[a] # "out" => row[u][a] # "none"
    BY <2>1 DEF GenStart
  <2>. QED
    BY <1>1, <2>2
<1>6. CASE \E a \in Albums : GenStep(a)
  <2>1. PICK a \in Albums, s \in {"out", "claim", "delete"} : GenNext(a, s) /\ gen.todo[a] # "out" /\ UNCHANGED <<heart, clear>>
    BY <1>6 DEF GenStep, GenMove, GenCheck, GenVerdict, GenDelete, GenClaim
  <2>2. gen \in Sweeping
    BY <2>1, Fields DEF GenType, NoGen
  <2>3. CASE gen' = NoGen
    BY <1>1, <2>1, <2>3 DEF NoGen
  <2>4. CASE gen' = [gen EXCEPT !.todo = [gen.todo EXCEPT ![a] = s]]
    <3>1. gen'.user = gen.user /\ \A b \in Albums : gen'.todo[b] # "out" => gen.todo[b] # "out"
      BY <2>1, <2>2, <2>4 DEF Sweeping
    <3>. QED
      BY <1>1, <2>1, <3>1
  <2>. QED
    BY <2>1, <2>3, <2>4 DEF GenNext
<1>7. CASE \E u \in Users : ClearStart(u)
  <2>1. PICK u \in Users : ClearStart(u)
    BY <1>7
  <2>2. /\ clear'.user = u /\ clear'.step = "next" /\ UNCHANGED <<heart, gen>>
        /\ \A a \in clear'.moves \cup clear'.kills : a \in Albums /\ row[u][a] # "none"
    BY <2>1 DEF ClearStart, NoClear, ClearVars
  <2>. QED
    BY <1>1, <2>2
<1>8. CASE ClearStep
  <2>1. UNCHANGED <<heart, gen>>
    BY <1>8 DEF ClearStep, ClearMove, ClearClaim, ClearExtra, ClearOrphanRows, ClearDelete, ClearOwned, ClearKept, ClearArtist,
       ClearRows, ClearExtras, ClearFailed, ClearOrphans, ClearOrphanHeld, ClearOrphan, ClearTags, ClearByTag, ClearUntag, ClearVars
  <2>. QED
    BY <1>1, <1>8, <2>1, PicksClear
<1>9. CASE Crash
  BY <1>1, <1>9 DEF Crash, Idle, NoGen, NoClear
<1>10. \/ UNCHANGED <<heart, gen, clear>> \/ \E u \in Users : HeartStep(u) \/ GenStart(u) \/ ClearStart(u)
       \/ \E u \in Users, a \in Albums : Give(u, a)
       \/ (\E a \in Albums : GenStep(a)) \/ ClearStep \/ Crash
  BY DEF Next, vars, Publish, LibraryStep, Download, Scan, ScanTouched, OrphanedOwned, ScanMissing, RepairStart, RepairStep,
     OrphanRows, OrphanHeld, OrphanDelete, OrphansDone, RepairOwned, RepairKept, RepairCount, RepairWrite, RepairDisown,
     RepairVars, PurgeStart, PurgeAsk, PurgeUntag, PurgeArtist, sweepVars
<1>. QED
  BY <1>2, <1>3, <1>4, <1>5, <1>6, <1>7, <1>8, <1>9, <1>10

LEMMA PicksOnlyInvariant == Spec => []PicksOnly
<1>1. Init => PicksOnly
  BY DEF Init, PicksOnly, PicksRest, Idle, NoGen, NoClear
<1>2. TypeOK /\ PicksOnly /\ [Next]_vars => PicksOnly'
  BY PicksRow, PicksRestStep DEF PicksOnly, PicksRest
<1>. QED
  BY <1>1, <1>2, Typing, PTL DEF Spec

-----------------------------------------------------------------------------
\* The library's own files: an artist goes only if nothing of it is owned.

LibraryDoomed ==
    \/ clear.step = "artist" /\ clear.phase # "tags"
    \/ clear.step = "kept" /\ clear.phase \notin {"extras", "tags"}
    \/ purge \in {"kept", "active", "admin"}

OwnedUndoomed == \A a \in Albums : owned[a] = "native_scan" /\ LibraryDoomed => <<"library", a>> \in late

\* Only these steps write who owns an album.
LEMMA OwnedWriters ==
  ASSUME [Next]_vars
  PROVE  \/ UNCHANGED owned
         \/ \E b \in Albums : Scan(b) \/ ScanTouched(b)
         \/ \E gone \in SUBSET Albums : Without(gone)
         \/ \E u \in Users : Keep(u) \/ Unlike(u)
         \/ \E u, b : MoveLiked(u, b)
         \/ RepairDisown \/ \E b \in Albums : OrphanedOwned(b)
<1>1. CASE \E u \in Users : HeartStep(u) \/ GenStart(u) \/ ClearStart(u)
  BY <1>1 DEF HeartStep, Claim, Untag, GenStart, ClearStart, dbVars
<1>2. CASE \E u \in Users, b \in Albums : Publish(u, b) \/ Give(u, b)
  BY <1>2 DEF Publish, Give, dbVars
<1>3. CASE \E b \in Albums : LibraryStep(b) \/ GenStep(b)
  BY <1>3 DEF LibraryStep, GenStep, Download, GenMove, GenCheck, GenDelete, GenClaim, dbVars
<1>4. CASE ScanMissing \/ RepairStart
  BY <1>4 DEF ScanMissing, RepairStart
<1>5. CASE RepairStep
  <2>1. CASE \E b \in Albums : OrphanDelete(b)
    <3>1. PICK b \in Albums : UNCHANGED owned \/ Without({b})
      BY <2>1 DEF OrphanDelete
    <3>. QED
      BY <3>1
  <2>. QED
    BY <1>5, <2>1 DEF RepairStep, OrphanRows, OrphanHeld, OrphansDone, RepairOwned, RepairKept, RepairCount, RepairWrite
<1>6. CASE ClearOrphan
  <2>1. UNCHANGED owned \/ (Without({clear.at}) /\ album[clear.at] # "absent")
    BY <1>6 DEF ClearOrphan
  <2>2. CASE Without({clear.at})
    <3>1. Without(Albums \cap {clear.at})
      BY <2>2 DEF Without
    <3>. QED
      BY <3>1
  <2>. QED
    BY <2>1, <2>2
<1>7. CASE ClearStep /\ ~ClearOrphan
  BY <1>7 DEF ClearStep, ClearMove, ClearClaim, ClearExtra, ClearOrphanRows, ClearDelete, ClearOwned, ClearKept, ClearArtist,
     ClearRows, ClearExtras, ClearFailed, ClearOrphans, ClearOrphanHeld, ClearTags, ClearByTag, ClearUntag, dbVars
<1>8. CASE PurgeStart \/ PurgeAsk \/ PurgeUntag \/ PurgeArtist \/ Crash
  BY <1>8 DEF PurgeStart, PurgeAsk, PurgeUntag, PurgeArtist, Crash, dbVars
<1>9. CASE UNCHANGED vars
  BY <1>9 DEF vars, dbVars
<1>. QED
  BY <1>1, <1>2, <1>3, <1>4, <1>5, <1>6, <1>7, <1>8, <1>9 DEF Next

\* An album becomes owned by a scan, which may come too late.
LEMMA NewlyOwned ==
  ASSUME TypeOK, [Next]_vars, NEW a \in Albums, owned'[a] = "native_scan", owned[a] # "native_scan", OwnedLooked
  PROVE  <<"library", a>> \in late'
<1>. USE DEF TypeOK
<1>1. CASE \E b \in Albums : Scan(b) \/ ScanTouched(b)
  <2>1. PICK b \in Albums : Own(b)
    BY <1>1 DEF Scan, ScanTouched
  <2>2. b = a /\ late' = late \cup {<<"library", b>>}
    BY <2>1 DEF Own
  <2>. QED
    BY <2>2
<1>2. CASE \E gone \in SUBSET Albums : Without(gone)
  BY <1>2 DEF Without
<1>3. CASE \E u \in Users : Keep(u) \/ Unlike(u)
  BY <1>3 DEF Keep, Unlike
<1>4. CASE \E u, b : MoveLiked(u, b)
  BY <1>4 DEF MoveLiked
<1>5. CASE RepairDisown \/ \E b \in Albums : OrphanedOwned(b)
  BY <1>5 DEF RepairDisown, OrphanedOwned
<1>. QED
  BY <1>1, <1>2, <1>3, <1>4, <1>5, OwnedWriters

\* It is decided on what is owned then.
LEMMA NewlyLibraryDoomed ==
  ASSUME TypeOK, [Next]_vars, LibraryDoomed', ~LibraryDoomed
  PROVE  ~HasNative /\ UNCHANGED owned
<1>. USE DEF LibraryDoomed
<1>0. clear \in AnyClear
  BY ClearFields
<1>1. CASE ClearKept
  <2>1. clear.phase \in {"extras", "tags"} /\ clear'.phase = clear.phase /\ clear'.step \in {"untag", "rows", "owned", "artist"}
        /\ (clear.phase = "extras" => clear'.step # "artist") /\ UNCHANGED purge
    BY <1>0, <1>1 DEF ClearKept, ClearVars, AnyClear
  <2>. QED
    BY <2>1
<1>2. CASE \E a \in Albums : ClearClaim(a) \/ ClearExtra(a)
  <2>1. PICK a \in Albums : ClearClaim(a) \/ ClearExtra(a)
    BY <1>2
  <2>2. clear' \in {[At(a) EXCEPT !.phase = "kills"], [Skipped(a) EXCEPT !.phase = "kills"], Skipped(a), [At(a) EXCEPT !.checked = FALSE]}
    BY <2>1 DEF ClearClaim, ClearExtra
  <2>3. clear.step = "next" /\ UNCHANGED purge
    BY <2>1 DEF ClearClaim, ClearExtra, ClearVars
  <2>4. At(a) \in AnyClear /\ At(a).step \in {"delete", "rows"}
    BY <1>0 DEF At, AnyClear
  <2>5. Skipped(a) \in AnyClear /\ Skipped(a).step = "next"
    BY <1>0, <2>3 DEF Skipped, AnyClear
  <2>6. clear'.step \in {"delete", "rows", "next"}
    BY ONLY <2>2, <2>4, <2>5 DEF AnyClear
  <2>. QED
    BY <2>3, <2>6
<1>3. CASE ClearStep /\ ~ClearKept /\ ~ \E a \in Albums : ClearClaim(a) \/ ClearExtra(a)
  <2>1. ClearOwned /\ ~HasNative
    BY <1>3, ClearLeads
  <2>. QED
    BY <2>1 DEF ClearOwned, dbVars
<1>4. CASE PurgeAsk
  BY <1>4 DEF PurgeAsk, dbVars
<1>5. CASE Crash \/ PurgeArtist \/ PurgeStart \/ PurgeUntag
  BY <1>5 DEF Crash, PurgeArtist, PurgeStart, PurgeUntag, NoClear
<1>6. CASE \E u \in Users : ClearStart(u)
  BY <1>6 DEF ClearStart, NoClear, ClearVars
<1>7. CASE UNCHANGED <<clear, purge>>
  BY <1>7
<1>8. \/ UNCHANGED <<clear, purge>> \/ Crash \/ PurgeArtist \/ PurgeStart \/ PurgeAsk \/ PurgeUntag \/ ClearStep
      \/ \E u \in Users : ClearStart(u)
  BY DEF Next, vars, HeartStep, Claim, Untag, Keep, Unlike, GenStart, Publish, Give, LibraryStep, Download, Scan, ScanTouched,
     OrphanedOwned, GenStep, GenMove, GenCheck, GenDelete, GenClaim, ScanMissing, RepairStart, RepairStep, OrphanRows, OrphanHeld,
     OrphanDelete, OrphansDone, RepairOwned, RepairKept, RepairCount, RepairWrite, RepairDisown, RepairVars, sweepVars
<1>. QED
  BY <1>1, <1>2, <1>3, <1>4, <1>5, <1>6, <1>7, <1>8

LEMMA OwnedUndoomedInvariant == Spec => []OwnedUndoomed
<1>1. Init => OwnedUndoomed
  BY DEF Init, OwnedUndoomed
<1>2. ASSUME TypeOK, OwnedUndoomed, [Next]_vars
      PROVE  OwnedUndoomed'
  <2>. SUFFICES ASSUME NEW a \in Albums, owned'[a] = "native_scan", LibraryDoomed'
                PROVE  <<"library", a>> \in late'
    BY <1>2 DEF OwnedUndoomed
  <2>1. CASE owned[a] = "native_scan"
    <3>1. LibraryDoomed
      BY <1>2, <2>1, NewlyLibraryDoomed DEF HasNative
    <3>. QED
      BY <1>2, <2>1, <3>1, LateStays DEF OwnedUndoomed
  <2>2. CASE owned[a] # "native_scan"
    <3>1. LibraryDoomed
      BY <1>2, <2>2, NewlyLibraryDoomed
    <3>. QED
      BY <1>2, <2>2, <3>1, NewlyOwned DEF LibraryDoomed, OwnedLooked
  <2>. QED
    BY <2>1, <2>2
<1>. QED
  BY <1>1, <1>2, Typing, PTL DEF Spec

\* What the user added goes with the artist only, and only a sweep by tag takes an artist that was owned when it looked:
\* DiscoveryAlbums.LibraryKeepsFiles.
THEOREM LibraryFilesKept == Spec => LibraryKeepsFiles
<1>1. TypeOK /\ PicksOnly /\ OwnedUndoomed /\ [Next]_vars
      => [\A a \in Native :
            owned[a] = "native_scan" /\ a \in files \ files' /\ <<"library", a>> \notin late
            => clear.phase = "tags" \/ purge = "batch"]_vars
  <2>. SUFFICES ASSUME TypeOK, PicksOnly, OwnedUndoomed, [Next]_vars, NEW a \in Native,
                       owned[a] = "native_scan", a \in files \ files', <<"library", a>> \notin late
                PROVE  clear.phase = "tags" \/ purge = "batch"
    OBVIOUS
  <2>1. a \in Albums /\ \A u \in Users : a \notin case.picks[u]
    BY DEF Native, Picked
  <2>2. clear.step = "artist" \/ purge \in {"admin", "batch"}
    BY <2>1, FilesGo DEF PicksOnly, PicksRest
  <2>3. ~LibraryDoomed
    BY <2>1 DEF OwnedUndoomed
  <2>. QED
    BY <2>2, <2>3 DEF LibraryDoomed
<1>. QED
  BY <1>1, PicksOnlyInvariant, OwnedUndoomedInvariant, Typing, PTL DEF Spec, LibraryKeepsFiles

-----------------------------------------------------------------------------
\* What is kept is seen by whoever takes albums out of the library, or passed him: the invariant.

KeptPassed == \A a \in Albums, w \in {"clear", "repair"}, u \in Users :
                row[u][a] \in Kept /\ w \in Ahead(a) => <<w, a>> \in passed

\* Whoever sees an album ahead of him saw it before, or finds that nobody keeps it.
LEMMA NewlyAhead ==
  ASSUME TypeOK, [Next]_vars, NEW a \in Albums, NEW w \in {"clear", "repair"}, w \in Ahead(a)', w \notin Ahead(a)
  PROVE  UNCHANGED row /\ \A u \in Users : row[u][a] \notin Kept
<1>1. CASE w = "clear"
  <2>1. clear'.step \in {"held", "orphan"} /\ clear'.at = a /\ ~(clear.step \in {"held", "orphan"} /\ clear.at = a)
    BY <1>1 DEF Ahead
  <2>2. clear \in AnyClear
    BY ClearFields
  <2>3. CASE \E b \in Albums : ClearOrphanRows(b)
    <3>1. PICK b \in Albums : ClearOrphanRows(b)
      BY <2>3
    <3>2. Skipped(b).step = "next"
      BY <2>2, <3>1 DEF ClearOrphanRows, Skipped, AnyClear
    <3>3. ~InUse(b) /\ clear' = [clear EXCEPT !.at = b, !.step = "held"] /\ UNCHANGED row
      BY <2>1, <3>1, <3>2 DEF ClearOrphanRows, dbVars
    <3>4. b = a
      BY <2>1, <2>2, <3>3 DEF AnyClear
    <3>. QED
      BY <3>3, <3>4 DEF InUse
  <2>4. CASE ClearStep /\ ~ \E b \in Albums : ClearOrphanRows(b)
    <3>1. CASE \E b \in Albums : ClearMove(b)
      <4>1. clear'.step = clear.step /\ clear'.at = clear.at
        BY <2>2, <3>1 DEF ClearMove, AnyClear
      <4>. QED
        BY <2>1, <4>1
    <3>2. CASE \E b \in Albums : ClearClaim(b) \/ ClearExtra(b)
      <4>1. PICK b \in Albums : ClearClaim(b) \/ ClearExtra(b)
        BY <3>2
      <4>2. clear' \in {[At(b) EXCEPT !.phase = "kills"], [Skipped(b) EXCEPT !.phase = "kills"], Skipped(b), [At(b) EXCEPT !.checked = FALSE]}
            /\ clear.step = "next"
        BY <4>1 DEF ClearClaim, ClearExtra
      <4>3. At(b) \in AnyClear /\ At(b).step \in {"delete", "rows"} /\ Skipped(b) \in AnyClear /\ Skipped(b).step = "next"
        BY <2>2, <4>2 DEF At, Skipped, AnyClear
      <4>4. clear'.step \in {"delete", "rows", "next"}
        BY ONLY <4>2, <4>3 DEF AnyClear
      <4>. QED
        BY <2>1, <4>4
    <3>3. CASE ClearDelete \/ ClearRows
      <4>1. clear'.step \in {"rows", "kept", "owned", "next"}
        BY <2>2, <3>3 DEF ClearDelete, ClearRows, AnyClear
      <4>. QED
        BY <2>1, <4>1
    <3>4. CASE ClearOwned \/ ClearKept \/ ClearArtist \/ ClearUntag \/ ClearByTag
      <4>1. clear' = NoClear \/ \E step \in {"rows", "artist", "kept", "untag", "owned"} : clear' = [clear EXCEPT !.step = step]
        BY <3>4 DEF ClearOwned, ClearKept, ClearArtist, ClearUntag, ClearByTag
      <4>. QED
        BY <2>1, <2>2, <4>1 DEF AnyClear, NoClear
    <3>5. CASE ClearExtras \/ ClearFailed \/ ClearOrphans \/ ClearTags
      <4>1. clear.step = "next"
        BY <3>5 DEF ClearExtras, ClearFailed, ClearOrphans, ClearTags
      <4>2. CASE ClearFailed
        <5>1. \E step \in {"next", "owned"} : clear' = [clear EXCEPT !.phase = "failed", !.step = step]
          BY <4>2 DEF ClearFailed
        <5>. QED
          BY <2>1, <2>2, <5>1 DEF AnyClear
      <4>3. CASE ClearExtras \/ ClearOrphans
        <5>1. \E kills, phase : clear' = [clear EXCEPT !.phase = phase, !.kills = kills]
          BY <4>3 DEF ClearExtras, ClearOrphans
        <5>. QED
          BY <2>1, <2>2, <4>1, <5>1 DEF AnyClear
      <4>4. CASE ClearTags
        BY <2>1, <2>2, <4>1, <4>4 DEF ClearTags, AnyClear
      <4>. QED
        BY <3>5, <4>2, <4>3, <4>4
    <3>6. CASE ClearOrphanHeld \/ ClearOrphan
      <4>1. \/ clear' = [clear EXCEPT !.step = "orphan"] /\ clear.step = "held"
            \/ clear' = Passed(clear.at) \/ clear' = NoClear
        BY <3>6 DEF ClearOrphanHeld, ClearOrphan
      <4>2. Passed(clear.at).step = "next"
        BY <2>2 DEF Passed, Skipped, AnyClear
      <4>. QED
        BY <2>1, <2>2, <4>1, <4>2 DEF NoClear, AnyClear
    <3>. QED
      BY <2>4, <3>1, <3>2, <3>3, <3>4, <3>5, <3>6 DEF ClearStep
  <2>5. CASE (\E u \in Users : ClearStart(u)) \/ Crash
    <3>1. clear'.step = "next"
      <4>1. CASE \E v \in Users : ClearStart(v)
        BY <4>1 DEF ClearStart, NoClear
      <4>2. CASE Crash
        BY <4>2 DEF Crash, NoClear
      <4>. QED
        BY <2>5, <4>1, <4>2
    <3>. QED
      BY <2>1, <3>1
  <2>6. UNCHANGED clear \/ (\E u \in Users : ClearStart(u)) \/ Crash \/ ClearStep
    BY DEF Next, vars, HeartStep, Claim, Untag, Keep, Unlike, GenStart, Publish, Give, LibraryStep, Download, Scan, ScanTouched,
       OrphanedOwned, GenStep, GenMove, GenCheck, GenDelete, GenClaim, ScanMissing, RepairStart, RepairStep, OrphanRows,
       OrphanHeld, OrphanDelete, OrphansDone, RepairOwned, RepairKept, RepairCount, RepairWrite, RepairDisown, RepairVars,
       PurgeStart, PurgeAsk, PurgeUntag, PurgeArtist, sweepVars
  <2>. QED
    BY <2>1, <2>3, <2>4, <2>5, <2>6
<1>2. CASE w = "repair"
  <2>. DEFINE Sees(r) == \/ r.step \in {"held", "orphans"} /\ a \in r.todo
                         \/ r.step \in {"count", "write"} /\ a \in r.at
  <2>1. Sees(repair') /\ ~Sees(repair)
    BY <1>2 DEF Ahead
  <2>2. CASE RepairStart
    BY <2>1, <2>2 DEF RepairStart
  <2>3. CASE RepairStep
    <3>1. repair \in Repairing
      <4>1. repair.step # "off"
        BY <2>3 DEF RepairStep, OrphanRows, OrphanHeld, OrphanDelete, OrphansDone, RepairOwned, RepairKept, RepairCount,
           RepairWrite, RepairDisown
      <4>2. repair # NoRepair
        BY <4>1 DEF NoRepair
      <4>. QED
        BY <4>2, Fields DEF RepairType
    <3>2. \A todo : RepairNext(todo) => ~Sees(repair')
      BY <3>1 DEF RepairNext, NoRepair, Repairing
    <3>3. repair' # NoRepair
      BY <2>1 DEF NoRepair
    <3>4. CASE OrphanRows
      <4>1. repair' = [repair EXCEPT !.step = "held", !.todo = {b \in repair.todo : ~InUse(b)}] /\ UNCHANGED row
        BY <3>4 DEF OrphanRows, RepairVars
      <4>2. a \in repair'.todo
        BY <2>1, <3>1, <4>1 DEF Repairing
      <4>3. ~InUse(a)
        BY <3>1, <4>1, <4>2 DEF Repairing
      <4>. QED
        BY <4>1, <4>3 DEF InUse
    <3>5. CASE OrphanHeld
      <4>1. PICK todo \in SUBSET repair.todo : repair' = [repair EXCEPT !.step = "orphans", !.todo = todo] /\ repair.step = "held"
        BY <3>5 DEF OrphanHeld
      <4>. QED
        BY <2>1, <3>1, <4>1 DEF Repairing
    <3>6. CASE \E b \in Albums : OrphanDelete(b)
      <4>1. PICK b \in Albums : repair' = [repair EXCEPT !.todo = @ \ {b}] /\ repair.step = "orphans"
        BY <3>3, <3>6 DEF OrphanDelete
      <4>. QED
        BY <2>1, <3>1, <4>1 DEF Repairing
    <3>7. CASE OrphansDone \/ RepairDisown
      BY <2>1, <3>2, <3>7 DEF OrphansDone, RepairDisown
    <3>8. CASE \E S \in SUBSET Albums : RepairOwned(S)
      <4>1. PICK S \in SUBSET Albums : repair' = [repair EXCEPT !.step = "kept", !.at = S] \/ RepairNext(repair.todo \ S)
        BY <3>8 DEF RepairOwned
      <4>. QED
        BY <2>1, <3>1, <3>2, <4>1 DEF Repairing
    <3>9. CASE RepairKept
      <4>1. ~HasKept /\ UNCHANGED row
        BY <2>1, <3>2, <3>9 DEF RepairKept, RepairKeeps, RepairVars
      <4>. QED
        BY <4>1 DEF HasKept, Rows
    <3>10. CASE RepairCount
      <4>1. repair' = [repair EXCEPT !.step = "write"] /\ repair.step = "count"
        BY <2>1, <3>2, <3>10 DEF RepairCount
      <4>. QED
        BY <2>1, <3>1, <4>1 DEF Repairing
    <3>11. CASE RepairWrite
      <4>1. repair' = [repair EXCEPT !.step = "disown"]
        BY <3>3, <3>11 DEF RepairWrite
      <4>. QED
        BY <2>1, <3>1, <4>1 DEF Repairing
    <3>. QED
      BY <2>3, <3>4, <3>5, <3>6, <3>7, <3>8, <3>9, <3>10, <3>11 DEF RepairStep
  <2>4. CASE Crash
    BY <2>1, <2>4 DEF Crash, NoRepair
  <2>5. UNCHANGED repair \/ RepairStart \/ RepairStep \/ Crash
    BY DEF Next, vars, HeartStep, Claim, Untag, Keep, Unlike, GenStart, ClearStart, Publish, Give, LibraryStep, Download, Scan,
       ScanTouched, OrphanedOwned, GenStep, GenMove, GenCheck, GenDelete, GenClaim, ScanMissing, PurgeStart, PurgeAsk, PurgeUntag,
       PurgeArtist, ClearStep, ClearMove, ClearClaim, ClearExtra, ClearOrphanRows, ClearDelete, ClearOwned, ClearKept,
       ClearArtist, ClearRows, ClearExtras, ClearFailed, ClearOrphans, ClearOrphanHeld, ClearOrphan, ClearTags, ClearByTag,
       ClearUntag, ClearVars, sweepVars
  <2>. QED
    BY <2>1, <2>2, <2>3, <2>4, <2>5
<1>. QED
  BY <1>1, <1>2

\* Whom a like has passed is forgotten only when he is done with the album.
LEMMA PassedStays ==
  ASSUME TypeOK, [Next]_vars, NEW a \in Albums, NEW w \in {"clear", "repair"}, <<w, a>> \in passed
  PROVE  <<w, a>> \in passed' \/ w \notin Ahead(a)'
<1>1. CASE passed \subseteq passed'
  BY <1>1
<1>2. CASE Crash
  BY <1>2 DEF Crash, NoClear, NoRepair, Ahead
<1>3. CASE Done("repair") /\ RepairStep
  <2>1. CASE w = "clear"
    BY <1>3, <2>1 DEF Done
  <2>2. CASE w = "repair"
    <3>1. repair \in RepairType
      BY Fields
    <3>2. CASE repair' = NoRepair
      BY <2>2, <3>2 DEF NoRepair, Ahead
    <3>3. CASE \E todo : RepairNext(todo)
      <4>1. repair'.step \in {"off", "owned"}
        <5>1. PICK todo : RepairNext(todo)
          BY <3>3
        <5>. QED
          BY <3>1, <5>1 DEF RepairNext, RepairType, Repairing, NoRepair
      <4>. QED
        BY <2>2, <4>1 DEF Ahead
    <3>4. CASE repair' = [repair EXCEPT !.step = "disown"]
      <4>1. repair'.step = "disown"
        BY <3>1, <3>4 DEF RepairType, Repairing, NoRepair
      <4>. QED
        BY <2>2, <4>1 DEF Ahead
    <3>5. CASE UNCHANGED passed
      BY <3>5
    <3>. QED
      BY <1>3, <3>2, <3>3, <3>4, <3>5 DEF RepairStep, OrphanRows, OrphanHeld, OrphanDelete, OrphansDone, RepairOwned, RepairKept,
         RepairCount, RepairWrite, RepairDisown
  <2>. QED
    BY <2>1, <2>2
<1>4. CASE Done("clear") /\ (ClearOrphanHeld \/ ClearOrphan)
  <2>1. CASE w = "repair"
    BY <1>4, <2>1 DEF Done
  <2>2. CASE w = "clear"
    <3>1. clear \in AnyClear
      BY ClearFields
    <3>2. Passed(clear.at).step = "next" /\ NoClear.step = "next"
      BY <3>1 DEF Passed, Skipped, NoClear, AnyClear
    <3>3. CASE clear' \in {NoClear, Passed(clear.at)}
      BY <2>2, <3>2, <3>3 DEF Ahead
    <3>4. CASE UNCHANGED passed
      BY <3>4
    <3>. QED
      BY <1>4, <3>3, <3>4 DEF ClearOrphanHeld, ClearOrphan
  <2>. QED
    BY <2>1, <2>2
<1>5. \/ passed \subseteq passed' \/ Crash \/ (Done("repair") /\ RepairStep)
      \/ (Done("clear") /\ (ClearOrphanHeld \/ ClearOrphan))
  <2>1. ClearStep => passed \subseteq passed' \/ (Done("clear") /\ (ClearOrphanHeld \/ ClearOrphan))
    BY DEF ClearStep, ClearMove, ClearClaim, ClearExtra, ClearOrphanRows, ClearDelete, ClearOwned, ClearKept, ClearArtist,
       ClearRows, ClearExtras, ClearFailed, ClearOrphans, ClearOrphanHeld, ClearOrphan, ClearTags, ClearByTag, ClearUntag,
       MoveLiked, Passes, history
  <2>2. RepairStep => passed \subseteq passed' \/ Done("repair")
    BY DEF RepairStep, OrphanRows, OrphanHeld, OrphanDelete, OrphansDone, RepairOwned, RepairKept, RepairCount, RepairWrite,
       RepairDisown
  <2>. QED
    BY <2>1, <2>2 DEF Next, vars, HeartStep, Claim, Untag, Keep, Unlike, GenStart, ClearStart, Publish, Give, LibraryStep,
       Download, Scan, ScanTouched, OrphanedOwned, GenStep, GenMove, GenCheck, GenDelete, GenClaim, ScanMissing, RepairStart,
       PurgeStart, PurgeAsk, PurgeUntag, PurgeArtist, MoveLiked, Passes, history
<1>. QED
  BY <1>1, <1>2, <1>3, <1>4, <1>5

\* What is newly kept has passed whoever has the album ahead of him.
LEMMA NewlyKept ==
  ASSUME TypeOK, [Next]_vars, NEW u \in Users, NEW a \in Albums, NEW w \in Ahead(a),
         row'[u][a] \in Kept, row[u][a] \notin Kept
  PROVE  <<w, a>> \in passed'
<1>1. CASE RowQuiet \/ \E b \in Albums : Scan(b) \/ ScanTouched(b)
  BY <1>1 DEF RowQuiet, Scan, ScanTouched
<1>2. CASE \E v \in Users, b \in Albums : Publish(v, b)
  BY <1>2, SetRowGives DEF Publish, Kept
<1>3. CASE \E v \in Users : Claim(v)
  <2>1. PICK v \in Users : Claim(v)
    BY <1>3
  <2>2. row' # row
    OBVIOUS
  <2>3. SetRow(v, heart[v].album, "LIKED") /\ Passes(heart[v].album)
    BY <2>1, <2>2 DEF Claim
  <2>4. heart[v].album = a
    BY <2>3, SetRowGives
  <2>. QED
    BY <2>3, <2>4 DEF Passes
<1>4. CASE \E v \in Users : Unlike(v)
  BY <1>4, SetRowGives DEF Unlike, Kept
<1>5. CASE \E b \in Albums : GenMove(b) \/ ClearMove(b)
  <2>1. PICK b \in Albums, v \in Users : MoveLiked(v, b)
    <3>1. ASSUME NEW b \in Albums, GenMove(b)
          PROVE  gen.user \in Users
      BY <3>1, Fields DEF GenMove, GenType, Sweeping, NoGen
    <3>2. ASSUME NEW b \in Albums, ClearMove(b)
          PROVE  clear.user \in Users
      BY <3>2, Fields DEF ClearMove, ClearType, Running, NoClear
    <3>. QED
      BY <1>5, <3>1, <3>2 DEF GenMove, ClearMove
  <2>2. row' # row
    OBVIOUS
  <2>3. SetRow(v, b, "MOVED") /\ Passes(b)
    BY <2>1, <2>2 DEF MoveLiked, SetRow
  <2>4. b = a
    BY <2>3, SetRowGives
  <2>. QED
    BY <2>3, <2>4 DEF Passes
<1>6. CASE (\E b \in Albums : GenClaim(b) \/ ClearClaim(b)) \/ ClearTags
  <2>1. row'[u][a] \in {row[u][a], "DELETED", "old"}
    <3>1. CASE ClearTags
      BY <3>1 DEF ClearTags, TypeOK
    <3>2. CASE \E b \in Albums : GenClaim(b) \/ ClearClaim(b)
      <4>1. \E b \in Albums : \E v : UNCHANGED row \/ SetRow(v, b, "DELETED")
        BY <3>2 DEF GenClaim, ClearClaim
      <4>. QED
        BY <4>1 DEF SetRow, TypeOK
    <3>. QED
      BY <1>6, <3>1, <3>2
  <2>. QED
    BY <2>1 DEF Kept
<1>. QED
  BY RowWriters, <1>1, <1>2, <1>3, <1>4, <1>5, <1>6

LEMMA KeptPassedInvariant == Spec => []KeptPassed
<1>1. Init => KeptPassed
  BY DEF Init, KeptPassed, Kept
<1>2. ASSUME TypeOK, KeptPassed, [Next]_vars
      PROVE  KeptPassed'
  <2>. SUFFICES ASSUME NEW a \in Albums, NEW w \in {"clear", "repair"}, NEW u \in Users, row'[u][a] \in Kept, w \in Ahead(a)'
                PROVE  <<w, a>> \in passed'
    BY DEF KeptPassed
  <2>1. w \in Ahead(a)
    BY <1>2, NewlyAhead
  <2>2. CASE row[u][a] \in Kept
    BY <1>2, <2>1, <2>2, PassedStays DEF KeptPassed
  <2>3. CASE row[u][a] \notin Kept
    BY <1>2, <2>1, <2>3, NewlyKept
  <2>. QED
    BY <2>2, <2>3
<1>. QED
  BY <1>1, <1>2, Typing, PTL DEF Spec

\* Whoever takes an album out of the library has asked first whether someone keeps it, or the artist:
\* DiscoveryAlbums.KeptStaysInLibrary.
THEOREM KeptStays == Spec => KeptStaysInLibrary
<1>1. TypeOK /\ KeptPassed /\ [Next]_vars
      => [\A a \in Albums :
            /\ album[a] = "LIBRARY" /\ a \in files /\ (\E u \in Users : row[u][a] \in Kept)
            /\ \A w \in {"clear", "repair"} : <<w, a>> \notin passed
            => album'[a] = "LIBRARY"]_vars
  <2>. SUFFICES ASSUME TypeOK, KeptPassed, [Next]_vars, NEW a \in Albums, album[a] = "LIBRARY", a \in files,
                       NEW u \in Users, row[u][a] \in Kept, \A w \in {"clear", "repair"} : <<w, a>> \notin passed
                PROVE  album'[a] = "LIBRARY"
    OBVIOUS
  <2>. USE DEF TypeOK
  <2>0. Ahead(a) = {}
    BY DEF KeptPassed, Ahead
  <2>1. CASE \E b \in Albums : Scan(b)
    BY <2>1 DEF Scan
  <2>2. CASE ScanMissing
    BY <2>2 DEF ScanMissing, Without
  <2>3. CASE \E b \in Albums : OrphanDelete(b)
    <3>1. PICK b \in Albums : /\ repair.step = "orphans" /\ b \in repair.todo
                              /\ UNCHANGED album \/ Without({b})
      BY <2>3 DEF OrphanDelete
    <3>2. b # a
      BY <2>0, <3>1 DEF Ahead
    <3>. QED
      BY <3>1, <3>2 DEF Without
  <2>4. CASE ClearOrphan
    <3>1. clear.step = "orphan" /\ (UNCHANGED album \/ Without({clear.at}))
      BY <2>4 DEF ClearOrphan
    <3>2. clear.at # a
      BY <2>0, <3>1 DEF Ahead
    <3>. QED
      BY <3>1, <3>2 DEF Without
  <2>5. CASE RepairWrite
    <3>1. repair.step = "write"
      BY <2>5 DEF RepairWrite
    <3>2. a \notin repair.at
      BY <2>0, <3>1 DEF Ahead
    <3>. QED
      BY <2>5, <3>2 DEF RepairWrite
  <2>6. CASE (\E v \in Users : Keep(v)) \/ (\E v, b : MoveLiked(v, b)) \/ \E b : DropDiscovery(b)
    BY <2>6 DEF Keep, MoveLiked, DropDiscovery
  <2>7. \/ UNCHANGED album
        \/ (\E b \in Albums : Scan(b) \/ OrphanDelete(b)) \/ ScanMissing \/ ClearOrphan \/ RepairWrite
        \/ (\E v \in Users : Keep(v)) \/ (\E v, b : MoveLiked(v, b)) \/ \E b : DropDiscovery(b)
    <3>1. CASE \E v \in Users : HeartStep(v) \/ GenStart(v) \/ ClearStart(v)
      BY <3>1 DEF HeartStep, Claim, Untag, Unlike, GenStart, ClearStart, dbVars
    <3>2. CASE \E v \in Users, b \in Albums : Publish(v, b) \/ Give(v, b)
      BY <3>2 DEF Publish, Give, dbVars
    <3>3. CASE \E b \in Albums : LibraryStep(b) \/ GenStep(b)
      BY <3>3 DEF LibraryStep, Download, ScanTouched, OrphanedOwned, GenStep, GenMove, GenCheck, GenDelete, GenClaim, dbVars
    <3>4. CASE RepairStart \/ RepairStep
      BY <3>4 DEF RepairStart, RepairStep, OrphanRows, OrphanHeld, OrphansDone, RepairOwned, RepairKept, RepairCount, RepairDisown
    <3>5. CASE ClearStep
      BY <3>5 DEF ClearStep, ClearMove, ClearClaim, ClearExtra, ClearOrphanRows, ClearDelete, ClearOwned, ClearKept, ClearArtist,
         ClearRows, ClearExtras, ClearFailed, ClearOrphans, ClearOrphanHeld, ClearTags, ClearByTag, ClearUntag, dbVars
    <3>6. CASE PurgeStart \/ PurgeAsk \/ PurgeUntag \/ PurgeArtist \/ Crash
      BY <3>6 DEF PurgeStart, PurgeAsk, PurgeUntag, PurgeArtist, Crash, dbVars
    <3>7. CASE UNCHANGED vars
      BY <3>7 DEF vars, dbVars
    <3>. QED
      BY <3>1, <3>2, <3>3, <3>4, <3>5, <3>6, <3>7 DEF Next
  <2>. QED
    BY <2>1, <2>2, <2>3, <2>4, <2>5, <2>6, <2>7
<1>. QED
  BY <1>1, KeptPassedInvariant, Typing, PTL DEF Spec, KeptStaysInLibrary
=============================================================================
