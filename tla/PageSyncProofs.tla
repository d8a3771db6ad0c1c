--------------------------- MODULE PageSyncProofs ---------------------------
(***************************************************************************)
(* What the index of a page keeps, whatever number of workers, sweepers,   *)
(* versions and configurations: at most the version the registry points to *)
(* is served, the registry describes it, and what a step retires stays     *)
(* stored; and what one worker, or one actor, keeps beyond that.           *)
(*                                                                         *)
(* An actor writes with a registry row that may be stale.  The invariant   *)
(* therefore says what a loaded row still means: the version it points to  *)
(* is a row that was stored, with the version, content and configuration   *)
(* it had then, since these never change and ids are never used twice.     *)
(* With the constraint that one version at most is active, a rebuild that  *)
(* is not refused was made from a row that agrees with the table in all of *)
(* them, and a flush that skips an unchanged column skips one that is up   *)
(* to date.                                                                *)
(***************************************************************************)
EXTENDS PageSync, FiniteSetTheorems, SequenceTheorems, TLAPS

(* What a registry row s, loaded now or earlier, says of the tables. *)
Describes(s, d) ==
  docs[d].version = s.version /\ docs[d].content = s.content /\ docs[d].cfg = s.cfg

SeenOK(s) ==
  /\ s \in Registry
  /\ IsNew(s) => s = NoPage
  /\ ~IsNew(s) => ~IsNew(ps) /\ docs[s.active].state # "unused" /\ Describes(s, s.active)

ActiveIsPointed == \A d \in Ids : docs[d].state = "active" => d = ps.active

IndexInv ==
  /\ RowsTyped
  /\ ServedIsLive
  /\ RegistryMatchesLive
  /\ ActiveIsPointed
  /\ IsNew(ps) => ps = NoPage

IInv == IndexInv /\ LocalsTyped /\ \A w \in Actors : SeenOK(seen[w])

(* A stored version stays stored until it is deleted, and is not edited. *)
KeepsRows ==
  /\ ~IsNew(ps) => ps'.active # NoId
  /\ \A d \in Ids : docs[d].state # "unused" =>
       /\ docs'[d].state # "unused"
       /\ docs'[d].version = docs[d].version
       /\ docs'[d].content = docs[d].content
       /\ docs'[d].cfg = docs[d].cfg

-----------------------------------------------------------------------------
LEMMA SomeSideTyped == SomeSide \in Sides /\ Everybody \in Readers
  <1>1. [marks |-> NoMarks, readers |-> Everybody] \in Sides
    BY SyncAssumption DEF Sides, Readers
  <1> QED
    BY <1>1 DEF SomeSide, Readers

LEMMA ReadersTyped == ASSUME NEW s \in Sides PROVE s.readers \in Readers
  BY DEF Sides

LEMMA MarksTyped == ASSUME NEW s \in Sides PROVE s.marks \in Marks
  BY DEF Sides

(* Whatever a group's members are taken to be, they are some of the group. *)
LEMMA MembersTyped ==
  ASSUME LocalsTyped, NEW w \in Actors, NEW answers \in SUBSET SUBSET Group,
         NEW members \in Members(w, answers)
  PROVE  members \in SUBSET Group /\ Resolved(src.side.readers, members) \in Readers
  <1>1. groups[w] \in SUBSET SUBSET Group
    BY DEF LocalsTyped, SideVarsTyped
  <1>2. members \in SUBSET Group
    BY <1>1 DEF Members
  <1>3. src.side.readers \in Readers
    BY ReadersTyped DEF LocalsTyped, Source
  <1> QED
    BY <1>2, <1>3, SyncAssumption DEF Resolved, Readers

(* A request for the side leaves some side, and the cache typed. *)
LEMMA AnswerTyped ==
  ASSUME LocalsTyped, NEW w \in Actors, NEW answers \in SUBSET SUBSET Group,
         NEW members \in Members(w, answers), NEW marks \in Marks,
         side' = [side EXCEPT ![w] = [marks |-> marks,
                                      readers |-> Resolved(src.side.readers, members)]],
         AskGroup(w, members)
  PROVE  /\ \E s \in Sides : side' = [side EXCEPT ![w] = s]
         /\ groups' \in [Actors -> SUBSET SUBSET Group]
  <1>1. members \in SUBSET Group /\ Resolved(src.side.readers, members) \in Readers
    BY MembersTyped
  <1>2. [marks |-> marks, readers |-> Resolved(src.side.readers, members)] \in Sides
    BY <1>1 DEF Sides
  <1>3. groups \in [Actors -> SUBSET SUBSET Group]
    BY DEF LocalsTyped, SideVarsTyped
  <1>4. groups' \in [Actors -> SUBSET SUBSET Group]
    BY <1>1, <1>3 DEF AskGroup
  <1> QED
    BY <1>2, <1>4

(* Whatever is refused, a sync goes on with some side. *)
LEMMA FetchedSideTyped ==
  ASSUME LocalsTyped, NEW w \in Actors, FetchSide(w)
  PROVE  /\ \E s \in Sides : side' = [side EXCEPT ![w] = s]
         /\ side' \in [Actors -> Sides]
         /\ failures' \in Nat
         /\ SideVarsTyped'
  <1>1. src.side \in Sides /\ src.side.marks \in Marks
    BY MarksTyped DEF LocalsTyped, Source
  <1>2. NoMarks \in Marks /\ {} \in Readers
    BY SyncAssumption DEF Readers
  <1>3. groups \in [Actors -> SUBSET SUBSET Group] /\ since \in SUBSET Marks
    BY DEF LocalsTyped, SideVarsTyped
  <1>4. GroupOf(src.side.readers) \in SUBSET Group
    BY DEF GroupOf
  <1>5. ASSUME SideAnswered(w), UNCHANGED since
        PROVE  (\E s \in Sides : side' = [side EXCEPT ![w] = s]) /\ SideVarsTyped'
    <2>1. PICK members \in Members(w, {GroupOf(src.side.readers)}) :
            /\ side' = [side EXCEPT ![w] = [marks |-> src.side.marks,
                                           readers |-> Resolved(src.side.readers, members)]]
            /\ AskGroup(w, members)
      BY <1>5 DEF SideAnswered
    <2>2. {GroupOf(src.side.readers)} \in SUBSET SUBSET Group
      BY <1>4
    <2>3. /\ \E s \in Sides : side' = [side EXCEPT ![w] = s]
          /\ groups' \in [Actors -> SUBSET SUBSET Group]
      BY <1>1, <2>1, <2>2, AnswerTyped
    <2> QED
      BY <1>3, <1>5, <2>3 DEF SideVarsTyped
  <1>6. ASSUME SideRefused(w)
        PROVE  (\E s \in Sides : side' = [side EXCEPT ![w] = s]) /\ SideVarsTyped'
    <2>1. PICK marks \in {src.side.marks, NoMarks} :
            /\ \/ /\ side' = [side EXCEPT ![w] = [marks |-> marks, readers |-> {}]]
                  /\ UNCHANGED groups
               \/ \E members \in Members(w, SUBSET GroupOf(src.side.readers)) :
                    /\ side' = [side EXCEPT ![w] = [marks |-> marks,
                                   readers |-> Resolved(src.side.readers, members)]]
                    /\ AskGroup(w, members)
            /\ since' = since \cup {marks}
      BY <1>6 DEF SideRefused
    <2>2. marks \in Marks /\ since' \in SUBSET Marks
      BY <1>1, <1>2, <1>3, <2>1
    <2>3. CASE side' = [side EXCEPT ![w] = [marks |-> marks, readers |-> {}]] /\ UNCHANGED groups
      <3>1. [marks |-> marks, readers |-> {}] \in Sides
        BY <1>2, <2>2 DEF Sides
      <3> QED
        BY <1>3, <2>2, <2>3, <3>1 DEF SideVarsTyped
    <2>4. ASSUME NEW members \in Members(w, SUBSET GroupOf(src.side.readers)),
                 side' = [side EXCEPT ![w] = [marks |-> marks,
                                   readers |-> Resolved(src.side.readers, members)]],
                 AskGroup(w, members)
          PROVE  (\E s \in Sides : side' = [side EXCEPT ![w] = s]) /\ SideVarsTyped'
      <3>1. SUBSET GroupOf(src.side.readers) \in SUBSET SUBSET Group
        BY <1>4
      <3>2. /\ \E s \in Sides : side' = [side EXCEPT ![w] = s]
            /\ groups' \in [Actors -> SUBSET SUBSET Group]
        BY <2>2, <2>4, <3>1, AnswerTyped
      <3> QED
        BY <2>2, <3>2 DEF SideVarsTyped
    <2> QED
      BY <2>1, <2>3, <2>4
  <1>7. ASSUME side' = [side EXCEPT ![w] = [marks |-> NoMarks, readers |-> {}]],
               UNCHANGED sideVars
        PROVE  (\E s \in Sides : side' = [side EXCEPT ![w] = s]) /\ SideVarsTyped'
    <2>1. [marks |-> NoMarks, readers |-> {}] \in Sides
      BY <1>2 DEF Sides
    <2> QED
      BY <1>3, <1>7, <2>1 DEF SideVarsTyped, sideVars
  <1>8. (\E s \in Sides : side' = [side EXCEPT ![w] = s]) /\ SideVarsTyped'
    BY <1>5, <1>6, <1>7 DEF FetchSide
  <1>9. failures' \in Nat
    BY DEF FetchSide, LocalsTyped
  <1> QED
    BY <1>8, <1>9 DEF LocalsTyped

(* The cache and the history keep their types, whoever takes a step. *)
LEMMA SideVarsStep == ASSUME LocalsTyped, [Next]_vars PROVE SideVarsTyped'
  <1>1. groups \in [Actors -> SUBSET SUBSET Group] /\ since \in SUBSET Marks
    BY DEF LocalsTyped, SideVarsTyped
  <1>2. src.side.marks \in Marks /\ \A s \in Pages : s.marks \in Marks
    BY MarksTyped DEF LocalsTyped, Source, Pages
  <1>3. CASE UNCHANGED sideVars
    BY <1>1, <1>3 DEF SideVarsTyped, sideVars
  <1>4. CASE Create \/ Relabel
    BY <1>1, <1>2, <1>4 DEF Create, Relabel, SideVarsTyped
  <1>5. CASE Deploy
    BY <1>2, <1>5 DEF Deploy, SideVarsTyped
  <1>6. ASSUME NEW w \in Actors, Fail(w) PROVE SideVarsTyped'
    BY <1>1, <1>6 DEF Fail, SideVarsTyped
  <1>7. ASSUME NEW w \in Actors, FetchSide(w) PROVE SideVarsTyped'
    BY <1>7, FetchedSideTyped
  <1>8. CASE Edit \/ Trash \/ Purge \/ Restore \/ Rollback
    BY <1>3, <1>8 DEF Edit, Trash, Purge, Restore, Rollback
  <1>9. ASSUME NEW w \in Actors,
               BeginSync(w) \/ LoadLocal(w) \/ FetchBody(w) \/ BeginDelete(w) \/ BeginSweep(w)
                 \/ Load(w) \/ LoadRegistry(w) \/ ConfirmGone(w)
        PROVE  UNCHANGED sideVars
    BY <1>9 DEF BeginSync, LoadLocal, FetchBody, BeginDelete, BeginSweep, Load, LoadRegistry,
                ConfirmGone
  <1>10. ASSUME NEW w \in Actors, CommitSync(w) \/ CommitDelete(w) \/ CommitSweep(w) \/ Refused(w)
         PROVE  UNCHANGED sideVars
    BY <1>10 DEF CommitSync, CommitDelete, CommitSweep, Refused
  <1>11. CASE UNCHANGED vars
    BY <1>3, <1>11 DEF vars
  <1> QED
    BY <1>3, <1>4, <1>5, <1>6, <1>7, <1>8, <1>9, <1>10, <1>11 DEF Next, GoOn

LEMMA NoPageTyped == NoPage \in Registry /\ IsNew(NoPage)
  BY SomeSideTyped DEF NoPage, Registry, PageStatuses, IsNew

LEMMA StatusTyped == ASSUME NEW s PROVE MapPageStatus(s) \in PageStatuses
  BY DEF MapPageStatus, PageStatuses

(* A loaded row goes on meaning what it meant. *)
LEMMA SeenKept ==
  ASSUME NEW s, SeenOK(s), KeepsRows
  PROVE  /\ s \in Registry
         /\ IsNew(s) => s = NoPage
         /\ ~IsNew(s) => /\ ~IsNew(ps') /\ docs'[s.active].state # "unused"
                         /\ docs'[s.active].version = s.version
                         /\ docs'[s.active].content = s.content
                         /\ docs'[s.active].cfg = s.cfg
  <1>1. ~IsNew(s) => s.active \in Ids
    BY DEF SeenOK, Registry, IsNew
  <1> QED
    BY <1>1 DEF SeenOK, KeepsRows, Describes, IsNew

(* A row loaded now. *)
LEMMA LoadedOK == ASSUME IndexInv PROVE SeenOK(ps)
  <1>1. ~IsNew(ps) => docs[ps.active].state = "active" /\ Describes(ps, ps.active)
    BY DEF IndexInv, RegistryMatchesLive, Describes
  <1> QED
    BY <1>1 DEF IndexInv, SeenOK, RowsTyped

(* Every write goes through a flush, which writes values of their types.   *)
LEMMA WrittenTyped ==
  ASSUME ps \in Registry, NEW s \in Registry, NEW n \in Registry
  PROVE  Written(s, n) \in Registry
  BY DEF Written, Flushed, Registry

(* A write of a status or a stamp leaves what the row says of its version. *)
LEMMA StampKept ==
  ASSUME NEW s, NEW n, n.active = s.active, n.version = s.version,
         n.content = s.content, n.cfg = s.cfg
  PROVE  /\ Written(s, n).active = ps.active
         /\ Written(s, n).version = ps.version
         /\ Written(s, n).content = ps.content
         /\ Written(s, n).cfg = ps.cfg
  BY DEF Written, Flushed

-----------------------------------------------------------------------------
(* The operations of the index.  Each is shown to touch the rows in a way  *)
(* that IndexInv survives.                                                 *)

(* Nothing but statuses, stamps and visibility changes, and nothing becomes *)
(* visible.                                                                *)
OnlyStamps ==
  /\ ps' \in Registry /\ docs' \in [Ids -> Doc] /\ acl' \in Readers
  /\ ps'.active = ps.active /\ ps'.version = ps.version
  /\ ps'.content = ps.content /\ ps'.cfg = ps.cfg
  /\ \A d \in Ids : /\ docs'[d].state = docs[d].state
                    /\ docs'[d].version = docs[d].version
                    /\ docs'[d].content = docs[d].content
                    /\ docs'[d].cfg = docs[d].cfg
                    /\ docs'[d].visible => docs[d].visible
  /\ IsNew(ps) => ps' = ps

LEMMA StampsKeep == ASSUME IndexInv, OnlyStamps PROVE IndexInv' /\ KeepsRows
  <1>1. RowsTyped'
    BY DEF OnlyStamps, RowsTyped
  <1>2. ServedIsLive'
    BY DEF OnlyStamps, IndexInv, ServedIsLive
  <1>3. ps.active # NoId => ps.active \in Ids
    BY DEF IndexInv, RowsTyped, Registry
  <1>4. RegistryMatchesLive'
    BY <1>3 DEF OnlyStamps, IndexInv, RegistryMatchesLive, IsNew
  <1>5. ActiveIsPointed'
    BY DEF OnlyStamps, IndexInv, ActiveIsPointed
  <1>6. (IsNew(ps) => ps = NoPage)'
    BY DEF OnlyStamps, IndexInv, IsNew, NoPage, SomeSide
  <1>7. KeepsRows
    BY DEF OnlyStamps, KeepsRows, IsNew
  <1> QED
    BY <1>1, <1>2, <1>4, <1>5, <1>6, <1>7 DEF IndexInv

\* A row whose visibility and page status are written over is still a row.
LEMMA HiddenTyped ==
  ASSUME NEW doc \in Doc, NEW status \in PageStatuses
  PROVE  [doc EXCEPT !.visible = FALSE, !.status = status] \in Doc
  BY DEF Doc

\* A row whose metadata hash and page status are written over is still a row.
LEMMA StampedTyped ==
  ASSUME NEW doc \in Doc, NEW sd \in Sides, NEW status \in PageStatuses
  PROVE  [doc EXCEPT !.side = sd, !.status = status] \in Doc
  BY DEF Doc

\* Hiding a page on a load that may be old only stamps its row and keeps the index invariant.
LEMMA DeactivatePageKeeps ==
  ASSUME IndexInv, NEW s, SeenOK(s), NEW status \in PageStatuses,
         DeactivatePage(s, status), acl' = acl
  PROVE  OnlyStamps
  <1>1. CASE IsNew(s)
    <2>1. ps' = ps /\ docs' = docs
      BY <1>1 DEF DeactivatePage
    <2> QED
      BY <2>1 DEF OnlyStamps, IndexInv, RowsTyped
  <1>2. CASE ~IsNew(s)
    <2>1. s \in Registry /\ s.active \in Ids /\ ps \in Registry /\ docs \in [Ids -> Doc]
      BY <1>2 DEF SeenOK, IndexInv, RowsTyped, Registry, IsNew
    <2> DEFINE n == [s EXCEPT !.status = status]
    <2>2. /\ n \in Registry
          /\ n.active = s.active /\ n.version = s.version
          /\ n.content = s.content /\ n.cfg = s.cfg
      BY <2>1 DEF Registry
    <2>3. ps' = Written(s, n)
      BY <1>2 DEF DeactivatePage
    <2> HIDE DEF n
    <2>4. ps' \in Registry
      BY <2>1, <2>2, <2>3, WrittenTyped
    <2>5. docs' = [docs EXCEPT ![s.active] =
                     IF Stored(s.active) THEN [@ EXCEPT !.visible = FALSE, !.status = status] ELSE @]
      BY <1>2 DEF DeactivatePage
    <2>6. docs' \in [Ids -> Doc]
      <3>1. PICK o : o = IF Stored(s.active) THEN [docs[s.active] EXCEPT !.visible = FALSE, !.status = status]
                         ELSE docs[s.active]
        OBVIOUS
      <3>2. o \in Doc
        BY <2>1, <3>1, HiddenTyped
      <3> QED
        BY <2>1, <2>5, <3>1, <3>2
    <2>7. \A d \in Ids : /\ docs'[d].state = docs[d].state
                         /\ docs'[d].version = docs[d].version
                         /\ docs'[d].content = docs[d].content
                         /\ docs'[d].cfg = docs[d].cfg
      BY <2>1, <2>5 DEF Doc
    <2>8. \A d \in Ids : docs'[d].visible => docs[d].visible
      BY <2>1, <2>5 DEF Doc
    <2>9. /\ ps'.active = ps.active /\ ps'.version = ps.version
          /\ ps'.content = ps.content /\ ps'.cfg = ps.cfg
      BY <2>2, <2>3, StampKept
    <2>10. ~IsNew(ps)
      BY <1>2 DEF SeenOK
    <2> QED
      BY <2>4, <2>6, <2>7, <2>8, <2>9, <2>10 DEF OnlyStamps, IndexInv, RowsTyped
  <1> QED
    BY <1>1, <1>2

LEMMA ApplyMetadataOnlyKeeps ==
  ASSUME IndexInv, NEW s, SeenOK(s), NEW sd \in Sides, NEW status \in PageStatuses,
         ApplyMetadataOnly(s, sd, status), acl' \in Readers
  PROVE  OnlyStamps
  <1>1. CASE IsNew(s)
    <2>1. ps' = ps /\ docs' = docs
      BY <1>1 DEF ApplyMetadataOnly
    <2> QED
      BY <2>1 DEF OnlyStamps, IndexInv, RowsTyped
  <1>2. CASE ~IsNew(s)
    <2>1. s \in Registry /\ s.active \in Ids /\ ps \in Registry /\ docs \in [Ids -> Doc]
      BY <1>2 DEF SeenOK, IndexInv, RowsTyped, Registry, IsNew
    <2> DEFINE n == [s EXCEPT !.side = sd, !.status = status]
    <2>2. /\ n \in Registry
          /\ n.active = s.active /\ n.version = s.version
          /\ n.content = s.content /\ n.cfg = s.cfg
      BY <2>1 DEF Registry
    <2>3. ps' = Written(s, n)
      BY <1>2 DEF ApplyMetadataOnly
    <2> HIDE DEF n
    <2>4. ps' \in Registry
      BY <2>1, <2>2, <2>3, WrittenTyped
    <2>5. docs' = [docs EXCEPT ![s.active] =
                     IF Stored(s.active) THEN [@ EXCEPT !.side = sd, !.status = status] ELSE @]
      BY <1>2 DEF ApplyMetadataOnly
    <2>6. docs' \in [Ids -> Doc]
      <3>1. PICK o : o = IF Stored(s.active) THEN [docs[s.active] EXCEPT !.side = sd, !.status = status]
                         ELSE docs[s.active]
        OBVIOUS
      <3>2. o \in Doc
        BY <2>1, <3>1, StampedTyped
      <3> QED
        BY <2>1, <2>5, <3>1, <3>2
    <2>7. \A d \in Ids : /\ docs'[d].state = docs[d].state
                         /\ docs'[d].version = docs[d].version
                         /\ docs'[d].content = docs[d].content
                         /\ docs'[d].cfg = docs[d].cfg
      BY <2>1, <2>5 DEF Doc
    <2>8. \A d \in Ids : docs'[d].visible => docs[d].visible
      BY <2>1, <2>5 DEF Doc
    <2>9. /\ ps'.active = ps.active /\ ps'.version = ps.version
          /\ ps'.content = ps.content /\ ps'.cfg = ps.cfg
      BY <2>2, <2>3, StampKept
    <2>10. ~IsNew(ps)
      BY <1>2 DEF SeenOK
    <2> QED
      BY <2>4, <2>6, <2>7, <2>8, <2>9, <2>10 DEF OnlyStamps, IndexInv, RowsTyped
  <1> QED
    BY <1>1, <1>2

(* A rebuild.  What makes its flush exact: if the table has a version that *)
(* is active, the constraint admits the rebuild only from a row that loaded *)
(* that very version.                                                      *)
LEMMA LoadedAgrees ==
  ASSUME IndexInv, NEW s, SeenOK(s), NEW v, NEW c, MayActivate(s, v, c)
  PROVE  s.active = ps.active /\ s.version = ps.version /\ s.content = ps.content /\ s.cfg = ps.cfg
  <1>1. CASE IsNew(s)
    <2>1. IsNew(ps)
      BY <1>1 DEF MayActivate, PageIsNew
    <2> QED
      BY <1>1, <2>1 DEF IndexInv, SeenOK
  <1>2. CASE ~IsNew(s)
    <2>1. ~IsNew(ps)
      BY <1>2 DEF SeenOK
    <2>2. ps.active \in Ids /\ docs[ps.active].state = "active" /\ Describes(ps, ps.active)
      BY <2>1 DEF IndexInv, RowsTyped, Registry, RegistryMatchesLive, Describes, IsNew
    <2>3. s.active = ps.active
      BY <2>2 DEF MayActivate, OneActive
    <2> QED
      BY <1>2, <2>2, <2>3 DEF SeenOK, Describes
  <1> QED
    BY <1>1, <1>2

(* The three ways a version's row is rewritten. *)
LEMMA RowTyped ==
  ASSUME NEW o \in Doc, NEW st \in DocStates, NEW vis \in BOOLEAN
  PROVE  LET o2 == [o EXCEPT !.state = st, !.visible = vis] IN
           /\ o2 \in Doc /\ o2.state = st /\ o2.visible = vis
           /\ o2.version = o.version /\ o2.content = o.content /\ o2.cfg = o.cfg
  <1> DEFINE o1 == [o EXCEPT !.state = st]
  <1>1. /\ o1 \in Doc /\ o1.state = st
        /\ o1.version = o.version /\ o1.content = o.content /\ o1.cfg = o.cfg
    BY DEF Doc
  <1> HIDE DEF o1
  <1>2. LET o2 == [o1 EXCEPT !.visible = vis] IN
          /\ o2 \in Doc /\ o2.state = o1.state /\ o2.visible = vis
          /\ o2.version = o1.version /\ o2.content = o1.content /\ o2.cfg = o1.cfg
    BY <1>1 DEF Doc
  <1> QED
    BY <1>1, <1>2 DEF o1

LEMMA CollectedRow ==
  ASSUME NEW o \in Doc, NEW k, k = o \/ k = [o EXCEPT !.state = "deleted", !.visible = FALSE]
  PROVE  /\ k \in Doc
         /\ k.version = o.version /\ k.content = o.content /\ k.cfg = o.cfg
         /\ k.state = "unused" => o.state = "unused"
         /\ k.state = "active" => o.state = "active"
         /\ k.visible => o.visible
  <1>1. CASE k = o
    BY <1>1
  <1>2. CASE k = [o EXCEPT !.state = "deleted", !.visible = FALSE]
    <2>1. "deleted" \in DocStates /\ FALSE \in BOOLEAN
      BY DEF DocStates
    <2>2. /\ k \in Doc /\ k.state = "deleted" /\ k.visible = FALSE
          /\ k.version = o.version /\ k.content = o.content /\ k.cfg = o.cfg
      BY <1>2, <2>1, RowTyped
    <2> QED
      BY <2>2
  <1> QED
    BY <1>1, <1>2

LEMMA StageAndActivateKeeps ==
  ASSUME IndexInv, NEW s, SeenOK(s), NEW v \in Nat, NEW x \in Nat, NEW c \in Configs,
         NEW sd \in Sides, NEW status \in PageStatuses,
         MayActivate(s, v, c), StageAndActivate(s, v, x, c, sd, status), acl' \in Readers
  PROVE  IndexInv' /\ KeepsRows
  <1> DEFINE new == [state |-> "active", version |-> v, content |-> x, cfg |-> c,
                     side |-> sd, files |-> sd.marks, status |-> status, visible |-> TRUE]
             row == [active |-> FreshId, version |-> v, content |-> x, cfg |-> c,
                     side |-> sd, status |-> status]
             window == Window(WithRetired(s.active))
             InWindow(d) == \E k \in 1..Len(window) : window[k] = d
             Old(d) == IF d = s.active /\ Stored(d) THEN Superseded(docs[d]) ELSE docs[d]
             Kept(d) == IF Old(d).state = "superseded" /\ ~InWindow(d)
                        THEN [Old(d) EXCEPT !.state = "deleted", !.visible = FALSE]
                        ELSE Old(d)
  <1>1. /\ Unused # {}
        /\ docs' = [d \in Ids |-> IF d = FreshId THEN new ELSE Kept(d)]
        /\ ps' = Written(s, row)
    BY DEF StageAndActivate
  <1>2. /\ FreshId \in Ids /\ docs[FreshId].state = "unused"
        /\ FreshId # NoId
    BY <1>1, IndexAssumption DEF FreshId, Unused
  <1>3. docs \in [Ids -> Doc] /\ ps \in Registry /\ s \in Registry
    BY DEF IndexInv, RowsTyped, SeenOK
  <1>4. new \in Doc /\ row \in Registry
    BY <1>2, MarksTyped DEF Doc, DocStates, Registry
  <1>5. /\ s.active = ps.active /\ s.version = ps.version
        /\ s.content = ps.content /\ s.cfg = ps.cfg
    BY LoadedAgrees
  <1> HIDE DEF window
  <1>6. ASSUME NEW d \in Ids
        PROVE  /\ Old(d) \in Doc
               /\ Old(d).version = docs[d].version /\ Old(d).content = docs[d].content
               /\ Old(d).cfg = docs[d].cfg
               /\ Old(d).state # docs[d].state => Old(d).state = "superseded"
               /\ Old(d).state = "active" => d # s.active
               /\ Old(d).visible => docs[d].visible /\ ~(d = s.active /\ Stored(d))
    BY <1>3 DEF Superseded, Doc, DocStates, Stored
  <1>7. ASSUME NEW d \in Ids
        PROVE  /\ Kept(d) \in Doc
               /\ Kept(d).version = Old(d).version /\ Kept(d).content = Old(d).content
               /\ Kept(d).cfg = Old(d).cfg
               /\ Kept(d).state = "unused" => Old(d).state = "unused"
               /\ Kept(d).state = "active" => Old(d).state = "active"
               /\ Kept(d).visible => Old(d).visible
    <2> HIDE DEF Old, InWindow
    <2>1. Old(d) \in Doc
      BY <1>6
    <2>2. Kept(d) = Old(d)
            \/ Kept(d) = [Old(d) EXCEPT !.state = "deleted", !.visible = FALSE]
      OBVIOUS
    <2> HIDE DEF Kept
    <2> QED
      BY <2>1, <2>2, CollectedRow
  <1> HIDE DEF Old, Kept, InWindow, new, row
  <1>8. docs' \in [Ids -> Doc]
    BY <1>1, <1>4, <1>7
  <1>9. ps' \in Registry
    BY <1>1, <1>3, <1>4, WrittenTyped
  <1>10. docs'[FreshId] = new /\ \A d \in Ids : d # FreshId => docs'[d] = Kept(d)
    BY <1>1, <1>2
  <1>11. ps'.active = FreshId /\ ps'.version = v /\ ps'.content = x /\ ps'.cfg = c
    <2>1. s.active # FreshId
      BY <1>2 DEF SeenOK, IsNew
    <2> QED
      BY <1>1, <1>5, <2>1 DEF Written, Flushed, row
  <1>12. \A d \in Ids : d # FreshId => ~docs'[d].visible /\ docs'[d].state # "active"
    <2> SUFFICES ASSUME NEW d \in Ids, d # FreshId
                 PROVE  ~Kept(d).visible /\ Kept(d).state # "active"
      BY <1>10
    <2>1. docs[d].state = "active" => d = s.active
      BY <1>5 DEF IndexInv, ActiveIsPointed
    <2>2. docs[d].visible => docs[d].state = "active" /\ d = s.active
      BY <1>5 DEF IndexInv, ServedIsLive
    <2>3. docs[d].visible => Stored(d)
      BY <2>2 DEF Stored
    <2>4. ~Old(d).visible
      BY <1>6, <2>2, <2>3
    <2>5. Old(d).state # "active"
      BY <1>6, <2>1
    <2> QED
      BY <1>7, <2>4, <2>5
  <1>13. RowsTyped'
    BY <1>8, <1>9 DEF RowsTyped
  <1>14. ServedIsLive'
    BY <1>10, <1>11, <1>12 DEF ServedIsLive, new
  <1>15. RegistryMatchesLive'
    BY <1>10, <1>11 DEF RegistryMatchesLive, new
  <1>16. ActiveIsPointed'
    BY <1>11, <1>12 DEF ActiveIsPointed
  <1>17. ~IsNew(ps')
    BY <1>2, <1>11 DEF IsNew
  <1>18. KeepsRows
    BY <1>2, <1>6, <1>7, <1>10, <1>11 DEF KeepsRows
  <1> QED
    BY <1>13, <1>14, <1>15, <1>16, <1>17, <1>18 DEF IndexInv, IsNew

LEMMA RollbackToKeeps ==
  ASSUME IndexInv, NEW i \in Ids, RollbackTo(i)
  PROVE  IndexInv' /\ KeepsRows
  <1>1. docs \in [Ids -> Doc] /\ ps \in Registry /\ ps.active \in Ids
    BY DEF IndexInv, RowsTyped, Registry, RollbackTo, IsNew
  <1>2. docs' = [d \in Ids |->
                   IF d = i THEN [docs[d] EXCEPT !.state = "active", !.visible = TRUE]
                   ELSE IF d = ps.active THEN Superseded(docs[d]) ELSE docs[d]]
    BY DEF RollbackTo
  <1>3. ps' = [ps EXCEPT !.active = i, !.version = docs[i].version, !.content = docs[i].content,
                         !.cfg = docs[i].cfg]
    BY DEF RollbackTo
  <1>4. docs' \in [Ids -> Doc]
    <2> SUFFICES ASSUME NEW d \in Ids PROVE docs'[d] \in Doc
      BY <1>2
    <2>1. docs[d] \in Doc
      BY <1>1
    <2>2. [docs[d] EXCEPT !.state = "active", !.visible = TRUE] \in Doc
      BY <2>1, RowTyped DEF DocStates
    <2>3. Superseded(docs[d]) \in Doc
      BY <2>1, RowTyped DEF DocStates, Superseded
    <2> QED
      BY <1>2, <2>1, <2>2, <2>3
  <1>5. ps' \in Registry /\ ps'.active = i /\ ps'.version = docs[i].version
        /\ ps'.content = docs[i].content /\ ps'.cfg = docs[i].cfg
    BY <1>1, <1>3 DEF Registry, Doc
  <1>6. /\ docs'[i].state = "active"
        /\ \A d \in Ids : /\ docs'[d].version = docs[d].version
                          /\ docs'[d].content = docs[d].content
                          /\ docs'[d].cfg = docs[d].cfg
                          /\ docs[d].state # "unused" => docs'[d].state # "unused"
    BY <1>1, <1>2 DEF Doc, Superseded
  <1>7. ASSUME NEW d \in Ids, d # i
        PROVE  ~docs'[d].visible /\ docs'[d].state # "active"
    <2>1. CASE d = ps.active
      BY <1>1, <1>2, <1>7, <2>1 DEF Doc, Superseded
    <2>2. CASE d # ps.active
      <3>1. docs'[d] = docs[d]
        BY <1>2, <1>7, <2>2
      <3> QED
        BY <2>2, <3>1 DEF IndexInv, ServedIsLive, ActiveIsPointed
    <2> QED
      BY <2>1, <2>2
  <1>8. RowsTyped'
    BY <1>4, <1>5 DEF RowsTyped, RollbackTo, IndexInv
  <1>9. ServedIsLive'
    BY <1>5, <1>6, <1>7 DEF ServedIsLive
  <1>10. RegistryMatchesLive'
    BY <1>5, <1>6 DEF RegistryMatchesLive
  <1>11. ActiveIsPointed'
    BY <1>5, <1>7 DEF ActiveIsPointed
  <1>12. i # NoId
    BY IndexAssumption
  <1>13. KeepsRows
    BY <1>5, <1>6, <1>12 DEF KeepsRows
  <1> QED
    BY <1>5, <1>8, <1>9, <1>10, <1>11, <1>12, <1>13 DEF IndexInv, IsNew
-----------------------------------------------------------------------------
(* The steps of the actors.                                                *)

LEMMA InitIInv == ASSUME Init PROVE IInv
  <1>1. NoPage \in Registry /\ IsNew(NoPage) /\ SomeSide \in Sides
    BY NoPageTyped, SomeSideTyped
  <1>2. NoDoc \in Doc /\ NoDoc.state = "unused" /\ NoDoc.visible = FALSE
    BY <1>1, MarksTyped DEF NoDoc, Doc, DocStates, PageStatuses
  <1>3. NoMeta \in Source /\ src \in Source
    BY <1>1 DEF NoMeta, Source, Init
  <1>4. RowsTyped
    BY <1>1, <1>2, SomeSideTyped DEF Init, IndexInit, RowsTyped
  <1>5. ServedIsLive /\ ActiveIsPointed
    BY <1>2 DEF Init, IndexInit, ServedIsLive, ActiveIsPointed
  <1>6. IsNew(ps) /\ ps = NoPage
    BY <1>1 DEF Init, IndexInit
  <1>7. LocalsTyped
    <2>1. SideVarsTyped
      BY DEF Init, SideVarsTyped
    <2> QED
      BY <1>1, <1>3, <2>1, SyncAssumption DEF Init, LocalsTyped, Steps, Kinds
  <1>8. ASSUME NEW w \in Actors PROVE SeenOK(seen[w])
    <2>1. seen[w] = NoPage
      BY DEF Init
    <2> QED
      BY <1>1, <2>1 DEF SeenOK
  <1> QED
    BY <1>4, <1>5, <1>6, <1>7, <1>8 DEF IInv, IndexInv, RegistryMatchesLive

(* What a step may leave an actor with: its row, the table's row as it is, *)
(* or none.                                                                *)
SeenStep ==
  \A w \in Actors : \/ seen'[w] = seen[w]
                    \/ seen'[w] = NoPage
                    \/ seen'[w] = ps /\ UNCHANGED <<ps, docs>>

LEMMA SeenStepKeeps ==
  ASSUME IInv, KeepsRows, SeenStep, NEW w \in Actors
  PROVE  SeenOK(seen[w])'
  <1>1. SeenOK(seen[w])
    BY DEF IInv
  <1>2. CASE seen'[w] = seen[w]
    BY <1>1, <1>2, SeenKept DEF SeenOK, Describes
  <1>3. CASE seen'[w] = NoPage
    BY <1>3, NoPageTyped DEF SeenOK
  <1>4. CASE seen'[w] = ps /\ UNCHANGED <<ps, docs>>
    <2>1. SeenOK(ps)
      BY LoadedOK DEF IInv
    <2> QED
      BY <1>4, <2>1 DEF SeenOK, Describes, IsNew
  <1> QED
    BY <1>2, <1>3, <1>4 DEF SeenStep

LEMMA StillKeeps ==
  ASSUME IndexInv, UNCHANGED <<ps, docs, acl>> PROVE IndexInv' /\ KeepsRows
  BY StampsKeep DEF OnlyStamps, IndexInv, RowsTyped

LEMMA ResetKeeps ==
  ASSUME NEW w \in Actors, Reset(w), LocalsTyped
  PROVE  /\ pc' \in [Actors -> Steps] /\ kind' \in [Actors -> Kinds]
         /\ meta' \in [Actors -> Source] /\ local' \in [Actors -> Registry]
         /\ side' \in [Actors -> Sides] /\ body' \in [Actors -> Nat]
         /\ seen' \in [Actors -> Registry] /\ SeenStep
  <1>1. NoMeta \in Source /\ NoPage \in Registry /\ SomeSide \in Sides
    BY SomeSideTyped, NoPageTyped DEF NoMeta, Source
  <1>2. pc' \in [Actors -> Steps] /\ kind' \in [Actors -> Kinds]
    BY DEF LocalsTyped, Reset, Steps, Kinds
  <1>3. meta' \in [Actors -> Source] /\ local' \in [Actors -> Registry]
    BY <1>1 DEF LocalsTyped, Reset
  <1>4. side' \in [Actors -> Sides] /\ body' \in [Actors -> Nat]
    BY <1>1 DEF LocalsTyped, Reset
  <1>5. seen' \in [Actors -> Registry]
    BY <1>1 DEF LocalsTyped, Reset
  <1>6. SeenStep
    BY DEF LocalsTyped, Reset, SeenStep
  <1> QED
    BY <1>2, <1>3, <1>4, <1>5, <1>6

(* What CommitSync does to the index. *)
LEMMA CommitSyncKeeps ==
  ASSUME IInv, NEW w \in Actors, CommitSync(w)
  PROVE  IndexInv' /\ KeepsRows
  <1>1. /\ IndexInv /\ SeenOK(seen[w]) /\ acl \in Readers
        /\ side[w] \in Sides /\ body[w] \in Nat /\ meta[w].version \in Nat
        /\ target \in Configs
    BY DEF IInv, LocalsTyped, Source, IndexInv, RowsTyped
  <1>2. "deleted" \in PageStatuses /\ MapPageStatus(meta[w].status) \in PageStatuses
    BY StatusTyped DEF PageStatuses
  <1>3. ASSUME NEW status \in PageStatuses, DeactivatePage(seen[w], status), UNCHANGED acl
        PROVE  IndexInv' /\ KeepsRows
    BY <1>1, <1>3, DeactivatePageKeeps, StampsKeep
  <1>4. ASSUME ReplaceRestrictions(w) PROVE acl' \in Readers
    BY <1>1, <1>4, ReadersTyped DEF ReplaceRestrictions
  <1>5. ASSUME MayActivate(seen[w], meta[w].version, target),
               StageAndActivate(seen[w], meta[w].version, body[w], target, side[w],
                                MapPageStatus(meta[w].status)),
               ReplaceRestrictions(w)
        PROVE  IndexInv' /\ KeepsRows
    BY <1>1, <1>2, <1>4, <1>5, StageAndActivateKeeps
  <1>6. ASSUME ApplyMetadataOnly(seen[w], side[w], MapPageStatus(meta[w].status)),
               ReplaceRestrictions(w)
        PROVE  IndexInv' /\ KeepsRows
    BY <1>1, <1>2, <1>4, <1>6, ApplyMetadataOnlyKeeps, StampsKeep
  <1>7. ASSUME UNCHANGED indexVars PROVE IndexInv' /\ KeepsRows
    BY <1>1, <1>7, StillKeeps DEF indexVars
  <1> HIDE DEF DeactivatePage, StageAndActivate, ApplyMetadataOnly, MayActivate,
               ReplaceRestrictions, Action
  <1> QED
    BY <1>2, <1>3, <1>5, <1>6, <1>7 DEF CommitSync

LEMMA FlushKeeps ==
  ASSUME IInv, NEW w \in Actors, NEW status \in PageStatuses,
         DeactivatePage(seen[w], status), UNCHANGED acl
  PROVE  IndexInv' /\ KeepsRows
  BY DeactivatePageKeeps, StampsKeep DEF IInv

LEMMA StepIInv == ASSUME IInv, [Next]_vars PROVE IInv'
  <1> USE DEF IInv
  <1>1. ASSUME IndexInv', KeepsRows, SeenStep, LocalsTyped' PROVE IInv'
    <2>1. ASSUME NEW w \in Actors PROVE SeenOK(seen[w])'
      BY <1>1, <2>1, SeenStepKeeps
    <2> QED
      BY <1>1, <2>1
  <1>2. ASSUME UNCHANGED <<ps, docs, acl>>, SeenStep, LocalsTyped' PROVE IInv'
    BY <1>1, <1>2, StillKeeps
  <1>3. ASSUME UNCHANGED seen PROVE SeenStep
    BY <1>3 DEF SeenStep
  <1>4. LocalsTyped /\ SideVarsTyped'
    BY SideVarsStep
  <1> USE <1>4
  <1>5. NoPage \in Registry /\ NoMeta \in Source /\ SomeSide \in Sides
    BY NoPageTyped, SomeSideTyped DEF NoMeta, Source
  <1>6. CASE Create \/ Edit \/ Relabel \/ Trash \/ Purge \/ Restore
    <2>1. UNCHANGED <<ps, docs, acl, target, pc, kind, meta, local, side, body, seen,
                      failures, rollbacks>>
      BY <1>6 DEF Create, Edit, Relabel, Trash, Purge, Restore, indexVars, actorVars, countVars
    <2>2. src \in Source /\ changes \in Nat /\ deletes \in Nat
      BY DEF LocalsTyped
    <2>3. src' \in Source
      <3>1. CASE Edit
        <4>1. PICK c \in {src.content, src.version + 1} :
                src' = [src EXCEPT !.version = @ + 1, !.content = c]
          BY <3>1 DEF Edit
        <4>2. src.version + 1 \in Nat /\ c \in Nat
          BY <2>2, <4>1 DEF Source
        <4> QED
          BY <2>2, <4>1, <4>2 DEF Source
      <3>2. CASE Relabel
        BY <2>2, <3>2 DEF Relabel, Source, Pages
      <3>3. CASE Create
        BY <3>3 DEF Create, Source, Pages
      <3>4. CASE Trash \/ Purge \/ Restore
        BY <2>2, <3>4 DEF Trash, Purge, Restore, Source
      <3> QED
        BY <1>6, <3>1, <3>2, <3>3, <3>4
    <2>4. changes' \in Nat /\ deletes' \in Nat
      BY <1>6, <2>2 DEF Create, Edit, Relabel, Trash, Purge, Restore, Change
    <2>5. LocalsTyped'
      BY <2>1, <2>3, <2>4 DEF LocalsTyped
    <2> QED
      BY <1>2, <1>3, <2>1, <2>5
  <1>7. CASE Deploy
    <2>1. UNCHANGED <<ps, docs, acl, src, deletes, failures, rollbacks>>
      BY <1>7 DEF Deploy, indexVars, countVars
    <2>2. LocalsTyped'
      BY <1>5, <1>7, <2>1 DEF Deploy, Change, LocalsTyped, Steps, Kinds
    <2>3. SeenStep
      BY <1>7 DEF Deploy, SeenStep
    <2> QED
      BY <1>2, <2>1, <2>2, <2>3
  <1>8. CASE Rollback
    <2>1. IndexInv' /\ KeepsRows
      BY <1>8, RollbackToKeeps DEF Rollback
    <2>2. LocalsTyped'
      BY <1>8 DEF Rollback, LocalsTyped, sourceVars, actorVars
    <2>3. UNCHANGED seen
      BY <1>8 DEF Rollback, actorVars
    <2> QED
      BY <1>1, <1>3, <2>1, <2>2, <2>3
  <1>9. ASSUME NEW w \in Actors,
               BeginSync(w) \/ LoadLocal(w) \/ FetchSide(w) \/ FetchBody(w) \/ BeginDelete(w)
                 \/ BeginSweep(w)
        PROVE  IInv'
    <2>1. UNCHANGED <<ps, docs, acl, src, target, changes, seen, deletes, rollbacks>>
      BY <1>9 DEF BeginSync, LoadLocal, FetchSide, FetchBody, BeginDelete, BeginSweep,
                  indexVars, sourceVars, countVars
    <2>2. src \in Source /\ src.side \in Sides /\ src.content \in Nat /\ ps \in Registry
      BY DEF LocalsTyped, Source, IndexInv, RowsTyped
    <2>3. pc' \in [Actors -> Steps] /\ kind' \in [Actors -> Kinds]
      BY <1>9 DEF BeginSync, LoadLocal, FetchSide, FetchBody, BeginDelete, BeginSweep,
                  LocalsTyped, Steps, Kinds
    <2>4. meta' \in [Actors -> Source] /\ local' \in [Actors -> Registry]
      BY <1>9, <2>2 DEF BeginSync, LoadLocal, FetchSide, FetchBody, BeginDelete, BeginSweep,
                  LocalsTyped, readVars
    <2>5. /\ side' \in [Actors -> Sides] /\ body' \in [Actors -> Nat]
          /\ failures' \in Nat
      <3>1. CASE FetchSide(w)
        BY <3>1, FetchedSideTyped DEF FetchSide, LocalsTyped
      <3>2. CASE BeginSync(w) \/ LoadLocal(w) \/ FetchBody(w) \/ BeginDelete(w) \/ BeginSweep(w)
        BY <3>2, <2>2 DEF BeginSync, LoadLocal, FetchBody, BeginDelete, BeginSweep,
                          LocalsTyped, readVars, countVars
      <3> QED
        BY <1>9, <3>1, <3>2
    <2>6. LocalsTyped'
      BY <2>1, <2>3, <2>4, <2>5 DEF LocalsTyped
    <2> QED
      BY <1>2, <1>3, <2>1, <2>6
  <1>10. ASSUME NEW w \in Actors, Load(w) PROVE IInv'
    <2>1. UNCHANGED <<ps, docs, acl>> /\ seen' = [seen EXCEPT ![w] = ps] /\ ps \in Registry
      BY <1>10 DEF Load, indexVars, IndexInv, RowsTyped
    <2>2. LocalsTyped'
      BY <1>10, <2>1 DEF Load, LocalsTyped, Steps, sourceVars, readVars, countVars
    <2>3. SeenStep
      BY <2>1 DEF SeenStep, LocalsTyped
    <2> QED
      BY <1>2, <2>1, <2>2, <2>3
  <1>11. ASSUME NEW w \in Actors, LoadRegistry(w) PROVE IInv'
    <2>1. UNCHANGED <<ps, docs, acl, src, target, changes, deletes, failures, rollbacks>>
          /\ ps \in Registry
      BY <1>11 DEF LoadRegistry, indexVars, sourceVars, countVars, IndexInv, RowsTyped
    <2>2. CASE Reset(w)
      BY <1>2, <2>1, <2>2, ResetKeeps DEF LocalsTyped
    <2>3. CASE /\ pc' \in {[pc EXCEPT ![w] = "commit"], [pc EXCEPT ![w] = "confirm"]}
               /\ seen' = [seen EXCEPT ![w] = ps]
               /\ UNCHANGED <<kind, readVars>>
      <3>1. LocalsTyped'
        BY <2>1, <2>3 DEF LocalsTyped, Steps, readVars
      <3>2. SeenStep
        BY <2>1, <2>3 DEF SeenStep, LocalsTyped
      <3> QED
        BY <1>2, <2>1, <3>1, <3>2
    <2> QED
      BY <1>11, <2>2, <2>3 DEF LoadRegistry
  <1>12. ASSUME NEW w \in Actors, ConfirmGone(w) PROVE IInv'
    <2>1. UNCHANGED <<ps, docs, acl, src, target, changes, deletes, failures, rollbacks>>
      BY <1>12 DEF ConfirmGone, indexVars, sourceVars, countVars
    <2>2. CASE Reset(w)
      BY <1>2, <2>1, <2>2, ResetKeeps DEF LocalsTyped
    <2>3. CASE pc' = [pc EXCEPT ![w] = "commit"] /\ UNCHANGED <<kind, readVars, seen>>
      BY <1>2, <1>3, <2>1, <2>3 DEF LocalsTyped, Steps, readVars
    <2> QED
      BY <1>12, <2>2, <2>3 DEF ConfirmGone
  <1>13. ASSUME NEW w \in Actors, CommitSync(w) PROVE IInv'
    <2>1. Reset(w) /\ UNCHANGED <<src, target, changes, deletes, failures, rollbacks>>
      BY <1>13 DEF CommitSync, sourceVars, countVars
    <2> QED
      BY <1>1, <1>13, <2>1, CommitSyncKeeps, ResetKeeps DEF LocalsTyped
  <1>14. ASSUME NEW w \in Actors, CommitDelete(w) PROVE IInv'
    <2>1. Reset(w) /\ UNCHANGED <<src, target, changes, failures, rollbacks>>
      BY <1>14 DEF CommitDelete, sourceVars, countVars
    <2>2. deletes' \in Nat
      BY <1>14 DEF CommitDelete, LocalsTyped
    <2>3. IndexInv' /\ KeepsRows
      BY <1>14, FlushKeeps DEF CommitDelete, PageStatuses
    <2> QED
      BY <1>1, <2>1, <2>2, <2>3, ResetKeeps DEF LocalsTyped
  <1>15. ASSUME NEW w \in Actors, CommitSweep(w) PROVE IInv'
    <2>1. Reset(w) /\ UNCHANGED <<src, target, changes, deletes, failures, rollbacks>>
      BY <1>15 DEF CommitSweep, sourceVars, countVars
    <2>2. IndexInv' /\ KeepsRows
      BY <1>15, FlushKeeps DEF CommitSweep, PageStatuses
    <2> QED
      BY <1>1, <2>1, <2>2, ResetKeeps DEF LocalsTyped
  <1>16. ASSUME NEW w \in Actors, Refused(w) \/ Fail(w) PROVE IInv'
    <2>1. Reset(w) /\ UNCHANGED <<ps, docs, acl, src, target, changes, deletes, rollbacks>>
          /\ failures' \in Nat
      BY <1>16 DEF Refused, Fail, indexVars, sourceVars, countVars, LocalsTyped
    <2> QED
      BY <1>2, <2>1, ResetKeeps DEF LocalsTyped
  <1>17. CASE UNCHANGED vars
    BY <1>2, <1>3, <1>17
       DEF vars, indexVars, sourceVars, actorVars, countVars, LocalsTyped
  <1> QED
    BY <1>6, <1>7, <1>8, <1>9, <1>10, <1>11, <1>12, <1>13, <1>14, <1>15, <1>16, <1>17
       DEF Next, GoOn

-----------------------------------------------------------------------------
LEMMA Invariance == Spec => []IInv
  <1>1. Init => IInv
    BY InitIInv
  <1>2. IInv /\ [Next]_vars => IInv'
    BY StepIInv
  <1> QED
    BY <1>1, <1>2, PTL DEF Spec

(* However stale the row a worker or a sweep writes with, chunks are in the *)
(* live index only if the registry points to their version: two versions of *)
(* a page are never served together (versioning.py, _activate).            *)
THEOREM OneVersionServed == Spec => []ServedIsLive
  <1>1. IInv => ServedIsLive
    BY DEF IInv, IndexInv
  <1> QED
    BY <1>1, Invariance, PTL

(* However stale the row it was written from, the registry's version,      *)
(* content and configuration are those of the version it points to: a flush *)
(* that skips an unchanged column never leaves another writer's value in it *)
(* (versioning.py, _activate, rollback_to).                                *)
THEOREM RegistryDescribesIndex == Spec => []RegistryMatchesLive
  <1>1. IInv => RegistryMatchesLive
    BY DEF IInv, IndexInv
  <1> QED
    BY <1>1, Invariance, PTL

-----------------------------------------------------------------------------
(* The order of the retired versions, and the window that is kept of it.    *)

(* The sequence s has each member of S, once. *)
Lists(s, S) ==
  /\ s \in Seq(S)
  /\ \A i, j \in 1..Len(s) : s[i] = s[j] => i = j
  /\ \A d \in S : \E i \in 1..Len(s) : s[i] = d

LEMMA ListsLen == ASSUME NEW S, NEW s, Lists(s, S) PROVE Len(s) = Cardinality(S)
  <1>1. s \in [1..Len(s) -> S] /\ Len(s) \in Nat
    BY LenProperties DEF Lists
  <1> DEFINE D == 1..Len(s)
  <1>2. /\ \A i, j \in D : s[i] = s[j] => i = j
        /\ \A d \in S : \E i \in D : s[i] = d
        /\ s \in [D -> S]
    BY <1>1 DEF Lists
  <1> HIDE DEF D
  <1>3. s \in Bijection(D, S)
    BY <1>2 DEF Bijection, Injection, Surjection, IsInjective
  <1>4. s \in Bijection(1..Len(s), S)
    BY <1>3 DEF D
  <1>5. ExistsBijection(1..Len(s), S)
    BY <1>4 DEF ExistsBijection
  <1> QED
    BY <1>1, <1>5, FS_CountingElements

LEMMA WithoutLists ==
  ASSUME NEW S, NEW s, Lists(s, S), NEW d
  PROVE  Lists(Without(s, d), S \ {d})
  <1>1. Len(s) \in Nat /\ s \in Seq(S) /\ \A i \in 1..Len(s) : s[i] \in S
    BY LenProperties, ElementOfSeq DEF Lists
  <1>2. CASE ~\E k \in 1..Len(s) : s[k] = d
    <2>1. Without(s, d) = s /\ S \ {d} = S
      BY <1>2 DEF Without, Lists
    <2> QED
      BY <2>1
  <1>3. CASE \E k \in 1..Len(s) : s[k] = d
    <2> DEFINE p == CHOOSE j \in 1..Len(s) : s[j] = d
               a == SubSeq(s, 1, p - 1)
               b == SubSeq(s, p + 1, Len(s))
               R == S \ {d}
    <2>1. p \in 1..Len(s) /\ s[p] = d
      BY <1>3
    <2>2. Without(s, d) = a \o b
      BY <1>3 DEF Without
    <2> HIDE DEF p
    <2>3. \A i \in 1..Len(s) : i # p => s[i] \in R
      BY <1>1, <2>1 DEF Lists
    <2>4. a \in Seq(R) /\ Len(a) = p - 1 /\ \A i \in 1..(p - 1) : a[i] = s[i]
      <3>1. 1 \in Int /\ p - 1 \in Int /\ \A i \in 1..(p - 1) : s[i] \in R
        BY <1>1, <2>1, <2>3
      <3>2. /\ a \in Seq(R)
            /\ Len(a) = IF 1 <= p - 1 THEN (p - 1) - 1 + 1 ELSE 0
            /\ \A i \in 1..(p - 1) - 1 + 1 : a[i] = s[1 + i - 1]
        BY <3>1, SubSeqProperties
      <3> HIDE DEF a, R
      <3>3. p - 1 \in Nat /\ (p - 1) - 1 + 1 = p - 1
        BY <1>1, <2>1
      <3>4. Len(a) = p - 1
        BY <3>2, <3>3
      <3>5. ASSUME NEW i \in 1..(p - 1) PROVE a[i] = s[i]
        <4>1. i \in 1..(p - 1) - 1 + 1 /\ 1 + i - 1 = i
          BY <3>3
        <4> QED
          BY <3>2, <4>1
      <3> QED
        BY <3>2, <3>4, <3>5
    <2>5. b \in Seq(R) /\ Len(b) = Len(s) - p /\ \A i \in 1..(Len(s) - p) : b[i] = s[p + i]
      <3>1. p + 1 \in Int /\ Len(s) \in Int /\ \A i \in (p + 1)..Len(s) : s[i] \in R
        BY <1>1, <2>1, <2>3
      <3>2. /\ b \in Seq(R)
            /\ Len(b) = IF p + 1 <= Len(s) THEN Len(s) - (p + 1) + 1 ELSE 0
            /\ \A i \in 1..Len(s) - (p + 1) + 1 : b[i] = s[(p + 1) + i - 1]
        BY <3>1, SubSeqProperties
      <3> HIDE DEF b, R
      <3>3. /\ p \in Nat /\ Len(s) \in Nat /\ p <= Len(s)
            /\ Len(s) - (p + 1) + 1 = Len(s) - p
        BY <1>1, <2>1
      <3>4. Len(b) = Len(s) - p
        <4>1. CASE p + 1 <= Len(s)
          BY <3>2, <3>3, <4>1
        <4>2. CASE ~(p + 1 <= Len(s))
          <5>1. p = Len(s)
            BY <1>1, <2>1, <4>2
          <5>2. Len(s) - p = 0
            BY <1>1, <5>1
          <5> QED
            BY <3>2, <4>2, <5>2
        <4> QED
          BY <4>1, <4>2
      <3>5. ASSUME NEW i \in 1..(Len(s) - p) PROVE b[i] = s[p + i]
        <4>1. i \in 1..Len(s) - (p + 1) + 1 /\ (p + 1) + i - 1 = p + i
          BY <3>3
        <4> QED
          BY <3>2, <4>1
      <3> QED
        BY <3>2, <3>4, <3>5
    <2> HIDE DEF a, b, R
    <2> DEFINE t == a \o b
    <2>6. /\ t \in Seq(R) /\ Len(t) = Len(s) - 1
          /\ \A i \in 1..(Len(s) - 1) : t[i] = IF i < p THEN s[i] ELSE s[i + 1]
      <3>1. /\ t \in Seq(R) /\ Len(t) = Len(a) + Len(b)
            /\ \A i \in 1..(Len(a) + Len(b)) :
                 t[i] = IF i <= Len(a) THEN a[i] ELSE b[i - Len(a)]
        BY <2>4, <2>5, ConcatProperties
      <3>2. Len(t) = Len(s) - 1
        BY <1>1, <2>1, <2>4, <2>5, <3>1
      <3> HIDE DEF t
      <3>3. ASSUME NEW i \in 1..(Len(s) - 1)
            PROVE  t[i] = IF i < p THEN s[i] ELSE s[i + 1]
        <4>1. t[i] = IF i <= p - 1 THEN a[i] ELSE b[i - (p - 1)]
          BY <1>1, <2>1, <2>4, <2>5, <3>1
        <4>2. CASE i < p
          BY <1>1, <2>1, <2>4, <4>1, <4>2
        <4>3. CASE ~(i < p)
          <5>1. i - (p - 1) \in 1..(Len(s) - p) /\ p + (i - (p - 1)) = i + 1
            BY <1>1, <2>1, <4>3
          <5>2. b[i - (p - 1)] = s[i + 1]
            BY <2>5, <5>1
          <5> QED
            BY <1>1, <2>1, <4>1, <4>3, <5>2
        <4> QED
          BY <4>2, <4>3
      <3> QED
        BY <3>1, <3>2, <3>3
    <2> HIDE DEF t
    <2>7. ASSUME NEW i \in 1..Len(t), NEW j \in 1..Len(t), t[i] = t[j] PROVE i = j
      <3> DEFINE f(k) == IF k < p THEN k ELSE k + 1
      <3>1. f(i) \in 1..Len(s) /\ f(j) \in 1..Len(s) /\ t[i] = s[f(i)] /\ t[j] = s[f(j)]
        BY <1>1, <2>1, <2>6
      <3>2. f(i) = f(j)
        BY <2>7, <3>1 DEF Lists
      <3> QED
        BY <1>1, <2>1, <2>6, <3>2
    <2>8. ASSUME NEW e \in R PROVE \E i \in 1..Len(t) : t[i] = e
      <3>1. PICK k \in 1..Len(s) : s[k] = e
        <4>1. e \in S
          BY DEF R
        <4> QED
          BY <4>1 DEF Lists
      <3>2. k # p
        BY <2>1, <3>1 DEF R
      <3>3. CASE k < p
        BY <1>1, <2>1, <2>6, <3>1, <3>3
      <3>4. CASE k > p
        <4>1. k - 1 \in 1..Len(t) /\ t[k - 1] = s[k]
          BY <1>1, <2>1, <2>6, <3>4
        <4> QED
          BY <3>1, <4>1
      <3> QED
        BY <2>1, <3>2, <3>3, <3>4
    <2> QED
      BY <2>2, <2>6, <2>7, <2>8 DEF Lists, t, R
  <1> QED
    BY <1>2, <1>3

LEMMA PrependLists ==
  ASSUME NEW S, NEW s, Lists(s, S), NEW d, d \notin S
  PROVE  /\ Lists(<<d>> \o s, S \cup {d})
         /\ Len(<<d>> \o s) = Len(s) + 1 /\ (<<d>> \o s)[1] = d
  <1> DEFINE T == S \cup {d}
             t == <<d>> \o s
  <1>1. Len(s) \in Nat /\ s \in Seq(T) /\ \A i \in 1..Len(s) : s[i] \in S
    BY LenProperties, ElementOfSeq, SeqMonotonic DEF Lists
  <1>2. <<d>> \in Seq(T) /\ Len(<<d>>) = 1 /\ <<d>>[1] = d
    OBVIOUS
  <1> HIDE DEF T
  <1>3. /\ t \in Seq(T) /\ Len(t) = 1 + Len(s)
        /\ \A i \in 1..(1 + Len(s)) : t[i] = IF i <= 1 THEN <<d>>[i] ELSE s[i - 1]
    BY <1>1, <1>2, ConcatProperties
  <1> HIDE DEF t
  <1>4. t[1] = d /\ \A i \in 2..(1 + Len(s)) : t[i] = s[i - 1]
    BY <1>1, <1>2, <1>3
  <1>5. ASSUME NEW i \in 1..Len(t), NEW j \in 1..Len(t), t[i] = t[j] PROVE i = j
    <2>1. ASSUME NEW k \in 1..Len(t), k # 1
          PROVE  k - 1 \in 1..Len(s) /\ t[k] = s[k - 1] /\ t[k] # d
      BY <1>1, <1>3, <1>4, <2>1
    <2>2. CASE i = 1 \/ j = 1
      BY <1>4, <1>5, <2>1, <2>2
    <2>3. CASE i # 1 /\ j # 1
      <3>1. i - 1 \in 1..Len(s) /\ j - 1 \in 1..Len(s) /\ s[i - 1] = s[j - 1]
        BY <1>5, <2>1, <2>3
      <3>2. i - 1 = j - 1
        BY <3>1 DEF Lists
      <3> QED
        BY <1>1, <1>3, <3>2
    <2> QED
      BY <2>2, <2>3
  <1>6. ASSUME NEW e \in T PROVE \E i \in 1..Len(t) : t[i] = e
    <2>1. CASE e = d
      BY <1>1, <1>3, <1>4, <2>1
    <2>2. CASE e # d
      <3>1. PICK k \in 1..Len(s) : s[k] = e
        BY <2>2 DEF Lists, T
      <3>2. k + 1 \in 1..Len(t) /\ t[k + 1] = e
        BY <1>1, <1>3, <1>4, <3>1
      <3> QED
        BY <3>2
    <2> QED
      BY <2>1, <2>2
  <1>7. Lists(t, T)
    BY <1>3, <1>5, <1>6 DEF Lists
  <1>8. Len(t) = Len(s) + 1
    BY <1>1, <1>3
  <1> QED
    BY <1>4, <1>7, <1>8 DEF t, T

LEMMA WindowLists ==
  ASSUME NEW S, NEW s, Lists(s, S)
  PROVE  LET w == Window(s) IN
           /\ Lists(w, {d \in S : \E k \in 1..Len(w) : w[k] = d})
           /\ Len(s) > 0 => Len(w) > 0 /\ w[1] = s[1]
  <1> DEFINE n == IF Len(s) < Retain THEN Len(s) ELSE Retain
             w == SubSeq(s, 1, n)
             W == {d \in S : \E k \in 1..Len(w) : w[k] = d}
  <1>1. Len(s) \in Nat /\ s \in Seq(S) /\ \A i \in 1..Len(s) : s[i] \in S
    BY LenProperties, ElementOfSeq DEF Lists
  <1>2. n \in 0..Len(s) /\ (Len(s) > 0 => n > 0)
    BY <1>1, IndexAssumption
  <1> HIDE DEF n
  <1>3. w \in Seq(S) /\ Len(w) = n /\ \A i \in 1..n : w[i] = s[i]
    <2>1. 1 \in Int /\ n \in Int /\ \A i \in 1..n : s[i] \in S
      BY <1>1, <1>2
    <2>2. /\ SubSeq(s, 1, n) \in Seq(S)
          /\ Len(SubSeq(s, 1, n)) = IF 1 <= n THEN n - 1 + 1 ELSE 0
          /\ \A i \in 1..n - 1 + 1 : SubSeq(s, 1, n)[i] = s[1 + i - 1]
      BY <2>1, SubSeqProperties
    <2> QED
      BY <1>1, <1>2, <2>2
  <1> HIDE DEF w
  <1>4. w \in Seq(W)
    <2>1. \A i \in 1..Len(w) : w[i] \in W
      BY <1>1, <1>2, <1>3
    <2>2. w \in [1..n -> W] /\ n \in Nat
      BY <1>2, <1>3, <2>1, LenProperties
    <2> QED
      BY <2>2, SeqDef
  <1>5. ASSUME NEW i \in 1..Len(w), NEW j \in 1..Len(w), w[i] = w[j] PROVE i = j
    <2>1. i \in 1..Len(s) /\ j \in 1..Len(s) /\ s[i] = s[j]
      BY <1>1, <1>2, <1>3, <1>5
    <2> QED
      BY <2>1 DEF Lists
  <1>6. Lists(w, W)
    BY <1>4, <1>5 DEF Lists
  <1>7. Len(s) > 0 => Len(w) > 0 /\ w[1] = s[1]
    BY <1>2, <1>3
  <1> QED
    BY <1>6, <1>7 DEF w, n, Window

(* The retired versions are the superseded ones, in some order. *)
SupersededIds == {d \in Ids : docs[d].state = "superseded"}
RetiredOK == Lists(retired, SupersededIds)

(* A step that retires a version keeps it stored. *)
LiveKept ==
  \A d \in Ids : docs[d].state = "active" => docs'[d].state \in {"active", "superseded"}

LEMMA StatesKept ==
  ASSUME RetiredOK, UNCHANGED retired, \A d \in Ids : docs'[d].state = docs[d].state
  PROVE  RetiredOK' /\ LiveKept
  <1>1. SupersededIds' = SupersededIds
    BY DEF SupersededIds
  <1>2. Lists(retired, SupersededIds)'
    BY <1>1 DEF RetiredOK, Lists
  <1> QED
    BY <1>2 DEF RetiredOK, LiveKept

(* The version the registry points to, retired, comes first. *)
LEMMA WithRetiredLists ==
  ASSUME IndexInv, RetiredOK
  PROVE  LET order == WithRetired(ps.active) IN
           /\ Lists(order, SupersededIds \cup ({ps.active} \cap Ids))
           /\ ~IsNew(ps) => Len(order) > 0 /\ order[1] = ps.active
  <1>1. CASE IsNew(ps)
    <2>1. ps.active \notin Ids
      BY <1>1, IndexAssumption DEF IsNew
    <2>2. WithRetired(ps.active) = retired /\ {ps.active} \cap Ids = {}
      BY <2>1 DEF WithRetired
    <2> QED
      BY <1>1, <2>2 DEF RetiredOK
  <1>2. CASE ~IsNew(ps)
    <2>1. ps.active \in Ids /\ docs[ps.active].state = "active"
      BY <1>2 DEF IndexInv, RowsTyped, Registry, RegistryMatchesLive, IsNew
    <2>2. ps.active \notin SupersededIds
      BY <2>1 DEF SupersededIds
    <2> DEFINE rest == Without(retired, ps.active)
    <2>3. WithRetired(ps.active) = <<ps.active>> \o rest
      BY <2>1 DEF WithRetired, Stored
    <2>4. Lists(rest, SupersededIds \ {ps.active})
      BY WithoutLists DEF RetiredOK
    <2>5. SupersededIds \ {ps.active} = SupersededIds /\ {ps.active} \cap Ids = {ps.active}
      BY <2>1, <2>2
    <2>6. Lists(rest, SupersededIds)
      BY <2>4, <2>5
    <2> HIDE DEF rest
    <2>7. /\ Lists(<<ps.active>> \o rest, SupersededIds \cup {ps.active})
          /\ Len(<<ps.active>> \o rest) = Len(rest) + 1
          /\ (<<ps.active>> \o rest)[1] = ps.active
      BY <2>2, <2>6, PrependLists
    <2>8. Len(rest) \in Nat
      BY <2>6, LenProperties DEF Lists
    <2> DEFINE order == <<ps.active>> \o rest
    <2>9. /\ Lists(order, SupersededIds \cup ({ps.active} \cap Ids))
          /\ Len(order) > 0 /\ order[1] = ps.active
      <3> DEFINE all == SupersededIds \cup {ps.active}
      <3>1. SupersededIds \cup ({ps.active} \cap Ids) = all
        BY <2>5
      <3>2. Lists(order, all) /\ Len(order) = Len(rest) + 1 /\ order[1] = ps.active
        BY <2>7
      <3> HIDE DEF order, all
      <3>3. Lists(order, SupersededIds \cup ({ps.active} \cap Ids))
        BY <3>1, <3>2, Zenon
      <3>4. Len(order) > 0 /\ order[1] = ps.active
        BY <2>8, <3>2
      <3> QED
        BY <3>3, <3>4
    <2>10. WithRetired(ps.active) = order
      BY <2>3
    <2> HIDE DEF order
    <2> QED
      BY <2>9, <2>10
  <1> QED
    BY <1>1, <1>2

LEMMA SupersededType ==
  ASSUME NEW doc \in Doc
  PROVE  /\ Superseded(doc) \in Doc /\ Superseded(doc).state = "superseded"
BY DEF Superseded, Doc, DocStates

LEMMA StageRetires ==
  ASSUME IndexInv, RetiredOK, NEW s, SeenOK(s), NEW v, NEW x, NEW c, NEW sd, NEW status,
         MayActivate(s, v, c), StageAndActivate(s, v, x, c, sd, status)
  PROVE  RetiredOK' /\ LiveKept
  <1> DEFINE new == [state |-> "active", version |-> v, content |-> x, cfg |-> c,
                     side |-> sd, files |-> sd.marks, status |-> status, visible |-> TRUE]
             order == WithRetired(s.active)
             all == SupersededIds \cup ({ps.active} \cap Ids)
             window == Window(order)
             InWindow(d) == \E k \in 1..Len(window) : window[k] = d
             Old(d) == IF d = s.active /\ Stored(d) THEN Superseded(docs[d]) ELSE docs[d]
             Kept(d) == IF Old(d).state = "superseded" /\ ~InWindow(d)
                        THEN [Old(d) EXCEPT !.state = "deleted", !.visible = FALSE]
                        ELSE Old(d)
  <1>1. /\ Unused # {}
        /\ docs' = [d \in Ids |-> IF d = FreshId THEN new ELSE Kept(d)]
        /\ retired' = window
    BY DEF StageAndActivate
  <1>2. FreshId \in Ids /\ docs[FreshId].state = "unused"
    BY <1>1 DEF FreshId, Unused
  <1>3. docs \in [Ids -> Doc] /\ s.active = ps.active
    BY LoadedAgrees DEF IndexInv, RowsTyped
  <1>4. ~IsNew(ps) => ps.active \in Ids /\ docs[ps.active].state = "active" /\ Stored(ps.active)
    BY DEF IndexInv, RowsTyped, Registry, RegistryMatchesLive, IsNew, Stored
  <1>5. IsNew(ps) => ps.active \notin Ids
    BY IndexAssumption DEF IsNew
  <1>6. /\ Lists(order, all)
        /\ ~IsNew(ps) => Len(order) > 0 /\ order[1] = ps.active
    BY <1>3, WithRetiredLists
  <1> HIDE DEF order
  <1>7. /\ Lists(window, {d \in all : InWindow(d)})
        /\ ~IsNew(ps) => Len(window) > 0 /\ window[1] = ps.active
    BY <1>6, WindowLists
  <1> HIDE DEF window
  <1>8. ~IsNew(ps) => InWindow(ps.active)
    <2>1. Len(window) \in Nat
      BY <1>7, LenProperties DEF Lists
    <2> QED
      BY <1>7, <2>1
  <1> HIDE DEF InWindow
  <1>9. ASSUME NEW d \in Ids
        PROVE  /\ Old(d) \in Doc
               /\ Old(d).state = "superseded" <=> d \in all
               /\ docs[d].state = "active" => d = ps.active /\ Old(d).state = "superseded"
    <2>1. docs[d].state = "active" => d = ps.active
      BY DEF IndexInv, ActiveIsPointed
    <2>2. CASE d = ps.active
      <3>1. Old(d) = Superseded(docs[d]) /\ d \in all
        BY <1>3, <1>4, <1>5, <2>2
      <3>2. docs[d] \in Doc
        BY <1>3
      <3> QED
        BY <2>2, <3>1, <3>2, SupersededType
    <2>3. CASE d # ps.active
      BY <1>3, <2>1, <2>3 DEF SupersededIds
    <2> QED
      BY <2>2, <2>3
  <1> HIDE DEF Old, all
  <1>10. ASSUME NEW d \in Ids
         PROVE  Kept(d).state = "superseded" <=> d \in all /\ InWindow(d)
    BY <1>9 DEF Doc
  <1> HIDE DEF Kept
  <1>11. docs'[FreshId].state = "active" /\ \A d \in Ids : d # FreshId => docs'[d] = Kept(d)
    BY <1>1, <1>2
  <1>12. FreshId \notin all
    BY <1>2, <1>4, <1>5 DEF all, SupersededIds
  <1>13. SupersededIds' = {d \in all : InWindow(d)}
    <2>1. all \subseteq Ids
      BY DEF all, SupersededIds
    <2> QED
      BY <1>10, <1>11, <1>12, <2>1 DEF SupersededIds
  <1>14. RetiredOK'
    BY <1>1, <1>7, <1>13 DEF RetiredOK, Lists
  <1>15. ASSUME NEW d \in Ids, docs[d].state = "active" PROVE docs'[d].state = "superseded"
    <2>1. d # FreshId /\ d = ps.active /\ ~IsNew(ps)
      BY <1>2, <1>5, <1>9, <1>15
    <2> QED
      BY <1>8, <1>9, <1>10, <1>11, <1>15, <2>1
  <1> QED
    BY <1>14, <1>15 DEF LiveKept

LEMMA RollbackRetires ==
  ASSUME IndexInv, RetiredOK, NEW i \in Ids, RollbackTo(i)
  PROVE  RetiredOK' /\ LiveKept
  <1>1. docs \in [Ids -> Doc] /\ ps.active \in Ids /\ docs[ps.active].state = "active"
    BY DEF IndexInv, RowsTyped, Registry, RegistryMatchesLive, RollbackTo, IsNew
  <1>2. docs' = [d \in Ids |->
                   IF d = i THEN [docs[d] EXCEPT !.state = "active", !.visible = TRUE]
                   ELSE IF d = ps.active THEN Superseded(docs[d]) ELSE docs[d]]
    BY DEF RollbackTo
  <1>3. ASSUME NEW d \in Ids
        PROVE  docs'[d].state = IF d = i THEN "active"
                                ELSE IF d = ps.active THEN "superseded" ELSE docs[d].state
    BY <1>1, <1>2 DEF Superseded, Doc
  <1>4. CASE i = ps.active
    <2>1. UNCHANGED retired /\ \A d \in Ids : docs'[d].state = docs[d].state
      BY <1>1, <1>3, <1>4 DEF RollbackTo
    <2> QED
      BY <2>1, StatesKept
  <1>5. CASE i # ps.active
    <2> DEFINE order == WithRetired(ps.active)
    <2>1. Lists(order, SupersededIds \cup {ps.active})
      <3>1. {ps.active} \cap Ids = {ps.active}
        BY <1>1
      <3> QED
        BY <3>1, WithRetiredLists
    <2>2. retired' = Without(order, i)
      BY <1>5 DEF RollbackTo
    <2> HIDE DEF order
    <2>3. Lists(retired', (SupersededIds \cup {ps.active}) \ {i})
      BY <2>1, <2>2, WithoutLists
    <2>4. SupersededIds' = (SupersededIds \cup {ps.active}) \ {i}
      BY <1>1, <1>3, <1>5 DEF SupersededIds
    <2>5. RetiredOK'
      BY <2>3, <2>4 DEF RetiredOK, Lists
    <2>6. LiveKept
      BY <1>3 DEF LiveKept
    <2> QED
      BY <2>5, <2>6
  <1> QED
    BY <1>4, <1>5

(* The writers that stamp statuses leave the states as they are. *)
LEMMA StampsRetireNothing ==
  ASSUME RetiredOK, OnlyStamps, UNCHANGED retired
  PROVE  RetiredOK' /\ LiveKept
  BY StatesKept DEF OnlyStamps

LEMMA CommitSyncRetires ==
  ASSUME IInv, RetiredOK, NEW w \in Actors, CommitSync(w)
  PROVE  RetiredOK' /\ LiveKept
  <1>1. IndexInv /\ SeenOK(seen[w]) /\ acl \in Readers /\ side[w] \in Sides
    BY DEF IInv, LocalsTyped, IndexInv, RowsTyped
  <1>2. "deleted" \in PageStatuses /\ MapPageStatus(meta[w].status) \in PageStatuses
    BY StatusTyped DEF PageStatuses
  <1>3. ASSUME NEW status \in PageStatuses, DeactivatePage(seen[w], status), UNCHANGED acl
        PROVE  RetiredOK' /\ LiveKept
    <2>1. OnlyStamps /\ UNCHANGED retired
      BY <1>1, <1>3, DeactivatePageKeeps DEF DeactivatePage
    <2> QED
      BY <2>1, StampsRetireNothing
  <1>4. ASSUME MayActivate(seen[w], meta[w].version, target),
               StageAndActivate(seen[w], meta[w].version, body[w], target, side[w],
                                MapPageStatus(meta[w].status))
        PROVE  RetiredOK' /\ LiveKept
    BY <1>1, <1>4, StageRetires
  <1>5. ASSUME ApplyMetadataOnly(seen[w], side[w], MapPageStatus(meta[w].status)),
               ReplaceRestrictions(w)
        PROVE  RetiredOK' /\ LiveKept
    <2>1. acl' \in Readers
      BY <1>1, <1>5, ReadersTyped DEF ReplaceRestrictions
    <2>2. OnlyStamps /\ UNCHANGED retired
      BY <1>1, <1>2, <1>5, <2>1, ApplyMetadataOnlyKeeps DEF ApplyMetadataOnly
    <2> QED
      BY <2>2, StampsRetireNothing
  <1>6. ASSUME UNCHANGED indexVars PROVE RetiredOK' /\ LiveKept
    BY <1>6, StatesKept DEF indexVars
  <1> HIDE DEF DeactivatePage, StageAndActivate, ApplyMetadataOnly, MayActivate,
               ReplaceRestrictions, Action
  <1> QED
    BY <1>2, <1>3, <1>4, <1>5, <1>6 DEF CommitSync

LEMMA StepRetires == ASSUME IInv, RetiredOK, [Next]_vars PROVE RetiredOK' /\ LiveKept
  <1>1. ASSUME UNCHANGED indexVars PROVE RetiredOK' /\ LiveKept
    BY <1>1, StatesKept DEF indexVars
  <1>2. ASSUME NEW w \in Actors, NEW status \in PageStatuses,
               DeactivatePage(seen[w], status), UNCHANGED acl
        PROVE  RetiredOK' /\ LiveKept
    <2>1. OnlyStamps /\ UNCHANGED retired
      BY <1>2, DeactivatePageKeeps DEF DeactivatePage, IInv
    <2> QED
      BY <2>1, StampsRetireNothing
  <1>3. CASE Create \/ Edit \/ Relabel \/ Trash \/ Purge \/ Restore \/ Deploy
    BY <1>1, <1>3 DEF Create, Edit, Relabel, Trash, Purge, Restore, Deploy
  <1>4. CASE Rollback
    BY <1>4, RollbackRetires DEF Rollback, IInv
  <1>5. ASSUME NEW w \in Actors,
               BeginSync(w) \/ BeginDelete(w) \/ BeginSweep(w) \/ LoadLocal(w) \/ FetchSide(w)
                 \/ FetchBody(w) \/ Load(w) \/ LoadRegistry(w) \/ ConfirmGone(w) \/ Refused(w)
                 \/ Fail(w)
        PROVE  RetiredOK' /\ LiveKept
    BY <1>1, <1>5 DEF BeginSync, BeginDelete, BeginSweep, LoadLocal, FetchSide, FetchBody, Load,
                      LoadRegistry, ConfirmGone, Refused, Fail
  <1>6. ASSUME NEW w \in Actors, CommitSync(w) PROVE RetiredOK' /\ LiveKept
    BY <1>6, CommitSyncRetires
  <1>7. ASSUME NEW w \in Actors, CommitDelete(w) \/ CommitSweep(w) PROVE RetiredOK' /\ LiveKept
    BY <1>2, <1>7 DEF CommitDelete, CommitSweep, PageStatuses
  <1>8. CASE UNCHANGED vars
    BY <1>1, <1>8 DEF vars
  <1> QED
    BY <1>3, <1>4, <1>5, <1>6, <1>7, <1>8 DEF Next, GoOn

LEMMA InitRetires == ASSUME Init PROVE RetiredOK
  <1>1. retired = <<>> /\ SupersededIds = {}
    BY DEF Init, IndexInit, SupersededIds, NoDoc
  <1>2. <<>> \in Seq(SupersededIds) /\ Len(<<>>) = 0
    BY EmptySeq
  <1> QED
    BY <1>1, <1>2 DEF RetiredOK, Lists

LEMMA RetiredInvariance == Spec => [](IInv /\ RetiredOK)
  <1>1. Init => IInv /\ RetiredOK
    BY InitIInv, InitRetires
  <1>2. IInv /\ RetiredOK /\ [Next]_vars => (IInv /\ RetiredOK)'
    BY StepIInv, StepRetires
  <1> QED
    BY <1>1, <1>2, PTL DEF Spec

(* Every row and local value keeps its type, and the versions retired are   *)
(* the superseded ones, each once (versioning.py, _activate, _gc_superseded,*)
(* rollback_to).                                                           *)
THEOREM RowsAndRetiredTyped == Spec => []TypeOK
  <1>1. IInv /\ RetiredOK => TypeOK
    <2> SUFFICES ASSUME IInv, RetiredOK PROVE TypeOK
      OBVIOUS
    <2>1. retired \in Seq(SupersededIds) /\ Len(retired) = Cardinality(SupersededIds)
      BY ListsLen DEF RetiredOK, Lists
    <2> QED
      BY <2>1 DEF TypeOK, IInv, IndexInv, SupersededIds
  <1> QED
    BY <1>1, RetiredInvariance, PTL

(* A step that retires the version that was served leaves it stored, for a *)
(* rollback: it enters the window first, and the window has room for one   *)
(* (versioning.py, _gc_superseded).                                        *)
THEOREM RetiredIsKept == Spec => LiveIsKept
  <1>1. IInv /\ RetiredOK /\ [Next]_vars => [LiveKept]_vars
    BY StepRetires
  <1>2. IInv /\ RetiredOK /\ [Next]_vars =>
          [\A d \in Ids : docs[d].state = "active" =>
             docs'[d].state \in {"active", "superseded"}]_vars
    BY <1>1 DEF LiveKept
  <1> QED
    BY <1>2, RetiredInvariance, PTL DEF Spec, LiveIsKept

-----------------------------------------------------------------------------
(* One worker.  Only a sync writes the side, so the row a sync works from   *)
(* is still that of the table in its side, whatever sweepers and rollbacks  *)
(* do in between.                                                          *)
OneWorker == \E w : Workers = {w}

AgreesOnSide(s) == s.side = ps.side /\ (IsNew(s) <=> IsNew(ps))
Syncs(w) == kind[w] = "sync" /\ meta[w].status # "gone"

SyncRowsOK ==
  \A w \in Actors :
    /\ kind[w] = "sync" => w \in Workers /\ pc[w] \notin {"listed", "confirm"}
    /\ Syncs(w) /\ pc[w] \in {"side", "body", "load", "commit"} => AgreesOnSide(local[w])
    /\ kind[w] = "sync" /\ pc[w] = "commit" => AgreesOnSide(seen[w])

AclInv == AclMatchesRegistry /\ SyncRowsOK

SideStays == ps'.side = ps.side /\ (IsNew(ps') <=> IsNew(ps)) /\ acl' = acl

LEMMA DeactivatePageSide ==
  ASSUME NEW s, NEW status, s \in Registry, ps \in Registry,
         DeactivatePage(s, status), UNCHANGED acl
  PROVE  SideStays
  <1>1. CASE IsNew(s)
    BY <1>1 DEF DeactivatePage, SideStays
  <1>2. CASE ~IsNew(s)
    <2> DEFINE n == [s EXCEPT !.status = status]
    <2>1. n.side = s.side /\ n.active = s.active
      BY DEF Registry
    <2>2. ps' = Written(s, n)
      BY <1>2 DEF DeactivatePage
    <2> HIDE DEF n
    <2>3. ps'.side = ps.side /\ ps'.active = ps.active
      BY <2>1, <2>2 DEF Written, Flushed
    <2> QED
      BY <2>3 DEF SideStays, IsNew
  <1> QED
    BY <1>1, <1>2

LEMMA RollbackSide ==
  ASSUME ps \in Registry, NEW i \in Ids, RollbackTo(i) PROVE SideStays
  <1>1. ps' = [ps EXCEPT !.active = i, !.version = docs[i].version, !.content = docs[i].content,
                         !.cfg = docs[i].cfg]
        /\ ~IsNew(ps) /\ UNCHANGED acl
    BY DEF RollbackTo
  <1>2. ps'.side = ps.side /\ ps'.active = i
    BY <1>1 DEF Registry
  <1> QED
    BY <1>1, <1>2, IndexAssumption DEF SideStays, IsNew


LEMMA SideStaysKeeps ==
  ASSUME IInv, AclInv, SideStays,
         \/ UNCHANGED <<pc, kind, meta, local, seen>>
         \/ \E w \in Actors : Reset(w)
  PROVE  AclInv'
  <1>1. AclMatchesRegistry'
    BY DEF AclInv, AclMatchesRegistry, SideStays
  <1>2. CASE UNCHANGED <<pc, kind, meta, local, seen>>
    BY <1>1, <1>2 DEF AclInv, SyncRowsOK, Syncs, AgreesOnSide, SideStays
  <1>3. ASSUME NEW w \in Actors, Reset(w) PROVE AclInv'
    <2>1. ASSUME NEW u \in Actors, u # w
          PROVE  /\ pc'[u] = pc[u] /\ kind'[u] = kind[u] /\ meta'[u] = meta[u]
                 /\ local'[u] = local[u] /\ seen'[u] = seen[u]
      BY <1>3, <2>1 DEF Reset, IInv, LocalsTyped
    <2>2. kind'[w] = "none"
      BY <1>3 DEF Reset, IInv, LocalsTyped
    <2> QED
      BY <1>1, <2>1, <2>2 DEF AclInv, SyncRowsOK, Syncs, AgreesOnSide, SideStays
  <1> QED
    BY <1>2, <1>3

(* The rebuild and the stamping of a worker whose rows agree on the side:   *)
(* the registry's side and the restrictions become the side it fetched.    *)
LEMMA CommitSyncAcl ==
  ASSUME OneWorker, IInv, AclInv, NEW w \in Actors, CommitSync(w)
  PROVE  AclInv'
  <1>1. /\ pc[w] = "commit" /\ kind[w] = "sync" /\ Reset(w)
        /\ ps \in Registry /\ seen[w] \in Registry /\ AgreesOnSide(seen[w])
        /\ Workers = {w}
    BY DEF CommitSync, IInv, IndexInv, RowsTyped, LocalsTyped, AclInv, SyncRowsOK, OneWorker
  <1>2. ASSUME NEW status, DeactivatePage(seen[w], status), UNCHANGED acl PROVE AclInv'
    BY <1>1, <1>2, DeactivatePageSide, SideStaysKeeps
  <1>3. ASSUME UNCHANGED indexVars PROVE AclInv'
    BY <1>1, <1>3, SideStaysKeeps DEF SideStays, indexVars
  <1>4. ASSUME AclMatchesRegistry' PROVE AclInv'
    <2>1. \A u \in Actors : kind'[u] # "sync"
      BY <1>1 DEF Reset, IInv, LocalsTyped, AclInv, SyncRowsOK
    <2> QED
      BY <1>4, <2>1 DEF AclInv, SyncRowsOK, Syncs
  <1>5. ASSUME meta[w].status # "gone", ReplaceRestrictions(w),
               IsNew(ps') \/ ps'.side = side[w]
        PROVE  AclMatchesRegistry' \/ IsNew(ps)
    <2>1. AgreesOnSide(local[w])
      BY <1>1, <1>5 DEF AclInv, SyncRowsOK, Syncs
    <2> QED
      BY <1>5, <2>1 DEF ReplaceRestrictions, AclInv, AclMatchesRegistry, AgreesOnSide
  <1>6. ASSUME meta[w].status # "gone", ReplaceRestrictions(w), IsNew(ps)
        PROVE  acl' = side[w].readers
    BY <1>1, <1>6 DEF ReplaceRestrictions, AclInv, SyncRowsOK, Syncs, AgreesOnSide
  <1>7. ASSUME NEW v, NEW x, NEW c, NEW status, meta[w].status # "gone",
               StageAndActivate(seen[w], v, x, c, side[w], status), ReplaceRestrictions(w)
        PROVE  AclInv'
    <2> DEFINE row == [active |-> FreshId, version |-> v, content |-> x, cfg |-> c,
                       side |-> side[w], status |-> status]
    <2>1. ps' = Written(seen[w], row)
      BY <1>7 DEF StageAndActivate
    <2>2. ps'.side = side[w]
      BY <1>1, <2>1 DEF Written, Flushed, AgreesOnSide
    <2> QED
      BY <1>4, <1>5, <1>6, <1>7, <2>2 DEF AclMatchesRegistry
  <1>8. ASSUME NEW status, meta[w].status # "gone",
               ApplyMetadataOnly(seen[w], side[w], status), ReplaceRestrictions(w)
        PROVE  AclInv'
    <2>1. CASE IsNew(seen[w])
      <3>1. IsNew(ps')
        BY <1>1, <1>8, <2>1 DEF ApplyMetadataOnly, AgreesOnSide
      <3> QED
        BY <1>4, <3>1 DEF AclMatchesRegistry
    <2>2. CASE ~IsNew(seen[w])
      <3> DEFINE n == [seen[w] EXCEPT !.side = side[w], !.status = status]
      <3>1. n.side = side[w]
        BY <1>1 DEF Registry
      <3>2. ps' = Written(seen[w], n)
        BY <1>8, <2>2 DEF ApplyMetadataOnly
      <3> HIDE DEF n
      <3>3. ps'.side = side[w]
        BY <1>1, <3>1, <3>2 DEF Written, Flushed, AgreesOnSide
      <3> QED
        BY <1>1, <1>4, <1>5, <1>8, <2>2, <3>3 DEF AgreesOnSide
    <2> QED
      BY <2>1, <2>2
  <1> HIDE DEF DeactivatePage, StageAndActivate, ApplyMetadataOnly, MayActivate,
               ReplaceRestrictions, Action
  <1> QED
    BY <1>2, <1>3, <1>7, <1>8 DEF CommitSync

LEMMA StepAcl == ASSUME OneWorker, IInv, AclInv, [Next]_vars PROVE AclInv'
  <1>1. ASSUME UNCHANGED indexVars PROVE SideStays
    BY <1>1 DEF SideStays, indexVars
  <1>2. CASE Create \/ Edit \/ Relabel \/ Trash \/ Purge \/ Restore
    <2>1. UNCHANGED indexVars /\ UNCHANGED <<pc, kind, meta, local, seen>>
      BY <1>2 DEF Create, Edit, Relabel, Trash, Purge, Restore, actorVars
    <2> QED
      BY <1>1, <2>1, SideStaysKeeps
  <1>3. CASE Deploy
    <2>1. UNCHANGED indexVars /\ \A w \in Actors : kind'[w] = "none"
      BY <1>3 DEF Deploy
    <2> QED
      BY <2>1 DEF AclInv, AclMatchesRegistry, SyncRowsOK, Syncs, indexVars
  <1>4. CASE Rollback
    <2>1. SideStays
      BY <1>4, RollbackSide DEF Rollback, IInv, IndexInv, RowsTyped
    <2>2. UNCHANGED <<pc, kind, meta, local, seen>>
      BY <1>4 DEF Rollback, actorVars
    <2> QED
      BY <2>1, <2>2, SideStaysKeeps
  <1>5. ASSUME NEW w \in Actors,
               BeginSync(w) \/ LoadLocal(w) \/ FetchSide(w) \/ FetchBody(w) \/ Load(w)
                 \/ BeginDelete(w) \/ BeginSweep(w)
        PROVE  AclInv'
    <2>1. UNCHANGED indexVars
      BY <1>5 DEF BeginSync, LoadLocal, FetchSide, FetchBody, Load, BeginDelete, BeginSweep
    <2>2. ASSUME NEW u \in Actors, u # w
          PROVE  /\ pc'[u] = pc[u] /\ kind'[u] = kind[u] /\ meta'[u] = meta[u]
                 /\ local'[u] = local[u] /\ seen'[u] = seen[u]
      BY <1>5, <2>2 DEF BeginSync, LoadLocal, FetchSide, FetchBody, Load, BeginDelete, BeginSweep,
                        readVars, IInv, LocalsTyped
    <2>3. CASE BeginSync(w) \/ BeginDelete(w) \/ BeginSweep(w)
      <3>1. /\ kind'[w] = "sync" => w \in Workers
            /\ kind'[w] # "sync" \/ pc'[w] = "local" \/ (pc'[w] = "load" /\ ~Syncs(w)')
        BY <2>3 DEF BeginSync, BeginDelete, BeginSweep, Syncs, IInv, LocalsTyped
      <3> QED
        BY <2>1, <2>2, <3>1
           DEF AclInv, AclMatchesRegistry, SyncRowsOK, Syncs, AgreesOnSide, indexVars
    <2>4. CASE LoadLocal(w)
      <3>1. pc'[w] = "side" /\ local'[w] = ps /\ kind'[w] = kind[w]
        BY <2>4 DEF LoadLocal, IInv, LocalsTyped
      <3> QED
        BY <2>1, <2>2, <3>1
           DEF AclInv, AclMatchesRegistry, SyncRowsOK, Syncs, AgreesOnSide, indexVars
    <2>5. CASE FetchSide(w) \/ FetchBody(w) \/ Load(w)
      <3>1. /\ pc[w] \in {"side", "body", "load"} /\ pc'[w] \in {"body", "load", "commit"}
            /\ pc'[w] = "commit" => seen'[w] = ps
            /\ local'[w] = local[w] /\ kind'[w] = kind[w] /\ meta'[w] = meta[w]
        BY <2>5 DEF FetchSide, FetchBody, Load, readVars, IInv, LocalsTyped
      <3> QED
        BY <2>1, <2>2, <3>1
           DEF AclInv, AclMatchesRegistry, SyncRowsOK, Syncs, AgreesOnSide, indexVars
    <2> QED
      BY <1>5, <2>3, <2>4, <2>5
  <1>6. ASSUME NEW w \in Actors, LoadRegistry(w) \/ ConfirmGone(w) \/ Refused(w) \/ Fail(w)
        PROVE  AclInv'
    <2>1. UNCHANGED indexVars
      BY <1>6 DEF LoadRegistry, ConfirmGone, Refused, Fail
    <2>2. CASE Reset(w)
      BY <1>1, <2>1, <2>2, SideStaysKeeps
    <2>3. CASE ~Reset(w)
      <3>1. /\ pc[w] \in {"listed", "confirm"}
            /\ pc' \in {[pc EXCEPT ![w] = "commit"], [pc EXCEPT ![w] = "confirm"]}
            /\ seen' = [seen EXCEPT ![w] = ps] \/ UNCHANGED seen
            /\ UNCHANGED <<kind, meta, local>>
        BY <1>6, <2>3 DEF LoadRegistry, ConfirmGone, Refused, Fail, readVars
      <3>2. /\ kind[w] # "sync"
            /\ \A u \in Actors : u # w => pc'[u] = pc[u] /\ seen'[u] = seen[u]
        BY <3>1 DEF AclInv, SyncRowsOK, IInv, LocalsTyped
      <3> QED
        BY <2>1, <3>1, <3>2
           DEF AclInv, AclMatchesRegistry, SyncRowsOK, Syncs, AgreesOnSide, indexVars
    <2> QED
      BY <2>2, <2>3
  <1>7. ASSUME NEW w \in Actors, CommitSync(w) PROVE AclInv'
    BY <1>7, CommitSyncAcl
  <1>8. ASSUME NEW w \in Actors, CommitDelete(w) \/ CommitSweep(w) PROVE AclInv'
    <2>1. Reset(w) /\ SideStays
      BY <1>8, DeactivatePageSide
         DEF CommitDelete, CommitSweep, IInv, IndexInv, RowsTyped, LocalsTyped
    <2> QED
      BY <2>1, SideStaysKeeps
  <1>9. CASE UNCHANGED vars
    <2>1. UNCHANGED indexVars /\ UNCHANGED <<pc, kind, meta, local, seen>>
      BY <1>9 DEF vars, actorVars
    <2> QED
      BY <1>1, <2>1, SideStaysKeeps
  <1> QED
    BY <1>2, <1>3, <1>4, <1>5, <1>6, <1>7, <1>8, <1>9 DEF Next, GoOn

LEMMA InitAcl == ASSUME Init PROVE AclInv
  <1>1. IsNew(ps) /\ \A w \in Actors : kind[w] = "none"
    BY NoPageTyped DEF Init, IndexInit
  <1> QED
    BY <1>1 DEF AclInv, AclMatchesRegistry, SyncRowsOK, Syncs

(* With one process that syncs, whatever sweeps and rollbacks go on beside *)
(* it, the persisted restrictions are those the registry's hash was taken  *)
(* of (sync_service.py, _replace_restrictions).                            *)
THEOREM OneWorkerAclMatches == ASSUME OneWorker PROVE Spec => []AclMatchesRegistry
  <1>1. Init => IInv /\ AclInv
    BY InitIInv, InitAcl
  <1>2. IInv /\ AclInv /\ [Next]_vars => (IInv /\ AclInv)'
    BY StepIInv, StepAcl
  <1>3. AclInv => AclMatchesRegistry
    BY DEF AclInv
  <1> QED
    BY <1>1, <1>2, <1>3, PTL DEF Spec

-----------------------------------------------------------------------------
(* One worker again: the index never goes back to an older content.  The    *)
(* body a sync fetched is as new as everything stored, since nobody else   *)
(* stages; and Confluence only goes forward.                               *)
AllUpTo(c) == \A d \in Ids : docs[d].content <= c

ForwardInv ==
  /\ src.content <= src.version
  /\ AllUpTo(src.content)
  /\ \A w \in Actors :
       /\ body[w] <= src.content
       /\ Syncs(w) /\ pc[w] \in {"load", "commit"}
            /\ DecideBodyFetch(local[w], meta[w], target) => AllUpTo(body[w])

(* A rebuild is of a body that was fetched. *)
LEMMA RebuildsWhatItFetched ==
  ASSUME NEW w \in Actors, Action(w) = "indexed"
  PROVE  DecideBodyFetch(local[w], meta[w], target)
  <1>1. meta[w].status \notin GoneStatuses
    BY DEF Action, SyncAction
  <1>2. Classify(local[w], meta[w], side[w], body[w], target) \cap RebuildClasses # {}
    BY <1>1 DEF Action, SyncAction
  <1>3. IsNew(local[w]) \/ NewerRevision(local[w], meta[w]) \/ IndexConfigChanged(local[w], target)
    BY <1>2 DEF Classify, MetadataClasses, BodyClasses, RebuildClasses
  <1> QED
    BY <1>1, <1>3 DEF DecideBodyFetch

(* The contents a step leaves, when it neither stages nor rolls back. *)
ContentsStay ==
  ps'.content = ps.content /\ \A d \in Ids : docs'[d].content = docs[d].content

LEMMA StageWrites ==
  ASSUME IndexInv, NEW s, SeenOK(s), NEW v \in Nat, NEW x \in Nat, NEW c \in Configs,
         NEW sd \in Sides, NEW status \in PageStatuses,
         MayActivate(s, v, c), StageAndActivate(s, v, x, c, sd, status)
  PROVE  /\ ps'.content = x
         /\ \A d \in Ids : docs'[d].content \in {docs[d].content, x}
  <1> DEFINE new == [state |-> "active", version |-> v, content |-> x, cfg |-> c,
                     side |-> sd, files |-> sd.marks, status |-> status, visible |-> TRUE]
             row == [active |-> FreshId, version |-> v, content |-> x, cfg |-> c,
                     side |-> sd, status |-> status]
             window == Window(WithRetired(s.active))
             InWindow(d) == \E k \in 1..Len(window) : window[k] = d
             Old(d) == IF d = s.active /\ Stored(d) THEN Superseded(docs[d]) ELSE docs[d]
             Kept(d) == IF Old(d).state = "superseded" /\ ~InWindow(d)
                        THEN [Old(d) EXCEPT !.state = "deleted", !.visible = FALSE]
                        ELSE Old(d)
  <1>1. /\ docs' = [d \in Ids |-> IF d = FreshId THEN new ELSE Kept(d)]
        /\ ps' = Written(s, row)
    BY DEF StageAndActivate
  <1>2. s.content = ps.content
    BY LoadedAgrees
  <1>3. ps'.content = x
    BY <1>1, <1>2 DEF Written, Flushed
  <1> HIDE DEF window, InWindow
  <1>4. ASSUME NEW d \in Ids PROVE Old(d) \in Doc /\ Old(d).content = docs[d].content
    <2>1. docs[d] \in Doc
      BY DEF IndexInv, RowsTyped
    <2>2. Superseded(docs[d]) \in Doc /\ Superseded(docs[d]).content = docs[d].content
      BY <2>1 DEF Superseded, Doc, DocStates
    <2> QED  BY <2>1, <2>2
  <1> HIDE DEF Old
  <1>5. ASSUME NEW d \in Ids PROVE Kept(d).content = docs[d].content
    BY <1>4 DEF Doc
  <1> HIDE DEF Kept
  <1> QED
    BY <1>1, <1>3, <1>5

(* What an actor is left with after a step that neither stages nor moves    *)
(* the page back.                                                          *)
LEMMA ForwardKept ==
  ASSUME IInv, ForwardInv, ContentsStay, target' = target,
         src'.content <= src'.version, src.content <= src'.content, src' \in Source,
         \A w \in Actors :
           /\ body'[w] = body[w] \/ body'[w] = 0 \/ body'[w] = src.content
           /\ \/ ~Syncs(w)' \/ pc'[w] \notin {"load", "commit"}
              \/ DecideBodyFetch(local[w], meta[w], target)' => body'[w] = src.content
              \/ pc[w] \in {"load", "commit"} /\ Syncs(w)
                   /\ local'[w] = local[w] /\ meta'[w] = meta[w] /\ body'[w] = body[w]
  PROVE  ForwardInv'
  <1>1. /\ src.content \in Nat /\ src'.content \in Nat /\ docs \in [Ids -> Doc]
        /\ \A d \in Ids : docs[d].content \in Nat
        /\ \A w \in Actors : body[w] \in Nat
    BY DEF IInv, IndexInv, RowsTyped, LocalsTyped, Source, Doc
  <1>2. AllUpTo(src.content)' /\ \A c : AllUpTo(c) => \A d \in Ids : docs'[d].content <= c
    BY <1>1 DEF AllUpTo, ContentsStay, ForwardInv
  <1>3. ASSUME NEW w \in Actors PROVE body'[w] <= src'.content
    BY <1>1 DEF ForwardInv
  <1>4. ASSUME NEW w \in Actors, Syncs(w)', pc'[w] \in {"load", "commit"},
               DecideBodyFetch(local[w], meta[w], target)'
        PROVE  \A d \in Ids : docs'[d].content <= body'[w]
    <2>1. AllUpTo(body'[w])
      BY <1>4 DEF ForwardInv, DecideBodyFetch
    <2> QED
      BY <1>2, <2>1
  <1> QED
    BY <1>2, <1>3, <1>4 DEF ForwardInv, AllUpTo

(* A step that leaves the index alone, or only stamps it, and puts the actor *)
(* back to idle.                                                           *)
LEMMA ResetForward ==
  ASSUME IInv, ForwardInv, ContentsStay, UNCHANGED <<src, target>>, NEW w \in Actors, Reset(w)
  PROVE  ForwardInv'
  <1>1. \A u \in Actors :
          /\ u # w => pc'[u] = pc[u] /\ kind'[u] = kind[u] /\ meta'[u] = meta[u]
                      /\ local'[u] = local[u] /\ body'[u] = body[u]
          /\ u = w => pc'[u] = "idle" /\ body'[u] = 0
    BY DEF Reset, IInv, LocalsTyped
  <1>2. src' \in Source /\ src.content <= src.content /\ src'.content <= src'.version
    BY DEF IInv, LocalsTyped, Source, ForwardInv
  <1>3. \A u \in Actors :
          /\ body'[u] = body[u] \/ body'[u] = 0 \/ body'[u] = src.content
          /\ \/ ~Syncs(u)' \/ pc'[u] \notin {"load", "commit"}
             \/ DecideBodyFetch(local[u], meta[u], target)' => body'[u] = src.content
             \/ pc[u] \in {"load", "commit"} /\ Syncs(u)
                  /\ local'[u] = local[u] /\ meta'[u] = meta[u] /\ body'[u] = body[u]
    BY <1>1 DEF Syncs
  <1> QED
    BY <1>2, <1>3, ForwardKept

LEMMA StampsForward == ASSUME OnlyStamps PROVE ContentsStay
  BY DEF OnlyStamps, ContentsStay

LEMMA CommitSyncForward ==
  ASSUME OneWorker, IInv, AclInv, ForwardInv, NEW w \in Actors, CommitSync(w)
  PROVE  ForwardInv' /\ ps'.content >= ps.content
  <1>1. /\ pc[w] = "commit" /\ kind[w] = "sync" /\ Reset(w) /\ UNCHANGED <<src, target>>
        /\ IndexInv /\ SeenOK(seen[w]) /\ acl \in Readers /\ ps.content \in Nat
        /\ side[w] \in Sides /\ body[w] \in Nat /\ meta[w].version \in Nat /\ target \in Configs
        /\ src \in Source /\ Workers = {w}
    BY DEF CommitSync, sourceVars, IInv, IndexInv, RowsTyped, Registry, LocalsTyped, Source,
           AclInv, SyncRowsOK, OneWorker
  <1>2. "deleted" \in PageStatuses /\ MapPageStatus(meta[w].status) \in PageStatuses
    BY StatusTyped DEF PageStatuses
  <1>3. ASSUME ContentsStay PROVE ForwardInv' /\ ps'.content >= ps.content
    BY <1>1, <1>3, ResetForward DEF ContentsStay
  <1>4. ASSUME NEW status \in PageStatuses, DeactivatePage(seen[w], status), UNCHANGED acl
        PROVE  ContentsStay
    BY <1>1, <1>4, DeactivatePageKeeps, StampsForward
  <1>5. ASSUME ApplyMetadataOnly(seen[w], side[w], MapPageStatus(meta[w].status)),
               ReplaceRestrictions(w)
        PROVE  ContentsStay
    <2>1. acl' \in Readers
      BY <1>1, <1>5, ReadersTyped DEF ReplaceRestrictions
    <2> QED
      BY <1>1, <1>2, <1>5, <2>1, ApplyMetadataOnlyKeeps, StampsForward
  <1>6. ASSUME meta[w].status # "gone", Action(w) = "indexed",
               MayActivate(seen[w], meta[w].version, target),
               StageAndActivate(seen[w], meta[w].version, body[w], target, side[w],
                                MapPageStatus(meta[w].status))
        PROVE  ForwardInv' /\ ps'.content >= ps.content
    <2>1. AllUpTo(body[w]) /\ body[w] <= src.content
      BY <1>1, <1>6, RebuildsWhatItFetched DEF ForwardInv, Syncs
    <2>2. /\ ps'.content = body[w]
          /\ \A d \in Ids : docs'[d].content \in {docs[d].content, body[w]}
      BY <1>1, <1>2, <1>6, StageWrites
    <2>3. ps.content <= body[w]
      <3>1. CASE IsNew(ps)
        BY <1>1, <3>1 DEF IndexInv, NoPage
      <3>2. CASE ~IsNew(ps)
        <4>1. ps.active \in Ids /\ ps.content = docs[ps.active].content
          BY <1>1, <3>2 DEF IndexInv, RowsTyped, Registry, RegistryMatchesLive, IsNew
        <4> QED
          BY <2>1, <4>1 DEF AllUpTo
      <3> QED
        BY <3>1, <3>2
    <2>4. \A d \in Ids : docs'[d].content <= src.content
      BY <2>1, <2>2 DEF ForwardInv, AllUpTo
    <2>5. \A u \in Actors : body'[u] = body[u] \/ body'[u] = 0
      BY <1>1 DEF Reset, IInv, LocalsTyped
    <2>6. \A u \in Actors : ~Syncs(u)'
      BY <1>1 DEF Reset, IInv, LocalsTyped, AclInv, SyncRowsOK, Syncs
    <2>7. \A u \in Actors : body'[u] <= src.content
      BY <1>1, <2>5 DEF ForwardInv, Source
    <2> QED
      BY <1>1, <2>2, <2>3, <2>4, <2>6, <2>7 DEF ForwardInv, AllUpTo
  <1>7. ASSUME UNCHANGED indexVars PROVE ContentsStay
    BY <1>7 DEF indexVars, ContentsStay
  <1> HIDE DEF DeactivatePage, StageAndActivate, ApplyMetadataOnly, MayActivate,
               ReplaceRestrictions, Action
  <1> QED
    BY <1>2, <1>3, <1>4, <1>5, <1>6, <1>7 DEF CommitSync

LEMMA StepForward ==
  ASSUME OneWorker, IInv, AclInv, ForwardInv, [Next]_vars
  PROVE  ForwardInv' /\ (ps'.content >= ps.content \/ rollbacks' # rollbacks)
  <1>1. /\ src \in Source /\ src.content \in Nat /\ src.version \in Nat /\ ps.content \in Nat
        /\ src.content <= src.version
    BY DEF IInv, IndexInv, RowsTyped, Registry, LocalsTyped, Source, ForwardInv
  <1>2. ASSUME UNCHANGED indexVars PROVE ContentsStay /\ ps'.content >= ps.content
    BY <1>1, <1>2 DEF ContentsStay, indexVars
  <1>3. ASSUME ContentsStay, UNCHANGED <<pc, kind, meta, local, body>>, target' = target,
               src'.content <= src'.version, src.content <= src'.content, src' \in Source
        PROVE  ForwardInv'
    BY <1>3, ForwardKept DEF Syncs
  <1>4. CASE Create \/ Edit \/ Relabel \/ Trash \/ Purge \/ Restore
    <2>1. UNCHANGED indexVars /\ UNCHANGED <<pc, kind, meta, local, body, target>>
      BY <1>4 DEF Create, Edit, Relabel, Trash, Purge, Restore, actorVars
    <2>2. src'.content <= src'.version /\ src.content <= src'.content /\ src' \in Source
      <3>1. CASE Create
        BY <1>1, <3>1 DEF Create, Source, Pages
      <3>2. CASE Edit
        <4>1. PICK c \in {src.content, src.version + 1} :
                src' = [src EXCEPT !.version = @ + 1, !.content = c]
          BY <3>2 DEF Edit
        <4>2. src' \in Source /\ src'.version = src.version + 1 /\ src'.content = c
          <5>1. src.version + 1 \in Nat /\ c \in Nat
            BY <1>1, <4>1
          <5> QED
            BY <1>1, <4>1, <5>1 DEF Source
        <4> QED
          BY <1>1, <4>1, <4>2
      <3>3. CASE Relabel
        BY <1>1, <3>3 DEF Relabel, Source, Pages
      <3>4. CASE Trash \/ Purge \/ Restore
        BY <1>1, <3>4 DEF Trash, Purge, Restore, Source
      <3> QED
        BY <1>4, <3>1, <3>2, <3>3, <3>4
    <2> QED
      BY <1>2, <1>3, <2>1, <2>2
  <1>5. CASE Deploy
    <2>1. /\ UNCHANGED indexVars /\ UNCHANGED src
          /\ \A w \in Actors : pc'[w] = "idle" /\ body'[w] = 0
      BY <1>5 DEF Deploy
    <2> QED
      BY <1>1, <1>2, <2>1 DEF ForwardInv, AllUpTo, indexVars
  <1>6. CASE Rollback
    <2>1. PICK i \in Ids : RollbackTo(i)
      BY <1>6 DEF Rollback
    <2>2. \A d \in Ids : docs'[d].content = docs[d].content
      BY <2>1 DEF RollbackTo, IInv, IndexInv, RowsTyped, Superseded, Doc
    <2>3. UNCHANGED <<src, target, pc, kind, meta, local, body>> /\ rollbacks' # rollbacks
      BY <1>6 DEF Rollback, sourceVars, actorVars, IInv, LocalsTyped
    <2> QED
      BY <2>2, <2>3 DEF ForwardInv, AllUpTo, Syncs
  <1>7. ASSUME NEW w \in Actors,
               BeginSync(w) \/ LoadLocal(w) \/ FetchSide(w) \/ FetchBody(w) \/ Load(w)
                 \/ BeginDelete(w) \/ BeginSweep(w)
        PROVE  ForwardInv' /\ ps'.content >= ps.content
    <2>1. UNCHANGED indexVars /\ UNCHANGED <<src, target>>
      BY <1>7 DEF BeginSync, LoadLocal, FetchSide, FetchBody, Load, BeginDelete, BeginSweep,
                  sourceVars
    <2>2. ASSUME NEW u \in Actors, u # w
          PROVE  /\ pc'[u] = pc[u] /\ kind'[u] = kind[u] /\ meta'[u] = meta[u]
                 /\ local'[u] = local[u] /\ body'[u] = body[u]
      BY <1>7, <2>2 DEF BeginSync, LoadLocal, FetchSide, FetchBody, Load, BeginDelete, BeginSweep,
                        readVars, IInv, LocalsTyped
    <2>3. /\ body'[w] = body[w] \/ body'[w] = src.content
          /\ \/ ~Syncs(w)' \/ pc'[w] \notin {"load", "commit"}
             \/ DecideBodyFetch(local[w], meta[w], target)' => body'[w] = src.content
             \/ pc[w] \in {"load", "commit"} /\ Syncs(w)
                  /\ local'[w] = local[w] /\ meta'[w] = meta[w] /\ body'[w] = body[w]
      <3>1. CASE BeginSync(w) \/ BeginDelete(w) \/ BeginSweep(w)
        BY <3>1 DEF BeginSync, BeginDelete, BeginSweep, readVars, Syncs, IInv, LocalsTyped
      <3>2. CASE LoadLocal(w) \/ FetchBody(w)
        BY <3>2 DEF LoadLocal, FetchBody, IInv, LocalsTyped
      <3>3. CASE FetchSide(w)
        <4>1. /\ pc'[w] = IF DecideBodyFetch(local[w], meta[w], target) THEN "body" ELSE "load"
              /\ local'[w] = local[w] /\ meta'[w] = meta[w] /\ body'[w] = body[w]
          BY <3>3 DEF FetchSide, IInv, LocalsTyped
        <4>2. DecideBodyFetch(local[w], meta[w], target)'
                <=> DecideBodyFetch(local[w], meta[w], target)
          BY <2>1, <4>1 DEF DecideBodyFetch, IsNew, NewerRevision, IndexConfigChanged
        <4> QED
          BY <4>1, <4>2
      <3>4. CASE Load(w)
        BY <3>4 DEF Load, readVars, Syncs, IInv, LocalsTyped
      <3> QED
        BY <1>7, <3>1, <3>2, <3>3, <3>4
    <2>4. \A u \in Actors :
            /\ body'[u] = body[u] \/ body'[u] = 0 \/ body'[u] = src.content
            /\ \/ ~Syncs(u)' \/ pc'[u] \notin {"load", "commit"}
               \/ DecideBodyFetch(local[u], meta[u], target)' => body'[u] = src.content
               \/ pc[u] \in {"load", "commit"} /\ Syncs(u)
                    /\ local'[u] = local[u] /\ meta'[u] = meta[u] /\ body'[u] = body[u]
      BY <2>2, <2>3 DEF Syncs
    <2>5. src' \in Source /\ src'.content <= src'.version /\ src.content <= src'.content
      BY <1>1, <2>1
    <2> QED
      BY <1>2, <2>1, <2>4, <2>5, ForwardKept
  <1>8. ASSUME NEW w \in Actors, LoadRegistry(w) \/ ConfirmGone(w) \/ Refused(w) \/ Fail(w)
        PROVE  ForwardInv' /\ ps'.content >= ps.content
    <2>1. UNCHANGED indexVars /\ UNCHANGED <<src, target>>
      BY <1>8 DEF LoadRegistry, ConfirmGone, Refused, Fail, sourceVars
    <2>2. CASE Reset(w)
      BY <1>2, <2>1, <2>2, ResetForward
    <2>3. CASE ~Reset(w)
      <3>1. /\ pc[w] \in {"listed", "confirm"} /\ UNCHANGED <<kind, meta, local, body>>
            /\ pc' \in {[pc EXCEPT ![w] = "commit"], [pc EXCEPT ![w] = "confirm"]}
        BY <1>8, <2>3 DEF LoadRegistry, ConfirmGone, Refused, Fail, readVars
      <3>2. kind[w] # "sync" /\ \A u \in Actors : u # w => pc'[u] = pc[u]
        BY <3>1 DEF AclInv, SyncRowsOK, IInv, LocalsTyped
      <3>3. src' \in Source /\ src'.content <= src'.version /\ src.content <= src'.content
        BY <1>1, <2>1
      <3>4. \A u \in Actors :
              /\ body'[u] = body[u]
              /\ \/ ~Syncs(u)'
                 \/ pc'[u] = pc[u] /\ (Syncs(u)' <=> Syncs(u))
                      /\ local'[u] = local[u] /\ meta'[u] = meta[u]
        BY <3>1, <3>2 DEF Syncs
      <3> QED
        BY <1>2, <2>1, <3>3, <3>4, ForwardKept
    <2> QED
      BY <2>2, <2>3
  <1>9. ASSUME NEW w \in Actors, CommitSync(w) PROVE ForwardInv' /\ ps'.content >= ps.content
    BY <1>9, CommitSyncForward
  <1>10. ASSUME NEW w \in Actors, CommitDelete(w) \/ CommitSweep(w)
         PROVE  ForwardInv' /\ ps'.content >= ps.content
    <2>1. Reset(w) /\ UNCHANGED <<src, target>>
      BY <1>10 DEF CommitDelete, CommitSweep, sourceVars
    <2>2. ContentsStay
      BY <1>10, DeactivatePageKeeps, StampsForward
         DEF CommitDelete, CommitSweep, PageStatuses, IInv
    <2>3. ps'.content >= ps.content
      BY <1>1, <2>2 DEF ContentsStay
    <2> QED
      BY <2>1, <2>2, <2>3, ResetForward
  <1>11. CASE UNCHANGED vars
    <2>1. UNCHANGED indexVars /\ UNCHANGED <<src, target, pc, kind, meta, local, body>>
      BY <1>11 DEF vars, sourceVars, actorVars
    <2> QED
      BY <1>1, <1>2, <1>3, <2>1
  <1> QED
    BY <1>4, <1>5, <1>6, <1>7, <1>8, <1>9, <1>10, <1>11 DEF Next, GoOn

LEMMA InitForward == ASSUME Init PROVE ForwardInv
  <1>1. src.content = 0 /\ src.version = 0 /\ \A d \in Ids : docs[d].content = 0
    BY DEF Init, IndexInit, NoDoc
  <1>2. \A w \in Actors : body[w] = 0 /\ pc[w] = "idle"
    BY DEF Init
  <1> QED
    BY <1>1, <1>2 DEF ForwardInv, AllUpTo

(* With one process that syncs, only a rollback takes the index back to an  *)
(* older content: it takes two, whose syncs overlap, for a stale one to     *)
(* undo a newer one (versioning.py, _activate).                            *)
THEOREM OneWorkerNeverOlder == ASSUME OneWorker PROVE Spec => NeverOlder
  <1>1. Init => IInv /\ AclInv /\ ForwardInv
    BY InitIInv, InitAcl, InitForward
  <1>2. IInv /\ AclInv /\ ForwardInv /\ [Next]_vars => (IInv /\ AclInv /\ ForwardInv)'
    BY StepIInv, StepAcl, StepForward
  <1>3. IInv /\ AclInv /\ ForwardInv /\ [Next]_vars =>
          [ps'.content >= ps.content \/ rollbacks' # rollbacks]_vars
    BY StepForward
  <1> QED
    BY <1>1, <1>2, <1>3, PTL DEF Spec, NeverOlder

-----------------------------------------------------------------------------
(* One actor and no rollback.  What it loaded is what is there.            *)
OneActor == \E w : Actors = {w}

HiddenInv ==
  /\ GoneIsHidden
  /\ \A w \in Actors : pc[w] \in {"confirm", "commit"} => seen[w] = ps

LEMMA HiddenStays ==
  ASSUME HiddenInv, UNCHANGED <<ps, docs>>,
         \A w \in Actors : pc'[w] \in {"confirm", "commit"} =>
                             seen'[w] = ps \/ (seen'[w] = seen[w] /\ pc[w] \in {"confirm", "commit"})
  PROVE  HiddenInv'
  BY DEF HiddenInv, GoneIsHidden, Served

(* A deactivation from the row that is there leaves nothing visible. *)
LEMMA DeactivatePageHides ==
  ASSUME IndexInv, GoneIsHidden, NEW status, DeactivatePage(ps, status)
  PROVE  GoneIsHidden'
  <1>1. CASE IsNew(ps)
    BY <1>1 DEF DeactivatePage, GoneIsHidden, Served
  <1>2. CASE ~IsNew(ps)
    <2>1. /\ ps.active \in Ids /\ Stored(ps.active) /\ docs \in [Ids -> Doc]
          /\ docs' = [docs EXCEPT ![ps.active] =
                        IF Stored(ps.active) THEN [@ EXCEPT !.visible = FALSE, !.status = status] ELSE @]
      BY <1>2 DEF IndexInv, RowsTyped, Registry, RegistryMatchesLive, IsNew, Stored, DeactivatePage
    <2>2. docs'[ps.active].visible = FALSE
      BY <2>1 DEF Doc
    <2>3. \A d \in Ids : d # ps.active => docs'[d] = docs[d] /\ ~docs[d].visible
      BY <2>1 DEF IndexInv, ServedIsLive
    <2> QED
      BY <2>2, <2>3 DEF GoneIsHidden, Served
  <1> QED
    BY <1>1, <1>2

(* What is rebuilt or stamped is a page that is current. *)
LEMMA SyncedIsCurrent ==
  ASSUME IInv, NEW w \in Actors, meta[w].status # "gone",
         Action(w) \in {"indexed", "metadata_only"}
  PROVE  MapPageStatus(meta[w].status) = "current"
  <1>1. meta[w].status \in {"current", "trashed"}
    BY DEF IInv, LocalsTyped, Source
  <1>2. meta[w].status # "trashed"
    BY DEF Action, SyncAction, GoneStatuses
  <1> QED
    BY <1>1, <1>2 DEF MapPageStatus, PageStatuses

LEMMA CommitHides ==
  ASSUME IInv, HiddenInv, NEW w \in Actors,
         CommitSync(w) \/ CommitDelete(w) \/ CommitSweep(w)
  PROVE  GoneIsHidden'
  <1>1. seen[w] = ps /\ IndexInv /\ GoneIsHidden /\ ps \in Registry
    BY DEF CommitSync, CommitDelete, CommitSweep, HiddenInv, IInv, IndexInv, RowsTyped
  <1>2. ASSUME NEW status, DeactivatePage(seen[w], status) PROVE GoneIsHidden'
    BY <1>1, <1>2, DeactivatePageHides
  <1>3. ASSUME UNCHANGED indexVars PROVE GoneIsHidden'
    BY <1>1, <1>3 DEF indexVars, GoneIsHidden, Served
  <1>4. ASSUME NEW v, NEW x, NEW c, NEW sd, StageAndActivate(seen[w], v, x, c, sd, "current")
        PROVE  GoneIsHidden'
    <2> DEFINE row == [active |-> FreshId, version |-> v, content |-> x, cfg |-> c,
                       side |-> sd, status |-> "current"]
    <2>1. ps' = Written(ps, row)
      BY <1>1, <1>4 DEF StageAndActivate
    <2>2. ps'.status = "current"
      BY <2>1 DEF Written, Flushed
    <2> QED
      BY <2>2 DEF GoneIsHidden
  <1>5. ASSUME NEW sd, ApplyMetadataOnly(seen[w], sd, "current") PROVE GoneIsHidden'
    <2>1. CASE IsNew(ps)
      BY <1>1, <1>5, <2>1 DEF ApplyMetadataOnly, GoneIsHidden, Served
    <2>2. CASE ~IsNew(ps)
      <3> DEFINE n == [ps EXCEPT !.side = sd, !.status = "current"]
      <3>1. n.status = "current"
        BY <1>1 DEF Registry
      <3>2. ps' = Written(ps, n)
        BY <1>1, <1>5, <2>2 DEF ApplyMetadataOnly
      <3> HIDE DEF n
      <3>3. ps'.status = "current"
        BY <3>1, <3>2 DEF Written, Flushed
      <3> QED
        BY <3>3 DEF GoneIsHidden
    <2> QED
      BY <2>1, <2>2
  <1> HIDE DEF DeactivatePage, StageAndActivate, ApplyMetadataOnly, MayActivate,
               ReplaceRestrictions, Action
  <1>6. CASE CommitDelete(w) \/ CommitSweep(w)
    BY <1>2, <1>6 DEF CommitDelete, CommitSweep
  <1>7. CASE CommitSync(w)
    <2>1. CASE Action(w) \in {"indexed", "metadata_only"} /\ meta[w].status # "gone"
      <3>1. MapPageStatus(meta[w].status) = "current"
        BY <2>1, SyncedIsCurrent
      <3> QED
        BY <1>4, <1>5, <1>7, <2>1, <3>1 DEF CommitSync
    <2>2. CASE ~(Action(w) \in {"indexed", "metadata_only"} /\ meta[w].status # "gone")
      BY <1>2, <1>3, <1>7, <2>2 DEF CommitSync
    <2> QED
      BY <2>1, <2>2
  <1> QED
    BY <1>6, <1>7

LEMMA StepHidden ==
  ASSUME OneActor, MaxRollbacks = 0, IInv, HiddenInv, [Next]_vars PROVE HiddenInv'
  <1>1. ASSUME UNCHANGED indexVars, UNCHANGED <<pc, seen>> PROVE HiddenInv'
    BY <1>1, HiddenStays DEF indexVars
  <1>2. ASSUME UNCHANGED indexVars, NEW w \in Actors, Reset(w) PROVE HiddenInv'
    <2>1. \A u \in Actors : /\ pc'[u] \in {"confirm", "commit"} => u # w
                            /\ u # w => pc'[u] = pc[u] /\ seen'[u] = seen[u]
      BY <1>2 DEF Reset, IInv, LocalsTyped
    <2> QED
      BY <1>2, <2>1, HiddenStays DEF indexVars
  <1>3. CASE Create \/ Edit \/ Relabel \/ Trash \/ Purge \/ Restore \/ UNCHANGED vars
    BY <1>1, <1>3 DEF Create, Edit, Relabel, Trash, Purge, Restore, vars, actorVars
  <1>4. CASE Deploy
    <2>1. UNCHANGED indexVars /\ \A w \in Actors : pc'[w] = "idle"
      BY <1>4 DEF Deploy
    <2> QED
      BY <2>1, HiddenStays DEF indexVars
  <1>5. ~Rollback
    BY DEF Rollback, IInv, LocalsTyped
  <1>6. ASSUME NEW w \in Actors,
               BeginSync(w) \/ LoadLocal(w) \/ FetchSide(w) \/ FetchBody(w) \/ BeginDelete(w)
                 \/ BeginSweep(w)
        PROVE  HiddenInv'
    <2>1. UNCHANGED indexVars /\ UNCHANGED seen
      BY <1>6 DEF BeginSync, LoadLocal, FetchSide, FetchBody, BeginDelete, BeginSweep
    <2>2. \A u \in Actors : pc'[u] \in {"confirm", "commit"} => pc'[u] = pc[u]
      BY <1>6 DEF BeginSync, LoadLocal, FetchSide, FetchBody, BeginDelete, BeginSweep,
                  IInv, LocalsTyped
    <2> QED
      BY <2>1, <2>2, HiddenStays DEF indexVars
  <1>7. ASSUME NEW w \in Actors, Load(w) PROVE HiddenInv'
    <2>1. /\ UNCHANGED indexVars /\ seen'[w] = ps
          /\ \A u \in Actors : u # w => pc'[u] = pc[u] /\ seen'[u] = seen[u]
      BY <1>7 DEF Load, IInv, LocalsTyped
    <2> QED
      BY <2>1, HiddenStays DEF indexVars
  <1>8. ASSUME NEW w \in Actors, LoadRegistry(w) \/ ConfirmGone(w) \/ Refused(w) \/ Fail(w)
        PROVE  HiddenInv'
    <2>1. UNCHANGED indexVars
      BY <1>8 DEF LoadRegistry, ConfirmGone, Refused, Fail
    <2>2. CASE Reset(w)
      BY <1>2, <2>1, <2>2
    <2>3. CASE ~Reset(w)
      <3>1. /\ pc' \in {[pc EXCEPT ![w] = "commit"], [pc EXCEPT ![w] = "confirm"]}
            /\ seen' = [seen EXCEPT ![w] = ps] \/ (UNCHANGED seen /\ pc[w] = "confirm")
        BY <1>8, <2>3 DEF LoadRegistry, ConfirmGone, Refused, Fail
      <3>2. \A u \in Actors : u # w => pc'[u] = pc[u] /\ seen'[u] = seen[u]
        BY <3>1 DEF IInv, LocalsTyped
      <3>3. seen'[w] = ps \/ (seen'[w] = seen[w] /\ pc[w] = "confirm")
        BY <3>1 DEF IInv, LocalsTyped
      <3> QED
        BY <2>1, <3>2, <3>3, HiddenStays DEF indexVars
    <2> QED
      BY <2>2, <2>3
  <1>9. ASSUME NEW w \in Actors, CommitSync(w) \/ CommitDelete(w) \/ CommitSweep(w)
        PROVE  HiddenInv'
    <2>1. GoneIsHidden'
      BY <1>9, CommitHides
    <2>2. Reset(w) /\ Actors = {w}
      BY <1>9 DEF CommitSync, CommitDelete, CommitSweep, OneActor
    <2>3. \A u \in Actors : pc'[u] = "idle"
      BY <2>2 DEF Reset, IInv, LocalsTyped
    <2> QED
      BY <2>1, <2>3 DEF HiddenInv
  <1> QED
    BY <1>3, <1>4, <1>5, <1>6, <1>7, <1>8, <1>9 DEF Next, GoOn

LEMMA InitHidden == ASSUME Init PROVE HiddenInv
  <1>1. ps.status = "current" /\ \A w \in Actors : pc[w] = "idle"
    BY DEF Init, IndexInit, NoPage
  <1> QED
    BY <1>1 DEF HiddenInv, GoneIsHidden

(* A process alone, without rollbacks: a page the registry has marked as   *)
(* not current is not served (versioning.py, deactivate_page).             *)
THEOREM OneActorHidesGone ==
  ASSUME OneActor, MaxRollbacks = 0 PROVE Spec => []GoneIsHidden
  <1>1. Init => IInv /\ HiddenInv
    BY InitIInv, InitHidden
  <1>2. IInv /\ HiddenInv /\ [Next]_vars => (IInv /\ HiddenInv)'
    BY StepIInv, StepHidden
  <1>3. HiddenInv => GoneIsHidden
    BY DEF HiddenInv
  <1> QED
    BY <1>1, <1>2, <1>3, PTL DEF Spec
=============================================================================
