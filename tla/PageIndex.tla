----------------------------- MODULE PageIndex -----------------------------
(***************************************************************************)
(* The index of one page (ingestion/application/versioning.py): its        *)
(* registry row page_source, its document_version rows and their chunks.   *)
(* The chunks of a version are only ever updated together, so a version's  *)
(* record carries what they have in common.                                *)
(*                                                                         *)
(* Every operation takes the registry row its session has loaded, which    *)
(* may have changed in the table since: the ORM writes back the columns    *)
(* that differ from the loaded value, and aims its bulk updates at the     *)
(* loaded pointer.  What it may not do is left to the table's constraints, *)
(* which are operators here.                                               *)
(***************************************************************************)
EXTENDS ChangeDetection, Orders, FiniteSets

CONSTANTS
  Ids,      \* document_version.id, never used twice
  Retain,   \* DEFAULT_RETAIN_SUPERSEDED
  Configs,  \* pipeline versions
  Marks,    \* labels and attachment manifests
  Accounts, \* those a restriction may allow
  Everybody \* the readers of a page without a restriction

ASSUME IndexAssumption ==
  /\ NoId \notin Ids
  /\ Retain \in Nat \ {0}
  /\ Configs \subseteq Nat
  /\ Marks # {}

VARIABLES
  ps,       \* the page_source row
  docs,     \* the document_version rows, with what their chunks have in common
  retired,  \* superseded versions by superseded_at, the newest first
  acl       \* the readers the page_restriction rows allow; without a row, Everybody

indexVars == <<ps, docs, retired, acl>>

(* A restriction that could not be resolved allows nobody: its sentinel is *)
(* no account.                                                             *)
Readers == {Everybody} \cup SUBSET Accounts
Sides   == [marks: Marks, readers: Readers]

Registry == [active: Ids \cup {NoId}, version: Nat, content: Nat, cfg: Configs \cup {0},
             side: Sides, status: PageStatuses]

DocStates == {"unused", "active", "superseded", "deleted"}

(* side is what is stamped on the chunks; files are the marks the page had *)
(* when the text of its attachments was put into them.                     *)
Doc == [state: DocStates, version: Nat, content: Nat, cfg: Configs \cup {0}, side: Sides,
        files: Marks, status: PageStatuses, visible: BOOLEAN]

SomeSide == CHOOSE s \in Sides : TRUE
NoPage == [active |-> NoId, version |-> 0, content |-> 0, cfg |-> 0, side |-> SomeSide,
           status |-> "current"]
NoDoc == [state |-> "unused", version |-> 0, content |-> 0, cfg |-> 0, side |-> SomeSide,
          files |-> SomeSide.marks, status |-> "current", visible |-> FALSE]

IndexInit ==
  /\ ps = NoPage
  /\ docs = [d \in Ids |-> NoDoc]
  /\ retired = <<>>
  /\ acl = Everybody

(* Ids are random: which unused one a build gets makes no difference.      *)
Unused == {d \in Ids : docs[d].state = "unused"}
FreshId == CHOOSE d \in Unused : TRUE

Stored(d) == docs[d].state \in {"active", "superseded"}

(* What the hybrid search sees of a version (search_repo.py). *)
Served(d) == docs[d].visible /\ docs[d].status = "current"

-----------------------------------------------------------------------------
(* The table's constraints.                                                *)

(* uq_document_version_idem *)
BuildIsNew(version, cfg) ==
  \A d \in Ids : Stored(d) => docs[d].version # version \/ docs[d].cfg # cfg

(* ux_document_version_one_active, once the version the session believes   *)
(* active has been superseded.                                             *)
OneActive(old) == \A d \in Ids : docs[d].state = "active" => d = old

(* The primary key of page_source. *)
PageIsNew(seen) == IsNew(seen) => IsNew(ps)

MayActivate(seen, version, cfg) ==
  BuildIsNew(version, cfg) /\ OneActive(seen.active) /\ PageIsNew(seen)

-----------------------------------------------------------------------------
(* What a flush leaves in a column, and in the row: only the columns whose *)
(* value differs from the loaded one are written.                          *)
Flushed(current, seen, set) == IF set = seen THEN current ELSE set

Written(seen, new) ==
  [active  |-> Flushed(ps.active, seen.active, new.active),
   version |-> Flushed(ps.version, seen.version, new.version),
   content |-> Flushed(ps.content, seen.content, new.content),
   cfg     |-> Flushed(ps.cfg, seen.cfg, new.cfg),
   side    |-> Flushed(ps.side, seen.side, new.side),
   status  |-> Flushed(ps.status, seen.status, new.status)]

Superseded_ChunksLeft(doc) == [doc EXCEPT !.state = "superseded"]
Superseded(doc) == [doc EXCEPT !.state = "superseded", !.visible = FALSE]

(* superseded_at DESC once version old has been superseded. *)
WithRetired(old) ==
  IF old \in Ids /\ Stored(old) THEN <<old>> \o Without(retired, old) ELSE retired

(* _gc_superseded: the retained rollback window. *)
Window_Oldest(order) ==
  SubSeq(order, IF Len(order) > Retain THEN Len(order) - Retain + 1 ELSE 1, Len(order))
Window(order) == SubSeq(order, 1, IF Len(order) < Retain THEN Len(order) ELSE Retain)

(* stage_and_activate: stage a version, supersede the one the session      *)
(* believes active, swap the pointer, collect what leaves the window.      *)
StageAndActivate(seen, version, content, cfg, side, status) ==
  LET new == [state |-> "active", version |-> version, content |-> content, cfg |-> cfg,
              side |-> side, files |-> side.marks, status |-> status, visible |-> TRUE]
      window == Window(WithRetired(seen.active))
      InWindow(d) == \E k \in 1..Len(window) : window[k] = d
      Old(d) == IF d = seen.active /\ Stored(d) THEN Superseded(docs[d]) ELSE docs[d]
      Kept(d) == IF Old(d).state = "superseded" /\ ~InWindow(d)
                 THEN [Old(d) EXCEPT !.state = "deleted", !.visible = FALSE]
                 ELSE Old(d)
  IN /\ Unused # {}
     /\ docs' = [d \in Ids |-> IF d = FreshId THEN new ELSE Kept(d)]
     /\ retired' = window
     /\ ps' = Written(seen, [active |-> FreshId, version |-> version, content |-> content,
                             cfg |-> cfg, side |-> side, status |-> status])

(* deactivate_page: mark the status, hide the chunks.  The version stays   *)
(* active and the pointer stays.                                           *)
DeactivatePage_StatusOnly(seen, status) ==
  IF IsNew(seen)
  THEN UNCHANGED <<ps, docs, retired>>
  ELSE /\ ps' = Written(seen, [seen EXCEPT !.status = status])
       /\ UNCHANGED <<docs, retired>>
DeactivatePage(seen, status) ==
  IF IsNew(seen)
  THEN UNCHANGED <<ps, docs, retired>>
  ELSE /\ ps' = Written(seen, [seen EXCEPT !.status = status])
       /\ docs' = [docs EXCEPT ![seen.active] =
                     IF Stored(seen.active) THEN [@ EXCEPT !.visible = FALSE, !.status = status] ELSE @]
       /\ UNCHANGED retired

(* _apply_metadata_only: columns and chunk stamps; visibility is not one,  *)
(* and the text of attachments is left to the next rebuild.                *)
ApplyMetadataOnly(seen, side, status) ==
  IF IsNew(seen)
  THEN UNCHANGED <<ps, docs, retired>>
  ELSE /\ ps' = Written(seen, [seen EXCEPT !.side = side, !.status = status])
       /\ docs' = [docs EXCEPT ![seen.active] =
                     IF Stored(seen.active) THEN [@ EXCEPT !.side = side, !.status = status] ELSE @]
       /\ UNCHANGED retired

(* rollback_to: the pointer, and the columns that describe the version,    *)
(* go back to a retained version.  It is one step, on the rows as they     *)
(* are: only tests call it, and one whose loads and writes are apart has a *)
(* hazard of its own, which is not modelled (versioning.py:421).           *)
RollbackTo_PointerOnly(i) ==
  /\ ~IsNew(ps)
  /\ Stored(i)
  /\ docs' = [d \in Ids |-> IF d = i THEN [docs[d] EXCEPT !.state = "active", !.visible = TRUE]
                            ELSE IF d = ps.active THEN Superseded(docs[d]) ELSE docs[d]]
  /\ retired' = IF i = ps.active THEN retired
                ELSE Without(WithRetired(ps.active), i)
  /\ ps' = [ps EXCEPT !.active = i]
  /\ UNCHANGED acl
RollbackTo_StampKept(i) ==
  /\ ~IsNew(ps)
  /\ Stored(i)
  /\ docs' = [d \in Ids |-> IF d = i THEN [docs[d] EXCEPT !.state = "active", !.visible = TRUE]
                            ELSE IF d = ps.active THEN Superseded(docs[d]) ELSE docs[d]]
  /\ retired' = IF i = ps.active THEN retired ELSE WithRetired(ps.active)
  /\ ps' = [ps EXCEPT !.active = i, !.version = docs[i].version, !.content = docs[i].content,
                      !.cfg = docs[i].cfg]
  /\ UNCHANGED acl
RollbackTo(i) ==
  /\ ~IsNew(ps)
  /\ Stored(i)
  /\ docs' = [d \in Ids |-> IF d = i THEN [docs[d] EXCEPT !.state = "active", !.visible = TRUE]
                            ELSE IF d = ps.active THEN Superseded(docs[d]) ELSE docs[d]]
  /\ retired' = IF i = ps.active THEN retired
                ELSE Without(WithRetired(ps.active), i)
  /\ ps' = [ps EXCEPT !.active = i, !.version = docs[i].version, !.content = docs[i].content,
                      !.cfg = docs[i].cfg]
  /\ UNCHANGED acl
=============================================================================
