-------------------------- MODULE ChangeDetection --------------------------
(***************************************************************************)
(* What a sync does with a page, decided from the page as Confluence has   *)
(* it and as the registry has it (ingestion/domain/change_detection.py and *)
(* the branches of handle_sync_page in sync_service.py).                   *)
(*                                                                         *)
(* A content is the revision that last changed the body, so that equal     *)
(* content hashes are equal contents.  "side" stands for everything that   *)
(* has a hash or a column of its own and is stamped without a rebuild:     *)
(* labels, restrictions, attachment manifest, title and parent; the text   *)
(* of the attachments is not part of it.  "cfg" is the tuple of pipeline   *)
(* versions, of which any difference is a rebuild.                         *)
(***************************************************************************)
EXTENDS Naturals

CONSTANT
  NoId       \* active_doc_version_id of a page that has no registry row

PageStatuses == {"current", "archived", "trashed", "deleted", "draft"}
GoneStatuses == {"trashed", "deleted", "archived"}

(* A status Confluence may add later counts as current. *)
MapPageStatus(status) == IF status \in PageStatuses THEN status ELSE "current"

IsNew(local) == local.active = NoId
IndexConfigChanged(local, cfg) == local.cfg # cfg
NewerRevision_SkipsOne(local, meta) == meta.version > local.version + 1
NewerRevision(local, meta) == meta.version > local.version

DecideBodyFetch(local, meta, cfg) ==
  /\ meta.status \notin GoneStatuses
  /\ IsNew(local) \/ NewerRevision(local, meta) \/ IndexConfigChanged(local, cfg)

MetadataClasses(local, meta, side) ==
  {c \in {"metadata_changed", "status_changed"} :
     \/ c = "metadata_changed" /\ side # local.side
     \/ c = "status_changed" /\ MapPageStatus(meta.status) # local.status}

(* The classes of a page that is not gone and not new; the version guard   *)
(* keeps the body of a revision that is not newer out of it.               *)
BodyClasses(local, meta, cfg, body) ==
  {c \in {"index_config_change", "body_changed"} :
     \/ c = "index_config_change" /\ IndexConfigChanged(local, cfg)
     \/ /\ c = "body_changed"
        /\ NewerRevision(local, meta) \/ IndexConfigChanged(local, cfg)
        /\ body # local.content}

Classify(local, meta, side, body, cfg) ==
  IF IsNew(local) THEN {"body_changed"}
  ELSE MetadataClasses(local, meta, side) \cup BodyClasses(local, meta, cfg, body)

RebuildClasses == {"index_config_change", "body_changed"}

(* The branch handle_sync_page takes. *)
SyncAction(local, meta, side, body, cfg) ==
  LET classes == Classify(local, meta, side, body, cfg) IN
  CASE meta.status \in GoneStatuses -> "deactivated"
    [] meta.status \notin GoneStatuses /\ classes \cap RebuildClasses # {} -> "indexed"
    [] meta.status \notin GoneStatuses /\ classes # {} /\ classes \cap RebuildClasses = {} ->
         "metadata_only"
    [] OTHER -> "no_change"
=============================================================================
