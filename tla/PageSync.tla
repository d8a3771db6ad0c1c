------------------------------ MODULE PageSync ------------------------------
(***************************************************************************)
(* One Confluence page, and everything that keeps its index in step with   *)
(* it (confluence_sync/application): the handlers of sync_page and         *)
(* delete_page jobs, and the reconciliation sweeps that deactivate pages.  *)
(*                                                                         *)
(* A handler reads Confluence by several requests and the database by      *)
(* several statements of one READ COMMITTED transaction, and writes at the *)
(* end; the page, and the other actors, go on in between.  Each request    *)
(* and each load is a step, the writes are one: they touch the same rows,  *)
(* so the row locks serialize them or deadlock, and a deadlock is one of   *)
(* the failures below.                                                     *)
(*                                                                         *)
(* handle_sync_page loads the registry row three times: for change         *)
(* detection (local), for the chunks it may reuse (not modelled) and for   *)
(* its writes (seen); nothing holds the object in between, so the identity *)
(* map does not either.  A sweep holds the rows it loads.                  *)
(***************************************************************************)
EXTENDS PageIndex

CONSTANTS
  Group,         \* the accounts a restriction names as members of a group
  Workers,       \* processes that run jobs (and sweeps: run_reconciliation_once)
  Sweepers,      \* threads that only sweep: the scheduler's reconciliation jobs
  MaxVersion,    \* bound on revisions of the page
  MaxChanges,    \* bound on changes of the page and of the deployment
  MaxFailures,   \* bound on handlers that fail for no reason of the model's
  MaxRollbacks,  \* bound on rollbacks
  MayRestore,    \* whether a trashed page may be restored
  NoMarks        \* no label and no attachment

Actors == Workers \cup Sweepers

ASSUME SyncAssumption ==
  /\ Workers \cap Sweepers = {}
  /\ MaxVersion \in Nat /\ MaxChanges \in Nat /\ MaxFailures \in Nat /\ MaxRollbacks \in Nat
  /\ MayRestore \in BOOLEAN
  /\ 1 \in Configs
  /\ NoMarks \in Marks
  /\ Group \subseteq Accounts

VARIABLES
  src,        \* the page in Confluence
  target,     \* the pipeline configuration deployed
  pc,         \* where each actor is
  kind,       \* what it runs
  meta,       \* its get_page_meta
  local,      \* its get_local_state
  side,       \* its get_labels, get_restrictions, get_attachments
  body,       \* its get_page
  seen,       \* the registry row its session holds
  deletes,    \* delete_page jobs in the queue
  groups,     \* its client's _group_members_cache: the members it was told of, if it has asked
  since,      \* the marks the page has had since the last deployment (history)
  changes, failures, rollbacks   \* how much of each bound is used

sourceVars == <<src, target, changes>>
readVars   == <<meta, local, side, body>>
actorVars  == <<pc, kind, meta, local, side, body, seen>>
countVars  == <<failures, rollbacks>>
sideVars   == <<groups, since>>
vars == <<indexVars, sourceVars, actorVars, deletes, countVars, sideVars>>

(* "gone": the page answers 404, as it does before it exists (version 0). *)
Source == [version: Nat, content: Nat, side: Sides, status: {"current", "trashed", "gone"}]
Steps  == {"idle", "local", "side", "body", "load", "listed", "confirm", "commit"}
Kinds  == {"none", "sync", "delete", "sweep"}

NoMeta == [version |-> 0, content |-> 0, side |-> SomeSide, status |-> "current"]

Init ==
  /\ IndexInit
  /\ src = [version |-> 0, content |-> 0, side |-> SomeSide, status |-> "gone"]
  /\ target = 1
  /\ pc = [w \in Actors |-> "idle"]
  /\ kind = [w \in Actors |-> "none"]
  /\ meta = [w \in Actors |-> NoMeta]
  /\ local = [w \in Actors |-> NoPage]
  /\ side = [w \in Actors |-> SomeSide]
  /\ body = [w \in Actors |-> 0]
  /\ seen = [w \in Actors |-> NoPage]
  /\ groups = [w \in Actors |-> {}] /\ since = {}
  /\ deletes = 0 /\ changes = 0 /\ failures = 0 /\ rollbacks = 0

-----------------------------------------------------------------------------
(* The page in Confluence, and deployments.                                *)

Change == changes < MaxChanges /\ changes' = changes + 1

(* A page somebody can read. *)
Pages == {s \in Sides : s.readers # {}}

Create ==
  /\ src.version = 0
  /\ \E s \in Pages :
       /\ src' = [version |-> 1, content |-> 1, side |-> s, status |-> "current"]
       /\ since' = {s.marks}
  /\ UNCHANGED <<indexVars, target, changes, actorVars, deletes, countVars, groups>>

(* A new revision, of the body or of the title only. *)
Edit ==
  /\ Change
  /\ src.status = "current" /\ src.version < MaxVersion
  /\ \E c \in {src.content, src.version + 1} :
       src' = [src EXCEPT !.version = @ + 1, !.content = c]
  /\ UNCHANGED <<indexVars, target, actorVars, deletes, countVars, sideVars>>

(* Labels, restrictions, groups and attachments change without a new       *)
(* revision.                                                               *)
Relabel ==
  /\ Change
  /\ src.status = "current"
  /\ \E s \in Pages \ {src.side} :
       /\ src' = [src EXCEPT !.side = s]
       /\ since' = since \cup {s.marks}
  /\ UNCHANGED <<indexVars, target, actorVars, deletes, countVars, groups>>

(* The webhook enqueues a delete_page job, unless it is lost or the key is *)
(* taken by an earlier one.                                                *)
Trash ==
  /\ Change
  /\ src.status = "current"
  /\ src' = [src EXCEPT !.status = "trashed"]
  /\ deletes' \in {deletes, deletes + 1}
  /\ UNCHANGED <<indexVars, target, actorVars, countVars, sideVars>>

Purge ==
  /\ Change
  /\ src.status = "trashed"
  /\ src' = [src EXCEPT !.status = "gone"]
  /\ UNCHANGED <<indexVars, target, actorVars, deletes, countVars, sideVars>>

Restore ==
  /\ Change
  /\ MayRestore
  /\ src.status = "trashed"
  /\ src' = [src EXCEPT !.status = "current"]
  /\ UNCHANGED <<indexVars, target, actorVars, deletes, countVars, sideVars>>

Reset(w) ==
  /\ pc' = [pc EXCEPT ![w] = "idle"]
  /\ kind' = [kind EXCEPT ![w] = "none"]
  /\ meta' = [meta EXCEPT ![w] = NoMeta]
  /\ local' = [local EXCEPT ![w] = NoPage]
  /\ side' = [side EXCEPT ![w] = SomeSide]
  /\ body' = [body EXCEPT ![w] = 0]
  /\ seen' = [seen EXCEPT ![w] = NoPage]

(* A deployment with a new pipeline configuration restarts every process. *)
Deploy ==
  /\ Change
  /\ target + 1 \in Configs
  /\ target' = target + 1
  /\ pc' = [w \in Actors |-> "idle"]
  /\ kind' = [w \in Actors |-> "none"]
  /\ meta' = [w \in Actors |-> NoMeta]
  /\ local' = [w \in Actors |-> NoPage]
  /\ side' = [w \in Actors |-> SomeSide]
  /\ body' = [w \in Actors |-> 0]
  /\ seen' = [w \in Actors |-> NoPage]
  /\ groups' = [w \in Actors |-> {}]
  /\ since' = {src.side.marks}
  /\ UNCHANGED <<indexVars, src, deletes, countVars>>

-----------------------------------------------------------------------------
(* handle_sync_page: the requests.  A sync of the page may start at any    *)
(* time: a webhook, a drift a sweep has seen, a retry, a duplicate.        *)

BeginSync(w) ==
  /\ w \in Workers /\ pc[w] = "idle"
  /\ pc' = [pc EXCEPT ![w] = IF src.status = "gone" THEN "load" ELSE "local"]
  /\ kind' = [kind EXCEPT ![w] = "sync"]
  /\ meta' = [meta EXCEPT ![w] = src]
  /\ UNCHANGED <<indexVars, sourceVars, local, side, body, seen, deletes, countVars, sideVars>>

LoadLocal(w) ==
  /\ pc[w] = "local"
  /\ pc' = [pc EXCEPT ![w] = "side"]
  /\ local' = [local EXCEPT ![w] = ps]
  /\ UNCHANGED <<indexVars, sourceVars, kind, meta, side, body, seen, deletes, countVars, sideVars>>

(* Whom a restriction allows: those it names, and the members of a group,  *)
(* if it has one (here one with a member).                                 *)
GroupOf(readers) == IF readers = Everybody THEN {} ELSE readers \cap Group
Resolved(readers, members) ==
  IF readers = Everybody THEN Everybody ELSE (readers \ Group) \cup members

(* _group_members: a group is asked for once in the life of the client,    *)
(* which is the process's; what it answered then, a refusal included, is   *)
(* what it has.                                                            *)
Members(w, answers) ==
  IF GroupOf(src.side.readers) = {} THEN {{}}
  ELSE IF groups[w] = {} THEN answers ELSE groups[w]
AskGroup(w, members) ==
  groups' = IF GroupOf(src.side.readers) = {} THEN groups ELSE [groups EXCEPT ![w] = {members}]

(* All requests are answered. *)
SideAnswered(w) ==
  \E members \in Members(w, {GroupOf(src.side.readers)}) :
    /\ side' = [side EXCEPT ![w] = [marks |-> src.side.marks,
                                   readers |-> Resolved(src.side.readers, members)]]
    /\ AskGroup(w, members)

(* get_labels and get_attachments take a refusal (4xx) for none,           *)
(* get_restrictions for a restriction that nobody meets, and a group whose *)
(* members are refused, or a page of them, for one without them.           *)
SideRefused(w) ==
  \E marks \in {src.side.marks, NoMarks} :
    /\ \/ /\ side' = [side EXCEPT ![w] = [marks |-> marks, readers |-> {}]]
          /\ UNCHANGED groups
       \/ \E members \in Members(w, SUBSET GroupOf(src.side.readers)) :
            /\ side' = [side EXCEPT ![w] = [marks |-> marks,
                                           readers |-> Resolved(src.side.readers, members)]]
            /\ AskGroup(w, members)
    /\ since' = since \cup {marks}

(* The requests for a page that is gone by now are all refused.            *)
FetchSide(w) ==
  /\ pc[w] = "side"
  /\ pc' = [pc EXCEPT ![w] = IF DecideBodyFetch(local[w], meta[w], target) THEN "body" ELSE "load"]
  /\ \/ /\ src.status # "gone"
        /\ SideAnswered(w)
        /\ UNCHANGED <<failures, since>>
     \/ /\ src.status # "gone" /\ failures < MaxFailures
        /\ SideRefused(w)
        /\ failures' = failures + 1
     \/ /\ src.status = "gone"
        /\ side' = [side EXCEPT ![w] = [marks |-> NoMarks, readers |-> {}]]
        /\ UNCHANGED <<failures, sideVars>>
  /\ UNCHANGED <<indexVars, sourceVars, kind, meta, local, body, seen, deletes, rollbacks>>

(* Of a page that is gone by now there is no body, and nothing to stage:   *)
(* the handler fails (Fail).                                               *)
FetchBody(w) ==
  /\ pc[w] = "body"
  /\ src.status # "gone"
  /\ pc' = [pc EXCEPT ![w] = "load"]
  /\ body' = [body EXCEPT ![w] = src.content]
  /\ UNCHANGED <<indexVars, sourceVars, kind, meta, local, side, seen, deletes, countVars, sideVars>>

(* handle_delete_page makes no request. *)
BeginDelete(w) ==
  /\ w \in Workers /\ pc[w] = "idle"
  /\ deletes > 0
  /\ pc' = [pc EXCEPT ![w] = "load"]
  /\ kind' = [kind EXCEPT ![w] = "delete"]
  /\ UNCHANGED <<indexVars, sourceVars, readVars, seen, deletes, countVars, sideVars>>

Load(w) ==
  /\ pc[w] = "load"
  /\ pc' = [pc EXCEPT ![w] = "commit"]
  /\ seen' = [seen EXCEPT ![w] = ps]
  /\ UNCHANGED <<indexVars, sourceVars, kind, readVars, deletes, countVars, sideVars>>

-----------------------------------------------------------------------------
(* A sweep: list_space_pages, then the registry.  For a page that is       *)
(* listed it enqueues a sync at most (BeginSync).  A row of a page that is *)
(* not listed, an orphan, the complete sweep deactivates, the lightweight  *)
(* one if Confluence confirms that it is gone.                             *)

BeginSweep(w) ==
  /\ pc[w] = "idle"
  /\ src.status # "current"
  /\ pc' = [pc EXCEPT ![w] = "listed"]
  /\ kind' = [kind EXCEPT ![w] = "sweep"]
  /\ UNCHANGED <<indexVars, sourceVars, readVars, seen, deletes, countVars, sideVars>>

LoadRegistry(w) ==
  /\ pc[w] = "listed"
  /\ IF ~IsNew(ps) /\ ps.status = "current"
     THEN /\ pc' \in {[pc EXCEPT ![w] = "commit"], [pc EXCEPT ![w] = "confirm"]}
          /\ seen' = [seen EXCEPT ![w] = ps]
          /\ UNCHANGED <<kind, readVars>>
     ELSE Reset(w)
  /\ UNCHANGED <<indexVars, sourceVars, deletes, countVars, sideVars>>

ConfirmGone(w) ==
  /\ pc[w] = "confirm"
  /\ IF src.status = "gone"
     THEN pc' = [pc EXCEPT ![w] = "commit"] /\ UNCHANGED <<kind, readVars, seen>>
     ELSE Reset(w)
  /\ UNCHANGED <<indexVars, sourceVars, deletes, countVars, sideVars>>

-----------------------------------------------------------------------------
(* The writes.                                                             *)

Action(w) == SyncAction(local[w], meta[w], side[w], body[w], target)

(* _replace_restrictions, if they differ from those change detection saw. *)
ReplaceRestrictions_OnRebuild(w) ==
  acl' = IF Action(w) = "indexed" THEN side[w].readers ELSE acl
ReplaceRestrictions(w) ==
  acl' = IF IsNew(local[w]) \/ side[w].readers # local[w].side.readers
         THEN side[w].readers ELSE acl

CommitSync(w) ==
  /\ pc[w] = "commit" /\ kind[w] = "sync"
  /\ CASE meta[w].status = "gone" -> DeactivatePage(seen[w], "deleted") /\ UNCHANGED acl
       [] meta[w].status # "gone" /\ Action(w) = "deactivated" ->
            DeactivatePage(seen[w], MapPageStatus(meta[w].status)) /\ UNCHANGED acl
       [] meta[w].status # "gone" /\ Action(w) = "indexed" ->
            /\ MayActivate(seen[w], meta[w].version, target)
            /\ StageAndActivate(seen[w], meta[w].version, body[w], target, side[w],
                                MapPageStatus(meta[w].status))
            /\ ReplaceRestrictions(w)
       [] meta[w].status # "gone" /\ Action(w) = "metadata_only" ->
            /\ ApplyMetadataOnly(seen[w], side[w], MapPageStatus(meta[w].status))
            /\ ReplaceRestrictions(w)
       [] OTHER -> UNCHANGED indexVars
  /\ Reset(w)
  /\ UNCHANGED <<sourceVars, deletes, countVars, sideVars>>

CommitDelete(w) ==
  /\ pc[w] = "commit" /\ kind[w] = "delete"
  /\ DeactivatePage(seen[w], "trashed")
  /\ deletes' = IF deletes > 0 THEN deletes - 1 ELSE 0
  /\ Reset(w)
  /\ UNCHANGED <<acl, sourceVars, countVars, sideVars>>

CommitSweep(w) ==
  /\ pc[w] = "commit" /\ kind[w] = "sweep"
  /\ DeactivatePage(seen[w], "deleted")
  /\ Reset(w)
  /\ UNCHANGED <<acl, sourceVars, deletes, countVars, sideVars>>

(* A constraint refuses the rebuild, or there is nothing to build from. *)
Refused(w) ==
  /\ \/ pc[w] = "body" /\ src.status = "gone"
     \/ /\ pc[w] = "commit" /\ kind[w] = "sync" /\ meta[w].status # "gone"
        /\ Action(w) = "indexed"
        /\ ~MayActivate(seen[w], meta[w].version, target)
  /\ Reset(w)
  /\ UNCHANGED <<indexVars, sourceVars, deletes, countVars, sideVars>>

(* A request fails for good, a deadlock, or a crash, after which the       *)
(* process has a new client.                                               *)
Fail(w) ==
  /\ pc[w] # "idle"
  /\ failures < MaxFailures
  /\ failures' = failures + 1
  /\ Reset(w)
  /\ groups' \in {groups, [groups EXCEPT ![w] = {}]}
  /\ UNCHANGED <<indexVars, sourceVars, deletes, rollbacks, since>>

Rollback ==
  /\ rollbacks < MaxRollbacks
  /\ rollbacks' = rollbacks + 1
  /\ \E i \in Ids : RollbackTo(i)
  /\ UNCHANGED <<sourceVars, actorVars, deletes, failures, sideVars>>

-----------------------------------------------------------------------------
GoOn(w) ==
  \/ LoadLocal(w) \/ FetchSide(w) \/ FetchBody(w) \/ Load(w)
  \/ LoadRegistry(w) \/ ConfirmGone(w)
  \/ CommitSync(w) \/ CommitDelete(w) \/ CommitSweep(w) \/ Refused(w)

Next ==
  \/ Create \/ Edit \/ Relabel \/ Trash \/ Purge \/ Restore \/ Deploy \/ Rollback
  \/ \E w \in Actors : BeginSync(w) \/ BeginDelete(w) \/ BeginSweep(w) \/ GoOn(w) \/ Fail(w)

Spec == Init /\ [][Next]_vars

(* Requests time out, so whoever has started goes on; the schedules of the *)
(* sweeps and of the queue never stop, so each kind of run starts again    *)
(* and again (the complete sweep enqueues a sync of every listed page).    *)
Fairness ==
  /\ \A w \in Actors : WF_vars(GoOn(w)) /\ SF_vars(BeginSweep(w))
  /\ \A w \in Workers : SF_vars(BeginSync(w)) /\ SF_vars(BeginDelete(w))

FairSpec == Spec /\ Fairness
-----------------------------------------------------------------------------
(* An operator X_Y beside an operator X is X with the slip named by Y: no  *)
(* specification uses it, it only shows which property notices the slip.   *)

(* Every row and local value keeps its type; retired lists the superseded  *)
(* versions, each once.                                                    *)
RowsTyped == ps \in Registry /\ docs \in [Ids -> Doc] /\ acl \in Readers

SideVarsTyped == groups \in [Actors -> SUBSET SUBSET Group] /\ since \in SUBSET Marks

LocalsTyped ==
  /\ src \in Source /\ target \in Configs
  /\ pc \in [Actors -> Steps] /\ kind \in [Actors -> Kinds]
  /\ meta \in [Actors -> Source] /\ local \in [Actors -> Registry]
  /\ side \in [Actors -> Sides] /\ body \in [Actors -> Nat] /\ seen \in [Actors -> Registry]
  /\ SideVarsTyped
  /\ deletes \in Nat /\ changes \in Nat /\ failures \in Nat /\ rollbacks \in Nat

TypeOK ==
  /\ RowsTyped /\ LocalsTyped
  /\ LET superseded == {d \in Ids : docs[d].state = "superseded"} IN
       retired \in Seq(superseded) /\ Len(retired) = Cardinality(superseded)

(* Chunks are in the live index only if their version is the active one    *)
(* and the registry points to it, whoever writes with whatever stale row:  *)
(* two versions of a page are never served together.                       *)
ServedIsLive == \A d \in Ids : docs[d].visible => docs[d].state = "active" /\ d = ps.active

(* The registry's version, content and configuration are those of the      *)
(* version it points to, so change detection compares Confluence with what *)
(* is indexed.                                                             *)
RegistryMatchesLive ==
  ~IsNew(ps) => LET d == docs[ps.active] IN
    d.state = "active" /\ ps.version = d.version /\ ps.content = d.content /\ ps.cfg = d.cfg

(* The version a step retires is still there for a rollback (ADR-0002). *)
LiveIsKept ==
  [][\A d \in Ids : docs[d].state = "active" => docs'[d].state \in {"active", "superseded"}]_vars

(* A page the registry has marked as not current is not served             *)
(* (deactivate_page).                                                      *)
GoneIsHidden == ps.status # "current" => \A d \in Ids : ~Served(d)

(* The persisted restrictions are those the registry's hash was taken of,  *)
(* so a later sync that finds the hash unchanged may leave them.           *)
AclMatchesRegistry == ~IsNew(ps) => acl = ps.side.readers

(* Only a rollback takes the index back to an older content: a stale sync  *)
(* never undoes a newer one.                                               *)
NeverOlder == [][ps'.content >= ps.content \/ rollbacks' # rollbacks]_vars

(* Once the page stops changing, what is served is what Confluence has, or *)
(* nothing: its last body, stamps and configuration, to the readers it has *)
(* there.  Two things are not as in Confluence for ever.  The members of a *)
(* group are those a process was told of when it first asked, and a        *)
(* refusal it got then no later sync makes good (confluence_client.py:367).*)
(* The text of attachments is only as new as the last rebuild              *)
(* (sync_service.py:44): a deployment picks them up, but not every edit    *)
(* does, since the attachments may be listed before it and the body read   *)
(* after it.                                                               *)
Mirrored ==
  IF src.status = "current"
  THEN /\ \E d \in Ids : /\ Served(d)
                         /\ docs[d].content = src.content /\ docs[d].cfg = target
                         /\ docs[d].side = [marks |-> src.side.marks, readers |-> acl]
                         /\ docs[d].files \in since
       /\ \E w \in Workers, members \in SUBSET Group :
            /\ members \in Members(w, {GroupOf(src.side.readers)})
            /\ acl = Resolved(src.side.readers, members)
  ELSE \A d \in Ids : ~Served(d)
Mirrors == <>[]Mirrored
=============================================================================
