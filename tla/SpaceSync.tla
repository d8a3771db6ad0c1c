----------------------------- MODULE SpaceSync -----------------------------
(***************************************************************************)
(* One Confluence space and how its pages come to the index, and leave it: *)
(* webhook deliveries and the ledger (confluence_sync/server/webhook.py,   *)
(* event_service.py, event_repo.py), job keys (platform/jobs/queue.py),    *)
(* scope roots (scope_resolver.py, scripts/seed_source_scope.py) and the   *)
(* two kinds of sweep (reconciliation.py).                                 *)
(*                                                                         *)
(* Deliveries may be lost, late, repeated or out of order.  There is one   *)
(* process, whose worker takes one job at a time: a job runs in one step,  *)
(* and reads the page as it is then, or is given up in the end.  (What     *)
(* overlapping syncs of a page do to it is PageSync's, and what retries    *)
(* and crashes do to a job is JobQueue's.)  A sweep runs beside the worker *)
(* in three steps: it reads Confluence, loads the registry, and writes.    *)
(* An edit, which a new title is too, makes a version and changes the body.*)
(***************************************************************************)
EXTENDS Integers, FiniteSets

CONSTANTS
  None,
  Pages,
  Before,         \* the pages, roots and registry there may be at the start
  Parents,        \* the parents a page may have: pages, or None
  LabelSets,      \* the label sets a page may have
  General, Recognized,   \* the knowledge scopes labels may name
  Roots,          \* rows source_scope may have
  RootPage,       \* the page of each, or None for a space root
  RootTags,       \* its tags
  Versionless,    \* kinds of events whose payload may have no version
  MaxVersion, MaxChanges   \* bounds: of a page's version; of all changes and failures
                           \* of Confluence, the roots, the jobs and the sweeps

(* Every page has a version, 0 before there is one.                        *)
Versioned(f) ==
  /\ DOMAIN f = Pages
  /\ \A p \in Pages : "version" \in DOMAIN f[p] /\ f[p].version \in Nat

ASSUME SpaceAssumption ==
  /\ None \notin Pages /\ IsFiniteSet(Pages)
  /\ RootPage \in [Roots -> Pages \cup {None}]
  /\ General \in Recognized
  /\ \A b \in Before : Versioned(b.pages) /\ Versioned(b.reg)

VARIABLES
  conf,       \* the pages in Confluence
  roots,      \* source_scope: "absent", "active" or "inactive"
  wire,       \* webhook events sent so far
  ledger,     \* event_ledger: those recorded
  keys,       \* idempotency keys taken; none is ever freed
  jobs,       \* queued jobs; two with the same content count as one
  reg,        \* the registry, with whether the chunks of its version are active
  sweep,      \* the sweep in progress, or Idle
  foundGone,  \* pages a sync has found gone (history)
  givenUp,    \* pages of which a sync was dead-lettered (history)
  missed,     \* pages of which a sweep hid a version that was live no more (history)
  changes     \* changes of Confluence and of the roots, and failures, so far

confVars  == <<conf, wire>>
queueVars == <<ledger, keys, jobs>>
history   == <<foundGone, givenUp, missed>>
vars == <<confVars, roots, queueVars, reg, sweep, history, changes>>

Idle  == [kind |-> "idle"]
NoRow == [version |-> 0, status |-> "deleted", parent |-> None, labels |-> {}, tags |-> {},
          active |-> FALSE]
Unborn == [version |-> 0, status |-> "gone", parent |-> None, labels |-> {}]

IsNew(row)  == row.version = 0
Served(p)   == reg[p].active
Current(p)  == conf[p].status = "current"

Init ==
  /\ \E b \in Before : conf = b.pages /\ roots = b.roots /\ reg = b.reg
  /\ wire = {} /\ ledger = {} /\ keys = {} /\ jobs = {}
  /\ sweep = Idle
  /\ foundGone = {} /\ givenUp = {} /\ missed = {}
  /\ changes = 0

-----------------------------------------------------------------------------
(* Confluence.  Only creations and edits make a new version.               *)

Event(type, p, version) ==
  [type |-> type, page |-> p, version |-> version, n |-> changes]

(* Whether an edit is the service account's, and whether its payload has   *)
(* the page's version, is the same for every delivery of its event; the    *)
(* account does nothing else, and the version of its own is not looked at. *)
Happens(p, type, page) ==
  /\ changes < MaxChanges
  /\ changes' = changes + 1
  /\ conf' = [conf EXCEPT ![p] = page]
  /\ \E self \in IF type = "page_updated" THEN BOOLEAN ELSE {FALSE},
        version \in {page.version} \cup IF type \in Versionless THEN {None} ELSE {} :
       /\ self => version = page.version
       /\ wire' = wire \cup {[event |-> Event(type, p, version), self |-> self]}
  /\ UNCHANGED <<roots, queueVars, reg, sweep, history>>

Create(p) ==
  /\ conf[p] = Unborn
  /\ \E a \in Parents \ {p}, l \in LabelSets :
       Happens(p, "page_created",
               [version |-> 1, status |-> "current", parent |-> a, labels |-> l])

Edit(p) ==
  /\ Current(p) /\ conf[p].version < MaxVersion
  /\ Happens(p, "page_updated", [conf[p] EXCEPT !.version = @ + 1])

Move(p) ==
  /\ Current(p)
  /\ \E a \in Parents \ {p, conf[p].parent} :
       Happens(p, "page_moved", [conf[p] EXCEPT !.parent = a])

Label(p) ==
  /\ Current(p)
  /\ \E l \in LabelSets \ {conf[p].labels} :
       Happens(p, "label_added", [conf[p] EXCEPT !.labels = l])

Trash(p) == Current(p) /\ Happens(p, "page_trashed", [conf[p] EXCEPT !.status = "trashed"])

Restore(p) ==
  /\ conf[p].status = "trashed"
  /\ Happens(p, "page_restored", [conf[p] EXCEPT !.status = "current"])

Purge(p) ==
  /\ conf[p].status = "trashed"
  /\ Happens(p, "page_deleted", [conf[p] EXCEPT !.status = "gone"])

TouchSpace ==
  /\ changes < MaxChanges
  /\ changes' = changes + 1
  /\ wire' = wire \cup {[event |-> Event("space_updated", None, None), self |-> FALSE]}
  /\ UNCHANGED <<conf, roots, queueVars, reg, sweep, history>>

ConfluenceNext ==
  \/ \E p \in Pages : \/ Create(p) \/ Edit(p) \/ Move(p) \/ Label(p)
                      \/ Trash(p) \/ Restore(p) \/ Purge(p)
  \/ TouchSpace

-----------------------------------------------------------------------------
(* scripts/seed_source_scope.py.                                           *)

SetRoot(r, state) ==
  /\ changes < MaxChanges /\ changes' = changes + 1
  /\ roots[r] # state
  /\ roots' = [roots EXCEPT ![r] = state]
  /\ UNCHANGED <<confVars, queueVars, reg, sweep, history>>

Seed(r)       == SetRoot(r, "active")
Deactivate(r) == roots[r] # "absent" /\ SetRoot(r, "inactive")
Remove(r)     == SetRoot(r, "absent")

-----------------------------------------------------------------------------
(* The webhook.                                                            *)

DeleteEvents == {"page_trashed", "page_deleted"}
SpaceEvents  == {"space_updated"}

Job(type, p, tags) == [type |-> type, page |-> p, tags |-> tags]

Key(kind, p, version, parent) ==
  [kind |-> kind, page |-> p, version |-> version, parent |-> parent]

(* enqueue_job: ON CONFLICT (idempotency_key) DO NOTHING.                  *)
Enqueued(wanted) ==
  /\ jobs' = jobs \cup {w.job : w \in {v \in wanted : v.key \notin keys}}
  /\ keys' = keys \cup {w.key : w \in wanted}

(* The version is left out of a sync's key.                                *)
EventKey_NoVersion(e) == Key(e.type, e.page, None, None)

(* A deletion's key has no version, a sync's has the event's: "na" where   *)
(* it has none, so that only the first such event of a kind makes a job.   *)
EventKey(e) ==
  Key(e.type, e.page, IF e.type \in DeleteEvents THEN None ELSE e.version, None)

JobOf(e) ==
  IF e.type \in DeleteEvents THEN Job("delete", e.page, {}) ELSE Job("sync", e.page, {})

(* receive_confluence_event: what is over the rate or the size, or not     *)
(* signed, is refused, and lost like a delivery that never came; the rest  *)
(* Confluence has sent.                                                    *)
Received(d) == d \in wire

(* record_event: a repeated delivery changes nothing.                      *)
Recorded(d) == d \notin ledger /\ ledger' = ledger \cup {d}

(* What the service account did itself is recorded and done with.  The job *)
(* of a space event has the ledger's id in its key, so the key is always   *)
(* free.                                                                   *)
Deliver(d) ==
  /\ Received(d) /\ Recorded(d)
  /\ IF d.self THEN UNCHANGED <<keys, jobs>>
     ELSE IF d.event.type \in SpaceEvents
     THEN jobs' = jobs \cup {Job("space", None, {})} /\ UNCHANGED keys
     ELSE Enqueued({[key |-> EventKey(d.event), job |-> JobOf(d.event)]})
  /\ UNCHANGED <<confVars, roots, reg, sweep, history, changes>>

-----------------------------------------------------------------------------
(* The worker.                                                             *)

(* Two provider labels contradict each other, and then neither counts.     *)
LabelTags(labels) ==
  LET matched == labels \cap Recognized
  IN  IF Cardinality(matched \ {General}) > 1 THEN {} ELSE matched

Detection == INSTANCE ChangeDetection WITH NoId <- None

Deactivated(row, status) ==
  IF IsNew(row) THEN row ELSE [row EXCEPT !.status = status, !.active = FALSE]

(* What change detection sees of a registry row: the labels and the parent *)
(* are columns of their own.                                               *)
Local(row) ==
  [active |-> IF IsNew(row) THEN None ELSE 1, cfg |-> 1, version |-> row.version,
   content |-> row.version, side |-> <<row.labels, row.parent>>, status |-> row.status]

(* handle_sync_page.  The tags are those of the job and of the labels; a   *)
(* sync that finds nothing else changed does not touch them.               *)
Synced(row, page, tags) ==
  LET action == Detection!SyncAction(Local(row), page, <<page.labels, page.parent>>,
                                     page.version, 1)
      stamp  == [version |-> page.version, status |-> "current", parent |-> page.parent,
                 labels |-> page.labels, tags |-> tags \cup LabelTags(page.labels),
                 active |-> TRUE]
  IN  CASE page.status = "gone" -> Deactivated(row, "deleted")
        [] page.status # "gone" /\ action = "deactivated" -> Deactivated(row, page.status)
        [] page.status # "gone" /\ action = "indexed" -> stamp
        [] page.status # "gone" /\ action = "metadata_only" ->
             [stamp EXCEPT !.version = row.version, !.active = row.active]
        [] OTHER -> row

RunSync(j) ==
  /\ j \in jobs /\ j.type = "sync"
  /\ jobs' = jobs \ {j}
  /\ reg' = [reg EXCEPT ![j.page] = Synced(@, conf[j.page], j.tags)]
  /\ foundGone' = IF Current(j.page) THEN foundGone ELSE foundGone \cup {j.page}
  /\ UNCHANGED <<confVars, roots, ledger, keys, sweep, givenUp, missed, changes>>

RunDelete(j) ==
  /\ j \in jobs /\ j.type = "delete"
  /\ jobs' = jobs \ {j}
  /\ reg' = [reg EXCEPT ![j.page] = Deactivated(@, "trashed")]
  /\ UNCHANGED <<confVars, roots, ledger, keys, sweep, history, changes>>

(* fail_job for the last time: the job is dead-lettered, its key stays     *)
(* taken.  A failure before that leaves it queued.                         *)
GiveUp(j) ==
  /\ j \in jobs
  /\ changes < MaxChanges /\ changes' = changes + 1
  /\ jobs' = jobs \ {j}
  /\ givenUp' = IF j.type = "sync" THEN givenUp \cup {j.page} ELSE givenUp
  /\ UNCHANGED <<confVars, roots, ledger, keys, reg, sweep, foundGone, missed>>

-----------------------------------------------------------------------------
(* Sweeps.                                                                 *)

(* The rows whose space is known: a page root is looked up in Confluence,  *)
(* and one whose page is gone is skipped.                                  *)
RootsOfSpace ==
  {r \in Roots : /\ roots[r] # "absent"
                 /\ RootPage[r] # None => conf[RootPage[r]].status # "gone"}

Listed == {p \in Pages : Current(p)}

(* A page root covers itself and its descendants among the listed pages.   *)
Covered(r, live, parent) ==
  IF RootPage[r] = None THEN live
  ELSE LET reach[n \in 0..Cardinality(Pages)] ==
             IF n = 0 THEN {RootPage[r]} \cap live
             ELSE reach[n - 1] \cup {p \in live : parent[p] \in reach[n - 1]}
       IN  reach[Cardinality(Pages)]

ActiveOf(rows) == {r \in rows : roots[r] = "active"}

(* No row at all means unrestricted; rows of which none is active, nothing.*)
Scope(rows, live, parent) ==
  IF rows = {} THEN Pages ELSE UNION {Covered(r, live, parent) : r \in ActiveOf(rows)}

InScope == Listed \cap Scope(RootsOfSpace, Listed, [p \in Pages |-> conf[p].parent])

TagsOf(p, rows, live, parent) ==
  UNION {RootTags[r] : r \in {a \in ActiveOf(rows) : p \in Covered(a, live, parent)}}

(* A space is swept if the registry or a root knows of it.                 *)
Known == RootsOfSpace # {} \/ \E p \in Pages : ~IsNew(reg[p])

(* The roots are read, and then the space is listed.                       *)
Snapshot(kind) ==
  LET rows   == RootsOfSpace
      parent == [p \in Pages |-> conf[p].parent]
  IN  [kind |-> kind, live |-> Listed, meta |-> conf, scope |-> Scope(rows, Listed, parent),
       rows |-> None,
       tags |-> [p \in Pages |-> TagsOf(p, rows, Listed, parent)]]

BeginSweep(kind) ==
  /\ sweep = Idle /\ Known
  /\ sweep' = Snapshot(kind)
  /\ UNCHANGED <<confVars, roots, queueVars, reg, history, changes>>

RunSpace(j) ==
  /\ j \in jobs /\ j.type = "space" /\ sweep = Idle
  /\ jobs' = jobs \ {j}
  /\ sweep' = Snapshot("lightweight")
  /\ UNCHANGED <<confVars, roots, ledger, keys, reg, history, changes>>

(* _registry_for_space: the rows stay in the session as they are loaded.   *)
LoadRegistry ==
  /\ sweep # Idle /\ sweep.rows = None
  /\ sweep' = [sweep EXCEPT !.rows = reg]
  /\ UNCHANGED <<confVars, roots, queueVars, reg, history, changes>>

(* _needs_sync, or a page the registry does not have.                      *)
Drifted(p) ==
  \/ sweep.meta[p].version > sweep.rows[p].version
  \/ sweep.rows[p].status # "current"
  \/ sweep.meta[p].parent # sweep.rows[p].parent


(* The syncs of listed pages in scope.  The key of a complete sweep has    *)
(* the run's id and is always free; the one of a lightweight sweep is free *)
(* once for each version, status and parent.                               *)
SyncsOf ==
  {[key |-> Key("recon", p, sweep.meta[p].version, sweep.meta[p].parent),
    job |-> Job("sync", p, sweep.tags[p])] :
      p \in {q \in sweep.live \cap sweep.scope : sweep.kind = "complete" \/ Drifted(q)}}

(* A page that is listed is not an orphan, in scope or not.                *)
Orphans_Unlisted ==
  {p \in Pages : sweep.rows[p].status = "current" /\ p \notin sweep.live}

(* What the registry has and the sweep did not find in scope.              *)
Orphans ==
  {p \in Pages : sweep.rows[p].status = "current" /\ p \notin sweep.live \cap sweep.scope}

(* Out of scope, or missing in a complete sweep, or confirmed gone by a    *)
(* request; the other missing pages are synced, under a key that is free   *)
(* once for each page.                                                     *)
Deactivates(p) ==
  p \notin sweep.scope \/ sweep.kind = "complete" \/ conf[p].status = "gone"

(* deactivate_page: the status is the row's, whatever became of it, and    *)
(* the chunks those of the version that was live when the row was loaded.  *)
Superseded(p) == reg[p].version # sweep.rows[p].version

Hidden(p) ==
  IF Superseded(p) THEN [reg[p] EXCEPT !.status = "deleted"] ELSE Deactivated(reg[p], "deleted")

Judge(orphans) ==
  LET gone    == {p \in orphans : Deactivates(p)}
      recheck == {[key |-> Key("orphan", p, None, None), job |-> Job("sync", p, sweep.tags[p])] :
                    p \in orphans \ gone}
  IN  /\ reg' = [p \in Pages |-> IF p \in gone THEN Hidden(p) ELSE reg[p]]
      /\ missed' = missed \cup {p \in gone : Superseded(p)}
      /\ IF sweep.kind = "complete"
         THEN jobs' = jobs \cup {w.job : w \in SyncsOf} /\ UNCHANGED keys
         ELSE Enqueued(SyncsOf \cup recheck)
      /\ sweep' = Idle

FinishSweep ==
  /\ sweep # Idle /\ sweep.rows # None
  /\ Judge(Orphans)
  /\ UNCHANGED <<confVars, roots, ledger, foundGone, givenUp, changes>>

(* An error is caught and the run recorded as failed: with the orphans     *)
(* before the one whose request failed judged, or, after an error of the   *)
(* database or of the listing, with nothing done.                          *)
FailSweep ==
  /\ sweep # Idle
  /\ changes < MaxChanges /\ changes' = changes + 1
  /\ \/ sweep.rows # None /\ \E done \in SUBSET Orphans : Judge(done)
     \/ sweep' = Idle /\ UNCHANGED <<reg, jobs, keys, missed>>
  /\ UNCHANGED <<confVars, roots, ledger, foundGone, givenUp>>

-----------------------------------------------------------------------------
RunJob(j) == RunSync(j) \/ RunDelete(j) \/ RunSpace(j)

Next ==
  \/ ConfluenceNext
  \/ \E r \in Roots : Seed(r) \/ Deactivate(r) \/ Remove(r)
  \/ \E d \in wire : Deliver(d)
  \/ \E j \in jobs : RunJob(j) \/ GiveUp(j)
  \/ \E kind \in {"lightweight", "complete"} : BeginSweep(kind)
  \/ LoadRegistry \/ FinishSweep \/ FailSweep

Spec == Init /\ [][Next]_vars

(* The scheduler ticks the worker, which takes jobs oldest first, and runs *)
(* both kinds of sweep for ever; a lightweight sweep may be running        *)
(* whenever a complete one is due.  No delivery is owed, and a job is only *)
(* given up within the bound on failures.                                  *)
Fairness ==
  /\ \A t \in {"sync", "delete"}, p \in Pages : WF_vars(\E j \in jobs : j.page = p /\ j.type = t /\ RunJob(j))
  /\ SF_vars(BeginSweep("complete"))
  /\ WF_vars(LoadRegistry) /\ WF_vars(FinishSweep)

FairSpec == Spec /\ Fairness

-----------------------------------------------------------------------------
(* An edit whose event was accepted with its version is not lost: it is    *)
(* indexed, or a sync of its page is queued, unless one has found the page *)
(* gone or was dead-lettered.  Keys are never freed, so an event whose key *)
(* is taken relies on an earlier job, whatever became of it.  What the     *)
(* code does lose until a complete sweep is left out: an edit whose sync   *)
(* is dead-lettered (queue.py:111), and all but the first of a page's      *)
(* events of a kind that have no version (event_service.py:93).            *)
AcceptedEditIsCovered ==
  \A d \in ledger :
    (d.event.type \in {"page_created", "page_updated"} /\ d.event.version # None /\ ~d.self) =>
      LET p == d.event.page
      IN  \/ reg[p].version >= d.event.version
          \/ \E j \in jobs : j.type = "sync" /\ j.page = p
          \/ p \in foundGone \cup givenUp


(* In the end no page is served but the current ones in scope, whoever     *)
(* synced them, unless a sweep that ran beside a sync of the page hid the  *)
(* version before: its row is marked deleted then, and no later sweep      *)
(* looks at it (versioning.py:402).  In scope is what the code takes to be *)
(* so: a space whose last row is removed, or whose root pages are all      *)
(* gone, is unrestricted again (scope_resolver.py:83), although            *)
(* seed_source_scope.py:14 has it purged.                                  *)
OutOfScopeIsHidden ==
  <>[](\A p \in Pages : Served(p) => p \in InScope \cup missed)
=============================================================================
