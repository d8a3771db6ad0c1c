-------------------------- MODULE SpaceSyncProofs --------------------------
(***************************************************************************)
(* No edit accepted with its version is lost but by a dead-lettered sync,  *)
(* whatever number of pages, roots, versions and failures.                 *)
(*                                                                         *)
(* Keys are never freed, so an event whose key is taken adds no job.  The  *)
(* invariant therefore says of every key with a version that was ever      *)
(* taken that this version is covered: indexed, or about to be read by a   *)
(* queued sync, or the page has been found gone or given up.  A sync that  *)
(* runs pays all keys of its page at once, because no key is ahead of      *)
(* Confluence.                                                             *)
(***************************************************************************)
EXTENDS SpaceSync, TLAPS

AtLeast(p, v) ==
  \/ reg[p].version >= v
  \/ \E j \in jobs : j.type = "sync" /\ j.page = p
  \/ p \in foundGone \cup givenUp

(* What an event, a key or a sweep knows of a page is not ahead of it.     *)
NotAhead(p, v) == p \in Pages /\ v \in Nat /\ v <= conf[p].version

EditEvents == {"page_created", "page_updated"}

Versions == Versioned(conf) /\ Versioned(reg)

WireNotAhead == \A d \in wire : d.event.version # None => NotAhead(d.event.page, d.event.version)

SweepNotAhead ==
  sweep # Idle => /\ sweep.live \subseteq Pages
                  /\ \A p \in Pages : NotAhead(p, sweep.meta[p].version)

KeysPaid ==
  \A k \in keys : k.version # None => NotAhead(k.page, k.version) /\ AtLeast(k.page, k.version)

LedgerKeyed ==
  \A d \in ledger : d.event.type \in EditEvents /\ ~d.self => EventKey(d.event) \in keys

IInv ==
  /\ Versions
  /\ WireNotAhead
  /\ SweepNotAhead
  /\ KeysPaid
  /\ LedgerKeyed

(* The invariant only looks at these.                                      *)
LEMMA Unmoved ==
  ASSUME IInv, UNCHANGED <<conf, wire, ledger, keys, jobs, reg, sweep, foundGone, givenUp>>
  PROVE  IInv'
BY DEF IInv, Versions, Versioned, WireNotAhead, SweepNotAhead, KeysPaid, LedgerKeyed, NotAhead,
       AtLeast

-----------------------------------------------------------------------------
(* Confluence.                                                             *)

LEMMA HappensStep ==
  ASSUME IInv, NEW p \in Pages, NEW type, NEW page, Happens(p, type, page),
         "version" \in DOMAIN page, page.version \in Nat, page.version >= conf[p].version
  PROVE  IInv'
<1>1. /\ conf' = [conf EXCEPT ![p] = page]
      /\ UNCHANGED <<roots, ledger, keys, jobs, reg, sweep, foundGone, givenUp>>
  BY DEF Happens, queueVars, history
<1>2. PICK self, version : /\ version \in {page.version, None}
                           /\ wire' = wire \cup {[event |-> Event(type, p, version), self |-> self]}
  <2>1. PICK self, version : /\ version \in {page.version} \cup IF type \in Versionless THEN {None} ELSE {}
                             /\ wire' = wire \cup {[event |-> Event(type, p, version), self |-> self]}
    BY DEF Happens
  <2> QED  BY <2>1
<1>3. Versions'
  BY <1>1 DEF IInv, Versions, Versioned
<1>4. ASSUME NEW q, NEW v, NotAhead(q, v)  PROVE NotAhead(q, v)'
  <2>1. conf[q].version <= conf'[q].version /\ conf[q].version \in Nat /\ conf'[q].version \in Nat
    BY <1>1, <1>3, <1>4 DEF NotAhead, IInv, Versions, Versioned
  <2> QED  BY <1>4, <2>1 DEF NotAhead
<1>5. WireNotAhead'
  <2>1. ASSUME NEW d \in wire', d.event.version # None
        PROVE  NotAhead(d.event.page, d.event.version)'
    <3>1. CASE d \in wire
      BY <2>1, <3>1, <1>4 DEF IInv, WireNotAhead
    <3>2. CASE d = [event |-> Event(type, p, version), self |-> self]
      <4>1. d.event.page = p /\ d.event.version = page.version
        BY <1>2, <2>1, <3>2 DEF Event
      <4>2. conf'[p].version = page.version
        BY <1>1 DEF IInv, Versions, Versioned
      <4> QED  BY <4>1, <4>2 DEF NotAhead
    <3> QED  BY <1>2, <2>1, <3>1, <3>2
  <2> QED  BY <2>1 DEF WireNotAhead
<1>6. SweepNotAhead'
  BY <1>1, <1>4 DEF IInv, SweepNotAhead
<1>7. KeysPaid'
  <2>1. ASSUME NEW k \in keys', k.version # None
        PROVE  (NotAhead(k.page, k.version) /\ AtLeast(k.page, k.version))'
    BY <1>1, <1>4, <2>1 DEF IInv, KeysPaid, AtLeast
  <2> QED  BY <2>1 DEF KeysPaid
<1>8. LedgerKeyed'
  BY <1>1 DEF IInv, LedgerKeyed
<1> QED  BY <1>3, <1>5, <1>6, <1>7, <1>8 DEF IInv

LEMMA ConfluenceStep == ASSUME IInv, ConfluenceNext  PROVE IInv'
<1> USE DEF IInv, Versions, Versioned
<1>1. ASSUME NEW p \in Pages, Create(p)  PROVE IInv'
  <2>1. PICK page : /\ Happens(p, "page_created", page)
                    /\ "version" \in DOMAIN page /\ page.version = 1
    BY <1>1 DEF Create
  <2>2. conf[p].version = 0
    BY <1>1 DEF Create, Unborn
  <2> QED  BY <2>1, <2>2, HappensStep
<1>2. ASSUME NEW p \in Pages, Edit(p)  PROVE IInv'
  <2> DEFINE page == [conf[p] EXCEPT !.version = @ + 1]
  <2>1. Happens(p, "page_updated", page)
    BY <1>2 DEF Edit
  <2>2. "version" \in DOMAIN page /\ page.version = conf[p].version + 1
    OBVIOUS
  <2> QED  BY <2>1, <2>2, HappensStep
<1>3. ASSUME NEW p \in Pages, Move(p) \/ Label(p) \/ Trash(p) \/ Restore(p) \/ Purge(p)
      PROVE  IInv'
  <2>1. PICK type, page : /\ Happens(p, type, page)
                          /\ "version" \in DOMAIN page /\ page.version = conf[p].version
    <3>1. CASE Move(p)
      BY <3>1 DEF Move
    <3>2. CASE Label(p)
      BY <3>2 DEF Label
    <3>3. CASE Trash(p)
      BY <3>3 DEF Trash
    <3>4. CASE Restore(p)
      BY <3>4 DEF Restore
    <3>5. CASE Purge(p)
      BY <3>5 DEF Purge
    <3> QED  BY <1>3, <3>1, <3>2, <3>3, <3>4, <3>5
  <2> QED  BY <2>1, HappensStep
<1>4. ASSUME TouchSpace  PROVE IInv'
  <2>1. /\ wire' = wire \cup {[event |-> Event("space_updated", None, None), self |-> FALSE]}
        /\ UNCHANGED <<conf, roots, ledger, keys, jobs, reg, sweep, foundGone, givenUp>>
    BY <1>4 DEF TouchSpace, queueVars, history
  <2>2. WireNotAhead'
    <3>1. ASSUME NEW d \in wire', d.event.version # None
          PROVE  NotAhead(d.event.page, d.event.version)'
      <4>1. CASE d \in wire
        BY <3>1, <4>1, <2>1 DEF WireNotAhead, NotAhead
      <4>2. CASE d = [event |-> Event("space_updated", None, None), self |-> FALSE]
        BY <3>1, <4>2 DEF Event
      <4> QED  BY <2>1, <3>1, <4>1, <4>2
    <3> QED  BY <3>1 DEF WireNotAhead
  <2> QED  BY <2>1, <2>2 DEF SweepNotAhead, KeysPaid, LedgerKeyed, NotAhead, AtLeast
<1> QED  BY <1>1, <1>2, <1>3, <1>4 DEF ConfluenceNext

-----------------------------------------------------------------------------
(* The queue.                                                              *)

(* Wanted syncs whose keys are not ahead may be enqueued.                  *)
LEMMA EnqueuedPays ==
  ASSUME IInv, NEW wanted, Enqueued(wanted),
         UNCHANGED <<conf, foundGone, givenUp>>,
         \A p \in Pages : reg'[p].version = reg[p].version,
         \A w \in wanted : w.key.version # None => /\ NotAhead(w.key.page, w.key.version)
                                                   /\ w.job.type = "sync" /\ w.job.page = w.key.page
  PROVE  KeysPaid'
<1>1. jobs \subseteq jobs'
  BY DEF Enqueued
<1>2. ASSUME NEW p \in Pages, NEW v, AtLeast(p, v)  PROVE AtLeast(p, v)'
  BY <1>1, <1>2 DEF AtLeast
<1>3. ASSUME NEW k \in keys, k.version # None
      PROVE  (NotAhead(k.page, k.version) /\ AtLeast(k.page, k.version))'
  BY <1>2, <1>3 DEF IInv, KeysPaid, NotAhead
<1>4. ASSUME NEW w \in wanted, w.key \notin keys, w.key.version # None
      PROVE  (NotAhead(w.key.page, w.key.version) /\ AtLeast(w.key.page, w.key.version))'
  <2>1. NotAhead(w.key.page, w.key.version)'
    BY <1>4 DEF NotAhead
  <2>2. w.job \in jobs' /\ w.job.type = "sync" /\ w.job.page = w.key.page
    BY <1>4 DEF Enqueued
  <2> QED  BY <2>1, <2>2 DEF AtLeast
<1>5. ASSUME NEW k \in keys', k.version # None
      PROVE  (NotAhead(k.page, k.version) /\ AtLeast(k.page, k.version))'
  <2>1. k \in keys \/ \E w \in wanted : k = w.key /\ w.key \notin keys
    BY <1>5 DEF Enqueued
  <2> QED  BY <1>5, <2>1, <1>3, <1>4
<1> QED  BY <1>5 DEF KeysPaid

LEMMA DeliverStep == ASSUME IInv, NEW d \in wire, Deliver(d)  PROVE IInv'
<1> DEFINE e == d.event
           new == [key |-> EventKey(e), job |-> JobOf(e)]
<1>1. /\ UNCHANGED <<conf, wire, roots, reg, sweep, foundGone, givenUp>>
      /\ ledger' = ledger \cup {d}
  BY DEF Deliver, Received, Recorded, confVars, history
<1>2. Versions' /\ WireNotAhead' /\ SweepNotAhead'
  BY <1>1 DEF IInv, Versions, Versioned, WireNotAhead, SweepNotAhead, NotAhead
<1>3. CASE d.self \/ e.type \in SpaceEvents
  <2>1. keys' = keys /\ jobs \subseteq jobs'
    BY <1>3 DEF Deliver
  <2>2. KeysPaid'
    BY <1>1, <2>1 DEF IInv, KeysPaid, NotAhead, AtLeast
  <2>3. LedgerKeyed'
    BY <1>1, <1>3, <2>1 DEF IInv, LedgerKeyed, SpaceEvents, EditEvents
  <2> QED  BY <1>2, <2>2, <2>3 DEF IInv
<1>4. CASE ~d.self /\ e.type \notin SpaceEvents
  <2>1. Enqueued({new})
    BY <1>4 DEF Deliver
  <2>2. new.key.page = e.page /\ new.key.version = IF e.type \in DeleteEvents THEN None ELSE e.version
    BY DEF EventKey, Key
  <2>3. ASSUME new.key.version # None
        PROVE  /\ NotAhead(new.key.page, new.key.version)
               /\ new.job.type = "sync" /\ new.job.page = new.key.page
    <3>1. e.type \notin DeleteEvents /\ new.key.version = e.version /\ e.version # None
      BY <2>2, <2>3
    <3>2. NotAhead(e.page, e.version)
      BY <3>1 DEF IInv, WireNotAhead
    <3>3. new.job = Job("sync", e.page, {})
      BY <3>1 DEF JobOf
    <3> QED  BY <2>2, <3>1, <3>2, <3>3 DEF Job
  <2>4. KeysPaid'
    <3> HIDE DEF new
    <3>1. \A w \in {new} : w.key.version # None => /\ NotAhead(w.key.page, w.key.version)
                                                  /\ w.job.type = "sync" /\ w.job.page = w.key.page
      BY <2>3
    <3> QED  BY <1>1, <2>1, <3>1, EnqueuedPays
  <2>5. keys \subseteq keys' /\ EventKey(e) \in keys'
    BY <2>1 DEF Enqueued
  <2>6. LedgerKeyed'
    BY <1>1, <2>5 DEF IInv, LedgerKeyed
  <2> QED  BY <1>2, <2>4, <2>6 DEF IInv
<1> QED  BY <1>3, <1>4

-----------------------------------------------------------------------------
(* The worker.                                                             *)

(* A sync never takes the registry back, and of a page that is current it  *)
(* leaves it no older than the page it has read.                           *)
LEMMA SyncedPays ==
  ASSUME NEW row, "version" \in DOMAIN row, row.version \in Nat,
         NEW page, page.version \in Nat, NEW tags
  PROVE  LET after == Synced(row, page, tags) IN
         /\ "version" \in DOMAIN after /\ after.version \in Nat
         /\ page.status = "current" => after.version >= page.version
<1> DEFINE after == Synced(row, page, tags)
           side == <<page.labels, page.parent>>
           action == Detection!SyncAction(Local(row), page, side, page.version, 1)
<1>1. \A status : LET d == Deactivated(row, status) IN
                  "version" \in DOMAIN d /\ d.version = row.version
  BY DEF Deactivated
<1>2. \/ after = row
      \/ \E status : after = Deactivated(row, status)
      \/ "version" \in DOMAIN after /\ after.version \in {row.version, page.version}
  BY DEF Synced
<1>3. "version" \in DOMAIN after /\ after.version \in Nat
  BY <1>1, <1>2
<1>4. ASSUME page.status = "current"  PROVE after.version >= page.version
  <2>1. action = "indexed" \/ page.version <= row.version
    <3>1. CASE Detection!IsNew(Local(row))
      <4>1. Detection!Classify(Local(row), page, side, page.version, 1) = {"body_changed"}
        BY <3>1 DEF Detection!Classify
      <4> QED  BY <4>1, <1>4 DEF Detection!SyncAction, Detection!RebuildClasses,
                                 Detection!GoneStatuses
    <3>2. CASE ~Detection!IsNew(Local(row)) /\ page.version > row.version
      <4>1. "body_changed" \in Detection!Classify(Local(row), page, side, page.version, 1)
        BY <3>2 DEF Detection!Classify, Detection!BodyClasses, Detection!NewerRevision, Local
      <4> QED  BY <4>1, <1>4 DEF Detection!SyncAction, Detection!RebuildClasses,
                                 Detection!GoneStatuses
    <3> QED  BY <3>1, <3>2
  <2>2. CASE action = "indexed"
    BY <1>4, <2>2 DEF Synced
  <2>3. CASE page.version <= row.version
    <3>1. action # "deactivated"
      BY <1>4 DEF Detection!SyncAction, Detection!GoneStatuses
    <3>2. after = row \/ after.version = page.version \/ after.version = row.version
      BY <1>4, <3>1 DEF Synced
    <3> QED  BY <2>3, <3>2
  <2> QED  BY <2>1, <2>2, <2>3
<1> QED  BY <1>3, <1>4

LEMMA RunSyncStep == ASSUME IInv, NEW j, RunSync(j)  PROVE IInv'
<1> DEFINE row == reg[j.page]
           page == conf[j.page]
<1>1. /\ UNCHANGED <<conf, wire, ledger, keys, sweep, givenUp>>
      /\ jobs' = jobs \ {j}
      /\ reg' = [reg EXCEPT ![j.page] = Synced(row, page, j.tags)]
      /\ foundGone' = IF Current(j.page) THEN foundGone ELSE foundGone \cup {j.page}
  BY DEF RunSync, confVars
<1>2. j.page \in Pages => /\ "version" \in DOMAIN reg'[j.page] /\ reg'[j.page].version \in Nat
                          /\ page.status = "current" => reg'[j.page].version >= page.version
  BY <1>1, SyncedPays DEF IInv, Versions, Versioned
<1>3. \A p \in Pages : p # j.page => reg'[p] = reg[p]
  BY <1>1 DEF IInv, Versions, Versioned
<1>4. Versions'
  BY <1>1, <1>2, <1>3 DEF IInv, Versions, Versioned
<1>5. ASSUME NEW p, NEW v, NotAhead(p, v), AtLeast(p, v)  PROVE AtLeast(p, v)'
  <2>1. CASE p # j.page
    BY <1>1, <1>3, <1>5, <2>1 DEF AtLeast, NotAhead
  <2>2. CASE p = j.page /\ Current(p)
    BY <1>2, <1>4, <1>5, <2>2 DEF AtLeast, NotAhead, Current, IInv, Versions, Versioned
  <2>3. CASE p = j.page /\ ~Current(p)
    BY <1>1, <2>3 DEF AtLeast
  <2> QED  BY <2>1, <2>2, <2>3
<1>6. KeysPaid'
  BY <1>1, <1>5 DEF IInv, KeysPaid, NotAhead
<1> QED  BY <1>1, <1>4, <1>6
         DEF IInv, WireNotAhead, SweepNotAhead, LedgerKeyed, NotAhead

(* Deactivating rows moves no version, and so covers what it covered.      *)
LEMMA RunDeleteStep == ASSUME IInv, NEW j, RunDelete(j)  PROVE IInv'
<1>1. /\ UNCHANGED <<conf, wire, ledger, keys, sweep, foundGone, givenUp>>
      /\ jobs' = jobs \ {j} /\ j.type = "delete"
      /\ reg' = [reg EXCEPT ![j.page] = Deactivated(@, "trashed")]
  BY DEF RunDelete, confVars, history
<1>2. DOMAIN reg' = Pages
  BY <1>1 DEF IInv, Versions, Versioned
<1>3. ASSUME NEW p \in Pages
      PROVE  "version" \in DOMAIN reg'[p] /\ reg'[p].version = reg[p].version
  BY <1>1 DEF IInv, Versions, Versioned, Deactivated
<1>4. Versions'
  BY <1>1, <1>2, <1>3 DEF IInv, Versions, Versioned
<1>5. ASSUME NEW p, NEW v, NotAhead(p, v), AtLeast(p, v)  PROVE AtLeast(p, v)'
  BY <1>1, <1>3, <1>5 DEF AtLeast, NotAhead
<1>6. KeysPaid'
  BY <1>1, <1>5 DEF IInv, KeysPaid, NotAhead
<1> QED  BY <1>1, <1>4, <1>6
         DEF IInv, WireNotAhead, SweepNotAhead, LedgerKeyed, NotAhead

(* A sync that is given up is remembered.                                  *)
LEMMA GiveUpStep == ASSUME IInv, NEW j, GiveUp(j)  PROVE IInv'
<1>1. /\ UNCHANGED <<conf, wire, ledger, keys, reg, sweep, foundGone>>
      /\ jobs' = jobs \ {j} /\ givenUp \subseteq givenUp'
      /\ j.type = "sync" => j.page \in givenUp'
  BY DEF GiveUp, confVars
<1>2. ASSUME NEW p, NEW v, AtLeast(p, v)  PROVE AtLeast(p, v)'
  BY <1>1, <1>2 DEF AtLeast
<1> QED  BY <1>1, <1>2
         DEF IInv, Versions, Versioned, WireNotAhead, SweepNotAhead, KeysPaid, LedgerKeyed, NotAhead

-----------------------------------------------------------------------------
(* Sweeps.                                                                 *)

LEMMA SnapshotNotAhead ==
  ASSUME IInv, NEW kind, sweep' = Snapshot(kind),
         UNCHANGED <<conf, wire, reg, ledger, keys, foundGone, givenUp>>,
         \A p : (\E j \in jobs : j.type = "sync" /\ j.page = p)
                  => \E j \in jobs' : j.type = "sync" /\ j.page = p
  PROVE  IInv'
<1>1. sweep'.live \subseteq Pages /\ sweep'.meta = conf
  BY DEF Snapshot, Listed
<1>2. SweepNotAhead'
  BY <1>1 DEF SweepNotAhead, NotAhead, IInv, Versions, Versioned
<1>3. \A p, v : AtLeast(p, v) => AtLeast(p, v)'
  BY DEF AtLeast
<1> QED  BY <1>2, <1>3 DEF IInv, Versions, Versioned, WireNotAhead, KeysPaid, LedgerKeyed, NotAhead

LEMMA JudgeStep ==
  ASSUME IInv, sweep # Idle, NEW orphans, orphans \subseteq Pages, Judge(orphans),
         UNCHANGED <<conf, wire, ledger, foundGone, givenUp>>
  PROVE  IInv'
<1> DEFINE gone == {p \in orphans : Deactivates(p)}
           recheck == {[key |-> Key("orphan", p, None, None), job |-> Job("sync", p, sweep.tags[p])] :
                         p \in orphans \ gone}
           wanted == SyncsOf \cup recheck
<1>1. reg' = [p \in Pages |-> IF p \in gone THEN Hidden(p) ELSE reg[p]]
  BY DEF Judge
<1>2. ASSUME NEW p \in Pages
      PROVE  "version" \in DOMAIN reg'[p] /\ reg'[p].version = reg[p].version
  BY <1>1 DEF IInv, Versions, Versioned, Hidden, Deactivated
<1>3. Versions'
  BY <1>1, <1>2 DEF IInv, Versions, Versioned
<1>4. KeysPaid' /\ keys \subseteq keys'
  <2>1. CASE sweep.kind = "complete"
    <3>1. keys' = keys /\ jobs \subseteq jobs'
      BY <2>1 DEF Judge
    <3>2. ASSUME NEW p, NEW v, NotAhead(p, v), AtLeast(p, v)  PROVE AtLeast(p, v)'
      BY <1>2, <3>1, <3>2 DEF AtLeast, NotAhead
    <3> QED  BY <3>1, <3>2 DEF IInv, KeysPaid, NotAhead
  <2>2. CASE sweep.kind # "complete"
    <3>1. Enqueued(wanted)
      BY <2>2 DEF Judge
    <3>2. ASSUME NEW w \in SyncsOf
          PROVE  /\ NotAhead(w.key.page, w.key.version)
                 /\ w.job.type = "sync" /\ w.job.page = w.key.page
      <4>1. PICK p \in sweep.live :
              w = [key |-> Key("recon", p, sweep.meta[p].version, sweep.meta[p].parent),
                   job |-> Job("sync", p, sweep.tags[p])]
        BY DEF SyncsOf
      <4>2. p \in Pages /\ NotAhead(p, sweep.meta[p].version)
        BY DEF IInv, SweepNotAhead
      <4> QED  BY <4>1, <4>2 DEF Key, Job
    <3>3. ASSUME NEW w \in recheck  PROVE w.key.version = None
      BY DEF Key
    <3>4. KeysPaid'
      <4> HIDE DEF recheck
      <4> QED  BY <1>2, <3>1, <3>2, <3>3, EnqueuedPays
    <3> QED  BY <3>1, <3>4 DEF Enqueued
  <2> QED  BY <2>1, <2>2
<1>5. SweepNotAhead'
  BY DEF Judge, SweepNotAhead
<1> QED  BY <1>3, <1>4, <1>5 DEF IInv, WireNotAhead, LedgerKeyed, NotAhead

LEMMA SweepStep ==
  ASSUME IInv,
         \/ \E kind : BeginSweep(kind)
         \/ \E j \in jobs : RunSpace(j)
         \/ LoadRegistry \/ FinishSweep \/ FailSweep
  PROVE  IInv'
<1>1. ASSUME NEW kind, BeginSweep(kind)  PROVE IInv'
  BY <1>1, SnapshotNotAhead DEF BeginSweep, confVars, queueVars, history
<1>2. ASSUME NEW j \in jobs, RunSpace(j)  PROVE IInv'
  <2>1. \A p : (\E k \in jobs : k.type = "sync" /\ k.page = p)
                 => \E k \in jobs' : k.type = "sync" /\ k.page = p
    BY <1>2 DEF RunSpace
  <2> QED  BY <1>2, <2>1, SnapshotNotAhead DEF RunSpace, confVars, history
<1>3. \A orphans : orphans \subseteq Orphans => orphans \subseteq Pages
  BY DEF Orphans
<1>4. CASE FinishSweep
  BY <1>3, <1>4, JudgeStep DEF FinishSweep, confVars
<1>5. CASE FailSweep
  <2>1. UNCHANGED <<conf, wire, ledger, foundGone, givenUp>> /\ sweep # Idle
    BY <1>5 DEF FailSweep, confVars
  <2>2. CASE \E done \in SUBSET Orphans : Judge(done)
    BY <1>3, <2>1, <2>2, JudgeStep
  <2>3. CASE sweep' = Idle /\ UNCHANGED <<reg, jobs, keys, missed>>
    BY <2>1, <2>3 DEF IInv, Versions, Versioned, WireNotAhead, SweepNotAhead, KeysPaid,
                      LedgerKeyed, NotAhead, AtLeast
  <2> QED  BY <1>5, <2>2, <2>3 DEF FailSweep
<1>6. CASE LoadRegistry
  <2>1. /\ UNCHANGED <<conf, wire, ledger, keys, jobs, reg, foundGone, givenUp>>
        /\ sweep # Idle /\ sweep' = [sweep EXCEPT !.rows = reg]
    BY <1>6 DEF LoadRegistry, confVars, queueVars, history
  <2>2. SweepNotAhead'
    <3>1. sweep'.live = sweep.live /\ sweep'.meta = sweep.meta
      BY <2>1
    <3> QED  BY <2>1, <3>1 DEF IInv, SweepNotAhead, NotAhead
  <2> QED  BY <2>1, <2>2 DEF IInv, Versions, Versioned, WireNotAhead, KeysPaid, LedgerKeyed, NotAhead, AtLeast
<1> QED  BY <1>1, <1>2, <1>4, <1>5, <1>6

-----------------------------------------------------------------------------
LEMMA RootStep ==
  ASSUME IInv, NEW r \in Roots, Seed(r) \/ Deactivate(r) \/ Remove(r)
  PROVE  IInv'
BY Unmoved DEF Seed, Deactivate, Remove, SetRoot, confVars, queueVars, history

LEMMA NextStep == ASSUME IInv, [Next]_vars  PROVE IInv'
<1>1. CASE UNCHANGED vars
  BY <1>1, Unmoved DEF vars, confVars, queueVars, history
<1>2. CASE ConfluenceNext
  BY <1>2, ConfluenceStep
<1>3. CASE \E r \in Roots : Seed(r) \/ Deactivate(r) \/ Remove(r)
  BY <1>3, RootStep
<1>4. CASE \E d \in wire : Deliver(d)
  BY <1>4, DeliverStep
<1>5. CASE \E j \in jobs : RunJob(j) \/ GiveUp(j)
  BY <1>5, RunSyncStep, RunDeleteStep, GiveUpStep, SweepStep DEF RunJob
<1>6. CASE \/ \E kind \in {"lightweight", "complete"} : BeginSweep(kind)
           \/ LoadRegistry \/ FinishSweep \/ FailSweep
  BY <1>6, SweepStep
<1> QED  BY <1>1, <1>2, <1>3, <1>4, <1>5, <1>6 DEF Next

LEMMA Start == Init => IInv
<1> SUFFICES ASSUME Init PROVE IInv
  OBVIOUS
<1>1. Versions
  BY SpaceAssumption DEF Init, Versions
<1> QED  BY <1>1 DEF Init, IInv, WireNotAhead, SweepNotAhead, KeysPaid, LedgerKeyed

LEMMA Covers == IInv => AcceptedEditIsCovered
<1> SUFFICES ASSUME IInv, NEW d \in ledger,
                    d.event.type \in {"page_created", "page_updated"}, d.event.version # None, ~d.self
             PROVE  AtLeast(d.event.page, d.event.version)
  BY DEF AcceptedEditIsCovered, AtLeast
<1>1. EventKey(d.event) \in keys
  BY DEF IInv, LedgerKeyed, EditEvents
<1>2. EventKey(d.event).page = d.event.page /\ EventKey(d.event).version = d.event.version
  BY DEF EventKey, Key, DeleteEvents
<1> QED  BY <1>1, <1>2 DEF IInv, KeysPaid

(* An edit that was accepted with its version is indexed, or its page is   *)
(* about to be synced, or has been found gone, or a sync of it was dead-   *)
(* lettered: taken keys, repeated and reordered deliveries and failed      *)
(* sweeps lose none.                                                       *)
THEOREM AcceptedEditsAreCovered == Spec => []AcceptedEditIsCovered
<1>1. IInv /\ [Next]_vars => IInv'
  BY NextStep
<1> QED  BY Start, <1>1, Covers, PTL DEF Spec
=============================================================================
