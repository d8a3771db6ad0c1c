--------------------------- MODULE PageRevisions ---------------------------
(***************************************************************************)
(* The chunks of a page over its revisions (versioning.py, contextualizer, *)
(* the rebuild branch of handle_sync_page): a build takes over the         *)
(* embeddings of the live version's chunks that did not change, as long as *)
(* it is made by the same pipeline.                                        *)
(*                                                                         *)
(* One sync at a time; PageSync has those that overlap.  What the language *)
(* model adds to a chunk's context is left out: whether it answers, fails  *)
(* or refuses, the heading trail and the text are there.                   *)
(***************************************************************************)
EXTENDS ChunkPlan, ChunkDiff

CONSTANTS
  None,
  Bodies,        \* bodies the page may have
  FileSets,      \* lists of attachments it may have, by id
  MaxFiles,      \* confluence_attachment_max_per_page
  Deployments,   \* pipeline configurations
  MaxChanges     \* bounds the edits, attachments and deployments

File == [title: Text, kind: STRING, text: Text]

ASSUME RevisionAssumption ==
  Bodies \subseteq Seq(Event) /\ FileSets \subseteq Seq(File) /\ MaxFiles \in Nat

VARIABLES
  page,      \* the page in Confluence
  deployed,  \* the pipeline of the running process
  live,      \* the active version and its chunks, or None
  changes

vars == <<page, deployed, live, changes>>

Init ==
  /\ page \in [body: Bodies, files: FileSets]
  /\ deployed \in Deployments
  /\ live = None
  /\ changes = 0

Changes == changes < MaxChanges /\ changes' = changes + 1

Edit(body) == Changes /\ page' = [page EXCEPT !.body = body] /\ UNCHANGED <<deployed, live>>

Attach(files) == Changes /\ page' = [page EXCEPT !.files = files] /\ UNCHANGED <<deployed, live>>

Deploy(config) == Changes /\ deployed' = config /\ UNCHANGED <<page, live>>

-----------------------------------------------------------------------------
(* What triggers a rebuild, and what stops the reuse: not the same columns.*)

IndexConfigChanged(config) ==
  \E f \in {"model", "context", "schema", "parser", "chunker"} : config[f] # deployed[f]

PipelineConfigMatches_NoModel(config) ==
  \A f \in {"dim", "context", "schema"} : config[f] = deployed[f]
PipelineConfigMatches(config) ==
  \A f \in {"model", "dim", "context", "schema"} : config[f] = deployed[f]

Outdated(hash) ==
  IF live = None THEN TRUE ELSE IndexConfigChanged(live.config) \/ hash # live.hash

(* extract_attachment: images and unknown formats have no text.            *)
Extracted(f) == IF f.kind \in {"image", "unknown"} THEN <<>> ELSE f.text

AttachmentToBlocks(f) ==
  LET path == << <<[id |-> "Attachments", from |-> 0, size |-> 1]>>, f.title >>
  IN IF Extracted(f) = <<>> THEN <<>>
     ELSE <<[kind |-> "heading", level |-> 1, text |-> f.title, path |-> path],
            [kind |-> "paragraph", level |-> 0, text |-> Extracted(f), path |-> path]>>

(* _attachment_blocks: a file that cannot be fetched is skipped, and so    *)
(* are those past the limit.                                               *)
Considered == SubSeq(page.files, 1, Min({Len(page.files), MaxFiles}))

AttachmentBlocks(fetched) ==
  LET got == Among(Considered, fetched)
  IN FlattenSeq([i \in DOMAIN got |-> AttachmentToBlocks(got[i])])

(* _link_chunks: parents by joined path and number, the last one of each.  *)
ParentOf_FirstOfSection(plan, c) ==
  Max({p \in DOMAIN plan : plan[p].n = 1 /\ Joined(plan[p].section.path) = Joined(c.section.path)})
ParentOf(plan, c) ==
  Max({p \in DOMAIN plan : plan[p].n = c.parent /\ Joined(plan[p].section.path) = Joined(c.section.path)})

RetrievalContent(c) == [path |-> c.section.path, text |-> c.text]

Embedding(content, config) == [of |-> content, model |-> config.model, dim |-> config.dim]

ReusableChildren ==
  IF live = None THEN <<>> ELSE IF PipelineConfigMatches(live.config) THEN live.children ELSE <<>>

Identities(chunks) ==
  [i \in DOMAIN chunks |-> [stable |-> StableKey(chunks[i]), content |-> ContentKey(chunks[i])]]

(* _resolve_children, and the rows build_chunks makes of it.               *)
Built(plan, hash, fetched) ==
  LET new   == PlannedChildren(plan)
      old   == ReusableChildren
      reuse == Reuse(Identities(old), Identities(new))
      Lender(i) == old[CHOOSE j \in DOMAIN old : <<i, j>> \in reuse]
      Content(i) == IF i \in Takers(reuse) THEN Lender(i).retrieval ELSE RetrievalContent(new[i])
      Vector(i) == IF i \in Takers(reuse) THEN Lender(i).vector
                   ELSE Embedding(RetrievalContent(new[i]), deployed)
  IN [hash     |-> hash,
      config   |-> deployed,
      source   |-> [body |-> page.body, files |-> {Extracted(f) : f \in fetched}],   \* history
      parents  |-> [p \in DOMAIN plan |-> plan[p].text],
      embedded |-> Cardinality(DOMAIN new \ Takers(reuse)),
      children |-> [i \in 1..Len(new) |->
                      [section |-> new[i].section, parent |-> new[i].parent,
                       ordinal |-> new[i].ordinal, text |-> new[i].text,
                       link |-> ParentOf(plan, new[i]),
                       retrieval |-> Content(i), vector |-> Vector(i)]]]

(* A build without a child raises: the version that was live stays live.   *)
Sync ==
  LET body == NormalizeBody(page.body) IN
  /\ Outdated(ContentHash(body))
  /\ \E fetched \in SUBSET ToSet(Considered) :
       LET blocks == WithHeadingPaths(body) \o AttachmentBlocks(fetched) IN
       /\ blocks # <<>>
       /\ live' = Built(PlanChunks(blocks), ContentHash(body), fetched)
  /\ UNCHANGED <<page, deployed, changes>>

Next ==
  \/ \E body \in Bodies \ {page.body} : Edit(body)
  \/ \E files \in FileSets \ {page.files} : Attach(files)
  \/ \E config \in Deployments \ {deployed} : Deploy(config)
  \/ Sync

Spec == Init /\ [][Next]_vars

-----------------------------------------------------------------------------
Children == IF live = None THEN {} ELSE ToSet(live.children)

(* However a chunk came to its embedding, over any number of revisions and *)
(* deployments, it is that of its own text and of the model its version is *)
(* stamped with (_resolve_children, reusable_active_children).             *)
VectorIsOfItsText ==
  live # None =>
    \A i \in DOMAIN live.children :
      LET c == live.children[i] IN
      /\ c.retrieval.text = c.text
      /\ c.vector = Embedding(c.retrieval, live.config)

Copies(chunks, t) == Cardinality({i \in DOMAIN chunks : chunks[i].text = t})
Gained(old, new, t) == Max({0, Copies(new, t) - Copies(old, t)})

(* A rebuild pays for as many embeddings of a text as the page has gained  *)
(* chunks with that text, wherever they stand: the three passes of         *)
(* diff_chunks against counting.                                           *)
EmbedsOnlyNewText ==
  [][live' # live =>
       live'.embedded = MapThenSumSet(LAMBDA t : Gained(ReusableChildren, live'.children, t),
                                      {c.text : c \in ToSet(live'.children)})]_vars

(* Every token that html.parser hands over as text, and every token of the *)
(* fetched files, is in a child or in the heading trail of one             *)
(* (normalize_body, plan_chunks).  CDATA sections are not handed over, and *)
(* the code loses them: see HandleEvent.                                   *)
ReadTextIsKept ==
  live # None =>
    LET Held(c) == Tokens(c.text) \cup UNION {Tokens(h) : h \in ToSet(c.section.path)}
        data == {e.text : e \in {d \in ToSet(live.source.body) : d.event = "data"}}
    IN UNION {Tokens(t) : t \in data \cup live.source.files} \subseteq UNION {Held(c) : c \in Children}

(* No child is longer than ChildMax and no parent than ParentMax, whatever *)
(* is joined to the last window (_split_children, _pack_parents).          *)
ChunksFit ==
  live # None =>
    /\ \A c \in Children : Count(c.text) <= ChildMax
    /\ \A p \in ToSet(live.parents) : Count(p) <= ParentMax

(* Two children of a version never share a stable key: "stable_key ...     *)
(* unique per doc version" (chunking.py), with equal headings and texts.   *)
KeysAreUnique ==
  live # None =>
    \A i, j \in DOMAIN live.children :
      StableKey(live.children[i]) = StableKey(live.children[j]) => i = j

(* A child's parent holds its text, unless two sections of the page have   *)
(* the same joined heading path (_link_chunks, fetch_parent_context).      *)
ParentHoldsChild ==
  live # None =>
    \A c \in Children :
      \/ Tokens(c.text) \subseteq Tokens(live.parents[c.link])
      \/ \E d \in Children : d.section # c.section /\ Joined(d.section.path) = Joined(c.section.path)
=============================================================================
