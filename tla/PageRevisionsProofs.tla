------------------------ MODULE PageRevisionsProofs ------------------------
(***************************************************************************)
(* Proofs about PageRevisions, for any ChunkConfig, any bodies and files   *)
(* and any history of edits and deployments: what is reused fits, nothing  *)
(* of a page is lost on the way to its chunks, and the chunks fit, have    *)
(* keys of their own and find their parents.                               *)
(***************************************************************************)
EXTENDS PageRevisions, ChunkPlanProofs

-----------------------------------------------------------------------------
(* chunk_diff.py                                                           *)

(* The chunks a pass chooses from: finitely many, by their number.         *)
IsPool(pool) == pool \subseteq Int /\ IsFiniteSet(pool)

(* In a finite pool of numbered chunks, two with the same key have         *)
(* different ranks.                                                        *)
LEMMA RankTellsApart ==
  ASSUME NEW keys, NEW pool, IsPool(pool),
         NEW i \in pool, NEW j \in pool,
         keys[i] = keys[j], Rank(keys, pool, i) = Rank(keys, pool, j)
  PROVE  i = j
<1>0. pool \subseteq Int /\ IsFiniteSet(pool)
  BY DEF IsPool
<1>1. ASSUME NEW a \in pool, NEW b \in pool, a < b, keys[a] = keys[b]
      PROVE  Rank(keys, pool, a) # Rank(keys, pool, b)
  <2> DEFINE Before(x) == {k \in pool : k < x /\ keys[k] = keys[x]}
  <2>1. IsFiniteSet(Before(b))
    BY <1>0, FS_Subset
  <2>2. Before(a) \subseteq Before(b)
    <3>1. ASSUME NEW k \in Before(a)  PROVE k \in Before(b)
      <4>1. k \in pool /\ k < a /\ keys[k] = keys[a] /\ k \in Int /\ a \in Int /\ b \in Int
        BY <1>0
      <4>2. k < b
        BY <4>1, <1>1
      <4> QED  BY <4>1, <4>2, <1>1
    <3> QED  BY <3>1
  <2>3. a \in Before(b) /\ a \notin Before(a)
    BY <1>0, <1>1
  <2>4. Cardinality(Before(a)) <= Cardinality(Before(b) \ {a})
    <3>1. IsFiniteSet(Before(b) \ {a})
      BY <2>1, FS_RemoveElement
    <3> QED  BY <2>2, <2>3, <3>1, FS_Subset
  <2>5. /\ Cardinality(Before(b) \ {a}) = Cardinality(Before(b)) - 1
        /\ Cardinality(Before(b)) \in Nat
    BY <2>1, <2>3, FS_RemoveElement, FS_CardinalityType
  <2>6. IsFiniteSet(Before(a))
    BY <1>0, FS_Subset
  <2>7. Cardinality(Before(a)) \in Nat
    BY <2>6, FS_CardinalityType
  <2>8. Cardinality(Before(a)) # Cardinality(Before(b))
    BY <2>4, <2>5, <2>7
  <2> QED  BY <2>8 DEF Rank
<1> QED  BY <1>0, <1>1

(* Within a pass nobody is lent two old chunks, and no old chunk is lent   *)
(* twice.                                                                  *)
LEMMA PassIsOneToOne ==
  ASSUME NEW oldKeys, NEW newKeys, NEW olds, NEW news,
         IsPool(olds), IsPool(news),
         NEW m \in Pass(oldKeys, newKeys, olds, news),
         NEW n \in Pass(oldKeys, newKeys, olds, news)
  PROVE  m[1] = n[1] <=> m[2] = n[2]
<1>1. /\ m[1] \in news /\ m[2] \in olds /\ n[1] \in news /\ n[2] \in olds
      /\ newKeys[m[1]] = oldKeys[m[2]] /\ newKeys[n[1]] = oldKeys[n[2]]
      /\ Rank(newKeys, news, m[1]) = Rank(oldKeys, olds, m[2])
      /\ Rank(newKeys, news, n[1]) = Rank(oldKeys, olds, n[2])
  BY DEF Pass
<1>2. ASSUME m[1] = n[1]  PROVE m[2] = n[2]
  <2>1. /\ oldKeys[m[2]] = oldKeys[n[2]]
        /\ Rank(oldKeys, olds, m[2]) = Rank(oldKeys, olds, n[2])
    BY <1>1, <1>2
  <2> QED  BY <1>1, <2>1, RankTellsApart
<1>3. ASSUME m[2] = n[2]  PROVE m[1] = n[1]
  <2>1. /\ newKeys[m[1]] = newKeys[n[1]]
        /\ Rank(newKeys, news, m[1]) = Rank(newKeys, news, n[1])
    BY <1>1, <1>3
  <2> QED  BY <1>1, <2>1, RankTellsApart
<1> QED  BY <1>2, <1>3

(* What is lent has the taker's content.                                   *)
LEMMA ReuseKeepsContent ==
  ASSUME NEW old, NEW new,
         NEW m \in Reuse(Identities(old), Identities(new))
  PROVE  /\ m \in (DOMAIN new) \X (DOMAIN old)
         /\ new[m[1]].text = old[m[2]].text
<1> DEFINE o == Identities(old)
           n == Identities(new)
<1>1. DOMAIN o = DOMAIN old /\ DOMAIN n = DOMAIN new
  BY DEF Identities
<1>2. PICK olds \in SUBSET DOMAIN old, news \in SUBSET DOMAIN new :
        \/ m \in Pass(Keys(o, "stable"), Keys(n, "stable"), olds, news)
        \/ m \in Pass(Keys(o, "content"), Keys(n, "content"), olds, news)
  BY <1>1 DEF Reuse
<1>3. m[1] \in DOMAIN new /\ m[2] \in DOMAIN old /\ m \in (DOMAIN new) \X (DOMAIN old)
  BY <1>2 DEF Pass
<1>4. CASE m \in Pass(Keys(o, "stable"), Keys(n, "stable"), olds, news)
  <2>1. Keys(n, "stable")[m[1]] = Keys(o, "stable")[m[2]]
    BY <1>4 DEF Pass
  <2>2. StableKey(new[m[1]]) = StableKey(old[m[2]])
    BY <2>1, <1>3 DEF Keys, Identities
  <2> QED  BY <2>2, <1>3 DEF StableKey, ContentKey
<1>5. CASE m \in Pass(Keys(o, "content"), Keys(n, "content"), olds, news)
  <2>1. Keys(n, "content")[m[1]] = Keys(o, "content")[m[2]]
    BY <1>5 DEF Pass
  <2>2. ContentKey(new[m[1]]) = ContentKey(old[m[2]])
    BY <2>1, <1>3 DEF Keys, Identities
  <2> QED  BY <2>2, <1>3 DEF ContentKey
<1> QED  BY <1>2, <1>4, <1>5

-----------------------------------------------------------------------------
(* versioning.py                                                           *)

(* What the live chunks lend is their own text's and the deployed model's. *)
LEMMA ReusableFits ==
  ASSUME VectorIsOfItsText, NEW i \in DOMAIN ReusableChildren
  PROVE  /\ ReusableChildren[i].retrieval.text = ReusableChildren[i].text
         /\ ReusableChildren[i].vector = Embedding(ReusableChildren[i].retrieval, deployed)
<1>1. DOMAIN << >> = {}
  OBVIOUS
<1>2. live # None /\ PipelineConfigMatches(live.config) /\ ReusableChildren = live.children
  BY <1>1 DEF ReusableChildren
<1>3. live.config.model = deployed.model /\ live.config.dim = deployed.dim
  BY <1>2 DEF PipelineConfigMatches
<1> QED  BY <1>2, <1>3 DEF VectorIsOfItsText, Embedding

(* Every child that is built has an embedding of its own text, lent or     *)
(* new.                                                                    *)
LEMMA BuiltFits ==
  ASSUME VectorIsOfItsText, NEW plan, NEW hash, NEW fetched,
         NEW i \in DOMAIN Built(plan, hash, fetched).children
  PROVE  LET c == Built(plan, hash, fetched).children[i] IN
         /\ c.retrieval.text = c.text
         /\ c.vector = Embedding(c.retrieval, Built(plan, hash, fetched).config)
<1> DEFINE new == PlannedChildren(plan)
           old == ReusableChildren
           reuse == Reuse(Identities(old), Identities(new))
           j == CHOOSE k \in DOMAIN old : <<i, k>> \in reuse
           c == Built(plan, hash, fetched).children[i]
<1>1. /\ c.text = new[i].text
      /\ c.retrieval = IF i \in Takers(reuse) THEN old[j].retrieval ELSE RetrievalContent(new[i])
      /\ c.vector = IF i \in Takers(reuse) THEN old[j].vector
                    ELSE Embedding(RetrievalContent(new[i]), deployed)
      /\ Built(plan, hash, fetched).config = deployed
  BY DEF Built
<1> HIDE DEF new, old, reuse, c
<1>2. CASE i \in Takers(reuse)
  <2>1. PICK m \in reuse : m[1] = i
    BY <1>2 DEF Takers
  <2>2. m \in (DOMAIN new) \X (DOMAIN old)
    BY <2>1, ReuseKeepsContent DEF reuse
  <2>3. m = <<i, m[2]>> /\ m[2] \in DOMAIN old
    BY <2>1, <2>2
  <2>4. j \in DOMAIN old /\ <<i, j>> \in reuse
    BY <2>1, <2>3
  <2>5. new[i].text = old[j].text
    BY <2>4, ReuseKeepsContent DEF reuse
  <2>6. old[j].retrieval.text = old[j].text /\ old[j].vector = Embedding(old[j].retrieval, deployed)
    BY <2>4, ReusableFits DEF old
  <2> QED  BY <1>1, <1>2, <2>5, <2>6 DEF c
<1>3. CASE i \notin Takers(reuse)
  BY <1>1, <1>3 DEF RetrievalContent, c
<1> QED  BY <1>2, <1>3

(* No step spoils an embedding.                                            *)
LEMMA VectorStep ==
  ASSUME VectorIsOfItsText, [Next]_vars
  PROVE  VectorIsOfItsText'
<1>1. CASE Sync
  <2>1. PICK plan, hash, fetched : live' = Built(plan, hash, fetched)
    BY <1>1 DEF Sync
  <2>2. \A i \in DOMAIN live'.children :
          /\ live'.children[i].retrieval.text = live'.children[i].text
          /\ live'.children[i].vector = Embedding(live'.children[i].retrieval, live'.config)
    BY <2>1, BuiltFits
  <2> QED  BY <2>2 DEF VectorIsOfItsText, Embedding
<1>2. CASE UNCHANGED live
  BY <1>2 DEF VectorIsOfItsText, Embedding
<1>3. Next => Sync \/ UNCHANGED live
  BY DEF Next, Edit, Attach, Deploy
<1> QED  BY <1>1, <1>2, <1>3 DEF vars

(* Every child's embedding is that of its own text, made by the model its  *)
(* version is stamped with.                                                *)
THEOREM EmbeddingsFit == Spec => []VectorIsOfItsText
<1>1. Init => VectorIsOfItsText
  BY DEF Init, VectorIsOfItsText
<1>2. VectorIsOfItsText /\ [Next]_vars => VectorIsOfItsText'
  BY VectorStep
<1> QED  BY <1>1, <1>2, PTL DEF Spec

-----------------------------------------------------------------------------
(* attachment_to_blocks: a heading and a paragraph with the extracted      *)
(* text, or nothing where there is none.                                   *)
LEMMA AttachmentStandsAlone ==
  ASSUME NEW f \in File
  PROVE  /\ AttachmentToBlocks(f) \in Seq(PlacedBlock)
         /\ \A i \in DOMAIN AttachmentToBlocks(f) : StandsAlone(AttachmentToBlocks(f)[i])
         /\ Tokens(Extracted(f)) \subseteq BlockTokens(AttachmentToBlocks(f))
<1>1. PICK t, bs : t = Extracted(f) /\ bs = AttachmentToBlocks(f)
  OBVIOUS
<1>2. << >> \in Text
  BY EmptySeq DEF Text
<1>3. t \in Text /\ f.title \in Text
  <2>1. f.title \in Text /\ f.text \in Text
    BY DEF File
  <2> QED  BY <1>1, <1>2, <2>1 DEF Extracted
<1>4. CASE t = << >>
  <2>1. bs = << >> /\ DOMAIN << >> = {} /\ << >> \in Seq(PlacedBlock)
    BY <1>1, <1>4, EmptySeq DEF AttachmentToBlocks
  <2> QED  BY <1>1, <1>4, <2>1, TokensEmpty
<1>5. CASE t # << >>
  <2>1. PICK a : a = <<[id |-> "Attachments", from |-> 0, size |-> 1]>>
    OBVIOUS
  <2>2. a \in Text
    <3>1. [id |-> "Attachments", from |-> 0, size |-> 1] \in Word
      BY DEF Word, WordIds
    <3> QED  BY <2>1, <3>1 DEF Text
  <2>3. PICK path : path = <<a, f.title>>
    OBVIOUS
  <2>4. path \in Seq(Text) /\ path # << >> /\ Last(path) = f.title
    BY <1>3, <2>2, <2>3 DEF Last
  <2>5. PICK head, para :
          /\ head = [kind |-> "heading", level |-> 1, text |-> f.title, path |-> path]
          /\ para = [kind |-> "paragraph", level |-> 0, text |-> t, path |-> path]
    OBVIOUS
  <2>6. head \in PlacedBlock /\ para \in PlacedBlock
    BY <1>3, <2>4, <2>5 DEF PlacedBlock, Kinds
  <2>7. StandsAlone(head) /\ StandsAlone(para)
    BY <1>5, <2>4, <2>5 DEF StandsAlone, IsHeading
  <2>8. bs = <<head, para>>
    BY <1>1, <1>5, <2>1, <2>3, <2>5 DEF AttachmentToBlocks
  <2>9. bs \in Seq(PlacedBlock) /\ DOMAIN bs = {1, 2} /\ bs[1] = head /\ bs[2] = para
    BY <2>6, <2>8
  <2>10. \A i \in DOMAIN bs : StandsAlone(bs[i])
    BY <2>7, <2>9
  <2>11. Tokens(t) \subseteq BlockTokens(bs)
    BY <2>5, <2>9 DEF BlockTokens
  <2> QED  BY <1>1, <2>9, <2>10, <2>11
<1> QED  BY <1>4, <1>5

(* _attachment_blocks has the text of every considered file that was       *)
(* fetched.                                                                *)
LEMMA AttachmentsStandAlone ==
  ASSUME page.files \in Seq(File), MaxFiles \in Nat, NEW fetched
  PROVE  /\ AttachmentBlocks(fetched) \in Seq(PlacedBlock)
         /\ \A i \in DOMAIN AttachmentBlocks(fetched) : StandsAlone(AttachmentBlocks(fetched)[i])
         /\ \A f \in fetched \cap ToSet(Considered) :
              Tokens(Extracted(f)) \subseteq BlockTokens(AttachmentBlocks(fetched))
<1>1. PICK n, m : n = Len(page.files) /\ m = Min({n, MaxFiles})
  OBVIOUS
<1>2. n \in Nat /\ m \in 0..n
  <2>1. n \in Nat
    BY <1>1, LenProperties
  <2>2. {n, MaxFiles} \subseteq Nat /\ {n, MaxFiles} # {}
    BY <2>1
  <2>3. m \in {n, MaxFiles} /\ m <= n
    BY <1>1, <2>2, MinFacts
  <2> QED  BY <2>1, <2>3
<1>3. PICK some : some = Considered
  OBVIOUS
<1>4. some \in Seq(File)
  <2>1. some = SubSeq(page.files, 1, m)
    BY <1>1, <1>3 DEF Considered
  <2>2. \A j \in 1..m : page.files[j] \in File
    BY <1>1, <1>2, ElementOfSeq
  <2> QED  BY <1>2, <2>1, <2>2, SubSeqProperties
<1>5. PICK got, at : /\ got = Among(some, fetched) /\ got \in Seq(File)
                     /\ at \in [DOMAIN got -> DOMAIN some] /\ IsPick(at, got, some, fetched)
  BY <1>4, AmongSome
<1>6. PICK parts : parts = [i \in DOMAIN got |-> AttachmentToBlocks(got[i])]
  OBVIOUS
<1>7. PICK F : F = FlattenSeq(parts)
  OBVIOUS
<1>8. F = AttachmentBlocks(fetched)
  BY <1>3, <1>5, <1>6, <1>7 DEF AttachmentBlocks
<1>9. Len(got) \in Nat /\ DOMAIN got = 1..Len(got) /\ \A i \in 1..Len(got) : got[i] \in File
  BY <1>5, LenProperties, ElementOfSeq
<1>10. parts \in Seq(Seq(PlacedBlock)) /\ Len(parts) = Len(got)
  <2>1. parts \in [1..Len(got) -> Seq(PlacedBlock)]
    BY <1>6, <1>9, AttachmentStandsAlone
  <2> QED  BY <1>9, <2>1, AsSeq
<1>11. F \in Seq(PlacedBlock)
  BY <1>7, <1>10, FlattenPlaces
<1>12. PICK row, col \in [DOMAIN F -> Nat] : IsPlacing(row, col, F, parts, Len(got))
  BY <1>7, <1>10, FlattenPlaces
<1>13. ASSUME NEW k \in DOMAIN F PROVE StandsAlone(F[k])
  <2>1. row[k] \in 1..Len(got) /\ col[k] \in DOMAIN parts[row[k]] /\ F[k] = parts[row[k]][col[k]]
    BY <1>12 DEF IsPlacing
  <2>2. PICK g : g = got[row[k]]
    OBVIOUS
  <2>3. g \in File /\ parts[row[k]] = AttachmentToBlocks(g)
    BY <1>6, <1>9, <2>1, <2>2
  <2> QED  BY <2>1, <2>3, AttachmentStandsAlone
<1>14. ASSUME NEW f \in fetched \cap ToSet(some), NEW x \in Tokens(Extracted(f))
       PROVE  x \in BlockTokens(F)
  <2>1. PICK i \in DOMAIN some : some[i] = f
    BY DEF ToSet
  <2>2. PICK k \in DOMAIN got : at[k] = i
    BY <1>5, <2>1 DEF IsPick
  <2>3. got[k] = f /\ f \in File
    BY <1>5, <1>9, <2>1, <2>2 DEF IsPick
  <2>4. PICK bs : bs = parts[k]
    OBVIOUS
  <2>5. k \in 1..Len(got) /\ bs = AttachmentToBlocks(f)
    BY <1>6, <1>9, <2>3, <2>4
  <2>6. x \in BlockTokens(bs)
    BY <2>3, <2>5, AttachmentStandsAlone
  <2>7. PICK c \in DOMAIN bs : x \in Tokens(bs[c].text)
    BY <2>6 DEF BlockTokens
  <2>8. PICK l \in DOMAIN F : row[l] = k /\ col[l] = c
    BY <1>12, <2>4, <2>5, <2>7 DEF IsPlacing
  <2>9. F[l] = bs[c]
    BY <1>12, <2>4, <2>8 DEF IsPlacing
  <2> QED  BY <2>7, <2>9 DEF BlockTokens
<1> QED  BY <1>3, <1>8, <1>11, <1>13, <1>14

(* The page is one of those the constants give.                            *)
PageIsKnown == page \in [body: Bodies, files: FileSets]

(* What a version was made from: the text of the body and of the files     *)
(* that were fetched.                                                      *)
Source(v) == (UNION {DataTokens(v.source.body[i]) : i \in DOMAIN v.source.body})
               \cup (UNION {Tokens(t) : t \in v.source.files})

(* build_chunks makes a row of each planned child, in order, and keeps its *)
(* place and text.                                                         *)
Linked(v, plan, new) ==
  /\ v.parents = [p \in DOMAIN plan |-> plan[p].text]
  /\ DOMAIN v.children = DOMAIN new
  /\ \A i \in DOMAIN new :
       /\ PositionalKey(v.children[i]) = PositionalKey(new[i])
       /\ v.children[i].section = new[i].section
       /\ v.children[i].text = new[i].text
       /\ v.children[i].link = ParentOf(plan, new[i])

(* v is made of a whole plan that holds everything it was made from.       *)
BuiltWell(v, sections, plan) ==
  /\ WholePlan(sections, plan)
  /\ WholeChildren(plan, PlannedChildren(plan))
  /\ Linked(v, plan, PlannedChildren(plan))
  /\ v.source.body \in Seq(Event)
  /\ Source(v) \subseteq HeldIn(PlannedChildren(plan))

(* build_chunks and _link_chunks, of any plan.                             *)
LEMMA BuiltLinks ==
  ASSUME NEW plan, NEW hash, NEW fetched, PlannedChildren(plan) \in Seq(PlannedChild)
  PROVE  LET v == Built(plan, hash, fetched) IN
         /\ Linked(v, plan, PlannedChildren(plan))
         /\ v.source = [body |-> page.body, files |-> {Extracted(f) : f \in fetched}]
<1>1. PICK v, new : v = Built(plan, hash, fetched) /\ new = PlannedChildren(plan)
  OBVIOUS
<1>2. DOMAIN new = 1..Len(new)
  BY <1>1, LenProperties
<1>3. v.parents = [p \in DOMAIN plan |-> plan[p].text] /\ DOMAIN v.children = 1..Len(new)
  BY <1>1 DEF Built
<1>4. ASSUME NEW i \in 1..Len(new)
      PROVE  /\ v.children[i].section = new[i].section
             /\ v.children[i].parent = new[i].parent
             /\ v.children[i].ordinal = new[i].ordinal
             /\ v.children[i].text = new[i].text
             /\ v.children[i].link = ParentOf(plan, new[i])
  BY <1>1 DEF Built
<1>5. v.source = [body |-> page.body, files |-> {Extracted(f) : f \in fetched}]
  BY <1>1 DEF Built
<1>6. Linked(v, plan, new)
  BY <1>2, <1>3, <1>4 DEF Linked, PositionalKey
<1> QED  BY <1>1, <1>5, <1>6

(* Every rebuild is built well.                                            *)
LEMMA SyncBuildsWell ==
  ASSUME PageIsKnown, Sync
  PROVE  \E sections, plan, hash, fetched :
           live' = Built(plan, hash, fetched) /\ BuiltWell(live', sections, plan)
<1>1. page.body \in Seq(Event) /\ page.files \in Seq(File) /\ MaxFiles \in Nat
  BY RevisionAssumption DEF PageIsKnown
<1>2. PICK body : body = NormalizeBody(page.body)
  OBVIOUS
<1>3. PICK fetched \in SUBSET ToSet(Considered) :
        live' = Built(PlanChunks(WithHeadingPaths(body) \o AttachmentBlocks(fetched)), ContentHash(body), fetched)
  BY <1>2 DEF Sync
<1>4. PICK head, tail, blocks, plan :
        /\ head = WithHeadingPaths(body) /\ tail = AttachmentBlocks(fetched)
        /\ blocks = head \o tail /\ plan = PlanChunks(blocks)
  OBVIOUS
<1>5. /\ body \in Seq(PlainBlock) /\ NoneEmpty(body)
      /\ \A i \in DOMAIN page.body : DataTokens(page.body[i]) \subseteq BlockTokens(body)
  BY <1>1, <1>2, BodyHolds
<1>6. Outlined(head) /\ BlockTokens(head) = BlockTokens(body)
  BY <1>4, <1>5, PlacedOutline
<1>7. /\ tail \in Seq(PlacedBlock) /\ \A i \in DOMAIN tail : StandsAlone(tail[i])
      /\ \A f \in fetched : Tokens(Extracted(f)) \subseteq BlockTokens(tail)
  BY <1>1, <1>4, AttachmentsStandAlone
<1>8. Outlined(blocks) /\ BlockTokens(blocks) = BlockTokens(head) \cup BlockTokens(tail)
  BY <1>4, <1>6, <1>7, OutlinesJoin
<1>9. PICK sections, new : sections = BuildSections(blocks) /\ new = PlannedChildren(plan)
  OBVIOUS
<1>10. WholePlan(sections, plan) /\ WholeChildren(plan, new) /\ BlockTokens(blocks) \subseteq HeldIn(new)
  <2>1. /\ WholePlan(sections, plan) /\ WholeChildren(plan, new)
        /\ \A k \in DOMAIN blocks : Tokens(blocks[k].text) \subseteq HeldIn(new)
    BY <1>4, <1>8, <1>9, PlanHolds
  <2> QED  BY <2>1 DEF BlockTokens
<1>11. PICK v : v = Built(plan, ContentHash(body), fetched)
  OBVIOUS
<1>12. live' = v
  BY <1>3, <1>4, <1>11
<1>13. /\ Linked(v, plan, new)
       /\ v.source = [body |-> page.body, files |-> {Extracted(f) : f \in fetched}]
  BY <1>9, <1>10, <1>11, BuiltLinks DEF WholeChildren
<1>14. v.source.body = page.body /\ v.source.files = {Extracted(f) : f \in fetched}
  BY <1>13
<1>15. Source(v) \subseteq BlockTokens(blocks)
  BY <1>5, <1>6, <1>7, <1>8, <1>14 DEF Source
<1>16. BuiltWell(v, sections, plan)
  BY <1>1, <1>9, <1>10, <1>13, <1>14, <1>15 DEF BuiltWell
<1> QED  BY <1>11, <1>12, <1>16

(* Its children and its parents are within their limits.                   *)
Fits(v) ==
  /\ \A i \in DOMAIN v.children : Count(v.children[i].text) <= ChildMax
  /\ \A p \in DOMAIN v.parents : Count(v.parents[p]) <= ParentMax

(* No two of its children share a stable key.                             *)
Unique(v) ==
  \A i, j \in DOMAIN v.children : StableKey(v.children[i]) = StableKey(v.children[j]) => i = j

(* Its children hold everything it was made from.                          *)
Held(v) == Source(v) \subseteq HeldIn(v.children)

(* The row a child is linked to has the child's tokens, unless another     *)
(* section has the path of the child's.                                    *)
InParent(v) ==
  \A i \in DOMAIN v.children :
    \/ \E j \in DOMAIN v.children : /\ v.children[j].section # v.children[i].section
                                    /\ Joined(v.children[j].section.path) = Joined(v.children[i].section.path)
    \/ Tokens(v.children[i].text) \subseteq Tokens(v.parents[v.children[i].link])

(* A version built well has all four: a child's parent is found unless     *)
(* another section has its path, and then that section has a child too.    *)
LEMMA BuiltWellIsWell ==
  ASSUME NEW v, NEW sections, NEW plan, BuiltWell(v, sections, plan)
  PROVE  Fits(v) /\ Unique(v) /\ Held(v) /\ InParent(v)
<1>1. PICK new : new = PlannedChildren(plan)
  OBVIOUS
<1>2. WholePlan(sections, plan) /\ WholeChildren(plan, new) /\ Linked(v, plan, new) /\ Source(v) \subseteq HeldIn(new)
  BY <1>1 DEF BuiltWell
<1>3. Fits(v)
  BY <1>2 DEF Fits, WholePlan, WholeParent, WholeChildren, Linked
<1>4. Unique(v)
  <2>1. \A i \in DOMAIN new : StableKey(v.children[i]) = <<PositionalKey(new[i]), ContentKey(v.children[i])>>
    BY <1>2 DEF Linked, StableKey
  <2> QED  BY <1>2, <2>1 DEF Unique, Linked, WholeChildren
<1>5. HeldIn(v.children) = HeldIn(new)
  BY <1>2 DEF HeldIn, Linked
<1>6. Held(v)
  BY <1>2, <1>5 DEF Held
<1>7. ASSUME NEW i \in DOMAIN new
      PROVE  \/ \E j \in DOMAIN new : /\ new[j].section # new[i].section
                                     /\ Joined(new[j].section.path) = Joined(new[i].section.path)
             \/ Tokens(new[i].text) \subseteq Tokens(v.parents[ParentOf(plan, new[i])])
  <2> DEFINE S == {p \in DOMAIN plan : /\ Joined(plan[p].section.path) = Joined(new[i].section.path)
                                     /\ plan[p].n = new[i].parent}
  <2>1. PICK p \in DOMAIN plan : ChildIsOf(new[i], plan[p])
    BY <1>2 DEF WholeChildren
  <2>2. p \in S
    BY <2>1 DEF ChildIsOf
  <2>3. CASE \E q \in S : plan[q].section # new[i].section
    <3>1. PICK q \in S : plan[q].section # new[i].section
      BY <2>3
    <3>2. PICK j \in DOMAIN new : new[j].section = plan[q].section
      BY <1>2 DEF WholeChildren
    <3> QED  BY <3>1, <3>2
  <2>4. CASE \A q \in S : plan[q].section = new[i].section
    <3>1. \A q \in S : q = p
      BY <1>2, <2>1, <2>4 DEF WholePlan, ChildIsOf
    <3>2. plan \in Seq(PlannedParent) /\ Len(plan) \in Nat /\ DOMAIN plan = 1..Len(plan)
      BY <1>2, LenProperties DEF WholePlan
    <3>3. ParentOf(plan, new[i]) = Max(S)
      BY DEF ParentOf
    <3>4. Max(S) \in S
      <4>1. S \in SUBSET (1..Len(plan)) /\ S # {}
        BY <2>2, <3>2
      <4> HIDE DEF S
      <4> QED  BY <3>2, <4>1, MaxFacts
    <3>5. ParentOf(plan, new[i]) = p
      BY <3>1, <3>3, <3>4
    <3>6. v.parents[p] = plan[p].text
      BY <1>2 DEF Linked
    <3> QED  BY <2>1, <3>5, <3>6 DEF ChildIsOf
  <2> QED  BY <2>3, <2>4
<1>8. InParent(v)
  <2>1. DOMAIN v.children = DOMAIN new
    BY <1>2 DEF Linked
  <2>2. ASSUME NEW i \in DOMAIN new
        PROVE  /\ v.children[i].section = new[i].section /\ v.children[i].text = new[i].text
               /\ v.children[i].link = ParentOf(plan, new[i])
    BY <1>2 DEF Linked
  <2> SUFFICES ASSUME NEW i \in DOMAIN new
               PROVE  \/ \E j \in DOMAIN new : /\ v.children[j].section # v.children[i].section
                                              /\ Joined(v.children[j].section.path)
                                                    = Joined(v.children[i].section.path)
                      \/ Tokens(v.children[i].text) \subseteq Tokens(v.parents[v.children[i].link])
    BY <2>1 DEF InParent
  <2>3. CASE \E j \in DOMAIN new : /\ new[j].section # new[i].section
                                    /\ Joined(new[j].section.path) = Joined(new[i].section.path)
    BY <2>2, <2>3
  <2>4. CASE Tokens(new[i].text) \subseteq Tokens(v.parents[ParentOf(plan, new[i])])
    BY <2>2, <2>4
  <2> QED  BY <1>7, <2>3, <2>4
<1> QED  BY <1>3, <1>4, <1>6, <1>8

(* The inductive invariant: the live version has all four.                 *)
Wellformed == live # None => Fits(live) /\ Unique(live) /\ Held(live) /\ InParent(live) /\ live.source.body \in Seq(Event)

(* It says what the invariants of the runs say.                            *)
LEMMA WellformedSays ==
  ASSUME Wellformed
  PROVE  ChunksFit /\ KeysAreUnique /\ ReadTextIsKept /\ ParentHoldsChild
<1> SUFFICES ASSUME live # None
             PROVE  ChunksFit /\ KeysAreUnique /\ ReadTextIsKept /\ ParentHoldsChild
  BY DEF ChunksFit, KeysAreUnique, ReadTextIsKept, ParentHoldsChild
<1>1. Fits(live) /\ Unique(live) /\ Held(live) /\ InParent(live) /\ live.source.body \in Seq(Event)
  BY DEF Wellformed
<1>2. Children = {live.children[i] : i \in DOMAIN live.children}
  BY DEF Children, ToSet
<1>3. ChunksFit
  BY <1>1, <1>2 DEF ChunksFit, Fits, ToSet
<1>4. KeysAreUnique
  BY <1>1 DEF KeysAreUnique, Unique
<1>5. ParentHoldsChild
  BY <1>1, <1>2 DEF ParentHoldsChild, InParent
<1>6. ReadTextIsKept
  <2> DEFINE body == live.source.body
             H(c) == Tokens(c.text) \cup UNION {Tokens(h) : h \in ToSet(c.section.path)}
             data == {e.text : e \in {d \in ToSet(body) : d.event = "data"}}
  <2>1. ASSUME NEW t \in data \cup live.source.files, NEW x \in Tokens(t)
        PROVE  x \in Source(live)
    <3>1. CASE t \in data
      <4>1. PICK i \in DOMAIN body : body[i].event = "data" /\ t = body[i].text
        BY <3>1 DEF ToSet
      <4> QED  BY <2>1, <4>1 DEF Source, DataTokens
    <3>2. CASE t \in live.source.files
      BY <2>1, <3>2 DEF Source
    <3> QED  BY <3>1, <3>2
  <2>2. ASSUME NEW x \in HeldIn(live.children) PROVE x \in UNION {H(c) : c \in Children}
    <3>1. PICK i \in DOMAIN live.children :
            x \in Tokens(live.children[i].text) \cup TrailTokens(live.children[i].section.path)
      BY DEF HeldIn
    <3>2. PICK c : c = live.children[i]
      OBVIOUS
    <3>3. c \in Children /\ x \in H(c)
      BY <1>2, <3>1, <3>2 DEF TrailTokens, ToSet
    <3> QED  BY <3>3
  <2>3. UNION {Tokens(t) : t \in data \cup live.source.files} \subseteq UNION {H(c) : c \in Children}
    BY <1>1, <2>1, <2>2 DEF Held
  <2> QED  BY <2>3 DEF ReadTextIsKept
<1> QED  BY <1>3, <1>4, <1>5, <1>6

(* It is inductive: only a sync changes the live version.                  *)
LEMMA WellformedStep ==
  ASSUME PageIsKnown, Wellformed, [Next]_vars
  PROVE  PageIsKnown' /\ Wellformed'
<1>1. PageIsKnown'
  <2>1. ASSUME NEW body \in Bodies \ {page.body}, Edit(body) PROVE PageIsKnown'
    BY <2>1 DEF Edit, PageIsKnown
  <2>2. ASSUME NEW files \in FileSets \ {page.files}, Attach(files) PROVE PageIsKnown'
    BY <2>2 DEF Attach, PageIsKnown
  <2>3. CASE UNCHANGED page
    BY <2>3 DEF PageIsKnown
  <2> QED  BY <2>1, <2>2, <2>3 DEF Next, Deploy, Sync, vars
<1>2. CASE Sync
  <2>1. PICK sections, plan : BuiltWell(live', sections, plan)
    BY <1>2, SyncBuildsWell
  <2>2. Fits(live') /\ Unique(live') /\ Held(live') /\ InParent(live')
    BY <2>1, BuiltWellIsWell
  <2>3. live'.source.body \in Seq(Event)
    BY <2>1 DEF BuiltWell
  <2>4. Wellformed'
    <3>1. Fits(live)' /\ Unique(live)'
      BY <2>2 DEF Fits, Unique
    <3>2. Held(live)' /\ InParent(live)'
      BY <2>2 DEF Held, Source, InParent
    <3> QED  BY <2>3, <3>1, <3>2 DEF Wellformed
  <2> QED  BY <1>1, <2>4
<1>3. CASE UNCHANGED live
  <2>1. Fits(live)' = Fits(live) /\ Unique(live)' = Unique(live)
    BY <1>3 DEF Fits, Unique
  <2>2. Held(live)' = Held(live) /\ InParent(live)' = InParent(live)
    BY <1>3 DEF Held, Source, InParent
  <2>3. Wellformed'
    BY <1>3, <2>1, <2>2 DEF Wellformed
  <2> QED  BY <1>1, <2>3
<1>4. Next => Sync \/ UNCHANGED live
  BY DEF Next, Edit, Attach, Deploy
<1> QED  BY <1>2, <1>3, <1>4 DEF vars

(* It holds in every state.                                                *)
LEMMA WellformedAlways == Spec => [](PageIsKnown /\ Wellformed)
<1>1. Init => PageIsKnown /\ Wellformed
  BY DEF Init, PageIsKnown, Wellformed
<1>2. PageIsKnown /\ Wellformed /\ [Next]_vars => (PageIsKnown /\ Wellformed)'
  BY WellformedStep
<1> QED  BY <1>1, <1>2, PTL DEF Spec

(* No chunk outgrows its limit, for any ChunkConfig that satisfies the     *)
(* assumption, any body and any files.                                     *)
THEOREM NoChunkIsTooLong == Spec => []ChunksFit
BY WellformedAlways, WellformedSays, PTL

(* No two children of a version share a stable key ("stable_key ... unique *)
(* per doc version"), for any body.                                        *)
THEOREM StableKeysAreUnique == Spec => []KeysAreUnique
BY WellformedAlways, WellformedSays, PTL

(* Every token that html.parser hands over as text, and every token of the *)
(* fetched files, is searchable: in a child or in the heading trail of one.*)
THEOREM ReadTextsAreKept == Spec => []ReadTextIsKept
BY WellformedAlways, WellformedSays, PTL

(* The parent a hit is widened to holds the hit, unless two sections of    *)
(* the page have the same heading path.                                    *)
THEOREM ParentsHoldTheirChildren == Spec => []ParentHoldsChild
BY WellformedAlways, WellformedSays, PTL

-----------------------------------------------------------------------------
(* What a rebuild pays for                                                 *)

(* The chunks of a pool that have a key.                                   *)
OfKey(keys, pool, key) == {k \in pool : keys[k] = key}

(* A set that another is mapped onto one to one has as many.               *)
LEMMA SameNumber ==
  ASSUME NEW S, NEW T, IsFiniteSet(S), NEW f \in [S -> T],
         \A a, b \in S : f[a] = f[b] => a = b,
         \A t \in T : \E s \in S : f[s] = t
  PROVE  IsFiniteSet(T) /\ Cardinality(T) = Cardinality(S)
<1>1. f \in Bijection(S, T)
  BY DEF Bijection, Injection, Surjection, IsInjective
<1> QED  BY <1>1, FS_Bijection DEF ExistsBijection

(* The ranks of n chunks of a pool are 0, 1, 2 and so on.                  *)
Ranked(C, keys, pool, n) ==
  /\ IsFiniteSet(C) /\ n \in Nat
  /\ \A i \in C : Rank(keys, pool, i) \in 0..n - 1
  /\ \A r \in 0..n - 1 : \E i \in C : Rank(keys, pool, i) = r

(* So they are for the chunks of a key.                                    *)
LEMMA RanksCount ==
  ASSUME NEW keys, NEW pool, IsPool(pool), NEW key
  PROVE  Ranked(OfKey(keys, pool, key), keys, pool, Cardinality(OfKey(keys, pool, key)))
<1> DEFINE C == OfKey(keys, pool, key)
           n == Cardinality(C)
           f == [i \in C |-> Rank(keys, pool, i)]
<1>1. C \subseteq pool /\ \A i \in C : keys[i] = key
  BY DEF OfKey
<1>2. IsFiniteSet(C) /\ n \in Nat
  BY <1>1, FS_Subset, FS_CardinalityType DEF IsPool
<1>3. ASSUME NEW i \in C PROVE Rank(keys, pool, i) \in 0..n - 1
  <2> DEFINE B == {k \in pool : k < i /\ keys[k] = keys[i]}
  <2>1. B \subseteq C \ {i}
    <3>1. ASSUME NEW k \in B PROVE k \in C /\ k # i
      BY <1>1 DEF OfKey, IsPool
    <3> QED  BY <3>1
  <2>2. IsFiniteSet(C \ {i}) /\ Cardinality(C \ {i}) = n - 1
    BY <1>2, FS_RemoveElement
  <2>3. IsFiniteSet(B) /\ Cardinality(B) <= n - 1
    BY <2>1, <2>2, FS_Subset
  <2>4. Cardinality(B) \in Nat
    BY <2>3, FS_CardinalityType
  <2> QED  BY <1>2, <2>3, <2>4 DEF Rank
<1>4. ASSUME NEW i \in C, NEW j \in C, f[i] = f[j] PROVE i = j
  <2>1. i \in pool /\ j \in pool /\ keys[i] = keys[j]
    BY <1>1
  <2>2. Rank(keys, pool, i) = Rank(keys, pool, j)
    BY <1>4
  <2> HIDE DEF C, f
  <2> QED  BY <2>1, <2>2, RankTellsApart
<1>5. IsFiniteSet(0..n - 1) /\ Cardinality(0..n - 1) = n
  <2>1. n - 1 \in Int /\ 0 \in Int
    BY <1>2
  <2>2. IsFiniteSet(0..n - 1) /\ Cardinality(0..n - 1) = IF 0 > n - 1 THEN 0 ELSE n - 1 - 0 + 1
    BY <2>1, FS_Interval
  <2> QED  BY <1>2, <2>2
<1>6. f \in Injection(C, 0..n - 1)
  BY <1>3, <1>4 DEF Injection, IsInjective
<1>7. f \in Surjection(C, 0..n - 1)
  BY <1>5, <1>6, FS_Injection
<1>8. \A r \in 0..n - 1 : \E i \in C : Rank(keys, pool, i) = r
  BY <1>7 DEF Surjection
<1> QED  BY <1>2, <1>3, <1>8 DEF Ranked

(* What a pass leaves over of a key: as many as there are more of it among *)
(* the new.                                                                *)
LEMMA PassLeaves ==
  ASSUME NEW oldKeys, NEW newKeys, NEW olds, NEW news,
         IsPool(olds), IsPool(news), NEW key
  PROVE  LET n == Cardinality(OfKey(newKeys, news, key))
             o == Cardinality(OfKey(oldKeys, olds, key))
             left == OfKey(newKeys, news \ Takers(Pass(oldKeys, newKeys, olds, news)), key)
         IN /\ n \in Nat /\ o \in Nat
            /\ Cardinality(left) = IF n > o THEN n - o ELSE 0
<1> DEFINE C == OfKey(newKeys, news, key)
           D == OfKey(oldKeys, olds, key)
           n == Cardinality(C)
           o == Cardinality(D)
           M == Pass(oldKeys, newKeys, olds, news)
           left == OfKey(newKeys, news \ Takers(M), key)
<1>1. /\ IsFiniteSet(C) /\ n \in Nat
      /\ \A i \in C : Rank(newKeys, news, i) \in 0..n - 1
      /\ \A r \in 0..n - 1 : \E i \in C : Rank(newKeys, news, i) = r
  <2>1. Ranked(C, newKeys, news, n)
    BY RanksCount
  <2> QED  BY <2>1 DEF Ranked
<1>2. /\ o \in Nat
      /\ \A j \in D : Rank(oldKeys, olds, j) \in 0..o - 1
      /\ \A r \in 0..o - 1 : \E j \in D : Rank(oldKeys, olds, j) = r
  <2>1. Ranked(D, oldKeys, olds, o)
    BY RanksCount
  <2> QED  BY <2>1 DEF Ranked
<1> HIDE DEF n, o
<1>3. ASSUME NEW i \in C, i \in Takers(M) PROVE Rank(newKeys, news, i) < o
  <2>1. PICK m \in M : m[1] = i
    BY <1>3 DEF Takers
  <2>2. /\ m[2] \in olds /\ newKeys[i] = oldKeys[m[2]]
        /\ Rank(newKeys, news, i) = Rank(oldKeys, olds, m[2])
    BY <2>1 DEF Pass
  <2>3. m[2] \in D
    BY <2>2 DEF OfKey
  <2> QED  BY <1>2, <2>2, <2>3
<1>4. ASSUME NEW i \in C, Rank(newKeys, news, i) < o PROVE i \in Takers(M)
  <2>1. PICK r : r = Rank(newKeys, news, i)
    OBVIOUS
  <2>2. r \in 0..o - 1
    BY <1>1, <1>2, <1>4, <2>1
  <2>3. PICK j \in D : Rank(oldKeys, olds, j) = r
    BY <1>2, <2>2
  <2>4. i \in news /\ j \in olds /\ newKeys[i] = oldKeys[j]
    BY DEF OfKey
  <2>5. <<i, j>> \in M
    BY <2>1, <2>3, <2>4 DEF Pass
  <2> QED  BY <2>5 DEF Takers
<1>5. left = {i \in C : ~(Rank(newKeys, news, i) < o)}
  <2>1. left = {i \in C : i \notin Takers(M)}
    BY DEF OfKey
  <2> HIDE DEF C, M, left
  <2> QED  BY <1>3, <1>4, <2>1
<1> DEFINE f == [i \in left |-> Rank(newKeys, news, i)]
           R == o..n - 1
<1> HIDE DEF left, C
<1>6. IsFiniteSet(left)
  BY <1>1, <1>5, FS_Subset
<1>7. f \in [left -> R]
  <2>1. ASSUME NEW i \in left PROVE Rank(newKeys, news, i) \in R
    BY <1>1, <1>2, <1>5
  <2> QED  BY <2>1
<1>8. \A a, b \in left : f[a] = f[b] => a = b
  <2> SUFFICES ASSUME NEW a \in left, NEW b \in left, f[a] = f[b] PROVE a = b
    OBVIOUS
  <2>1. a \in news /\ b \in news /\ newKeys[a] = newKeys[b]
    BY DEF left, OfKey
  <2>2. Rank(newKeys, news, a) = Rank(newKeys, news, b)
    OBVIOUS
  <2> HIDE DEF f
  <2> QED  BY <2>1, <2>2, RankTellsApart
<1>9. \A r \in R : \E i \in left : f[i] = r
  <2> SUFFICES ASSUME NEW r \in R PROVE \E i \in left : f[i] = r
    OBVIOUS
  <2>1. r \in 0..n - 1 /\ ~(r < o)
    BY <1>1, <1>2
  <2>2. PICK i \in C : Rank(newKeys, news, i) = r
    BY <1>1, <2>1
  <2>3. i \in left
    BY <1>5, <2>1, <2>2
  <2> QED  BY <2>2, <2>3
<1>10. Cardinality(R) = Cardinality(left)
  <2> HIDE DEF f, R
  <2> QED  BY <1>6, <1>7, <1>8, <1>9, SameNumber
<1>11. Cardinality(R) = IF o > n - 1 THEN 0 ELSE n - 1 - o + 1
  <2>1. o \in Int /\ n - 1 \in Int
    BY <1>1, <1>2
  <2> QED  BY <2>1, FS_Interval
<1>12. Cardinality(left) = IF n > o THEN n - o ELSE 0
  BY <1>1, <1>2, <1>10, <1>11
<1> QED  BY <1>1, <1>2, <1>12 DEF n, o, left, C

(* A pass takes as many as it lends, of every text.                        *)
LEMMA PassIsFair ==
  ASSUME NEW oldKeys, NEW newKeys, NEW olds, NEW news,
         IsPool(olds), IsPool(news),
         NEW oldTexts, NEW newTexts,
         \A m \in Pass(oldKeys, newKeys, olds, news) : newTexts[m[1]] = oldTexts[m[2]],
         NEW t
  PROVE  LET M == Pass(oldKeys, newKeys, olds, news)
         IN Cardinality(OfKey(newTexts, Takers(M), t)) = Cardinality(OfKey(oldTexts, Lenders(M), t))
<1> DEFINE M == Pass(oldKeys, newKeys, olds, news)
           S == OfKey(newTexts, Takers(M), t)
           T == OfKey(oldTexts, Lenders(M), t)
           f == [i \in S |-> CHOOSE j \in olds : <<i, j>> \in M]
<1>1. \A m \in M : m = <<m[1], m[2]>> /\ m[1] \in news /\ m[2] \in olds
  BY DEF Pass
<1>2. ASSUME NEW m \in M, NEW k \in M PROVE m[1] = k[1] <=> m[2] = k[2]
  BY PassIsOneToOne
<1>3. \A m \in M : newTexts[m[1]] = oldTexts[m[2]]
  OBVIOUS
<1> HIDE DEF M
<1>4. \A i \in S : i \in news /\ newTexts[i] = t /\ \E j \in olds : <<i, j>> \in M
  <2> SUFFICES ASSUME NEW i \in S PROVE i \in news /\ newTexts[i] = t /\ \E j \in olds : <<i, j>> \in M
    OBVIOUS
  <2>1. i \in Takers(M) /\ newTexts[i] = t
    BY DEF OfKey
  <2>2. PICK m \in M : m[1] = i
    BY <2>1 DEF Takers
  <2> QED  BY <1>1, <2>1, <2>2
<1>5. ASSUME NEW i \in S PROVE f[i] \in olds /\ <<i, f[i]>> \in M /\ f[i] \in T
  <2>1. f[i] \in olds /\ <<i, f[i]>> \in M
    BY <1>4
  <2>2. PICK m : m = <<i, f[i]>>
    OBVIOUS
  <2>3. m \in M /\ m[1] = i /\ m[2] = f[i]
    BY <2>1, <2>2
  <2>4. oldTexts[f[i]] = t
    BY <1>3, <1>4, <2>3
  <2>5. f[i] \in Lenders(M)
    BY <2>3 DEF Lenders
  <2> QED  BY <2>1, <2>4, <2>5 DEF OfKey
<1>6. IsFiniteSet(S)
  <2>1. S \in SUBSET news /\ IsFiniteSet(news)
    BY <1>4 DEF IsPool
  <2> QED  BY <2>1, FS_Subset
<1>7. f \in [S -> T]
  BY <1>5
<1>8. ASSUME NEW a \in S, NEW b \in S, f[a] = f[b] PROVE a = b
  <2>1. PICK m, k : m = <<a, f[a]>> /\ k = <<b, f[b]>>
    OBVIOUS
  <2>2. m \in M /\ k \in M /\ m[1] = a /\ k[1] = b /\ m[2] = k[2]
    BY <1>5, <1>8, <2>1
  <2> QED  BY <1>2, <2>2
<1>9. ASSUME NEW j \in T PROVE \E i \in S : f[i] = j
  <2>1. j \in Lenders(M) /\ oldTexts[j] = t
    BY DEF OfKey
  <2>2. PICK m \in M : m[2] = j
    BY <2>1 DEF Lenders
  <2>3. m[1] \in Takers(M) /\ newTexts[m[1]] = t
    BY <1>3, <2>1, <2>2 DEF Takers
  <2>4. m[1] \in S
    BY <2>3 DEF OfKey
  <2>5. PICK i, k : i = m[1] /\ k = <<i, f[i]>>
    OBVIOUS
  <2>6. i \in S /\ k \in M /\ k[1] = m[1] /\ k[2] = f[i]
    BY <1>5, <2>4, <2>5
  <2>7. f[i] = j
    BY <1>2, <2>2, <2>6
  <2> QED  BY <2>6, <2>7
<1>10. Cardinality(T) = Cardinality(S)
  <2> HIDE DEF f, S, T
  <2> QED  BY <1>6, <1>7, <1>8, <1>9, SameNumber
<1> QED  BY <1>10 DEF M

(* The greater of none and a number.                                       *)
LEMMA MaxOfTwo ==
  ASSUME NEW x \in Int
  PROVE  Max({0, x}) = IF x > 0 THEN x ELSE 0
<1> DEFINE y == IF x > 0 THEN x ELSE 0
<1>1. y \in {0, x} /\ (\A z \in {0, x} : y >= z) /\ \A z \in {0, x} : z \in Int
  OBVIOUS
<1>2. \A u \in {0, x} : (\A z \in {0, x} : u >= z) => u = y
  <2>1. ASSUME NEW u \in {0, x}, \A z \in {0, x} : u >= z PROVE u = y
    <3>1. u >= y /\ y >= u /\ u \in Int /\ y \in Int
      BY <1>1, <2>1
    <3> QED  BY <3>1
  <2> QED  BY <2>1
<1> HIDE DEF y
<1>3. Max({0, x}) = y
  BY <1>1, <1>2 DEF Max
<1> QED  BY <1>3 DEF y

(* What the two passes of diff_chunks leave over of a text: as many as the *)
(* page has gained.                                                        *)
LEMMA ReuseLeaves ==
  ASSUME NEW old, NEW new, IsPool(DOMAIN old), IsPool(DOMAIN new), NEW t
  PROVE  Cardinality({i \in DOMAIN new \ Takers(Reuse(Identities(old), Identities(new))) : new[i].text = t})
           = Gained(old, new, t)
<1> DEFINE o == Identities(old)
           n == Identities(new)
<1>1. DOMAIN o = DOMAIN old /\ DOMAIN n = DOMAIN new
  BY DEF Identities
<1>2. PICK exact : exact = Pass(Keys(o, "stable"), Keys(n, "stable"), DOMAIN old, DOMAIN new)
  OBVIOUS
<1>3. PICK oldText, newText : oldText = Keys(o, "content") /\ newText = Keys(n, "content")
  OBVIOUS
<1>4. PICK olds, news : olds = DOMAIN old \ Lenders(exact) /\ news = DOMAIN new \ Takers(exact)
  OBVIOUS
<1>5. PICK moved : moved = Pass(oldText, newText, olds, news)
  OBVIOUS
<1>6. Reuse(o, n) = exact \cup moved
  BY <1>1, <1>2, <1>3, <1>4, <1>5 DEF Reuse
<1>7. /\ \A j \in DOMAIN old : oldText[j] = old[j].text
      /\ \A i \in DOMAIN new : newText[i] = new[i].text
  BY <1>3 DEF Keys, Identities, ContentKey
<1>8. \A m \in exact : m[1] \in DOMAIN new /\ m[2] \in DOMAIN old
  BY <1>2 DEF Pass
<1>9. ASSUME NEW m \in exact PROVE newText[m[1]] = oldText[m[2]]
  <2>1. Keys(n, "stable")[m[1]] = Keys(o, "stable")[m[2]]
    BY <1>2 DEF Pass
  <2>2. StableKey(new[m[1]]) = StableKey(old[m[2]])
    BY <1>8, <2>1 DEF Keys, Identities
  <2>3. new[m[1]].text = old[m[2]].text
    BY <2>2 DEF StableKey, ContentKey
  <2> QED  BY <1>7, <1>8, <2>3
<1> HIDE DEF o, n
<1>10. Cardinality(OfKey(newText, Takers(exact), t)) = Cardinality(OfKey(oldText, Lenders(exact), t))
  BY <1>2, <1>9, PassIsFair
<1>11. Takers(exact) \subseteq DOMAIN new /\ Lenders(exact) \subseteq DOMAIN old
  BY <1>8 DEF Takers, Lenders
<1>12. IsPool(olds) /\ IsPool(news)
  BY <1>4, FS_Subset DEF IsPool
<1>13. PICK N, O, G, L, a, b :
         /\ N = OfKey(newText, DOMAIN new, t) /\ O = OfKey(oldText, DOMAIN old, t)
         /\ G = OfKey(newText, Takers(exact), t) /\ L = OfKey(oldText, Lenders(exact), t)
         /\ a = OfKey(newText, news, t) /\ b = OfKey(oldText, olds, t)
  OBVIOUS
<1>14. /\ G \subseteq N /\ L \subseteq O /\ a = N \ G /\ b = O \ L
  BY <1>4, <1>11, <1>13 DEF OfKey
<1>15. N \subseteq DOMAIN new /\ O \subseteq DOMAIN old
  BY <1>13 DEF OfKey
<1>16. IsFiniteSet(N) /\ IsFiniteSet(O)
  BY <1>15, FS_Subset DEF IsPool
<1>17. IsFiniteSet(G) /\ IsFiniteSet(L) /\ N \cap G = G /\ O \cap L = L
  BY <1>14, <1>16, FS_Subset
<1>18. /\ Cardinality(a) = Cardinality(N) - Cardinality(G)
       /\ Cardinality(b) = Cardinality(O) - Cardinality(L)
  <2>1. Cardinality(N \ G) = Cardinality(N) - Cardinality(N \cap G)
    BY <1>16, FS_Difference
  <2>2. Cardinality(O \ L) = Cardinality(O) - Cardinality(O \cap L)
    BY <1>16, FS_Difference
  <2> QED  BY <1>14, <1>17, <2>1, <2>2
<1>19. /\ Cardinality(N) \in Nat /\ Cardinality(O) \in Nat /\ Cardinality(G) \in Nat
       /\ Cardinality(G) = Cardinality(L)
  BY <1>10, <1>13, <1>16, <1>17, FS_CardinalityType
<1>20. PICK left : left = OfKey(newText, news \ Takers(moved), t)
  OBVIOUS
<1>21. Cardinality(left) = IF Cardinality(a) > Cardinality(b) THEN Cardinality(a) - Cardinality(b) ELSE 0
  BY <1>5, <1>12, <1>13, <1>20, PassLeaves
<1>22. Cardinality(left) = IF Cardinality(N) > Cardinality(O) THEN Cardinality(N) - Cardinality(O) ELSE 0
  BY <1>18, <1>19, <1>21
<1>23. Copies(new, t) = Cardinality(N) /\ Copies(old, t) = Cardinality(O)
  <2>1. {i \in DOMAIN new : new[i].text = t} = N /\ {i \in DOMAIN old : old[i].text = t} = O
    BY <1>7, <1>13 DEF OfKey
  <2> QED  BY <2>1 DEF Copies
<1>24. Gained(old, new, t) = Cardinality(left)
  <2>1. PICK x : x = Cardinality(N) - Cardinality(O)
    OBVIOUS
  <2>2. x \in Int /\ Max({0, x}) = IF x > 0 THEN x ELSE 0
    BY <1>19, <2>1, MaxOfTwo
  <2>3. Gained(old, new, t) = Max({0, x})
    BY <1>23, <2>1 DEF Gained
  <2> QED  BY <1>19, <1>22, <2>1, <2>2, <2>3
<1>25. DOMAIN new \ Takers(exact \cup moved) = news \ Takers(moved)
  BY <1>4 DEF Takers
<1>26. {i \in DOMAIN new \ Takers(exact \cup moved) : new[i].text = t} = left
  BY <1>4, <1>7, <1>20, <1>25 DEF OfKey
<1> QED  BY <1>6, <1>24, <1>26 DEF o, n

(* The chunks of some of the texts.                                        *)
OfTexts(texts, pool, s) == {i \in pool : texts[i] \in s}

(* With one text more there are the chunks of that text more.              *)
LEMMA OneTextMore ==
  ASSUME NEW texts, NEW pool, IsFiniteSet(pool), NEW s, NEW x \in s
  PROVE  /\ Cardinality(OfTexts(texts, pool, s))
              = Cardinality(OfKey(texts, pool, x)) + Cardinality(OfTexts(texts, pool, s \ {x}))
         /\ Cardinality(OfTexts(texts, pool, s)) \in Nat
<1>1. PICK a, b, c : /\ a = OfTexts(texts, pool, s) /\ b = OfKey(texts, pool, x)
                     /\ c = OfTexts(texts, pool, s \ {x})
  OBVIOUS
<1>2. a \subseteq pool /\ b \subseteq pool /\ c \subseteq pool /\ b \cap c = {} /\ a = b \cup c
  BY <1>1 DEF OfTexts, OfKey
<1>3. IsFiniteSet(a) /\ IsFiniteSet(b) /\ IsFiniteSet(c)
  BY <1>2, FS_Subset
<1>4. Cardinality(b \cup c) = Cardinality(b) + Cardinality(c) - Cardinality(b \cap c)
  BY <1>3, FS_Union
<1>5. Cardinality({}) = 0 /\ Cardinality(a) \in Nat /\ Cardinality(b) \in Nat /\ Cardinality(c) \in Nat
  BY <1>3, FS_EmptySet, FS_CardinalityType
<1>6. Cardinality(a) = Cardinality(b) + Cardinality(c)
  BY <1>2, <1>4, <1>5
<1> QED  BY <1>1, <1>5, <1>6

(* f adds up g text by text, in the order the fold chooses.                *)
IsSum(f, g, T) ==
  f = [s \in SUBSET T |-> IF s = {} THEN 0
                          ELSE g[CHOOSE x \in s : TRUE] + f[s \ {CHOOSE x \in s : TRUE}]]

(* Counting the chunks of the texts adds up, where g counts those of one.  *)
LEMMA CountIsSum ==
  ASSUME NEW texts, NEW pool, IsFiniteSet(pool), NEW T, NEW g,
         \A t \in T : g[t] = Cardinality(OfKey(texts, pool, t))
  PROVE  IsSum([s \in SUBSET T |-> Cardinality(OfTexts(texts, pool, s))], g, T)
<1> DEFINE f == [s \in SUBSET T |-> Cardinality(OfTexts(texts, pool, s))]
<1>1. ASSUME NEW s \in SUBSET T, s # {}
      PROVE  f[s] = g[CHOOSE x \in s : TRUE] + f[s \ {CHOOSE x \in s : TRUE}]
  <2>1. PICK x : x = CHOOSE y \in s : TRUE
    OBVIOUS
  <2>2. x \in s
    BY <1>1, <2>1
  <2>3. g[x] = Cardinality(OfKey(texts, pool, x)) /\ s \ {x} \in SUBSET T
    BY <2>2
  <2>4. Cardinality(OfTexts(texts, pool, s))
          = Cardinality(OfKey(texts, pool, x)) + Cardinality(OfTexts(texts, pool, s \ {x}))
    BY <2>2, OneTextMore
  <2>5. f[s] = g[x] + f[s \ {x}]
    BY <2>3, <2>4
  <2> HIDE DEF f
  <2> QED  BY <2>1, <2>5
<1>2. f[{}] = 0
  <2>1. OfTexts(texts, pool, {}) = {}
    BY DEF OfTexts
  <2> QED  BY <2>1, FS_EmptySet
<1>3. f = [s \in SUBSET T |-> f[s]]
  OBVIOUS
<1> HIDE DEF f
<1>4. f = [s \in SUBSET T |-> IF s = {} THEN 0
                              ELSE g[CHOOSE x \in s : TRUE] + f[s \ {CHOOSE x \in s : TRUE}]]
  BY <1>1, <1>2, <1>3
<1>5. IsSum(f, g, T)
  BY <1>4, Zenon DEF IsSum
<1> QED  BY <1>5 DEF f

(* And whatever adds up is that count.                                     *)
LEMMA SumIsCount ==
  ASSUME NEW texts, NEW pool, IsFiniteSet(pool), NEW T, IsFiniteSet(T), NEW g,
         \A t \in T : g[t] = Cardinality(OfKey(texts, pool, t)),
         NEW f, IsSum(f, g, T)
  PROVE  f[T] = Cardinality(OfTexts(texts, pool, T))
<1> DEFINE B == {s \in SUBSET T : f[s] # Cardinality(OfTexts(texts, pool, s))}
           C == {Cardinality(s) : s \in B}
<1>1. ASSUME NEW s \in SUBSET T PROVE IsFiniteSet(s) /\ Cardinality(s) \in Nat
  <2>1. IsFiniteSet(s)
    BY FS_Subset
  <2> QED  BY <2>1, FS_CardinalityType
<1>2. SUFFICES ASSUME B # {} PROVE FALSE
  BY T \in SUBSET T
<1>3. C \subseteq Nat /\ C # {}
  BY <1>1, <1>2
<1>4. PICK m \in C : \A k \in C : m <= k
  BY <1>3, Least
<1>5. PICK s \in B : Cardinality(s) = m
  BY <1>4
<1>6. s \in SUBSET T /\ f[s] # Cardinality(OfTexts(texts, pool, s))
  BY <1>5
<1>7. s # {}
  <2> SUFFICES ASSUME s = {} PROVE FALSE
    OBVIOUS
  <2>1. f[{}] = 0
    BY DEF IsSum
  <2>2. OfTexts(texts, pool, {}) = {}
    BY DEF OfTexts
  <2>3. Cardinality(OfTexts(texts, pool, {})) = 0
    BY <2>2, FS_EmptySet
  <2> QED  BY <1>6, <2>1, <2>3
<1>8. PICK x : x = CHOOSE y \in s : TRUE
  OBVIOUS
<1>9. x \in s /\ x \in T /\ s \ {x} \in SUBSET T
  BY <1>6, <1>7, <1>8
<1>10. f[s] = g[x] + f[s \ {x}]
  BY <1>6, <1>7, <1>8 DEF IsSum
<1>11. Cardinality(s \ {x}) = m - 1 /\ m \in Nat
  BY <1>1, <1>5, <1>6, <1>9, FS_RemoveElement
<1>12. s \ {x} \notin B
  <2> SUFFICES ASSUME s \ {x} \in B PROVE FALSE
    OBVIOUS
  <2>1. Cardinality(s \ {x}) \in C
    OBVIOUS
  <2>2. m <= m - 1
    BY <1>4, <1>11, <2>1
  <2> QED  BY <1>11, <2>2
<1>13. f[s \ {x}] = Cardinality(OfTexts(texts, pool, s \ {x}))
  BY <1>9, <1>12
<1>14. g[x] = Cardinality(OfKey(texts, pool, x))
  BY <1>9
<1>15. Cardinality(OfTexts(texts, pool, s))
          = Cardinality(OfKey(texts, pool, x)) + Cardinality(OfTexts(texts, pool, s \ {x}))
  BY <1>9, OneTextMore
<1> QED  BY <1>6, <1>10, <1>13, <1>14, <1>15

-----------------------------------------------------------------------------
(* What the page has gained, added up over the texts it now has.           *)
SumOfGained(old, new) ==
  MapThenSumSet(LAMBDA t : Gained(old, new, t), {c.text : c \in ToSet(new)})

(* The texts of finitely many chunks.                                      *)
LEMMA TextsAreFinite ==
  ASSUME NEW new, IsPool(DOMAIN new)
  PROVE  IsFiniteSet({c.text : c \in ToSet(new)})
<1> DEFINE T == {c.text : c \in ToSet(new)}
           f == [i \in DOMAIN new |-> new[i].text]
<1>1. \A t \in T : \E i \in DOMAIN new : new[i].text = t
  BY DEF ToSet
<1>2. \A i \in DOMAIN new : new[i].text \in T
  BY DEF ToSet
<1>3. f \in Surjection(DOMAIN new, T)
  BY <1>1, <1>2 DEF Surjection
<1> HIDE DEF f, T
<1>4. IsFiniteSet(T)
  BY <1>3, FS_Surjection DEF IsPool
<1> QED  BY <1>4 DEF T

(* It is what the two passes leave over: the sum is over the texts, the    *)
(* passes over stable keys and texts.                                      *)
LEMMA GainedAddsUp ==
  ASSUME NEW old, NEW new, IsPool(DOMAIN old), IsPool(DOMAIN new)
  PROVE  SumOfGained(old, new)
           = Cardinality(DOMAIN new \ Takers(Reuse(Identities(old), Identities(new))))
<1> DEFINE T == {c.text : c \in ToSet(new)}
           pick(s) == CHOOSE x \in s : TRUE
           f[s \in SUBSET T] == IF s = {} THEN 0
                                ELSE LET x == pick(s) IN Gained(old, new, x) + f[s \ {x}]
<1>1. SumOfGained(old, new) = f[T]
  BY DEF SumOfGained, MapThenSumSet, MapThenFoldSet
<1>2. IsFiniteSet(T)
  BY TextsAreFinite
<1>3. PICK pool : pool = DOMAIN new \ Takers(Reuse(Identities(old), Identities(new)))
  OBVIOUS
<1>4. PICK texts, g : /\ texts = [i \in DOMAIN new |-> new[i].text]
                      /\ g = [t \in T |-> Gained(old, new, t)]
  OBVIOUS
<1>5. IsFiniteSet(pool)
  BY <1>3, FS_Difference DEF IsPool
<1>6. ASSUME NEW t PROVE OfKey(texts, pool, t) = {i \in pool : new[i].text = t}
  BY <1>3, <1>4 DEF OfKey
<1>7. ASSUME NEW t \in T PROVE g[t] = Cardinality(OfKey(texts, pool, t))
  <2>1. g[t] = Gained(old, new, t)
    BY <1>4
  <2> HIDE DEF T, f
  <2>2. Cardinality({i \in pool : new[i].text = t}) = Gained(old, new, t)
    BY <1>3, ReuseLeaves
  <2> QED  BY <1>6, <2>1, <2>2
<1>8. OfTexts(texts, pool, T) = pool
  BY <1>3, <1>4 DEF OfTexts, ToSet
<1>9. \A t \in T : g[t] = Gained(old, new, t)
  BY <1>4
<1> HIDE DEF T
<1>10. PICK h : h = [s \in SUBSET T |-> Cardinality(OfTexts(texts, pool, s))]
  OBVIOUS
<1>11. IsSum(h, g, T)
  BY <1>5, <1>7, <1>10, CountIsSum
<1>12. h = [s \in SUBSET T |-> IF s = {} THEN 0
                               ELSE LET x == pick(s) IN Gained(old, new, x) + h[s \ {x}]]
  <2>1. ASSUME NEW s \in SUBSET T, s # {}
        PROVE  g[CHOOSE x \in s : TRUE] = Gained(old, new, pick(s))
    BY <1>9, <2>1
  <2>2. h = [s \in SUBSET T |-> IF s = {} THEN 0
                                ELSE g[CHOOSE x \in s : TRUE] + h[s \ {CHOOSE x \in s : TRUE}]]
    BY <1>11, Zenon DEF IsSum
  <2> QED  BY <2>1, <2>2
<1>13. f = [s \in SUBSET T |-> IF s = {} THEN 0
                               ELSE LET x == pick(s) IN Gained(old, new, x) + f[s \ {x}]]
  BY <1>12, Zenon
<1> HIDE DEF f
<1>14. IsSum(f, g, T)
  <2>1. ASSUME NEW s \in SUBSET T, s # {}
        PROVE  g[CHOOSE x \in s : TRUE] = Gained(old, new, pick(s))
    BY <1>9, <2>1
  <2>2. f = [s \in SUBSET T |-> IF s = {} THEN 0
                                ELSE g[CHOOSE x \in s : TRUE] + f[s \ {CHOOSE x \in s : TRUE}]]
    BY <1>13, <2>1
  <2> QED  BY <2>2, Zenon DEF IsSum
<1>15. f[T] = Cardinality(OfTexts(texts, pool, T))
  BY <1>2, <1>5, <1>7, <1>14, SumIsCount
<1> QED  BY <1>1, <1>3, <1>8, <1>15

(* The children of the live version are numbered from one.                 *)
Numbered == live # None => IsPool(DOMAIN live.children)

(* So are those of every build, which keep the identities of the plan.     *)
LEMMA BuiltNumbered ==
  ASSUME NEW v, NEW sections, NEW plan, BuiltWell(v, sections, plan)
  PROVE  /\ IsPool(DOMAIN v.children) /\ DOMAIN v.children = DOMAIN PlannedChildren(plan)
         /\ Identities(v.children) = Identities(PlannedChildren(plan))
<1>1. PICK new : new = PlannedChildren(plan)
  OBVIOUS
<1>2. new \in Seq(PlannedChild) /\ Linked(v, plan, new)
  BY <1>1 DEF BuiltWell, WholeChildren
<1>3. Len(new) \in Nat /\ DOMAIN new = 1..Len(new)
  BY <1>2, LenProperties
<1>4. IsFiniteSet(1..Len(new))
  <2>1. Len(new) \in Int /\ 1 \in Int
    BY <1>3
  <2> QED  BY <2>1, FS_Interval
<1>5. IsPool(DOMAIN new)
  BY <1>3, <1>4 DEF IsPool
<1>6. PICK chunks : chunks = v.children
  OBVIOUS
<1>7. /\ DOMAIN chunks = DOMAIN new
      /\ \A i \in DOMAIN new : StableKey(chunks[i]) = StableKey(new[i]) /\ ContentKey(chunks[i]) = ContentKey(new[i])
  BY <1>2, <1>6 DEF Linked, StableKey, ContentKey
<1>8. Identities(chunks) = Identities(new)
  BY <1>7 DEF Identities
<1> QED  BY <1>1, <1>5, <1>6, <1>7, <1>8

(* It stays so: only a sync changes the live version.                      *)
LEMMA NumberedStep ==
  ASSUME PageIsKnown, Numbered, [Next]_vars
  PROVE  Numbered'
<1>1. CASE Sync
  <2>1. PICK sections, plan : BuiltWell(live', sections, plan)
    BY <1>1, SyncBuildsWell
  <2>2. IsPool(DOMAIN live'.children)
    BY <2>1, BuiltNumbered
  <2> QED  BY <2>2 DEF Numbered, IsPool
<1>2. CASE UNCHANGED live
  BY <1>2 DEF Numbered, IsPool
<1>3. Next => Sync \/ UNCHANGED live
  BY DEF Next, Edit, Attach, Deploy
<1> QED  BY <1>1, <1>2, <1>3 DEF vars

(* A sync embeds what the page has gained.                                 *)
LEMMA SyncPays ==
  ASSUME PageIsKnown, Numbered, Sync
  PROVE  live'.embedded = SumOfGained(ReusableChildren, live'.children)
<1>1. PICK sections, plan, hash, fetched :
        live' = Built(plan, hash, fetched) /\ BuiltWell(live', sections, plan)
  BY SyncBuildsWell
<1>2. PICK old, new, chunks :
        old = ReusableChildren /\ new = PlannedChildren(plan) /\ chunks = live'.children
  OBVIOUS
<1>3. live'.embedded = Cardinality(DOMAIN new \ Takers(Reuse(Identities(old), Identities(new))))
  BY <1>1, <1>2 DEF Built
<1>4. IsPool(DOMAIN old)
  <2>1. IsPool({})
    BY FS_EmptySet DEF IsPool
  <2>2. old = << >> \/ (live # None /\ old = live.children)
    BY <1>2 DEF ReusableChildren
  <2> QED  BY <2>1, <2>2 DEF Numbered
<1>5. IsPool(DOMAIN chunks) /\ DOMAIN chunks = DOMAIN new /\ Identities(chunks) = Identities(new)
  BY <1>1, <1>2, BuiltNumbered
<1>6. SumOfGained(old, chunks)
        = Cardinality(DOMAIN chunks \ Takers(Reuse(Identities(old), Identities(chunks))))
  BY <1>4, <1>5, GainedAddsUp
<1> QED  BY <1>2, <1>3, <1>5, <1>6

(* A rebuild embeds as many chunks of a text as the page has gained with   *)
(* it, whatever was moved, repeated or renumbered (diff_chunks).           *)
THEOREM OnlyNewTextIsEmbedded == Spec => EmbedsOnlyNewText
<1>1. Init => Numbered
  BY DEF Init, Numbered
<1>2. PageIsKnown /\ Numbered /\ [Next]_vars => Numbered'
  BY NumberedStep
<1>3. PageIsKnown /\ Numbered /\ [Next]_vars
        => [live' # live =>
              live'.embedded = MapThenSumSet(LAMBDA t : Gained(ReusableChildren, live'.children, t),
                                             {c.text : c \in ToSet(live'.children)})]_vars
  <2> SUFFICES ASSUME PageIsKnown, Numbered, Next, live' # live
               PROVE  live'.embedded = SumOfGained(ReusableChildren, live'.children)
    BY DEF SumOfGained
  <2>1. Sync
    BY DEF Next, Edit, Attach, Deploy
  <2> QED  BY <2>1, SyncPays
<1> QED  BY <1>1, <1>2, <1>3, WellformedAlways, PTL DEF Spec, EmbedsOnlyNewText
=============================================================================
