------------------------- MODULE RevisionStoreProofs -------------------------
(***************************************************************************)
(* Machine-checked proofs about RevisionStore, for every number of ids,    *)
(* leaves, stamps and namespaces and every retention and compaction limit. *)
(***************************************************************************)
EXTENDS RevisionStore, FiniteSetTheorems, WellFoundedInduction, TLAPS

\* Every leaf may take its time.
USE SMTT(120), ZenonT(120)

-----------------------------------------------------------------------------
(* Maxima of finite sets *)

\* A non-empty finite set of naturals has a largest element.
LEMMA LargestExists ==
  ASSUME NEW S \in SUBSET Nat, IsFiniteSet(S), S # {}
  PROVE  \E m \in S : \A n \in S : n <= m
<1> DEFINE Above(x) == {y \in S : y > x}
           T == {Above(x) : x \in S}
           R == StrictSubsetOrdering(S)
<1>1. IsWellFoundedOn(R, FiniteSubsetsOf(S))
  BY FS_StrictSubsetOrderingWellFounded
<1>2. FiniteSubsetsOf(S) = SUBSET S
  BY FS_FiniteSubsetsOfFinite
<1>3. T \subseteq SUBSET S /\ T # {}
  OBVIOUS
<1>a. IsWellFoundedOn(R, SUBSET S)
  BY <1>1, <1>2
<1>4. \E U \in T : \A V \in T : ~(<<V, U>> \in R)
  <2> HIDE DEF T, R
  <2> QED BY <1>a, <1>3, WFMin, Zenon
<1>5. PICK m \in S : \A V \in T : ~(<<V, Above(m)>> \in R)
  BY <1>4
<1>6. ASSUME NEW n \in S, n > m PROVE FALSE
  <2>1. Above(n) \subseteq Above(m)
    <3> SUFFICES ASSUME NEW y \in S, y > n PROVE y > m
      OBVIOUS
    <3>1. y \in Nat /\ n \in Nat /\ m \in Nat
      OBVIOUS
    <3> QED BY <3>1, <1>6
  <2>2. n \in Above(m) /\ n \notin Above(n)
    BY <1>6
  <2>3. <<Above(n), Above(m)>> \in R
    BY <2>1, <2>2 DEF StrictSubsetOrdering
  <2>4. Above(n) \in T
    OBVIOUS
  <2> QED BY <1>5, <2>3, <2>4
<1> QED BY <1>6

\* Max is an upper bound and a member.
LEMMA MaxIsLargest ==
  ASSUME NEW S \in SUBSET Nat, IsFiniteSet(S), S # {}
  PROVE  Max(S) \in S /\ \A n \in S : n <= Max(S)
<1>1. PICK m \in S : \A n \in S : n <= m
  BY LargestExists
<1>2. \E x \in S : \A y \in S : x >= y
  BY <1>1
<1> QED BY <1>2 DEF Max

-----------------------------------------------------------------------------
(* Reading a view *)

\* The layers that hold a leaf are finitely many positions of the chain.
LEMMA HoldingFinite ==
  ASSUME NEW layers \in Seq(Layer), NEW leaf
  PROVE  /\ Holding(layers, leaf) \in SUBSET (1 .. Len(layers))
         /\ Holding(layers, leaf) \in SUBSET Nat
         /\ IsFiniteSet(Holding(layers, leaf))
<1>1. Holding(layers, leaf) \in SUBSET (1 .. Len(layers)) /\ Len(layers) \in Nat
  BY DEF Holding
<1>2. IsFiniteSet(1 .. Len(layers))
  BY <1>1, FS_Interval
<1>3. IsFiniteSet(Holding(layers, leaf))
  BY <1>1, <1>2, FS_Subset
<1> QED BY <1>1, <1>3

\* A lookup answers a stamp some layer holds, or Absent.
LEMMA ViewType ==
  ASSUME NEW inputs \in RevisionInputs
  PROVE  View(inputs) \in Layer
<1> SUFFICES ASSUME NEW leaf \in Inputs
             PROVE  Stamp(inputs, leaf) \in Stamps \cup {Absent}
  BY DEF View, Layer
<1> DEFINE layers == inputs.layers
           H == Holding(layers, leaf)
<1>1. layers \in Seq(Layer)
  BY DEF RevisionInputs
<1>2. CASE H = {}
  BY <1>2 DEF Stamp
<1>3. CASE H # {}
  <2>1. Max(H) \in 1 .. Len(layers)
    BY <1>1, <1>3, HoldingFinite, MaxIsLargest
  <2>2. layers[Max(H)] \in Layer
    <3> HIDE DEF layers, H
    <3> QED BY <1>1, <2>1
  <2>3. layers[Max(H)][leaf] \in Stamps \cup {Absent}
    <3> HIDE DEF layers, H
    <3> QED BY <2>2 DEF Layer
  <2> QED BY <1>3, <2>3 DEF Stamp
<1> QED BY <1>2, <1>3

\* A complete map answers for itself.
LEMMA ViewOfFull ==
  ASSUME NEW map \in Layer
  PROVE  /\ Full(map) \in RevisionInputs
         /\ View(Full(map)) = map
<1>1. Full(map) \in RevisionInputs
  BY DEF Full, RevisionInputs
<1>2. ASSUME NEW leaf \in Inputs PROVE Stamp(Full(map), leaf) = map[leaf]
  <2>1. Full(map).layers = <<map>> /\ <<map>>[1] = map
    BY DEF Full
  <2>2. CASE map[leaf] = Absent
    <3>1. Holding(<<map>>, leaf) = {}
      BY <2>2 DEF Holding
    <3> QED BY <3>1, <2>1, <2>2 DEF Stamp
  <2>3. CASE map[leaf] # Absent
    <3>1. Holding(<<map>>, leaf) = {1}
      BY <2>3 DEF Holding
    <3>2. Max({1}) = 1
      <4>1. IsFiniteSet({1})
        BY FS_Singleton
      <4>2. Max({1}) \in {1}
        BY <4>1, MaxIsLargest
      <4> QED BY <4>2
    <3> QED BY <3>1, <3>2, <2>1 DEF Stamp
  <2> QED BY <2>2, <2>3
<1> QED BY <1>1, <1>2 DEF View, Layer

\* An overlay answers its delta, and its parent's view elsewhere.
LEMMA ViewOfOverlay ==
  ASSUME NEW base \in RevisionInputs, NEW delta \in Layer, NEW parent \in Ids
  PROVE  LET over == [layers |-> Append(base.layers, delta), parent |-> parent]
         IN over \in RevisionInputs /\ View(over) = Over(View(base), delta)
<1> DEFINE old == base.layers
           new == Append(old, delta)
           over == [layers |-> new, parent |-> parent]
           n == Len(old)
<1>1. /\ old \in Seq(Layer) /\ n \in Nat
      /\ DOMAIN old = 1 .. n
      /\ new \in Seq(Layer)
      /\ DOMAIN new = 1 .. (n + 1)
      /\ new[n + 1] = delta
      /\ \A k \in 1 .. n : new[k] = old[k]
  BY DEF RevisionInputs
<1>2. over \in RevisionInputs /\ over.layers = new
  BY <1>1 DEF RevisionInputs
<1>3. ASSUME NEW leaf \in Inputs
      PROVE  Stamp(over, leaf) = IF delta[leaf] # Absent THEN delta[leaf] ELSE Stamp(base, leaf)
  <2> DEFINE HOld == Holding(old, leaf)
             HNew == Holding(new, leaf)
  <2>1. /\ HOld \in SUBSET (1 .. n) /\ HOld \in SUBSET Nat /\ IsFiniteSet(HOld)
        /\ HNew \in SUBSET (1 .. (n + 1)) /\ HNew \in SUBSET Nat /\ IsFiniteSet(HNew)
    <3> HIDE DEF old, new
    <3> QED BY <1>1, HoldingFinite DEF Holding
  <2>2. CASE delta[leaf] # Absent
    <3>1. n + 1 \in HNew
      BY <1>1, <2>2 DEF Holding
    <3>2. Max(HNew) \in HNew /\ n + 1 <= Max(HNew)
      BY <2>1, <3>1, MaxIsLargest
    <3>3. Max(HNew) = n + 1
      BY <1>1, <2>1, <3>2
    <3>4. Stamp(over, leaf) = new[Max(HNew)][leaf]
      BY <1>2, <3>1 DEF Stamp
    <3> QED BY <1>1, <2>2, <3>3, <3>4
  <2>3. CASE delta[leaf] = Absent
    <3>1. HNew = HOld
      BY <1>1, <2>3 DEF Holding
    <3>2. CASE HOld = {}
      BY <1>2, <3>1, <3>2, <2>3 DEF Stamp
    <3>3. CASE HOld # {}
      <4>1. Max(HOld) \in 1 .. n
        BY <2>1, <3>3, MaxIsLargest
      <4>2. Stamp(over, leaf) = new[Max(HOld)][leaf] /\ Stamp(base, leaf) = old[Max(HOld)][leaf]
        BY <1>2, <3>1, <3>3 DEF Stamp
      <4>3. new[Max(HOld)] = old[Max(HOld)]
        BY <1>1, <4>1
      <4> QED BY <2>3, <4>2, <4>3
    <3> QED BY <3>2, <3>3
  <2> QED BY <2>2, <2>3
<1> QED BY <1>2, <1>3 DEF View, Over

-----------------------------------------------------------------------------
(* The inductive invariant *)

\* Epochs of accepted revisions have been handed out.
EpochsHandedOut == \A id \in DOMAIN published : published[id].epoch < next_epoch

\* A namespace's head is the newest revision of its epoch, and belongs to it.
HeadIsNewest ==
  \A c \in DOMAIN epoch_heads :
    LET head == epoch_heads[c]
    IN /\ head.head_id \in DOMAIN published
       /\ published[head.head_id].epoch = head.epoch
       /\ published[head.head_id].revision.compatibility = c
       /\ \A id \in DOMAIN published :
            published[id].epoch = head.epoch => id <= head.head_id

\* Every accepted revision is retained or at or below retired_through.
RetiredCovered ==
  \A id \in DOMAIN published : id \in DOMAIN entries \/ id <= retired_through

\* The last Ok was for a view that has been published under its id.
AcceptedIsPublished ==
  reply.ok =>
    /\ reply.revision.id \in DOMAIN published
    /\ published[reply.revision.id].revision = reply.revision
    /\ published[reply.revision.id].view = reply.view

StoreInv ==
  /\ TypeOK
  /\ EntryServesPublished
  /\ EpochChainAdditive
  /\ AcceptedIsPublished
  /\ EpochsHandedOut
  /\ HeadIsNewest
  /\ RetiredCovered

\* The well-formed requests denote leaf maps.
LEMMA LeafMapType ==
  ASSUME NEW pairs \in Request, ~Malformed(pairs)
  PROVE  LeafMap(pairs) \in Layer
<1> SUFFICES ASSUME NEW leaf \in Inputs, NEW q \in pairs, q[1] = leaf
             PROVE  (CHOOSE p \in pairs : p[1] = leaf)[2] \in Stamps \cup {Absent}
  BY DEF LeafMap, Layer
<1> DEFINE c == CHOOSE p \in pairs : p[1] = leaf
<1>1. c \in pairs
  OBVIOUS
<1> HIDE DEF c
<1>2. c \in Inputs \X (Stamps \cup {0})
  BY <1>1 DEF Request
<1>3. c[2] \in Stamps \cup {0}
  BY <1>2
<1> QED BY <1>3 DEF c, Absent

\* What one retention sweep leaves: a restriction of the entries, with every
\* dropped id at or below the new retired_through, which never moves back.
LEMMA SweepFacts ==
  ASSUME NEW es, DOMAIN es \subseteq Ids, retired_through \in Ids, EnforceRetention(es)
  PROVE  /\ entries' = [id \in DOMAIN entries' |-> entries'[id]]
         /\ DOMAIN entries' \subseteq DOMAIN es
         /\ \A id \in DOMAIN entries' : entries'[id] = es[id]
         /\ retired_through' \in Ids
         /\ retired_through <= retired_through'
         /\ \A id \in DOMAIN es : id \in DOMAIN entries' \/ id <= retired_through'
<1> DEFINE S == {retired_through} \cup Victims(es)
<1>1. Victims(es) \subseteq DOMAIN es
  BY DEF Victims, Idle
<1>2. S \in SUBSET Ids /\ S # {}
  BY <1>1
<1>3. MaxId \in Nat
  BY StoreAssumption
<1>4. S \in SUBSET Nat /\ IsFiniteSet(S)
  <2>1. IsFiniteSet(Ids)
    BY <1>3, FS_Interval DEF Ids
  <2>2. Ids \subseteq Nat
    BY <1>3 DEF Ids
  <2> QED BY <1>2, <2>1, <2>2, FS_Subset
<1>5. Max(S) \in S /\ \A n \in S : n <= Max(S)
  <2> HIDE DEF S
  <2> QED BY <1>2, <1>4, MaxIsLargest
<1>6. entries' = Retain(es) /\ retired_through' = Max(S)
  BY DEF EnforceRetention
<1>7. /\ DOMAIN entries' = DOMAIN es \ Victims(es)
      /\ \A id \in DOMAIN entries' : entries'[id] = es[id]
      /\ entries' = [id \in DOMAIN entries' |-> entries'[id]]
  BY <1>6 DEF Retain
<1>8. retired_through' \in Ids /\ retired_through <= retired_through'
  BY <1>2, <1>5, <1>6
<1>9. \A id \in DOMAIN es : id \in DOMAIN entries' \/ id <= retired_through'
  BY <1>5, <1>6, <1>7
<1> QED BY <1>7, <1>8, <1>9

\* Adding one fresh revision keeps the invariant, provided everything already
\* published in its epoch is older, of its namespace, and extended by it.
LEMMA InsertPreserves ==
  ASSUME StoreInv,
         NEW revision \in Revision, NEW inputs \in RevisionInputs, NEW epoch \in Nat,
         revision.id \notin DOMAIN entries,
         revision.id > retired_through,
         next_epoch' \in Nat, next_epoch <= next_epoch', epoch < next_epoch',
         \A a \in DOMAIN published : published[a].epoch = epoch =>
            /\ a < revision.id
            /\ published[a].revision.compatibility = revision.compatibility
            /\ Extends(View(inputs), published[a].view),
         Insert(revision, inputs, View(inputs), epoch)
  PROVE  StoreInv' /\ revision.id \notin DOMAIN published
<1> DEFINE id == revision.id
           es == With(entries, id, Entry(revision, inputs, epoch))
           rec == [revision |-> revision, view |-> View(inputs), epoch |-> epoch]
<1>1. TypeOK /\ EntryServesPublished /\ EpochChainAdditive /\ EpochsHandedOut
      /\ HeadIsNewest /\ RetiredCovered
  BY DEF StoreInv
<1>2. id \in Ids /\ retired_through \in Ids /\ revision.compatibility \in Compats
  BY <1>1 DEF TypeOK, Revision
<1>3. Ids \subseteq Nat
  BY StoreAssumption DEF Ids
<1>4. id \notin DOMAIN published
  <2>1. id \in Nat /\ retired_through \in Nat
    BY <1>2, <1>3
  <2>2. ~(id <= retired_through)
    BY <2>1
  <2>3. id \in DOMAIN published => id \in DOMAIN entries \/ id <= retired_through
    BY <1>1 DEF RetiredCovered
  <2> QED BY <2>2, <2>3
<1>5. /\ DOMAIN es = DOMAIN entries \cup {id}
      /\ es[id] = Entry(revision, inputs, epoch)
      /\ \A j \in DOMAIN entries : es[j] = entries[j]
  BY DEF With
<1>6. /\ DOMAIN published' = DOMAIN published \cup {id}
      /\ published'[id] = rec
      /\ \A j \in DOMAIN published : published'[j] = published[j]
      /\ published' = [j \in DOMAIN published' |-> published'[j]]
  BY <1>4 DEF Insert, With
<1>7. /\ DOMAIN epoch_heads' = DOMAIN epoch_heads \cup {revision.compatibility}
      /\ epoch_heads'[revision.compatibility] = [epoch |-> epoch, head_id |-> id]
      /\ \A c \in DOMAIN epoch_heads : c # revision.compatibility => epoch_heads'[c] = epoch_heads[c]
      /\ epoch_heads' = [c \in DOMAIN epoch_heads' |-> epoch_heads'[c]]
  BY DEF Insert, With
<1>8. DOMAIN es \subseteq Ids
  BY <1>1, <1>2, <1>5 DEF TypeOK
<1>9. /\ entries' = [j \in DOMAIN entries' |-> entries'[j]]
      /\ DOMAIN entries' \subseteq DOMAIN es
      /\ \A j \in DOMAIN entries' : entries'[j] = es[j]
      /\ retired_through' \in Ids
      /\ retired_through <= retired_through'
      /\ \A j \in DOMAIN es : j \in DOMAIN entries' \/ j <= retired_through'
  <2>1. EnforceRetention(es)
    BY DEF Insert
  <2> HIDE DEF es
  <2> QED BY <1>2, <1>8, <2>1, SweepFacts
<1>10. View(inputs) \in Layer
  BY ViewType
<1>11. rec \in PublishedRecord /\ rec.revision.id = id
  BY <1>10 DEF PublishedRecord
<1>12. /\ es[id] \in RevisionEntry /\ es[id].revision = revision
       /\ es[id].inputs = inputs /\ es[id].epoch = epoch
  BY <1>5, StoreAssumption DEF Entry, RevisionEntry
<1> HIDE DEF es, rec
<1>13. TypeOK'
  <2>1. \A j \in DOMAIN entries' : entries'[j] \in RevisionEntry /\ entries'[j].revision.id = j
    BY <1>1, <1>5, <1>9, <1>12 DEF TypeOK
  <2>2. \A j \in DOMAIN published' :
          published'[j] \in PublishedRecord /\ published'[j].revision.id = j
    BY <1>1, <1>6, <1>11 DEF TypeOK
  <2>3. DOMAIN epoch_heads' \subseteq Compats /\ \A c \in DOMAIN epoch_heads' : epoch_heads'[c] \in EpochHead
    BY <1>1, <1>2, <1>7 DEF TypeOK, EpochHead
  <2>4. DOMAIN entries' \subseteq Ids /\ DOMAIN published' \subseteq Ids
    BY <1>1, <1>2, <1>6, <1>8, <1>9 DEF TypeOK
  <2> QED BY <1>6, <1>7, <1>9, <2>1, <2>2, <2>3, <2>4 DEF TypeOK
<1>14. EntryServesPublished'
  <2> SUFFICES ASSUME NEW j \in DOMAIN entries'
               PROVE  /\ j \in DOMAIN published'
                      /\ entries'[j].revision = published'[j].revision
                      /\ entries'[j].epoch = published'[j].epoch
                      /\ View(entries'[j].inputs) = published'[j].view
    BY DEF EntryServesPublished, View, Stamp
  <2>1. CASE j = id
    BY <2>1, <1>6, <1>9, <1>12 DEF rec
  <2>2. CASE j # id
    BY <2>2, <1>1, <1>5, <1>6, <1>9 DEF EntryServesPublished
  <2> QED BY <2>1, <2>2
<1>15. EpochChainAdditive'
  <2> SUFFICES ASSUME NEW a \in DOMAIN published', NEW b \in DOMAIN published',
                      published'[a].epoch = published'[b].epoch, a < b
               PROVE  /\ published'[a].revision.compatibility = published'[b].revision.compatibility
                      /\ Extends(published'[b].view, published'[a].view)
    BY DEF EpochChainAdditive, Extends
  <2>1. CASE a \in DOMAIN published /\ b \in DOMAIN published
    BY <2>1, <1>1, <1>6 DEF EpochChainAdditive
  <2>2. CASE b = id /\ a \in DOMAIN published
    BY <2>2, <1>6 DEF rec
  <2>3. CASE a = id /\ b \in DOMAIN published
    <3>1. b < id
      BY <2>3, <1>6 DEF rec
    <3>2. a \in Nat /\ b \in Nat
      BY <1>1, <1>2, <1>3, <2>3 DEF TypeOK
    <3> QED BY <2>3, <3>1, <3>2
  <2>4. a # b
    BY <1>1, <1>2, <1>3, <1>6 DEF TypeOK
  <2> QED BY <2>1, <2>2, <2>3, <2>4, <1>6
<1>16. AcceptedIsPublished'
  <2>1. reply' = Accepted(revision, View(inputs))
    BY DEF Insert
  <2> QED BY <2>1, <1>6 DEF AcceptedIsPublished, Accepted, rec
<1>17. EpochsHandedOut'
  <2> SUFFICES ASSUME NEW j \in DOMAIN published' PROVE published'[j].epoch < next_epoch'
    BY DEF EpochsHandedOut
  <2>1. CASE j = id
    BY <2>1, <1>6 DEF rec
  <2>2. CASE j \in DOMAIN published
    <3>1. published[j].epoch \in Nat /\ next_epoch \in Nat /\ published[j].epoch < next_epoch
      BY <2>2, <1>1 DEF TypeOK, PublishedRecord, EpochsHandedOut
    <3> QED BY <2>2, <3>1, <1>6
  <2> QED BY <2>1, <2>2, <1>6
<1>18. HeadIsNewest'
  <2> SUFFICES ASSUME NEW c \in DOMAIN epoch_heads'
               PROVE  /\ epoch_heads'[c].head_id \in DOMAIN published'
                      /\ published'[epoch_heads'[c].head_id].epoch = epoch_heads'[c].epoch
                      /\ published'[epoch_heads'[c].head_id].revision.compatibility = c
                      /\ \A j \in DOMAIN published' :
                           published'[j].epoch = epoch_heads'[c].epoch => j <= epoch_heads'[c].head_id
    BY DEF HeadIsNewest
  <2>1. CASE c = revision.compatibility
    <3>1. epoch_heads'[c].head_id = id /\ epoch_heads'[c].epoch = epoch
      BY <2>1, <1>7
    <3>2. ASSUME NEW j \in DOMAIN published', published'[j].epoch = epoch PROVE j <= id
      <4>1. j = id \/ j < id
        BY <3>2, <1>6
      <4> QED BY <4>1, <1>1, <1>2, <1>3, <1>6 DEF TypeOK
    <3> QED BY <2>1, <3>1, <3>2, <1>6 DEF rec
  <2>2. CASE c # revision.compatibility
    <3>1. c \in DOMAIN epoch_heads /\ epoch_heads'[c] = epoch_heads[c]
      BY <2>2, <1>7
    <3> DEFINE h == epoch_heads[c]
    <3>2. /\ h.head_id \in DOMAIN published
          /\ published[h.head_id].epoch = h.epoch
          /\ published[h.head_id].revision.compatibility = c
          /\ \A j \in DOMAIN published : published[j].epoch = h.epoch => j <= h.head_id
      BY <1>1, <3>1 DEF HeadIsNewest
    <3>3. epoch # h.epoch
      BY <2>2, <3>2
    <3> QED BY <1>6, <3>1, <3>2, <3>3 DEF rec
  <2> QED BY <2>1, <2>2
<1>19. RetiredCovered'
  <2> SUFFICES ASSUME NEW j \in DOMAIN published'
               PROVE  j \in DOMAIN entries' \/ j <= retired_through'
    BY DEF RetiredCovered
  <2>1. j \in DOMAIN es \/ j <= retired_through
    BY <1>1, <1>5, <1>6 DEF RetiredCovered
  <2>2. j \in Nat /\ retired_through \in Nat /\ retired_through' \in Nat
    BY <1>1, <1>2, <1>3, <1>6, <1>9 DEF TypeOK
  <2> QED BY <2>1, <2>2, <1>9
<1> QED BY <1>4, <1>13, <1>14, <1>15, <1>16, <1>17, <1>18, <1>19 DEF StoreInv

\* A refused or acknowledged publication leaves the store as it was.
LEMMA QuietPreserves ==
  ASSUME StoreInv,
         UNCHANGED <<entries, retired_through, next_epoch, epoch_heads, published>>,
         AcceptedIsPublished'
  PROVE  StoreInv'
<1>1. TypeOK'
  BY DEF StoreInv, TypeOK
<1>2. EntryServesPublished'
  BY DEF StoreInv, EntryServesPublished, View, Stamp
<1>3. EpochChainAdditive'
  BY DEF StoreInv, EpochChainAdditive, Extends
<1>4. EpochsHandedOut' /\ HeadIsNewest' /\ RetiredCovered'
  BY DEF StoreInv, EpochsHandedOut, HeadIsNewest, RetiredCovered
<1> QED BY <1>1, <1>2, <1>3, <1>4 DEF StoreInv

\* An answer for a view that a retained entry serves is an answer for the
\* view its revision was published with.
LEMMA AcknowledgePreserves ==
  ASSUME StoreInv, NEW revision \in Revision, NEW view,
         revision.id \in DOMAIN entries,
         entries[revision.id].revision = revision,
         View(entries[revision.id].inputs) = view,
         Acknowledge(revision, view)
  PROVE  StoreInv'
<1>1. AcceptedIsPublished'
  BY DEF StoreInv, EntryServesPublished, Acknowledge, AcceptedIsPublished, Accepted
<1> QED BY <1>1, QuietPreserves DEF Acknowledge

\* A refusal changes nothing but the reply.
LEMMA RefusePreserves ==
  ASSUME StoreInv, Refuse
  PROVE  StoreInv'
<1>1. AcceptedIsPublished'
  BY DEF Refuse, Refused, AcceptedIsPublished
<1> QED BY <1>1, QuietPreserves DEF Refuse

\* Publishing a complete view keeps the invariant; its epoch is fresh.
LEMMA PublishRevisionPreserves ==
  ASSUME StoreInv, NEW revision \in Revision, NEW pairs \in Request,
         PublishRevision(revision, pairs)
  PROVE  /\ StoreInv'
         /\ \A j \in DOMAIN published : j \in DOMAIN published' /\ published'[j] = published[j]
<1> DEFINE map == LeafMap(pairs)
           id == revision.id
<1>1. CASE Refuse
  BY <1>1, RefusePreserves DEF Refuse
<1>2. CASE /\ ~Malformed(pairs)
           /\ id \in DOMAIN entries
           /\ entries[id].revision = revision /\ entries[id].inputs = Full(map)
           /\ Acknowledge(revision, map)
  <2>1. map \in Layer
    BY <1>2, LeafMapType
  <2>2. View(entries[id].inputs) = map
    BY <1>2, <2>1, ViewOfFull
  <2> QED BY <1>2, <2>2, AcknowledgePreserves DEF Acknowledge
<1>3. CASE /\ ~Malformed(pairs)
           /\ id \notin DOMAIN entries
           /\ id > retired_through
           /\ next_epoch' = next_epoch + 1
           /\ Insert(revision, Full(map), map, next_epoch)
  <2>1. Full(map) \in RevisionInputs /\ View(Full(map)) = map
    BY <1>3, LeafMapType, ViewOfFull
  <2>2. next_epoch \in Nat
    BY DEF StoreInv, TypeOK
  <2>3. \A a \in DOMAIN published : published[a].epoch # next_epoch
    BY <2>2 DEF StoreInv, TypeOK, PublishedRecord, EpochsHandedOut
  <2>4. Insert(revision, Full(map), View(Full(map)), next_epoch)
    BY <1>3, <2>1
  <2>5. next_epoch' \in Nat /\ next_epoch <= next_epoch' /\ next_epoch < next_epoch'
    BY <1>3, <2>2
  <2>6. StoreInv' /\ id \notin DOMAIN published
    <3> HIDE DEF map
    <3> QED BY <1>3, <2>1, <2>2, <2>3, <2>4, <2>5, InsertPreserves
  <2>7. \A j \in DOMAIN published : j \in DOMAIN published' /\ published'[j] = published[j]
    BY <1>3, <2>6 DEF Insert, With
  <2> QED BY <2>6, <2>7
<1> QED BY <1>1, <1>2, <1>3 DEF PublishRevision

\* Compacted or not, an overlay stores the view the caller described.
LEMMA OverlayInputsView ==
  ASSUME NEW parent \in Revision, entries[parent.id].inputs \in RevisionInputs,
         NEW delta \in Layer
  PROVE  /\ OverlayInputs(parent, delta) \in RevisionInputs
         /\ View(OverlayInputs(parent, delta)) = Over(View(entries[parent.id].inputs), delta)
<1> DEFINE base == entries[parent.id].inputs
           merged == Over(Flatten(base), delta)
<1>1. CASE Depth(base) >= CompactionDepth
  <2>1. OverlayInputs(parent, delta) = Full(merged)
    BY <1>1 DEF OverlayInputs
  <2>2. View(base) \in Layer
    BY ViewType
  <2>3. merged \in Layer
    BY <2>2 DEF Over, Flatten, Layer
  <2> QED BY <2>1, <2>3, ViewOfFull DEF Flatten
<1>2. CASE ~(Depth(base) >= CompactionDepth)
  <2>1. OverlayInputs(parent, delta) = [layers |-> Append(base.layers, delta), parent |-> parent.id]
    BY <1>2 DEF OverlayInputs
  <2>2. parent.id \in Ids
    BY DEF Revision
  <2> QED BY <2>1, <2>2, ViewOfOverlay
<1> QED BY <1>1, <1>2

\* Publishing an overlay keeps the invariant. In the parent's epoch the parent
\* is the head, so all the epoch's revisions are older and are extended by it,
\* and a strictly additive delta extends it in turn.
LEMMA PublishOverlayPreserves ==
  ASSUME StoreInv, NEW revision \in Revision, NEW parent \in Revision, NEW pairs \in Request,
         PublishOverlay(revision, parent, pairs)
  PROVE  /\ StoreInv'
         /\ \A j \in DOMAIN published : j \in DOMAIN published' /\ published'[j] = published[j]
<1> DEFINE delta == LeafMap(pairs)
           id == revision.id
           inputs == OverlayInputs(parent, delta)
           view == Over(View(entries[parent.id].inputs), delta)
           legal == /\ ~Malformed(pairs)
                    /\ Retained(parent)
                    /\ revision.compatibility = parent.compatibility
                    /\ id > parent.id
           fresh == legal /\ id \notin DOMAIN entries /\ id > retired_through
<1>1. CASE Refuse
  BY <1>1, RefusePreserves DEF Refuse
<1>2. ASSUME legal
      PROVE  /\ inputs \in RevisionInputs /\ View(inputs) = view
             /\ delta \in Layer
             /\ parent.id \in DOMAIN entries
             /\ entries[parent.id] \in RevisionEntry
             /\ entries[parent.id].revision = parent
  <2>1. delta \in Layer
    BY <1>2, LeafMapType
  <2>2. parent.id \in DOMAIN entries /\ entries[parent.id].revision = parent
    BY <1>2 DEF Retained
  <2>3. entries[parent.id] \in RevisionEntry
    BY <2>2 DEF StoreInv, TypeOK
  <2>4. entries[parent.id].inputs \in RevisionInputs
    BY <2>3 DEF RevisionEntry
  <2> HIDE DEF delta
  <2> QED BY <2>1, <2>2, <2>3, <2>4, OverlayInputsView
<1>3. CASE /\ legal
           /\ id \in DOMAIN entries
           /\ entries[id].revision = revision /\ entries[id].inputs = inputs
           /\ Acknowledge(revision, view)
  <2>1. View(entries[id].inputs) = view
    BY <1>2, <1>3
  <2> HIDE DEF view
  <2> QED BY <1>3, <2>1, AcknowledgePreserves DEF Acknowledge
<1>4. ASSUME fresh, NEW epoch \in Nat, Insert(revision, inputs, view, epoch),
             next_epoch' \in Nat, next_epoch <= next_epoch', epoch < next_epoch',
             \A a \in DOMAIN published : published[a].epoch = epoch =>
                /\ a < id
                /\ published[a].revision.compatibility = revision.compatibility
                /\ Extends(View(inputs), published[a].view)
      PROVE  /\ StoreInv'
             /\ \A j \in DOMAIN published : j \in DOMAIN published' /\ published'[j] = published[j]
  <2>1. inputs \in RevisionInputs /\ View(inputs) = view
    BY <1>2, <1>4
  <2>2. Insert(revision, inputs, View(inputs), epoch)
    BY <1>4, <2>1
  <2>3. StoreInv' /\ id \notin DOMAIN published
    <3> HIDE DEF inputs, view
    <3> QED BY <1>4, <2>1, <2>2, InsertPreserves
  <2>4. \A j \in DOMAIN published : j \in DOMAIN published' /\ published'[j] = published[j]
    BY <1>4, <2>3 DEF Insert, With
  <2> QED BY <2>3, <2>4
<1>5. next_epoch \in Nat /\ \A a \in DOMAIN published : published[a].epoch # next_epoch
  <2>1. next_epoch \in Nat
    BY DEF StoreInv, TypeOK
  <2> QED BY <2>1 DEF StoreInv, TypeOK, PublishedRecord, EpochsHandedOut
<1>6. CASE /\ fresh
           /\ Insert(revision, inputs, view, next_epoch)
           /\ next_epoch' = next_epoch + 1
  <2> HIDE DEF inputs, view, fresh
  <2> QED BY <1>4, <1>5, <1>6
<1>7. CASE /\ fresh
           /\ ExtendsHead(parent, delta)
           /\ Insert(revision, inputs, view, entries[parent.id].epoch)
           /\ UNCHANGED next_epoch
  <2> DEFINE e == entries[parent.id].epoch
             p == parent.id
  <2>1. legal
    BY <1>7
  <2>2. /\ p \in DOMAIN published /\ published[p].epoch = e
        /\ published[p].revision = parent
        /\ View(entries[p].inputs) = published[p].view
    BY <1>2, <2>1 DEF StoreInv, EntryServesPublished
  <2>3. e \in Nat /\ e < next_epoch
    BY <1>2, <2>1, <2>2 DEF StoreInv, EpochsHandedOut, RevisionEntry
  <2>4. \A a \in DOMAIN published : published[a].epoch = e => a <= p
    BY <1>7 DEF ExtendsHead, ParentIsHead, StoreInv, HeadIsNewest
  <2>5. Extends(view, published[p].view)
    <3> SUFFICES ASSUME NEW leaf \in Inputs, published[p].view[leaf] # Absent
                 PROVE  view[leaf] = published[p].view[leaf]
      BY DEF Extends
    <3>1. View(entries[p].inputs)[leaf] = Stamp(entries[p].inputs, leaf)
      BY DEF View
    <3>2. delta[leaf] = Absent
      BY <1>7, <2>2, <3>1 DEF ExtendsHead, StrictlyAdditive
    <3> HIDE DEF delta
    <3> QED BY <2>2, <3>2 DEF Over
  <2>6. ASSUME NEW a \in DOMAIN published, published[a].epoch = e
        PROVE  /\ a < id
               /\ published[a].revision.compatibility = revision.compatibility
               /\ Extends(View(inputs), published[a].view)
    <3>1. a \in Nat /\ p \in Nat /\ id \in Nat
      BY <2>2, StoreAssumption DEF StoreInv, TypeOK, Ids, Revision
    <3>2. a <= p /\ p < id
      BY <2>1, <2>4, <2>6, <3>1
    <3>3. a < id
      BY <3>1, <3>2
    <3>4. View(inputs) = view
      BY <1>2, <2>1
    <3>5. CASE a = p
      BY <2>1, <2>2, <2>5, <3>3, <3>4, <3>5
    <3>6. CASE a # p
      <4>1. a < p
        BY <3>1, <3>2, <3>6
      <4>2. /\ published[a].revision.compatibility = published[p].revision.compatibility
            /\ Extends(published[p].view, published[a].view)
        BY <2>2, <2>6, <4>1 DEF StoreInv, EpochChainAdditive
      <4>3. Extends(view, published[a].view)
        <5> HIDE DEF view
        <5> QED BY <2>5, <4>2 DEF Extends
      <4> QED BY <2>1, <2>2, <3>3, <3>4, <4>2, <4>3
    <3> QED BY <3>5, <3>6
  <2>7. next_epoch' \in Nat /\ next_epoch <= next_epoch' /\ e < next_epoch'
    BY <1>5, <1>7, <2>3
  <2> HIDE DEF inputs, view, fresh
  <2> QED BY <1>4, <1>7, <2>3, <2>6, <2>7
<1> QED BY <1>1, <1>3, <1>6, <1>7 DEF PublishOverlay

\* Pinning and releasing a revision keep the invariant: a sweep only forgets
\* entries, and remembers how far it has retired.
LEMMA LeasePreserves ==
  ASSUME StoreInv, NEW revision \in Revision,
         PinRevision(revision) \/ ReleaseRevision(revision)
  PROVE  StoreInv' /\ UNCHANGED published
<1>1. TypeOK /\ Ids \subseteq Nat /\ MaxActive \in Nat
  BY StoreAssumption DEF StoreInv, Ids
<1>2. PICK es : /\ DOMAIN es = DOMAIN entries
                /\ es = [j \in DOMAIN es |-> es[j]]
                /\ \A j \in DOMAIN es : /\ es[j] \in RevisionEntry
                                        /\ es[j].revision = entries[j].revision
                                        /\ es[j].inputs = entries[j].inputs
                                        /\ es[j].epoch = entries[j].epoch
                /\ (entries' = es /\ UNCHANGED retired_through) \/ EnforceRetention(es)
  <2> DEFINE r == revision.id
  <2>1. ASSUME NEW n \in 0 .. MaxActive
        PROVE  LET es == [entries EXCEPT ![r].active_requests = n]
               IN /\ DOMAIN es = DOMAIN entries
                  /\ es = [j \in DOMAIN es |-> es[j]]
                  /\ \A j \in DOMAIN es : /\ es[j] \in RevisionEntry
                                          /\ es[j].revision = entries[j].revision
                                          /\ es[j].inputs = entries[j].inputs
                                          /\ es[j].epoch = entries[j].epoch
    BY <1>1 DEF TypeOK, RevisionEntry
  <2>2. r \in DOMAIN entries /\ entries[r].active_requests \in 0 .. MaxActive
    BY <1>1 DEF PinRevision, ReleaseRevision, Retained, TypeOK, RevisionEntry
  <2>3. CASE PinRevision(revision)
    <3>1. entries[r].active_requests + 1 \in 0 .. MaxActive
      BY <1>1, <2>2, <2>3 DEF PinRevision
    <3>2. entries' = [entries EXCEPT ![r].active_requests = entries[r].active_requests + 1]
      BY <2>3 DEF PinRevision
    <3>3. UNCHANGED retired_through
      BY <2>3 DEF PinRevision
    <3> QED BY <2>1, <3>1, <3>2, <3>3
  <2>4. CASE ReleaseRevision(revision)
    <3>1. entries[r].active_requests - 1 \in 0 .. MaxActive
      BY <1>1, <2>2, <2>4 DEF ReleaseRevision
    <3>2. EnforceRetention([entries EXCEPT ![r].active_requests = entries[r].active_requests - 1])
      BY <2>4 DEF ReleaseRevision
    <3> QED BY <2>1, <3>1, <3>2
  <2> QED BY <2>3, <2>4
<1>3. /\ entries' = [id \in DOMAIN entries' |-> entries'[id]]
      /\ DOMAIN entries' \subseteq DOMAIN es
      /\ \A id \in DOMAIN entries' : entries'[id] = es[id]
      /\ retired_through' \in Ids
      /\ retired_through <= retired_through'
      /\ \A id \in DOMAIN es : id \in DOMAIN entries' \/ id <= retired_through'
  <2>1. CASE entries' = es /\ UNCHANGED retired_through
    <3>1. retired_through \in Ids /\ retired_through \in Nat
      BY <1>1 DEF TypeOK
    <3> QED BY <1>2, <2>1, <3>1
  <2>2. CASE EnforceRetention(es)
    BY <1>1, <1>2, <2>2, SweepFacts DEF TypeOK
  <2> QED BY <1>2, <2>1, <2>2
<1>4. UNCHANGED <<next_epoch, epoch_heads, published, reply>>
  BY DEF PinRevision, ReleaseRevision
<1>5. TypeOK'
  <2>1. \A id \in DOMAIN entries' : entries'[id] \in RevisionEntry /\ entries'[id].revision.id = id
    BY <1>1, <1>2, <1>3 DEF TypeOK
  <2>2. DOMAIN entries' \subseteq Ids
    BY <1>1, <1>2, <1>3 DEF TypeOK
  <2> QED BY <1>1, <1>3, <1>4, <2>1, <2>2 DEF TypeOK
<1>6. EntryServesPublished'
  <2> SUFFICES ASSUME NEW j \in DOMAIN entries'
               PROVE  /\ j \in DOMAIN published'
                      /\ entries'[j].revision = published'[j].revision
                      /\ entries'[j].epoch = published'[j].epoch
                      /\ View(entries'[j].inputs) = published'[j].view
    BY DEF EntryServesPublished, View, Stamp
  <2>1. j \in DOMAIN entries /\ entries'[j].inputs = entries[j].inputs
        /\ entries'[j].revision = entries[j].revision /\ entries'[j].epoch = entries[j].epoch
    BY <1>2, <1>3
  <2> QED BY <1>4, <2>1 DEF StoreInv, EntryServesPublished
<1>7. EpochChainAdditive' /\ AcceptedIsPublished' /\ EpochsHandedOut' /\ HeadIsNewest'
  BY <1>4 DEF StoreInv, EpochChainAdditive, Extends, AcceptedIsPublished, EpochsHandedOut, HeadIsNewest
<1>8. RetiredCovered'
  <2> SUFFICES ASSUME NEW j \in DOMAIN published
               PROVE  j \in DOMAIN entries' \/ j <= retired_through'
    BY <1>4 DEF RetiredCovered
  <2>1. j \in DOMAIN es \/ j <= retired_through
    BY <1>2 DEF StoreInv, RetiredCovered
  <2>2. j \in Nat /\ retired_through \in Nat /\ retired_through' \in Nat
    BY <1>1, <1>3 DEF TypeOK
  <2> QED BY <1>3, <2>1, <2>2
<1> QED BY <1>4, <1>5, <1>6, <1>7, <1>8 DEF StoreInv

-----------------------------------------------------------------------------
(* The theorems *)

\* The empty store satisfies the invariant.
LEMMA InitStore == Init => StoreInv
<1> SUFFICES ASSUME Init PROVE StoreInv
  OBVIOUS
<1>1. DOMAIN entries = {} /\ DOMAIN epoch_heads = {} /\ DOMAIN published = {}
  BY DEF Init
<1>2. /\ entries = [id \in DOMAIN entries |-> entries[id]]
      /\ epoch_heads = [c \in DOMAIN epoch_heads |-> epoch_heads[c]]
      /\ published = [id \in DOMAIN published |-> published[id]]
  BY <1>1 DEF Init
<1>3. retired_through \in Ids /\ next_epoch \in Nat /\ reply.ok = FALSE
  BY StoreAssumption DEF Init, Ids, Refused
<1> QED BY <1>1, <1>2, <1>3
      DEF StoreInv, TypeOK, EntryServesPublished, EpochChainAdditive, AcceptedIsPublished,
          EpochsHandedOut, HeadIsNewest, RetiredCovered

\* Every step keeps the invariant and every published record.
LEMMA NextStore ==
  ASSUME StoreInv, [Next]_vars
  PROVE  /\ StoreInv'
         /\ \A j \in DOMAIN published : j \in DOMAIN published' /\ published'[j] = published[j]
<1>1. CASE \E revision \in Revision, pairs \in Request : PublishRevision(revision, pairs)
  BY <1>1, PublishRevisionPreserves
<1>2. CASE \E revision, parent \in Revision, pairs \in Request :
             PublishOverlay(revision, parent, pairs)
  BY <1>2, PublishOverlayPreserves
<1>3. CASE \E revision \in Revision : PinRevision(revision) \/ ReleaseRevision(revision)
  BY <1>3, LeasePreserves
<1>4. CASE UNCHANGED vars
  <2>1. AcceptedIsPublished'
    BY <1>4 DEF vars, StoreInv, AcceptedIsPublished
  <2> QED BY <1>4, <2>1, QuietPreserves DEF vars
<1> QED BY <1>1, <1>2, <1>3, <1>4 DEF Next

\* The invariant holds in every reachable state.
LEMMA StoreInvariant == Spec => []StoreInv
<1>1. StoreInv /\ [Next]_vars => StoreInv'
  BY NextStore
<1> QED BY InitStore, <1>1, PTL DEF Spec

\* The store's fields keep the shapes revision.rs declares.
THEOREM TypeCorrect == Spec => []TypeOK
<1>1. StoreInv => TypeOK
  BY DEF StoreInv
<1> QED BY <1>1, StoreInvariant, PTL

\* ADR-0073: same-epoch history is one additive chain per namespace, for any
\* interleaving of publications, pins and retirements.
THEOREM EpochSoundness == Spec => []EpochChainAdditive
<1>1. StoreInv => EpochChainAdditive
  BY DEF StoreInv
<1> QED BY <1>1, StoreInvariant, PTL

\* Overlay chains, compaction and the retirement of ancestors never change
\* what a retained entry answers.
THEOREM EntriesServeWhatWasPublished == Spec => []EntryServesPublished
<1>1. StoreInv => EntryServesPublished
  BY DEF StoreInv
<1> QED BY <1>1, StoreInvariant, PTL

\* A revision id names one view for ever.
THEOREM IdsNeverReused == Spec => NoResurrection
<1>1. StoreInv /\ [Next]_vars => [HistoryKept]_vars
  BY NextStore DEF HistoryKept
<1> QED BY <1>1, StoreInvariant, PTL DEF Spec, NoResurrection

-----------------------------------------------------------------------------
(* The store's limits *)

\* A non-empty set of naturals has a least element.
LEMMA LeastExists ==
  ASSUME NEW S \in SUBSET Nat, S # {}
  PROVE  \E m \in S : \A n \in S : ~(n < m)
<1> DEFINE R == {ss \in Nat \X Nat : ss[1] < ss[2]}
<1>1. IsWellFoundedOn(R, Nat)
  BY NatLessThanWellFounded, Zenon DEF OpToRel
<1>2. \A x, y \in Nat : x < y => <<x, y>> \in R
  OBVIOUS
<1> HIDE DEF R
<1>3. PICK m \in S : \A n \in S : ~(<<n, m>> \in R)
  BY <1>1, WFMin
<1> QED BY <1>2, <1>3

\* A sweep over entries that are at most one too many, and then not all pinned,
\* leaves no more than the limit: the oldest idle entry goes.
LEMMA SweepIsEnough ==
  ASSUME NEW es, DOMAIN es \subseteq Ids, EnforceRetention(es),
         \/ Cardinality(DOMAIN es) <= RetentionLimit
         \/ Cardinality(DOMAIN es) = RetentionLimit + 1 /\ Idle(es) # {}
  PROVE  Cardinality(DOMAIN entries') <= RetentionLimit
<1> DEFINE D == DOMAIN es
<1>1. RetentionLimit \in Nat /\ MaxId \in Nat /\ Ids \subseteq Nat
  BY StoreAssumption DEF Ids
<1>2. IsFiniteSet(D)
  <2>1. IsFiniteSet(Ids)
    BY <1>1, FS_Interval DEF Ids
  <2> QED BY <2>1, FS_Subset
<1>3. DOMAIN entries' = D \ Victims(es)
  BY DEF EnforceRetention, Retain
<1>4. Cardinality(D) \in Nat
  BY <1>2, FS_CardinalityType
<1>5. CASE Cardinality(D) <= RetentionLimit
  <2>1. D \ Victims(es) \in SUBSET D
    OBVIOUS
  <2>2. IsFiniteSet(D \ Victims(es)) /\ Cardinality(D \ Victims(es)) <= Cardinality(D)
    BY <1>2, <2>1, FS_Subset
  <2>3. Cardinality(D \ Victims(es)) \in Nat
    BY <2>2, FS_CardinalityType
  <2> DEFINE a == Cardinality(D \ Victims(es))
             b == Cardinality(D)
  <2>4. a <= b /\ b <= RetentionLimit /\ a \in Nat /\ b \in Nat
    BY <1>4, <1>5, <2>2, <2>3
  <2> HIDE DEF a, b
  <2>5. a <= RetentionLimit
    BY <1>1, <2>4
  <2> QED BY <1>3, <2>5 DEF a
<1>6. CASE Cardinality(D) = RetentionLimit + 1 /\ Idle(es) # {}
  <2>1. Idle(es) \in SUBSET Nat /\ Idle(es) \subseteq D
    BY <1>1 DEF Idle
  <2>2. PICK m \in Idle(es) : \A n \in Idle(es) : ~(n < m)
    BY <1>6, <2>1, LeastExists
  <2>3. {j \in Idle(es) : j < m} = {}
    BY <2>2
  <2>4. Cardinality({j \in Idle(es) : j < m}) = 0
    BY <2>3, FS_EmptySet
  <2>5. 0 < Cardinality(D) - RetentionLimit
    BY <1>1, <1>6
  <2>6. m \in Victims(es)
    BY <2>4, <2>5 DEF Victims
  <2>7. D \ Victims(es) \in SUBSET (D \ {m})
    BY <2>6
  <2>8. IsFiniteSet(D \ {m}) /\ Cardinality(D \ {m}) = Cardinality(D) - 1
    BY <1>2, <2>1, FS_RemoveElement
  <2>9. IsFiniteSet(D \ Victims(es)) /\ Cardinality(D \ Victims(es)) <= Cardinality(D \ {m})
    BY <2>7, <2>8, FS_Subset
  <2>10. Cardinality(D) - 1 = RetentionLimit
    BY <1>1, <1>6
  <2> QED BY <1>3, <2>8, <2>9, <2>10
<1> QED BY <1>5, <1>6

\* A fresh entry within the compaction depth leaves the store within its limits:
\* it is idle itself, so a sweep that is needed finds something to drop.
LEMMA InsertStaysBounded ==
  ASSUME TypeOK, StoreBounded, NEW revision \in Revision, NEW inputs, NEW view, NEW epoch,
         revision.id \notin DOMAIN entries, Depth(inputs) <= CompactionDepth,
         Insert(revision, inputs, view, epoch)
  PROVE  StoreBounded'
<1> DEFINE id == revision.id
           new == Entry(revision, inputs, epoch)
           es == With(entries, id, new)
<1>1. EnforceRetention(es)
  BY DEF Insert
<1>2. /\ DOMAIN es = DOMAIN entries \cup {id} /\ es[id] = new
      /\ \A j \in DOMAIN entries : j # id => es[j] = entries[j]
  BY DEF With
<1>3. new.active_requests = 0 /\ new.inputs = inputs
  BY DEF Entry
<1> HIDE DEF es, new
<1>4. id \in Ids /\ DOMAIN entries \subseteq Ids
  BY DEF TypeOK, Revision
<1>5. DOMAIN es \subseteq Ids /\ Idle(es) # {}
  BY <1>2, <1>3, <1>4 DEF Idle
<1>6. IsFiniteSet(DOMAIN entries) /\ Cardinality(DOMAIN entries) \in Nat /\ RetentionLimit \in Nat
  <2>1. IsFiniteSet(Ids)
    BY StoreAssumption, FS_Interval DEF Ids
  <2> QED BY <1>4, <2>1, FS_Subset, FS_CardinalityType, StoreAssumption
<1>7. Cardinality(DOMAIN es) = Cardinality(DOMAIN entries) + 1
  BY <1>2, <1>6, FS_AddElement
<1>8. \/ Cardinality(DOMAIN es) <= RetentionLimit
      \/ Cardinality(DOMAIN es) = RetentionLimit + 1
  <2>1. Cardinality(DOMAIN entries) <= RetentionLimit
    BY DEF StoreBounded
  <2> DEFINE a == Cardinality(DOMAIN entries)
             b == Cardinality(DOMAIN es)
  <2>2. a \in Nat /\ a <= RetentionLimit /\ b = a + 1
    BY <1>6, <1>7, <2>1
  <2> HIDE DEF a, b
  <2>3. b <= RetentionLimit \/ b = RetentionLimit + 1
    BY <1>6, <2>2
  <2> QED BY <2>3 DEF b
<1>9. Cardinality(DOMAIN entries') <= RetentionLimit
  BY <1>1, <1>5, <1>8, SweepIsEnough
<1>10. ASSUME NEW j \in DOMAIN entries'
       PROVE  Depth(entries'[j].inputs) <= CompactionDepth
  <2>1. j \in DOMAIN es /\ entries'[j] = es[j]
    BY <1>1 DEF EnforceRetention, Retain
  <2>2. CASE j = id
    BY <1>2, <1>3, <2>1, <2>2
  <2>3. CASE j # id
    BY <1>2, <2>1, <2>3 DEF StoreBounded
  <2> QED BY <2>2, <2>3
<1> QED BY <1>9, <1>10 DEF StoreBounded, Depth

\* What publish_revision_overlay stores is within the compaction depth.
LEMMA OverlayIsShallow ==
  ASSUME TypeOK, StoreBounded, NEW parent \in Revision, Retained(parent), NEW delta \in Layer
  PROVE  Depth(OverlayInputs(parent, delta)) <= CompactionDepth
<1> DEFINE base == entries[parent.id].inputs
           l == Len(base.layers)
<1>1. base.layers \in Seq(Layer) /\ parent.id \in DOMAIN entries
  BY DEF TypeOK, RevisionEntry, RevisionInputs, Retained
<1>2. CompactionDepth \in Nat /\ l \in Nat
  BY <1>1, StoreAssumption
<1>3. CASE Depth(base) >= CompactionDepth
  <2>1. OverlayInputs(parent, delta).layers = <<Over(Flatten(base), delta)>>
    BY <1>3 DEF OverlayInputs, Full
  <2>2. Len(OverlayInputs(parent, delta).layers) = 1
    BY <2>1
  <2> QED BY <1>2, <2>2 DEF Depth
<1>4. CASE ~(Depth(base) >= CompactionDepth)
  <2>1. OverlayInputs(parent, delta).layers = Append(base.layers, delta)
    BY <1>4 DEF OverlayInputs
  <2>2. Len(OverlayInputs(parent, delta).layers) = l + 1
    BY <1>1, <2>1
  <2>3. ~(l - 1 >= CompactionDepth)
    BY <1>4 DEF Depth
  <2> HIDE DEF l
  <2>4. (l + 1) - 1 <= CompactionDepth
    BY <1>2, <2>3
  <2> QED BY <2>2, <2>4 DEF Depth
<1> QED BY <1>3, <1>4

\* Every step keeps the store within its limits.
LEMMA StaysBounded ==
  ASSUME StoreInv, StoreBounded, [Next]_vars
  PROVE  StoreBounded'
<1>1. TypeOK
  BY DEF StoreInv
<1>2. ASSUME UNCHANGED entries
      PROVE  StoreBounded'
  BY <1>2 DEF StoreBounded
<1>3. CASE \E revision \in Revision, pairs \in Request : PublishRevision(revision, pairs)
  <2>1. PICK revision \in Revision, pairs \in Request : PublishRevision(revision, pairs)
    BY <1>3
  <2>2. CASE UNCHANGED entries
    BY <1>2, <2>2
  <2>3. CASE ~(UNCHANGED entries)
    <3>1. revision.id \notin DOMAIN entries
          /\ Insert(revision, Full(LeafMap(pairs)), LeafMap(pairs), next_epoch)
      BY <2>1, <2>3 DEF PublishRevision, Refuse, Acknowledge
    <3>2. Depth(Full(LeafMap(pairs))) <= CompactionDepth
      BY StoreAssumption DEF Depth, Full
    <3> QED BY <1>1, <3>1, <3>2, InsertStaysBounded
  <2> QED BY <2>2, <2>3
<1>4. CASE \E revision, parent \in Revision, pairs \in Request : PublishOverlay(revision, parent, pairs)
  <2>1. PICK revision \in Revision, parent \in Revision, pairs \in Request :
          PublishOverlay(revision, parent, pairs)
    BY <1>4
  <2> DEFINE delta == LeafMap(pairs)
             inputs == OverlayInputs(parent, delta)
             view == Over(View(entries[parent.id].inputs), delta)
  <2>2. CASE UNCHANGED entries
    BY <1>2, <2>2
  <2>3. CASE ~(UNCHANGED entries)
    <3>1. /\ ~Malformed(pairs) /\ Retained(parent) /\ revision.id \notin DOMAIN entries
          /\ \E epoch : Insert(revision, inputs, view, epoch)
      <4> HIDE DEF delta, inputs, view
      <4> QED BY <2>1, <2>3 DEF PublishOverlay, Refuse, Acknowledge, delta, inputs, view
    <3>2. Depth(inputs) <= CompactionDepth
      BY <1>1, <3>1, LeafMapType, OverlayIsShallow
    <3> HIDE DEF inputs, view
    <3> QED BY <1>1, <3>1, <3>2, InsertStaysBounded
  <2> QED BY <2>2, <2>3
<1>5. CASE \E revision \in Revision : PinRevision(revision)
  <2>1. DOMAIN entries' = DOMAIN entries
    BY <1>5 DEF PinRevision
  <2>2. \A j \in DOMAIN entries : entries'[j].inputs = entries[j].inputs
    BY <1>1, <1>5 DEF PinRevision, TypeOK, RevisionEntry
  <2> QED BY <2>1, <2>2 DEF StoreBounded, Depth
<1>6. CASE \E revision \in Revision : ReleaseRevision(revision)
  <2>1. PICK revision \in Revision : ReleaseRevision(revision)
    BY <1>6
  <2> DEFINE es == [entries EXCEPT ![revision.id].active_requests = @ - 1]
  <2>2. EnforceRetention(es)
    BY <2>1 DEF ReleaseRevision
  <2>3. DOMAIN es = DOMAIN entries
    OBVIOUS
  <2>4. \A j \in DOMAIN es : es[j].inputs = entries[j].inputs
    BY <1>1 DEF TypeOK, RevisionEntry
  <2> HIDE DEF es
  <2>5. DOMAIN es \subseteq Ids /\ Cardinality(DOMAIN es) <= RetentionLimit
    BY <1>1, <2>3 DEF TypeOK, StoreBounded
  <2>6. Cardinality(DOMAIN entries') <= RetentionLimit
    BY <2>2, <2>5, SweepIsEnough
  <2>7. \A j \in DOMAIN entries' : j \in DOMAIN es /\ entries'[j] = es[j]
    BY <2>2 DEF EnforceRetention, Retain
  <2> QED BY <2>3, <2>4, <2>6, <2>7 DEF StoreBounded, Depth
<1>7. CASE UNCHANGED vars
  BY <1>2, <1>7 DEF vars
<1> QED BY <1>3, <1>4, <1>5, <1>6, <1>7 DEF Next

\* The store holds at most REVISION_RETENTION_LIMIT revisions, however many of
\* them are pinned, and no overlay chain is deeper than OVERLAY_COMPACTION_DEPTH.
THEOREM StoreStaysBounded == Spec => []StoreBounded
<1>1. Init => StoreBounded
  <2> SUFFICES ASSUME Init PROVE StoreBounded
    OBVIOUS
  <2>1. DOMAIN entries = {}
    BY DEF Init
  <2>2. Cardinality(DOMAIN entries) = 0
    BY <2>1, FS_EmptySet
  <2> QED BY <2>1, <2>2, StoreAssumption DEF StoreBounded
<1>2. StoreInv /\ StoreBounded /\ [Next]_vars => StoreBounded'
  BY StaysBounded
<1> QED BY <1>1, <1>2, StoreInvariant, PTL DEF Spec

-----------------------------------------------------------------------------
(* What an Ok means *)

\* A sweep over entries that are at most one too many drops an entry only when
\* it is over the limit and every older entry is pinned.
LEMMA SweepDropsOldest ==
  ASSUME TypeOK', NEW es, DOMAIN es \subseteq Ids, EnforceRetention(es),
         Cardinality(DOMAIN es) <= RetentionLimit + 1,
         NEW id \in DOMAIN es, id \notin DOMAIN entries'
  PROVE  GivenUp(id)'
<1> DEFINE D == DOMAIN es
           Older(k) == {j \in Idle(es) : j < k}
<1>1. RetentionLimit \in Nat /\ MaxActive \in Nat /\ Ids \subseteq Nat
  BY StoreAssumption DEF Ids
<1>2. IsFiniteSet(D)
  <2>1. IsFiniteSet(Ids)
    BY StoreAssumption, FS_Interval DEF Ids
  <2> QED BY <2>1, FS_Subset
<1>3. Cardinality(D) \in Nat
  BY <1>2, FS_CardinalityType
<1>4. /\ DOMAIN entries' = D \ Victims(es)
      /\ \A j \in DOMAIN entries' : entries'[j] = es[j]
  BY DEF EnforceRetention, Retain
<1>5. ASSUME NEW k \in Victims(es)
      PROVE  k \in Idle(es) /\ Older(k) = {} /\ Cardinality(D) = RetentionLimit + 1
  <2>1. k \in Idle(es) /\ Cardinality(Older(k)) < Cardinality(D) - RetentionLimit
    BY DEF Victims
  <2>2. Older(k) \in SUBSET D
    BY DEF Idle
  <2>3. IsFiniteSet(Older(k)) /\ Cardinality(Older(k)) \in Nat
    BY <1>2, <2>2, FS_Subset, FS_CardinalityType
  <2> DEFINE c == Cardinality(Older(k))
             d == Cardinality(D)
  <2>4. c \in Nat /\ d \in Nat /\ c < d - RetentionLimit /\ d <= RetentionLimit + 1
    BY <1>3, <2>1, <2>3
  <2> HIDE DEF c, d
  <2>5. c = 0 /\ d = RetentionLimit + 1
    BY <1>1, <2>4
  <2>6. Cardinality(Older(k)) = 0 /\ Cardinality(D) = RetentionLimit + 1
    BY <2>5 DEF c, d
  <2> HIDE DEF Older, D
  <2>7. Older(k) = {}
    BY <2>3, <2>6, FS_EmptySet
  <2> QED BY <2>1, <2>6, <2>7
<1>6. id \in Victims(es)
  BY <1>4
<1>7. Victims(es) = {id}
  <2>1. ASSUME NEW k \in Victims(es) PROVE k = id
    <3>1. k \in Idle(es) /\ id \in Idle(es) /\ ~(k < id) /\ ~(id < k)
      BY <1>5, <1>6
    <3>2. k \in Nat /\ id \in Nat
      BY <1>1, <3>1 DEF Idle
    <3> QED BY <3>1, <3>2
  <2> QED BY <1>6, <2>1
<1>8. Cardinality(DOMAIN entries') = RetentionLimit
  <2>1. DOMAIN entries' = D \ {id}
    BY <1>4, <1>7
  <2>2. Cardinality(D \ {id}) = Cardinality(D) - 1
    BY <1>2, FS_RemoveElement
  <2>3. Cardinality(D) = RetentionLimit + 1
    BY <1>5, <1>6
  <2>4. Cardinality(D) - 1 = RetentionLimit
    BY <1>1, <2>3
  <2> QED BY <2>1, <2>2, <2>4
<1>9. ASSUME NEW j \in DOMAIN entries', j < id
      PROVE  entries'[j].active_requests > 0
  <2>1. j \notin Idle(es)
    BY <1>5, <1>6, <1>9
  <2>2. entries'[j].active_requests # 0
    BY <1>4, <2>1 DEF Idle
  <2>3. entries'[j].active_requests \in 0 .. MaxActive
    BY DEF TypeOK, RevisionEntry
  <2> QED BY <1>1, <2>2, <2>3
<1> QED BY <1>8, <1>9 DEF GivenUp

\* A fresh publication is retained, or given up.
LEMMA InsertHolds ==
  ASSUME TypeOK, TypeOK', StoreBounded,
         NEW revision \in Revision, NEW inputs, NEW view, NEW epoch,
         revision.id \notin DOMAIN entries,
         Insert(revision, inputs, view, epoch)
  PROVE  /\ reply'.revision = revision
         /\ revision.id \in DOMAIN entries' \/ GivenUp(revision.id)'
<1> DEFINE id == revision.id
           es == With(entries, id, Entry(revision, inputs, epoch))
<1>1. EnforceRetention(es) /\ reply' = Accepted(revision, view)
  BY DEF Insert
<1>2. DOMAIN es = DOMAIN entries \cup {id}
  BY DEF With
<1> HIDE DEF es
<1>3. id \in Ids /\ DOMAIN es \subseteq Ids /\ DOMAIN entries \subseteq Ids
  BY <1>2 DEF TypeOK, Revision
<1>4. IsFiniteSet(DOMAIN entries) /\ Cardinality(DOMAIN entries) \in Nat
  <2>1. IsFiniteSet(Ids)
    BY StoreAssumption, FS_Interval DEF Ids
  <2> QED BY <1>3, <2>1, FS_Subset, FS_CardinalityType
<1>5. Cardinality(DOMAIN es) = Cardinality(DOMAIN entries) + 1
  BY <1>2, <1>4, FS_AddElement
<1>6. Cardinality(DOMAIN es) <= RetentionLimit + 1
  <2>1. Cardinality(DOMAIN entries) <= RetentionLimit /\ RetentionLimit \in Nat
    BY StoreAssumption DEF StoreBounded
  <2> DEFINE a == Cardinality(DOMAIN entries)
             b == Cardinality(DOMAIN es)
  <2>2. a \in Nat /\ a <= RetentionLimit /\ b = a + 1
    BY <1>4, <1>5, <2>1
  <2> HIDE DEF a, b
  <2>3. b <= RetentionLimit + 1
    BY <2>1, <2>2
  <2> QED BY <2>3 DEF b
<1>7. id \in DOMAIN es
  BY <1>2
<1>8. id \in DOMAIN entries' \/ GivenUp(id)'
  BY <1>1, <1>3, <1>6, <1>7, SweepDropsOldest
<1> QED BY <1>1, <1>8 DEF Accepted

\* Every answer is true when it is given.
LEMMA AnswersAreTrue ==
  ASSUME StoreInv, StoreInv', StoreBounded, [Next]_vars, reply' # reply
  PROVE  AnswerIsTrue'
<1> SUFFICES ASSUME reply'.ok
             PROVE  reply'.revision.id \in DOMAIN entries' \/ GivenUp(reply.revision.id)'
  <2>1. AcceptedIsPublished' /\ EntryServesPublished'
    BY DEF StoreInv
  <2>2. ASSUME reply'.ok, reply'.revision.id \in DOMAIN entries'
        PROVE  Holds(reply.revision, reply.view)'
    BY <2>1, <2>2 DEF AcceptedIsPublished, EntryServesPublished, Holds, View, Stamp
  <2> QED BY <2>1, <2>2 DEF AcceptedIsPublished, AnswerIsTrue, Holds, GivenUp
<1>1. TypeOK /\ TypeOK'
  BY DEF StoreInv
<1>2. CASE \E revision \in Revision, pairs \in Request : PublishRevision(revision, pairs)
  <2>1. PICK revision \in Revision, pairs \in Request : PublishRevision(revision, pairs)
    BY <1>2
  <2>2. CASE revision.id \in DOMAIN entries /\ Acknowledge(revision, LeafMap(pairs))
    BY <2>2 DEF Acknowledge, Accepted
  <2>3. CASE revision.id \notin DOMAIN entries
             /\ Insert(revision, Full(LeafMap(pairs)), LeafMap(pairs), next_epoch)
    <3>1. /\ reply'.revision = revision
          /\ revision.id \in DOMAIN entries' \/ GivenUp(revision.id)'
      BY <1>1, <2>3, InsertHolds
    <3> QED BY <3>1 DEF GivenUp
  <2>4. CASE Refuse
    BY <2>4 DEF Refuse, Refused
  <2> QED BY <2>1, <2>2, <2>3, <2>4 DEF PublishRevision
<1>3. CASE \E revision, parent \in Revision, pairs \in Request : PublishOverlay(revision, parent, pairs)
  <2>1. PICK revision \in Revision, parent \in Revision, pairs \in Request :
          PublishOverlay(revision, parent, pairs)
    BY <1>3
  <2> DEFINE inputs == OverlayInputs(parent, LeafMap(pairs))
             view == Over(View(entries[parent.id].inputs), LeafMap(pairs))
  <2> HIDE DEF inputs, view
  <2>2. CASE revision.id \in DOMAIN entries /\ Acknowledge(revision, view)
    BY <2>2 DEF Acknowledge, Accepted
  <2>3. CASE revision.id \notin DOMAIN entries /\ \E epoch : Insert(revision, inputs, view, epoch)
    <3>1. PICK epoch : Insert(revision, inputs, view, epoch)
      BY <2>3
    <3>2. /\ reply'.revision = revision
          /\ revision.id \in DOMAIN entries' \/ GivenUp(revision.id)'
      BY <1>1, <2>3, <3>1, InsertHolds
    <3> QED BY <3>2 DEF GivenUp
  <2>4. CASE Refuse
    BY <2>4 DEF Refuse, Refused
  <2> QED BY <2>1, <2>2, <2>3, <2>4 DEF PublishOverlay, inputs, view
<1>4. CASE \E revision \in Revision : PinRevision(revision) \/ ReleaseRevision(revision)
  BY <1>4 DEF PinRevision, ReleaseRevision
<1>5. CASE UNCHANGED vars
  BY <1>5 DEF vars
<1> QED BY <1>2, <1>3, <1>4, <1>5 DEF Next

\* publish_revision and publish_revision_overlay answer Ok only for the logical
\* view the caller described, and the store then answers it, unless it is full
\* and every older entry is pinned.
THEOREM AcceptanceIsFaithful == Spec => AcceptedIsHeld
<1>1. StoreInv /\ StoreInv' /\ StoreBounded /\ [Next]_vars => [reply' # reply => AnswerIsTrue']_vars
  BY AnswersAreTrue
<1> QED BY <1>1, StoreInvariant, StoreStaysBounded, PTL DEF Spec, AcceptedIsHeld
=============================================================================
