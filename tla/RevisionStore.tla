----------------------------- MODULE RevisionStore -----------------------------
(***************************************************************************)
(* The revision store of the query runtime (rue-query, revision.rs): the   *)
(* immutable input views that requests pin, their sparse overlays, the     *)
(* bounded retention of old views, and the validation epochs that decide   *)
(* which validation certificates survive a new publication (ADR-0073).     *)
(*                                                                         *)
(* Every operation takes the store's write lock for its whole effect, so   *)
(* one action is one operation, its retention sweep included.              *)
(*                                                                         *)
(* A leaf map is a function from Inputs to stamps; stamp 0 is reserved by  *)
(* the runtime, so 0 here stands for "the map has no such leaf".           *)
(***************************************************************************)
EXTENDS Integers, Sequences, FiniteSets, FiniteSetsExt

CONSTANTS
  MaxId,            \* revision ids are 0 .. MaxId (u64 in the code)
  Compats,          \* compatibility tokens
  Inputs,           \* leaf identities
  Stamps,           \* leaf stamps a caller may pass, 0 excluded
  RetentionLimit,   \* REVISION_RETENTION_LIMIT
  CompactionDepth,  \* OVERLAY_COMPACTION_DEPTH
  MaxActive         \* bound on concurrent requests pinning one revision

ASSUME StoreAssumption ==
  /\ MaxId \in Nat
  /\ Stamps \subseteq Nat \ {0}
  /\ RetentionLimit \in Nat
  /\ CompactionDepth \in Nat
  /\ MaxActive \in Nat

VARIABLES
  entries,          \* retained revisions: id -> RevisionEntry
  retired_through,  \* largest id ever retired
  next_epoch,       \* next validation epoch to hand out
  epoch_heads,      \* compatibility -> head of the current extension chain
  published,        \* history: every revision ever accepted, retired or not
  reply             \* what the last publication returned, and for which view

vars == <<entries, retired_through, next_epoch, epoch_heads, published, reply>>

Ids == 0 .. MaxId
Absent == 0
Layer == [Inputs -> Stamps \cup {Absent}]
Revision == [id : Ids, compatibility : Compats]
NoParent == MaxId + 1
EpochHead == [epoch : Nat, head_id : Ids]

\* RevisionInputs: the deltas from the complete map (first) to the newest
\* overlay (last); parent names the entry whose input node an Overlay shares.
RevisionInputs == [layers : Seq(Layer), parent : Ids \cup {NoParent}]
RevisionEntry == [revision : Revision, inputs : RevisionInputs,
                  active_requests : 0 .. MaxActive, epoch : Nat]

-----------------------------------------------------------------------------
(* Reading a view *)

Full(map) == [layers |-> <<map>>, parent |-> NoParent]
Depth(inputs) == Len(inputs.layers) - 1

Holding(layers, leaf) == {k \in DOMAIN layers : layers[k][leaf] # Absent}

\* The newest layer that holds the leaf answers for it.
Stamp(inputs, leaf) ==
  IF Holding(inputs.layers, leaf) = {} THEN Absent
  ELSE inputs.layers[Max(Holding(inputs.layers, leaf))][leaf]

View(inputs) == [leaf \in Inputs |-> Stamp(inputs, leaf)]

\* The map that a delta makes of a base map.
Over(base, delta) ==
  [leaf \in Inputs |-> IF delta[leaf] # Absent THEN delta[leaf] ELSE base[leaf]]

Flatten(inputs) == View(inputs)

-----------------------------------------------------------------------------
(* Requests: a caller passes (leaf, stamp) pairs *)

Malformed(pairs) ==
  \/ \E p \in pairs : p[2] = 0
  \/ \E p, q \in pairs : p[1] = q[1] /\ p[2] # q[2]

LeafMap(pairs) ==
  [leaf \in Inputs |->
     IF \E p \in pairs : p[1] = leaf
     THEN (CHOOSE p \in pairs : p[1] = leaf)[2]
     ELSE Absent]

Accepted(revision, view) == [ok |-> TRUE, revision |-> revision, view |-> view]
Refused == [ok |-> FALSE]

-----------------------------------------------------------------------------
(* Retention: while over the limit, drop the oldest entry no request pins. *)

Idle(es) == {id \in DOMAIN es : es[id].active_requests = 0}

\* Mutant: the sweep stops one entry early.
VictimsLate(es) ==
  {id \in Idle(es) :
     Cardinality({j \in Idle(es) : j < id}) + 1 < Cardinality(DOMAIN es) - RetentionLimit}

\* Mutant: the sweep starts at the newest idle entry.
VictimsNewest(es) ==
  {id \in Idle(es) :
     Cardinality({j \in Idle(es) : j > id}) < Cardinality(DOMAIN es) - RetentionLimit}

Victims(es) ==
  {id \in Idle(es) :
     Cardinality({j \in Idle(es) : j < id}) < Cardinality(DOMAIN es) - RetentionLimit}

\* Mutant: an overlay loses what it shares with a parent that is retired.
RetainWeakParents(es) ==
  [id \in DOMAIN es \ Victims(es) |->
     IF es[id].inputs.parent \in Victims(es)
     THEN [es[id] EXCEPT !.inputs.layers = <<@[Len(@)]>>] ELSE es[id]]

Retain(es) == [id \in DOMAIN es \ Victims(es) |-> es[id]]

\* Mutant: retirement is not recorded.
EnforceForgetful(es) ==
  /\ entries' = Retain(es)
  /\ UNCHANGED retired_through

EnforceRetention(es) ==
  /\ entries' = Retain(es)
  /\ retired_through' = Max({retired_through} \cup Victims(es))

-----------------------------------------------------------------------------
(* Publication *)

Entry(revision, inputs, epoch) ==
  [revision |-> revision, inputs |-> inputs, active_requests |-> 0, epoch |-> epoch]

With(f, x, v) == [y \in DOMAIN f \cup {x} |-> IF y = x THEN v ELSE f[y]]

\* A fresh entry becomes the head of its namespace, in the epoch it was given;
\* view is what the caller asked for, inputs the representation that is stored.
Insert(revision, inputs, view, epoch) ==
  /\ epoch_heads' = With(epoch_heads, revision.compatibility,
                         [epoch |-> epoch, head_id |-> revision.id])
  /\ published' = With(published, revision.id,
                       [revision |-> revision, view |-> View(inputs), epoch |-> epoch])
  /\ reply' = Accepted(revision, view)
  /\ EnforceRetention(With(entries, revision.id, Entry(revision, inputs, epoch)))

Refuse ==
  /\ reply' = Refused
  /\ UNCHANGED <<entries, retired_through, next_epoch, epoch_heads, published>>

Acknowledge(revision, view) ==
  /\ reply' = Accepted(revision, view)
  /\ UNCHANGED <<entries, retired_through, next_epoch, epoch_heads, published>>

PublishRevision(revision, pairs) ==
  LET map == LeafMap(pairs)
      id == revision.id
  IN \/ /\ Malformed(pairs)
        /\ Refuse
     \/ /\ ~Malformed(pairs)
        /\ id \in DOMAIN entries
        /\ IF entries[id].revision = revision /\ entries[id].inputs = Full(map)
           THEN Acknowledge(revision, map)
           ELSE Refuse
     \/ /\ ~Malformed(pairs)
        /\ id \notin DOMAIN entries
        /\ id <= retired_through
        /\ Refuse
     \/ /\ ~Malformed(pairs)
        /\ id \notin DOMAIN entries
        /\ id > retired_through
        /\ next_epoch' = next_epoch + 1
        /\ Insert(revision, Full(map), map, next_epoch)

Retained(revision) ==
  revision.id \in DOMAIN entries /\ entries[revision.id].revision = revision

ParentIsHead(parent) ==
  /\ parent.compatibility \in DOMAIN epoch_heads
  /\ epoch_heads[parent.compatibility] =
       [epoch |-> entries[parent.id].epoch, head_id |-> parent.id]

StrictlyAdditive(parent, delta) ==
  \A leaf \in Inputs :
    delta[leaf] # Absent => Stamp(entries[parent.id].inputs, leaf) = Absent

\* Mutant: any retained parent may be extended, not only the head.
ExtendsAny(parent, delta) == StrictlyAdditive(parent, delta)

\* The epoch rule of ADR-0073.
ExtendsHead(parent, delta) == ParentIsHead(parent) /\ StrictlyAdditive(parent, delta)

\* A chain at the compaction depth is merged into one complete map.
OverlayInputs(parent, delta) ==
  LET base == entries[parent.id].inputs
  IN IF Depth(base) >= CompactionDepth
     THEN Full(Over(Flatten(base), delta))
     ELSE [layers |-> Append(base.layers, delta), parent |-> parent.id]

PublishOverlay(revision, parent, pairs) ==
  LET delta == LeafMap(pairs)
      id == revision.id
      inputs == OverlayInputs(parent, delta)
      view == Over(View(entries[parent.id].inputs), delta)
      legal == /\ ~Malformed(pairs)
               /\ Retained(parent)
               /\ revision.compatibility = parent.compatibility
               /\ id > parent.id
  IN \/ /\ ~legal
        /\ Refuse
     \/ /\ legal
        /\ id \in DOMAIN entries
        /\ IF entries[id].revision = revision /\ entries[id].inputs = inputs
           THEN Acknowledge(revision, view)
           ELSE Refuse
     \/ /\ legal
        /\ id \notin DOMAIN entries
        /\ id <= retired_through
        /\ Refuse
     \/ /\ legal
        /\ id \notin DOMAIN entries
        /\ id > retired_through
        /\ \/ /\ ExtendsHead(parent, delta)
              /\ Insert(revision, inputs, view, entries[parent.id].epoch)
              /\ UNCHANGED next_epoch
           \/ /\ ~ExtendsHead(parent, delta)
              /\ Insert(revision, inputs, view, next_epoch)
              /\ next_epoch' = next_epoch + 1

-----------------------------------------------------------------------------
(* Pinning by requests *)

PinRevision(revision) ==
  /\ Retained(revision)
  /\ entries[revision.id].active_requests < MaxActive
  /\ entries' = [entries EXCEPT ![revision.id].active_requests = @ + 1]
  /\ UNCHANGED <<retired_through, next_epoch, epoch_heads, published, reply>>

\* Mutant: a lease released twice.
ReleaseTwice(revision) ==
  /\ Retained(revision)
  /\ EnforceRetention([entries EXCEPT ![revision.id].active_requests = @ - 1])
  /\ UNCHANGED <<next_epoch, epoch_heads, published, reply>>

\* RevisionLease::drop
ReleaseRevision(revision) ==
  /\ Retained(revision)
  /\ entries[revision.id].active_requests > 0
  /\ EnforceRetention([entries EXCEPT ![revision.id].active_requests = @ - 1])
  /\ UNCHANGED <<next_epoch, epoch_heads, published, reply>>

-----------------------------------------------------------------------------
Init ==
  /\ entries = << >>
  /\ retired_through = 0
  /\ next_epoch = 1
  /\ epoch_heads = << >>
  /\ published = << >>
  /\ reply = Refused

Request == SUBSET (Inputs \X (Stamps \cup {0}))

Next ==
  \/ \E revision \in Revision, pairs \in Request : PublishRevision(revision, pairs)
  \/ \E revision, parent \in Revision, pairs \in Request :
       PublishOverlay(revision, parent, pairs)
  \/ \E revision \in Revision : PinRevision(revision)
  \/ \E revision \in Revision : ReleaseRevision(revision)

Spec == Init /\ [][Next]_vars

-----------------------------------------------------------------------------
(* Properties *)

PublishedRecord == [revision : Revision, view : Layer, epoch : Nat]

\* The store's fields have the shapes revision.rs declares; an entry and a
\* history record are filed under their own revision's id.
TypeOK ==
  /\ DOMAIN entries \subseteq Ids
  /\ entries = [id \in DOMAIN entries |-> entries[id]]
  /\ \A id \in DOMAIN entries :
       entries[id] \in RevisionEntry /\ entries[id].revision.id = id
  /\ retired_through \in Ids
  /\ next_epoch \in Nat
  /\ DOMAIN epoch_heads \subseteq Compats
  /\ epoch_heads = [c \in DOMAIN epoch_heads |-> epoch_heads[c]]
  /\ \A c \in DOMAIN epoch_heads : epoch_heads[c] \in EpochHead
  /\ DOMAIN published \subseteq Ids
  /\ published = [id \in DOMAIN published |-> published[id]]
  /\ \A id \in DOMAIN published :
       published[id] \in PublishedRecord /\ published[id].revision.id = id

\* v is u with leaves added, none re-stamped or dropped.
Extends(v, u) == \A leaf \in Inputs : u[leaf] # Absent => v[leaf] = u[leaf]

\* The ground of ADR-0073's certificate reuse: of two revisions that were ever
\* given the same epoch, the one with the larger id has the same compatibility
\* and only adds leaves to the other's view. It must survive retirement of
\* either revision and of the head that links them.
EpochChainAdditive ==
  \A a, b \in DOMAIN published :
    published[a].epoch = published[b].epoch /\ a < b =>
      /\ published[a].revision.compatibility = published[b].revision.compatibility
      /\ Extends(published[b].view, published[a].view)

\* The one case in which an accepted revision is not retained: the sweep of its
\* own publication found the store over its limit and no older entry idle.
GivenUp(id) ==
  /\ Cardinality(DOMAIN entries) = RetentionLimit
  /\ \A j \in DOMAIN entries : j < id => entries[j].active_requests > 0

Holds(revision, view) ==
  /\ revision.id \in DOMAIN entries
  /\ entries[revision.id].revision = revision
  /\ View(entries[revision.id].inputs) = view

\* What an Ok means when it is given.
AnswerIsTrue ==
  reply.ok =>
    /\ reply.revision.id \in DOMAIN published
    /\ published[reply.revision.id].revision = reply.revision
    /\ published[reply.revision.id].view = reply.view
    /\ Holds(reply.revision, reply.view) \/ GivenUp(reply.revision.id)

\* A publication that answers Ok, fresh or idempotent, compacted or not, has
\* accepted exactly the logical view the caller described, and the store still
\* answers that view after its own sweep, unless every older entry is pinned:
\* then the sweep has dropped what was accepted.
AcceptedIsHeld == [][reply' # reply => AnswerIsTrue']_vars

\* What a retained entry answers through its overlay chain is the view and the
\* epoch it was published with, however many ancestors have been retired.
EntryServesPublished ==
  \A id \in DOMAIN entries :
    /\ id \in DOMAIN published
    /\ entries[id].revision = published[id].revision
    /\ entries[id].epoch = published[id].epoch
    /\ View(entries[id].inputs) = published[id].view

HistoryKept ==
  \A id \in DOMAIN published :
    id \in DOMAIN published' /\ published'[id] = published[id]

\* A revision id names one view for ever: neither retirement nor a later
\* publication lets the id come back with other leaves.
NoResurrection == [][HistoryKept]_vars

\* The store stays within its limits: never more than RetentionLimit entries,
\* pinned or not (a publication that finds every other entry pinned gives up its
\* own), and no overlay chain beyond the compaction depth, so a lookup reads at
\* most CompactionDepth + 1 maps.
StoreBounded ==
  /\ Cardinality(DOMAIN entries) <= RetentionLimit
  /\ \A id \in DOMAIN entries : Depth(entries[id].inputs) <= CompactionDepth
=============================================================================
