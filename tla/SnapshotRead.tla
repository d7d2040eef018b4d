---------------------------- MODULE SnapshotRead ----------------------------
(***************************************************************************)
(* Reading a Snapshot (storage/snapshot_*.rs): the rows of a checkpoint    *)
(* merged with an overlay of Layers, a page at a time or as a stream,      *)
(* while the owner of the Snapshot goes on applying Layers.                *)
(*                                                                         *)
(* A Snapshot is a checkpoint and a reference to an overlay; clones share  *)
(* the overlay and the cache of prefetched checkpoint values until one of  *)
(* them applies a Layer.  Entries are Relationships: they have an id, a    *)
(* type and two ends, which never change; Nodes and labels are the same    *)
(* scans with less to look at.                                             *)
(***************************************************************************)
EXTENDS Naturals, FiniteSets, Sequences, SequencesExt

CONSTANTS
  Rels,        \* id -> [src, type, tgt]
  Bases,       \* the checkpoints: sets of ids
  Layers,      \* the Layers that may be applied: functions id -> "add" | "remove"
  Limits,      \* page sizes
  OwnerPages,  \* the pages of owners an index scan prefetches
  MaxLayers    \* bound on the Layers applied

Ids == DOMAIN Rels
Nodes == {Rels[i].src : i \in Ids} \cup {Rels[i].tgt : i \in Ids}
Types == {Rels[i].type : i \in Ids}
AnyType == 0

VARIABLES
  base,      \* the rows of the checkpoint
  heap,      \* the overlays: references are its indices
  owner,     \* the overlay of the Snapshot that applies Layers
  cache,     \* prefetched ids and whether the checkpoint has them: shared by all clones
  applied,   \* Layers applied so far
  scan       \* the scan that runs, over a clone, or Idle
vars == <<base, heap, owner, cache, applied, scan>>

Idle == [kind |-> "idle"]

Visible(overlay) ==
  {i \in Ids : IF i \in DOMAIN overlay THEN overlay[i] = "add" ELSE i \in base}

\* Overlay::apply: the Layer's entries win.
Over(overlay, l) ==
  [i \in DOMAIN overlay \cup DOMAIN l |-> IF i \in DOMAIN l THEN l[i] ELSE overlay[i]]

--------------------------------------------------------------------------
(* Domains and keys.  A scan goes up the keys of its domain.              *)

\* The key of an entry: its id in identity order, or its adjacency key, which
\* compares type, neighbour and id in that order: the last digit is the id.
KeyOf(kind, i) ==
  CASE kind = "out" -> Rels[i].type * 100 + Rels[i].tgt * 10 + i
    [] kind = "in" -> Rels[i].type * 100 + Rels[i].src * 10 + i
    [] OTHER -> i

\* adjacency_matches and the filters of the identity scans.
InDomain(kind, node, type, i) ==
  /\ type = AnyType \/ Rels[i].type = type
  /\ CASE kind = "out" -> Rels[i].src = node
       [] kind = "in" -> Rels[i].tgt = node
       [] OTHER -> TRUE

FirstKeys(S, n) == {k \in S : Cardinality({j \in S : j < k}) < n}
MaxKey(S) == CHOOSE k \in S : \A j \in S : j <= k

\* A change of Horizon that ScanIsExact notices.
HorizonOfLast(basePage, overlayPage, limit) ==
  LET full == {MaxKey(p) : p \in {q \in {basePage, overlayPage} : Cardinality(q) = limit}}
  IN IF full = {} THEN 0 ELSE CHOOSE k \in full : \A j \in full : k >= j

\* scan_horizon: how far both sources are known.  0 is no horizon.
Horizon(basePage, overlayPage, limit) ==
  LET full == {MaxKey(p) : p \in {q \in {basePage, overlayPage} : Cardinality(q) = limit}}
  IN IF full = {} THEN 0 ELSE CHOOSE k \in full : \A j \in full : k <= j

\* merge_relationship_page, merge_adjacency_page and scan_node_domain_after: walk
\* the candidates up to the horizon until the page is full.
Page(overlay, kind, node, type, after, limit) ==
  LET Dom(S) == {i \in S : InDomain(kind, node, type, i) /\ KeyOf(kind, i) > after}
      basePage == FirstKeys({KeyOf(kind, i) : i \in Dom(base)}, limit)
      overlayPage == FirstKeys({KeyOf(kind, i) : i \in Dom(DOMAIN overlay)}, limit)
      horizon == Horizon(basePage, overlayPage, limit)
      entry(k) == k % 10
      known == {k \in basePage \cup overlayPage : horizon = 0 \/ k <= horizon}
      shown(k) == IF entry(k) \in DOMAIN overlay THEN overlay[entry(k)] = "add" ELSE k \in basePage
      walked == {k \in known : Cardinality({j \in known : j < k /\ shown(j)}) < limit}
      items == {k \in walked : shown(k)}
      consumed == IF walked = {} THEN after ELSE MaxKey(walked)
  IN [items |-> [n \in 1..Cardinality(items) |->
                   entry(CHOOSE k \in items : Cardinality({j \in items : j < k}) = n - 1)],
      next |-> IF (horizon # 0 \/ Cardinality(items) = limit) /\ consumed > after THEN consumed ELSE 0]

\* with_property, node_exists, relationship: the overlay, then the prefetched rows,
\* then the checkpoint.
ReadOne(overlay, i) ==
  IF i \in DOMAIN overlay THEN overlay[i] = "add"
  ELSE IF i \in DOMAIN cache THEN cache[i]
  ELSE i \in base

\* statistics: the checkpoint's counts corrected by what the overlay changes.
\* Entries above the largest id of the checkpoint are not looked up in it.
Statistics(overlay, type) ==
  LET typed(S) == {i \in S : type = AnyType \/ Rels[i].type = type}
      before(i) == (\E j \in base : i <= j) /\ i \in base
      gained == {i \in typed(DOMAIN overlay) : ~before(i) /\ overlay[i] = "add"}
      lost == {i \in typed(DOMAIN overlay) : before(i) /\ overlay[i] = "remove"}
  IN Cardinality(typed(base)) + Cardinality(gained) - Cardinality(lost)

--------------------------------------------------------------------------
Init ==
  /\ base \in Bases
  /\ heap = <<<<>>>> /\ owner = 1
  /\ cache = <<>> /\ applied = 0 /\ scan = Idle

\* A reader clones the Snapshot and begins a scan.
Start(kind, node, type, limit) ==
  /\ scan = Idle
  /\ scan' = [kind |-> kind, node |-> node, type |-> type, limit |-> limit, ref |-> owner,
              phase |-> IF kind = "incident" THEN "out" ELSE kind, after |-> 0, out |-> <<>>, left |-> base,
              want |-> Visible(heap[owner]), pages |-> 0, done |-> FALSE]
  /\ UNCHANGED <<base, heap, owner, cache, applied>>

\* scan_nodes_after, scan_relationships_after, scan_relationship_type_after and the
\* directed adjacency scans: the next page.
NextPage ==
  /\ scan.kind \in {"ids", "out", "in"} /\ ~scan.done
  /\ \E p \in {Page(heap[scan.ref], scan.kind, scan.node, scan.type, scan.after, scan.limit)} :
        scan' = [scan EXCEPT !.pages = @ + 1, !.out = @ \o p.items, !.after = p.next, !.done = (p.next = 0)]
  /\ UNCHANGED <<base, heap, owner, cache, applied>>

\* filter_incident_self_loops: a loop was seen on the way out.
NoLoops(items) == SelectSeq(items, LAMBDA i : Rels[i].src # Rels[i].tgt)

\* scan_incident_page: outgoing entries, then in what is left of the page the
\* incoming ones.
NextIncident ==
  /\ scan.kind = "incident" /\ ~scan.done
  /\ \E first \in {Page(heap[scan.ref], scan.phase, scan.node, scan.type, scan.after, scan.limit)} :
     \E items \in {IF scan.phase = "out" THEN first.items ELSE NoLoops(first.items)} :
        \/ /\ first.next # 0 \/ scan.phase = "in" \/ Len(items) >= scan.limit
           /\ scan' = [scan EXCEPT !.pages = @ + 1, !.out = @ \o items, !.after = first.next, !.done = (first.next = 0)]
        \/ /\ first.next = 0 /\ scan.phase = "out" /\ Len(items) < scan.limit
           /\ \E rest \in {Page(heap[scan.ref], "in", scan.node, scan.type, 0, scan.limit - Len(items))} :
                scan' = [scan EXCEPT !.pages = @ + 1, !.out = @ \o items \o NoLoops(rest.items), !.after = rest.next,
                                     !.phase = "in", !.done = (rest.next = 0)]
  /\ UNCHANGED <<base, heap, owner, cache, applied>>

\* visit_nodes, visit_relationships, visit_labels, visit_properties: the overlay
\* up to the next checkpoint row, and the row unless the overlay has it.
Added(o, S) == [n \in 1..Cardinality({i \in S : o[i] = "add"}) |->
                  CHOOSE i \in S : o[i] = "add" /\ Cardinality({j \in S : o[j] = "add" /\ j < i}) = n - 1]
StreamRow ==
  /\ scan.kind = "stream" /\ scan.left # {}
  /\ LET o == heap[scan.ref]
         row == CHOOSE i \in scan.left : \A j \in scan.left : i <= j
         ahead == {i \in DOMAIN o : i > scan.after /\ i <= row}
     IN scan' = [scan EXCEPT !.out = @ \o Added(o, ahead) \o (IF row \in ahead THEN <<>> ELSE <<row>>),
                             !.after = row, !.left = @ \ {row}]
  /\ UNCHANGED <<base, heap, owner, cache, applied>>
DrainStream ==
  /\ scan.kind = "stream" /\ scan.left = {} /\ ~scan.done
  /\ scan' = [scan EXCEPT !.done = TRUE,
                !.out = @ \o Added(heap[scan.ref], {i \in DOMAIN heap[scan.ref] : i > scan.after})]
  /\ UNCHANGED <<base, heap, owner, cache, applied>>

Close == scan.kind # "idle" /\ scan.done /\ scan' = Idle /\ UNCHANGED <<base, heap, owner, cache, applied>>

\* prefetch_properties: what the checkpoint says of a page of owners, the absent
\* ones included, replaces what the cache held.
Prefetch(owners) ==
  /\ owners # {}
  /\ cache' = [i \in owners |-> i \in base]
  /\ UNCHANGED <<base, heap, owner, applied, scan>>

\* apply_layer_checked: a shared overlay is copied before it changes.
Shared == scan.kind # "idle" /\ scan.ref = owner
ApplyLayer(l) ==
  /\ applied < MaxLayers
  /\ applied' = applied + 1
  /\ IF Shared THEN heap' = Append(heap, Over(heap[owner], l)) /\ owner' = Len(heap) + 1
     ELSE heap' = [heap EXCEPT ![owner] = Over(@, l)] /\ UNCHANGED owner
  /\ UNCHANGED <<base, cache, scan>>

Next ==
  \/ \E k \in {"ids", "stream"}, t \in Types \cup {AnyType}, n \in Limits : (k = "stream" => t = AnyType) /\ Start(k, 0, t, n)
  \/ \E k \in {"out", "in", "incident"}, v \in Nodes, t \in Types \cup {AnyType}, n \in Limits : Start(k, v, t, n)
  \/ NextPage \/ NextIncident \/ StreamRow \/ DrainStream \/ Close
  \/ \E S \in OwnerPages : Prefetch(S)
  \/ \E l \in Layers : ApplyLayer(l)
Spec == Init /\ [][Next]_vars

--------------------------------------------------------------------------

\* What the scan should give: the visible entries of its domain at the time it began.
Wanted ==
  {i \in scan.want : IF scan.kind = "incident"
                       THEN InDomain("out", scan.node, scan.type, i) \/ InDomain("in", scan.node, scan.type, i)
                       ELSE InDomain(scan.kind, scan.node, scan.type, i)}

\* A finished scan has given each visible entry of its domain once, and nothing
\* else, however the pages fell, whatever was removed or added above the
\* checkpoint and whatever Layers were applied meanwhile.
ScanIsExact ==
  scan.kind # "idle" /\ scan.done =>
    /\ Range(scan.out) = Wanted
    /\ Len(scan.out) = Cardinality(Wanted)

\* A scan gives its entries in the order of their keys, over all its pages, so a
\* reader may merge it with another ordered source.
ScanIsOrdered ==
  scan.kind \notin {"idle", "incident"} =>
    \A m, n \in DOMAIN scan.out : m < n => KeyOf(scan.kind, scan.out[m]) < KeyOf(scan.kind, scan.out[n])

\* Every page that has a successor takes the cursor on, even one whose entries
\* were all removed above the checkpoint: a scan ends after at most one page per
\* candidate and one more.
PagesBounded ==
  scan.kind # "idle" =>
    LET candidates == base \cup DOMAIN heap[scan.ref]
        in(kind) == Cardinality({i \in candidates : InDomain(kind, scan.node, scan.type, i)})
    IN scan.pages <= 1 + IF scan.kind = "incident" THEN in("out") + in("in") ELSE in(scan.kind)

\* A point read and the planner's counts agree with the scans on every Snapshot.
PointReadsAgree ==
  \A r \in {owner} \cup (IF scan.kind = "idle" THEN {} ELSE {scan.ref}) :
    /\ \A i \in Ids : ReadOne(heap[r], i) <=> i \in Visible(heap[r])
    /\ \A t \in Types \cup {AnyType} :
         Statistics(heap[r], t) = Cardinality({i \in Visible(heap[r]) : t = AnyType \/ Rels[i].type = t})

=============================================================================
