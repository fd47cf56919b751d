----------------------------- MODULE GraphSlice -----------------------------
(***************************************************************************)
(* What the panel is shown of the graph: the four read requests of the     *)
(* websocket API, answered through the graph gateway by one of two         *)
(* backends.  The direct backend runs the Cypher itself; the add-on runs   *)
(* the same Cypher behind GraphQL and the integration tidies what it sends *)
(* back.  A request is one query, so its answer is a function of the graph *)
(* of one moment; the graph changes between answers.  A node goes out as   *)
(* its id, a relationship as its id, which names both of its ends.         *)
(***************************************************************************)
EXTENDS Integers, FiniteSets, SequencesExt

CONSTANTS
    Orders,         \* the orders in which a query may give the nodes
    Links,          \* every relationship: [type, from, to], types by rank
    Typed,          \* labels the direct backend knows (_NODE_TYPES)
    AreaLabel,      \* the label of areas
    Unknown,        \* an id no node has
    Terms,          \* search terms, as the nodes each one would find
    InitialMax,     \* GRAPH_INITIAL_NODE_LIMIT
    InitialEdges,   \* GRAPH_INITIAL_EDGE_LIMIT
    RequestMax,     \* GRAPH_INITIAL_REQUEST_MAX
    ExpandNodes,    \* GRAPH_EXPAND_NODE_MAX
    ExpandEdges,    \* GRAPH_EXPAND_EDGE_MAX
    SearchMax,      \* GRAPH_SEARCH_MAX
    DetailNodes,    \* the 25 nodes of a detail
    DetailEdges     \* and its 50 relationships

Members == UNION {ToSet(o) : o \in Orders}
Id(n)    == <<n.label, n.haId>>

\* What is assumed of the constants.  No operation links two areas.
ASSUME GraphSliceAssumption ==
    /\ \A o \in Orders : /\ o \in Seq(Members) /\ ToSet(o) = Members
                         /\ \A i, j \in DOMAIN o : o[i] = o[j] => i = j
    /\ \A m, n \in Members : Id(m) = Id(n) => m = n
    /\ IsFiniteSet(Links)
    /\ \A l \in Links :
         /\ l.from \in Members /\ l.to \in Members /\ l.from # l.to
         /\ l.type \in Nat /\ {l.from.label, l.to.label} # {AreaLabel}
    /\ \A l, m \in Links :
         l.type = m.type /\ {l.from, l.to} = {m.from, m.to} => l = m
    /\ \A n \in Members : Id(n) # Unknown /\ n.label # "Other"
    /\ AreaLabel \in Typed
    /\ {InitialMax, InitialEdges, RequestMax, ExpandNodes, ExpandEdges,
        SearchMax, DetailNodes, DetailEdges} \subseteq Nat \ {0}

VARIABLES
    graph,      \* nodes of the graph
    relations,  \* relationships of the graph
    backend,    \* "direct" or "addon", for the lifetime of the entry
    order,      \* the order of the rows of the next answer
    available,  \* the gateway's own record of its last call
    request,    \* what was asked last, or NoRequest
    reply       \* and what came back, or NoSlice

sliceVars == <<graph, relations, backend, order, available, request, reply>>

NoRequest == [op |-> "none"]
NoSlice   == [error |-> "none"]

Requests ==
    [op : {"snapshot"}, limit : 1 .. RequestMax]
      \union [op : {"expand"}, id : {Id(n) : n \in Members} \union {Unknown},
              limit : 1 .. ExpandNodes, edgeLimit : 1 .. ExpandEdges]
      \union [op : {"search"}, found : Terms, limit : 1 .. SearchMax]
      \union [op : {"detail"}, id : {Id(n) : n \in Members} \union {Unknown}]
      \union [op : {"relationship"}, link : Links]     \* also a detail, of another id

SliceInit ==
    /\ graph = {} /\ relations = {}
    /\ backend \in {"direct", "addon"}
    /\ order \in Orders
    /\ available = TRUE
    /\ request = NoRequest /\ reply = NoSlice

-----------------------------------------------------------------------------
(* The queries, as both backends have them.  An expansion is ordered by name
   and type, which leaves nodes of one name in any order, and a detail is
   not ordered at all: what is first is as the database has it that time. *)

UpTo(s, k) == IF Len(s) <= k THEN s ELSE SubSeq(s, 1, k)

Clamp(value, maximum) ==
    IF value < 1 THEN 1 ELSE IF value > maximum THEN maximum ELSE value

\* The elements of a set in the order of R, a set of pairs.
InOrder(S, R) ==
    [k \in 1 .. Cardinality(S) |->
        CHOOSE x \in S : Cardinality({y \in S : <<y, x>> \in R}) = k]

\* What a sequence has at some of its places.
At(s, P) ==
    LET place == InOrder(P, {p \in P \X P : p[1] <= p[2]})
    IN  [k \in 1 .. Cardinality(P) |-> s[place[k]]]

Matches(S) == At(order, {i \in DOMAIN order : order[i] \in S \intersect graph})

WithId(id) == {n \in graph : Id(n) = id}

OtherEnd(l, n) == IF l.from = n THEN l.to ELSE l.from

Position(n) == CHOOSE i \in DOMAIN order : order[i] = n

IsBefore(l, m, n) ==
    LET p == Position(OtherEnd(l, n))
        q == Position(OtherEnd(m, n))
    IN  p < q \/ (p = q /\ l.type <= m.type)

LinksOf(n) ==
    LET incident == {l \in relations : n \in {l.from, l.to}}
    IN  InOrder(incident, {p \in incident \X incident : IsBefore(p[1], p[2], n)})

NeighboursOf(n) == Matches({OtherEnd(l, n) : l \in {k \in relations : n \in {k.from, k.to}}})

NoRow == [nodes |-> <<>>, links |-> <<>>]

(* An undirected pattern matches a relationship between two areas twice,
   and the row collects it as often. *)
InitialRow(nodeLimit, edgeLimit) ==
    LET areas == UpTo(Matches({n \in graph : n.label = AreaLabel}), nodeLimit)
        among == SetToSeq({l \in relations : {l.from, l.to} \subseteq ToSet(areas)})
    IN  [nodes |-> areas, links |-> UpTo(among \o among, edgeLimit)]

\* Seeded fault: the query asks for no more than the limits.
ExpandRowExact(id, nodeLimit, edgeLimit) ==
    IF WithId(id) = {} THEN NoRow
    ELSE LET center == CHOOSE n \in WithId(id) : TRUE
         IN  [nodes |-> <<center>> \o UpTo(NeighboursOf(center), nodeLimit - 2),
              links |-> UpTo(LinksOf(center), edgeLimit - 1)]

ExpandRow(id, nodeLimit, edgeLimit) ==
    IF WithId(id) = {} THEN NoRow
    ELSE LET center == CHOOSE n \in WithId(id) : TRUE
         IN  [nodes |-> <<center>> \o UpTo(NeighboursOf(center), nodeLimit),
              links |-> UpTo(LinksOf(center), edgeLimit)]

(* Unlike the expansion, the nodes of a detail leave out the element. *)
ElementRow(id) ==
    LET element == CHOOSE n \in WithId(id) : TRUE
    IN  [nodes |-> UpTo(NeighboursOf(element), DetailNodes + 1),
         links |-> UpTo(LinksOf(element), DetailEdges + 1)]

-----------------------------------------------------------------------------
(* From a row to an answer.  The ends of a relationship carry the label the
   node has in the graph, on both sides. *)

DirectId(n) == IF n.label \in Typed THEN Id(n) ELSE <<"Other", n.haId>>

LinkId(l) == <<l.type, Id(l.from), Id(l.to)>>

Ends(r) == {r[2], r[3]}

Each(f(_), s) == [i \in DOMAIN s |-> f(s[i])]

Unique(s) == At(s, {i \in DOMAIN s : \A j \in DOMAIN s : j < i => s[j] # s[i]})

\* Seeded fault: relationships go out whether or not their ends do.
RenderableAll(ids, relationships) == Unique(relationships)

Renderable(ids, relationships) ==
    Unique(At(relationships, {i \in DOMAIN relationships : Ends(relationships[i]) \subseteq ToSet(ids)}))

SliceRecord(ids, relationships, cut) ==
    [nodes |-> ids, relationships |-> relationships, truncated |-> cut]

Cut(row, nodeLimit, edgeLimit) == Len(row.nodes) > nodeLimit \/ Len(row.links) > edgeLimit

DirectSlice(row, nodeLimit, edgeLimit) ==
    LET ids == Unique(Each(DirectId, UpTo(row.nodes, nodeLimit)))
    IN  SliceRecord(ids, Renderable(ids, Each(LinkId, UpTo(row.links, edgeLimit))),
              Cut(row, nodeLimit, edgeLimit))

GraphqlSlice(row, nodeLimit, edgeLimit) ==
    SliceRecord(Each(Id, UpTo(row.nodes, nodeLimit)), Each(LinkId, UpTo(row.links, edgeLimit)),
          Cut(row, nodeLimit, edgeLimit))

NormalizeGraphqlSlice(slice) ==
    LET ids == Unique(slice.nodes)
    IN  SliceRecord(ids, Renderable(ids, slice.relationships), slice.truncated)

SliceOf(by, row, nodeLimit, edgeLimit) ==
    IF by = "direct" THEN DirectSlice(row, nodeLimit, edgeLimit)
    ELSE NormalizeGraphqlSlice(GraphqlSlice(row, nodeLimit, edgeLimit))

AnswerRecord(element, slice) == [error |-> "none", element |-> element, slice |-> slice]

Refused(error) == [error |-> error]

None == <<>>

-----------------------------------------------------------------------------
(* The four operations of a backend. *)

InitialGraph(by, limit) ==
    LET bounded == Clamp(limit, InitialMax)
    IN  AnswerRecord(None, SliceOf(by, InitialRow(bounded + 1, InitialEdges + 1), bounded, InitialEdges))

ExpandNode(by, id, nodeLimit, edgeLimit) ==
    LET n == Clamp(nodeLimit, ExpandNodes)
        e == Clamp(edgeLimit, ExpandEdges)
    IN  AnswerRecord(None, SliceOf(by, ExpandRow(id, n + 1, e + 1), n, e))

SearchGraph(by, found, limit) ==
    LET bounded == Clamp(limit, SearchMax)
        matches == UpTo(Matches(found), bounded + 1)
        ids     == IF by = "direct" THEN Each(DirectId, matches) ELSE Each(Id, matches)
    IN  AnswerRecord(None, SliceRecord(UpTo(ids, bounded), <<>>, Len(ids) > bounded))

NodeDetail(by, id) ==
    LET row == ElementRow(id)
    IN  IF by = "direct"
          THEN AnswerRecord(DirectId(CHOOSE n \in WithId(id) : TRUE),
                      DirectSlice(row, DetailNodes, DetailEdges))
          ELSE AnswerRecord(id, GraphqlSlice(row, DetailNodes, DetailEdges))

(* Only the direct backend goes on to look among the relationships. *)
LinkDetail(l) ==
    AnswerRecord(LinkId(l), SliceRecord(<<DirectId(l.from), DirectId(l.to)>>, <<LinkId(l)>>, FALSE))

GraphElement(by, r) ==
    CASE r.op = "detail" /\ WithId(r.id) # {} -> NodeDetail(by, r.id)
      [] r.op = "relationship" /\ by = "direct" /\ r.link \in relations -> LinkDetail(r.link)
      [] OTHER -> Refused("not_found")

AnswerOf(by, r) ==
    CASE r.op = "snapshot" -> InitialGraph(by, r.limit)
      [] r.op = "expand"   -> ExpandNode(by, r.id, r.limit, r.edgeLimit)
      [] r.op = "search"   -> SearchGraph(by, r.found, r.limit)
      [] OTHER             -> GraphElement(by, r)

-----------------------------------------------------------------------------
ReadGraph(r) ==
    /\ request = NoRequest
    /\ request' = r
    /\ reply' = AnswerOf(backend, r)
    /\ available' = TRUE
    /\ UNCHANGED <<graph, relations, backend, order>>

(* The backend raises: the gateway returns nothing, which the handler of a
   detail takes for an element that is not there. *)
ReadInVain(r) ==
    /\ request = NoRequest
    /\ request' = r
    /\ reply' = Refused(IF r.op \in {"detail", "relationship"} THEN "not_found"
                         ELSE "gateway_unavailable")
    /\ available' = FALSE
    /\ UNCHANGED <<graph, relations, backend, order>>

Taken ==
    /\ request # NoRequest
    /\ request' = NoRequest /\ reply' = NoSlice
    /\ order' \in Orders
    /\ UNCHANGED <<graph, relations, backend, available>>

(* The other operations of the integration: merges, and DETACH DELETE. *)
GraphIsWritten ==
    /\ request = NoRequest
    /\ \/ \E n \in Members \ graph : graph' = graph \union {n} /\ relations' = relations
       \/ \E l \in Links \ relations : {l.from, l.to} \subseteq graph
                                     /\ relations' = relations \union {l} /\ graph' = graph
       \/ \E l \in relations : relations' = relations \ {l} /\ graph' = graph
       \/ \E n \in graph : /\ graph' = graph \ {n}
                           /\ relations' = {l \in relations : n \notin {l.from, l.to}}
    /\ UNCHANGED <<backend, order, available, request, reply>>

SliceNext ==
    \/ GraphIsWritten
    \/ Taken
    \/ \E r \in Requests : ReadGraph(r) \/ ReadInVain(r)

SliceSpec == SliceInit /\ [][SliceNext]_sliceVars

-----------------------------------------------------------------------------
(* Properties. *)

IsAnswered == request.op # "none" /\ reply.error = "none"

IsSet(s) == Cardinality(ToSet(s)) = Len(s)

(* What a snapshot, an expansion or a search shows can be drawn as it is:   *)
(* within the limits that were asked for, no id twice in a slice, no        *)
(* relationship without both of its ends, and an id other than the "Other"  *)
(* of the direct backend is the id of a node of the graph, so that it can   *)
(* be asked for again (_slice and graphSlice with their tidying).           *)
AnswerIsClosed ==
    IsAnswered /\ request.op \in {"snapshot", "expand", "search"} =>
        /\ Len(reply.slice.nodes) <= request.limit
        /\ request.op = "snapshot" =>
             /\ Len(reply.slice.nodes) <= InitialMax
             /\ Len(reply.slice.relationships) <= InitialEdges
        /\ request.op = "expand" => Len(reply.slice.relationships) <= request.edgeLimit
        /\ request.op # "search" =>
             IsSet(reply.slice.nodes) /\ IsSet(reply.slice.relationships)
        /\ \A r \in ToSet(reply.slice.relationships) : Ends(r) \subseteq ToSet(reply.slice.nodes)
        /\ \A id \in ToSet(reply.slice.nodes) : id[1] = "Other" \/ WithId(id) # {}

(* What this backend calls a node, and the relationships it can draw: those
   that end in ids it gives. *)
ShownId(n) == IF backend = "direct" THEN DirectId(n) ELSE Id(n)

ShownIds(S) == {ShownId(n) : n \in S}

ShownLinks(S) ==
    {LinkId(l) : l \in {k \in S : ShownId(k.from) = Id(k.from) /\ ShownId(k.to) = Id(k.to)}}

AllNamed == \A id \in ToSet(reply.slice.nodes) : id[1] # "Other"

Whole ==
    LET ids  == ToSet(reply.slice.nodes)
        rels == ToSet(reply.slice.relationships)
    IN  CASE request.op = "snapshot" -> ids = ShownIds({n \in graph : n.label = AreaLabel})
          [] request.op = "expand"   ->
               \A c \in WithId(request.id) :
                 /\ ids = ShownIds({c} \union ToSet(NeighboursOf(c)))
                 /\ rels = ShownLinks(ToSet(LinksOf(c)))
          [] request.op = "search"   -> ids = ShownIds(request.found \intersect graph)
          [] request.op = "detail"   ->
               \A c \in WithId(request.id) : ids = ShownIds(ToSet(NeighboursOf(c)))
          [] request.op = "relationship" -> rels = {LinkId(request.link)}

(* The flag `truncated` tells the panel whether there is more to load.  An  *)
(* answer without it has everything that was asked for and that the backend *)
(* has an id for; and an answer that has everything, under ids that can be  *)
(* asked for again, does not ask the user to narrow the view               *)
(* (graph_backends.py:256).  A detail is held to its nodes.                 *)
UncutIsWhole ==
    IsAnswered =>
        /\ ~ reply.slice.truncated => Whole
        /\ request.op # "detail" /\ Whole /\ AllNamed => ~ reply.slice.truncated

\* A slice is what was asked for, and says if it is not all of it.
SliceIsExact == AnswerIsClosed /\ UncutIsWhole
=============================================================================
