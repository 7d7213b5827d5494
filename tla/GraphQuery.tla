----------------------------- MODULE GraphQuery -----------------------------
(***************************************************************************)
(* Queries on a built index (crates/treedx_graph/src/query/mod.rs) and the *)
(* context pack made of an answer (context/mod.rs): seeds, the expansion   *)
(* along edges, the lexical search, filters, ranking and budgets.          *)
(*                                                                         *)
(* Scores are doubled, so that 100 / 2^3 is a natural; depths and limits   *)
(* that a request leaves out are None.  A query is one word, a text the    *)
(* set of its words.                                                       *)
(***************************************************************************)
EXTENDS GraphIndex

CONSTANTS
    Requests(_),  \* the requests asked of the index of an input
    NoWord,       \* the request has no query
    Bytes         \* for each word, the bytes it takes in a text

None == -1

\* Requests carry numbers or None, and every word has a length.
ASSUME QueryRequests ==
    /\ \A w \in DOMAIN Bytes : Bytes[w] \in Nat
    /\ \A in \in Inputs : \A i \in DOMAIN in.docs :
         LET d == in.docs[i] IN
         /\ d.words \subseteq DOMAIN Bytes
         /\ \A k \in DOMAIN d.headings : d.headings[k].words \subseteq DOMAIN Bytes
    /\ \A in \in Inputs : \A r \in Requests(in) :
         /\ IsSeq(r.ids) /\ IsSeq(r.seeds)
         /\ {r.depth, r.limit, r.maxNodes, r.packNodes} \subseteq Int
         /\ r.maxTokens \in Nat \cup {None}

VARIABLES
    ask,       \* the request under way
    todo,      \* the seed ids still to expand
    seeds,     \* seed_ids: those that are in the index
    queue2,    \* the queue of expand: ids with their depth
    seen,      \* the set seen by expand
    scores,    \* the map `scores`: [score, depth] by node id
    answer,    \* the result of query_graph
    pack       \* the result of build_context_pack

queryVars == <<ask, todo, seeds, queue2, seen, scores, answer, pack>>

SE == INSTANCE SequencesExt

-----------------------------------------------------------------------------
Clamped(value, default, low, high) ==
    LET v == IF value = None THEN default ELSE value
    IN  IF v < low THEN low ELSE IF v > high THEN high ELSE v

Depth(r) == Clamped(r.depth, 1, 0, 3)
Limit(value) == Clamped(value, 20, 1, 50)

NodeIds == {n.id : n \in index.nodes}
Node(id) == CHOOSE n \in index.nodes : n.id = id

\* score_term for one word: 5 for the title and one for an occurrence in the text.  The
\* words of a request occur in no heading, path or group.
LexicalScore(n, w) ==
    (IF w \in n.title THEN 10 ELSE 0) + (IF w \in n.text THEN 2 ELSE 0)

\* The elements of a finite set by falling key, each once: a list is continued with
\* the best of the others.
Continued(S, key, list) ==
    LET rest == S \ SE!ToSet(list)
    IN  Append(list, CHOOSE x \in rest : \A y \in rest : key[x] >= key[y])

Listed(S, key) ==
    LET list[n \in 0 .. Cardinality(S)] ==
          IF n = 0 THEN <<>> ELSE Continued(S, key, list[n - 1])
    IN  list[Cardinality(S)]

\* Any fixed order of ids, for they are hashes.
AsSeq(S) == Listed(S, [x \in S |-> 0])

\* sort_by score, then id.
Ranked(S) == Listed(S, [e \in S |-> e.score])

Truncated(s, n) == SubSeq(s, 1, IF Len(s) < n THEN Len(s) ELSE n)

-----------------------------------------------------------------------------
\* relation_allowed: the edge types that a relation names, of those an index has.
EdgeTypes(relation) ==
    CASE relation = "related"    -> {"LINKS_TO", "HAS_GROUP", "EFFECTIVE_GROUP", "IN_SERIES"}
      [] relation = "references" -> {"LINKS_TO"}
      [] relation = "parent"     -> {"PARENT_SECTION"}
      [] relation = "child"      -> {"CHILD_SECTION"}
      [] relation = "depends_on" -> {"DEPENDS_ON"}
      [] OTHER                   -> {}

Followed(r) ==
    {e \in index.edges : r.relations = {} \/ \E q \in r.relations : e.type \in EdgeTypes(q)}

Neighbours(r, id) ==
    {e.target : e \in {f \in Followed(r) : f.source = id}}
    \cup {e.source : e \in {f \in Followed(r) : f.target = id}}

\* seed_node_ids: the nodes one seed stands for.
SeedNodes(s) ==
    CASE s.kind = "id"    -> {s.value}
      [] s.kind = "path"  -> {n.id : n \in {m \in index.nodes : m.path = s.value}}
      [] s.kind = "group" -> {n.id : n \in {m \in index.nodes : s.value \in m.effective}}
      [] s.kind = "type"  -> {n.id : n \in {m \in index.nodes : s.value \in {m.type, m.entity}}}
      [] s.kind = "query" -> {n.id : n \in {m \in index.nodes : LexicalScore(m, s.value) > 0}}
      [] OTHER            -> {}

SeedNodeIds(r) ==
    LET ids[n \in 0 .. Len(r.seeds)] ==
          IF n = 0 THEN r.ids ELSE ids[n - 1] \o AsSeq(SeedNodes(r.seeds[n]))
    IN  ids[Len(r.seeds)]

\* subgraph: the ids take the place of the request's seed_ids, before its other seeds.
Subgraph(r, ids) == [r EXCEPT !.ids = ids]

RelatedNodes(r, id) == [Subgraph(r, <<id>>) EXCEPT !.depth = IF @ = None THEN 1 ELSE @]

-----------------------------------------------------------------------------
TypeMatches(n, types) == types = {} \/ n.type \in types

\* scope_matches.
ScopeMatches(n, scope) ==
    CASE scope = "files"    -> n.type = "File"
      [] scope = "sections" -> n.type = "Section"
      [] scope = "entities" -> n.type \notin {"File", "Section"}
      [] OTHER              -> TRUE

\* path_matches: a scope is a directory, of which whole components count, or a file;
\* the root matches nothing.
PathMatches(n, scopes) ==
    \/ scopes = {}
    \/ /\ n.path # NoPath
       /\ \E s \in scopes :
            \/ s.file = n.path
            \/ s.file = NoPath /\ s.dirs # <<>> /\ SE!IsPrefix(s.dirs, n.path.dirs)

\* where_matches, for the fields that differ in how they are read.
FieldValues(n, field) ==
    CASE field = "type"             -> {IF n.entity = "" THEN n.type ELSE n.entity}
      [] field = "groupId"          -> n.groups
      [] field = "effectiveGroupId" -> n.effective
      [] OTHER                      -> {}

WhereMatches(n, filters) ==
    \A f \in filters :
        IF f.op = "in" THEN f.values \cap FieldValues(n, f.field) # {}
                       ELSE f.values \subseteq FieldValues(n, f.field)

Matches(n, r) ==
    PathMatches(n, r.paths) /\ WhereMatches(n, r.where) /\ TypeMatches(n, r.types)

\* What search_graph finds: the nodes of the scope and types with a score.
Hits(r) ==
    {[id |-> n.id, score |-> LexicalScore(n, r.word)] :
       n \in {m \in index.nodes : /\ ScopeMatches(m, r.scope)
                                  /\ TypeMatches(m, r.types)
                                  /\ LexicalScore(m, r.word) > 0}}

\* search_graph: the best `limit` of them, before any path is looked at.
SearchGraph(r) ==
    LET hits == Hits(r)
    IN  IF r.word = NoWord THEN <<>> ELSE Truncated(Ranked(hits), Limit(r.limit))

NoAnswer == [seedIds |-> {}, entries |-> <<>>, edges |-> {}]

\* Expanded scores with those of the search added, an entry (0, 0) where there is none.
\* A search finds a node once.
Scored(r) ==
    LET hits == SE!ToSet(SearchGraph(r))
        Base(id) == IF id \in DOMAIN scores THEN scores[id] ELSE [score |-> 0, depth |-> 0]
        Found(id) == IF \E h \in hits : h.id = id
                     THEN (CHOOSE h \in hits : h.id = id).score ELSE 0
    IN  {[id |-> id, depth |-> Base(id).depth, score |-> Base(id).score + Found(id)] :
           id \in DOMAIN scores \cup {h.id : h \in hits}}

MaxNodes(r) == Limit(IF r.maxNodes = None THEN r.limit ELSE r.maxNodes)

\* Mutant: the result is cut before it is filtered.
EntriesCutFirst(r) ==
    SelectSeq(Truncated(Ranked(Scored(r)), MaxNodes(r)), LAMBDA e : Matches(Node(e.id), r))

\* The filters, the order and the limit of query_graph.
Entries(r) == Truncated(Ranked({e \in Scored(r) : Matches(Node(e.id), r)}), MaxNodes(r))

EdgesAmong(r, ids) ==
    {e \in index.edges : /\ {e.source, e.target} \subseteq ids
                         /\ r.edgeTypes = {} \/ e.type \in r.edgeTypes}

\* What query_graph returns.
Answer(r) ==
    [seedIds |-> SE!ToSet(seeds) \cup {h.id : h \in SE!ToSet(SearchGraph(r))},
     entries |-> Entries(r),
     edges   |-> EdgesAmong(r, {Entries(r)[i].id : i \in DOMAIN Entries(r)})]

-----------------------------------------------------------------------------
(***************************************************************************)
(* Context packs.                                                          *)
(***************************************************************************)
NoPack == [total |-> 0, nodes |-> <<>>]

IncludedByMode(n, mode) ==
    CASE mode = "files"    -> n.type = "File"
      [] mode = "sections" -> n.type = "Section"
      [] mode = "mixed"    -> n.type \in {"File", "Section"}
      [] OTHER             -> TRUE

\* The length of a text.
TextBytes(text) ==
    LET words == AsSeq(text)
        bytes[n \in 0 .. Len(words)] == IF n = 0 THEN 0 ELSE bytes[n - 1] + Bytes[words[n]]
    IN  bytes[Len(words)]

\* Mutant: what is left of the budget is not looked at.
TokenEstimateUncut(n, remaining) == (TextBytes(n.text) + 3) \div 4

\* token_estimate of the text cut to what remains: a quarter of its bytes, at least
\* one, and no more than remains.
TokenEstimate(n, remaining) ==
    LET tokens == (TextBytes(n.text) + 3) \div 4
    IN  IF tokens < remaining THEN tokens ELSE remaining

MaxTokens(r) == IF r.maxTokens = None THEN 1800 ELSE r.maxTokens
MaxPacked(r) == Clamped(r.packNodes, 8, 1, 50)

\* One entry, with what the pack holds so far.
AddToPack(r, e, acc) ==
    LET remaining == MaxTokens(r) - acc.total
        estimate == TokenEstimate(Node(e.id), remaining)
    IN  IF \/ Len(acc.nodes) >= MaxPacked(r)
           \/ ~IncludedByMode(Node(e.id), r.mode)
           \/ remaining = 0
           \/ Node(e.id).text = {}
        THEN acc
        ELSE [total |-> acc.total + estimate,
              nodes |-> Append(acc.nodes, [id |-> e.id, tokens |-> estimate])]

\* The loop of build_context_pack.
BuildContextPack(r, entries) ==
    LET loop[n \in 0 .. Len(entries)] ==
          IF n = 0 THEN NoPack ELSE AddToPack(r, entries[n], loop[n - 1])
    IN  loop[Len(entries)]

-----------------------------------------------------------------------------
QueryInit ==
    /\ IndexInit
    /\ ask \in Requests(input)
    /\ todo = <<>> /\ seeds = <<>> /\ queue2 = <<>> /\ seen = {}
    /\ scores = [id \in {} |-> [score |-> 0, depth |-> 0]]
    /\ answer = NoAnswer
    /\ pack = NoPack

QueryGraph ==
    /\ phase = "built"
    /\ phase' = "expanding"
    /\ todo' = SeedNodeIds(ask)
    /\ UNCHANGED <<input, index, groupVars, ask, seeds, queue2, seen, scores, answer, pack>>

\* One turn of the loop over the seeds: the seed's entry is overwritten.
TakeSeed ==
    /\ phase = "expanding" /\ queue2 = <<>> /\ todo # <<>>
    /\ todo' = Tail(todo)
    /\ IF Head(todo) \in NodeIds
       THEN /\ seeds' = Append(seeds, Head(todo))
            /\ scores' = [id \in DOMAIN scores \cup {Head(todo)} |->
                            IF id = Head(todo) THEN [score |-> 200, depth |-> 0]
                                               ELSE scores[id]]
            /\ queue2' = <<[id |-> Head(todo), depth |-> 0]>>
            /\ seen' = {Head(todo)}
       ELSE UNCHANGED <<seeds, scores, queue2, seen>>
    /\ UNCHANGED <<indexVars, groupVars, ask, answer, pack>>

\* Mutant: one level too many.
AtDepth(d, r) == d > Depth(r)

\* `if current_depth >= max_depth { continue; }`
DepthReached(d, r) == d >= Depth(r)

\* One turn of the while loop of expand: neighbours not seen yet get the score of their
\* depth, unless an earlier seed or search gave them one.
Expand ==
    /\ phase = "expanding" /\ queue2 # <<>>
    /\ LET at == Head(queue2)
           next == IF DepthReached(at.depth, ask) THEN {} ELSE Neighbours(ask, at.id) \ seen
           entry == [score |-> 200 \div 2 ^ (at.depth + 1), depth |-> at.depth + 1]
       IN  /\ queue2' = Tail(queue2) \o
                          AsSeq({[id |-> n, depth |-> at.depth + 1] : n \in next})
           /\ seen' = seen \cup next
           /\ scores' = [n \in DOMAIN scores \cup next |->
                           IF n \in DOMAIN scores THEN scores[n] ELSE entry]
    /\ UNCHANGED <<indexVars, groupVars, ask, todo, seeds, answer, pack>>

\* The rest of query_graph, and the context pack of its answer.
FinishQuery ==
    /\ phase = "expanding" /\ queue2 = <<>> /\ todo = <<>>
    /\ answer' = Answer(ask)
    /\ pack' = BuildContextPack(ask, Answer(ask).entries)
    /\ phase' = "answered"
    /\ UNCHANGED <<input, index, groupVars, ask, todo, seeds, queue2, seen, scores>>

QueryNext ==
    \/ IndexNext /\ UNCHANGED queryVars
    \/ QueryGraph
    \/ TakeSeed
    \/ Expand
    \/ FinishQuery

QuerySpec == QueryInit /\ [][QueryNext]_<<indexVars, groupVars, queryVars>>

-----------------------------------------------------------------------------
(***************************************************************************)
(* Properties.                                                             *)
(***************************************************************************)
Answered == phase = "answered"

\* The nodes within k followed edges of a seed.
Wider(r, ids) == ids \cup UNION {Neighbours(r, n) : n \in ids}
Ball(r, seed) ==
    LET ball[k \in 0 .. 3] == IF k = 0 THEN {seed} ELSE Wider(r, ball[k - 1])
    IN  ball

\* expand: a node has a score exactly if it is within the requested depth of a seed, in
\* either direction of an edge; its depth is its distance from the first seed that
\* reaches it (not from the nearest one), zero for a seed; 100 halves with each step.
ScoresAreDistances ==
    Answered =>
        LET Reached(i) == Ball(ask, seeds[i])[Depth(ask)]
            First(n) == CHOOSE i \in DOMAIN seeds :
                          n \in Reached(i) /\ \A j \in 1 .. i - 1 : n \notin Reached(j)
            Distance(n) == CHOOSE k \in 0 .. 3 :
                             /\ n \in Ball(ask, seeds[First(n)])[k]
                             /\ \A l \in 0 .. k - 1 : n \notin Ball(ask, seeds[First(n)])[l]
        IN  /\ DOMAIN scores = UNION {Reached(i) : i \in DOMAIN seeds}
            /\ \A n \in DOMAIN scores :
                 /\ scores[n].depth = IF n \in SE!ToSet(seeds) THEN 0 ELSE Distance(n)
                 /\ scores[n].score * 2 ^ scores[n].depth = 200

\* What a node has to its credit: its score of the expansion and, if it holds the word
\* and fewer than `limit` others do so no worse, that of the search.
Credit(r, n) ==
    LET found == {h \in Hits(r) : h.id = n.id}
        Rivals(h) == {o \in Hits(r) \ {h} : o.score >= h.score}
    IN  (IF n.id \in DOMAIN scores THEN scores[n.id].score ELSE 0)
        + (IF /\ r.word # NoWord
              /\ \E h \in found : Cardinality(Rivals(h)) < Limit(r.limit)
           THEN LexicalScore(n, r.word) ELSE 0)

\* The answer holds only nodes and edges inside the requested paths, types and filters.
\* A node that passes them is left out only when the answer is full of nodes that score
\* at least its credit, or when it has none: the search keeps its best `limit` nodes
\* before the paths and filters are looked at, so that a node that holds the word can be
\* crowded out by nodes that are filtered afterwards.
AnswerIsBestInScope ==
    Answered =>
        LET ids == {answer.entries[i].id : i \in DOMAIN answer.entries}
        IN  /\ \A id \in ids : Matches(Node(id), ask)
            /\ \A e \in answer.edges : {e.source, e.target} \subseteq ids
            /\ \A id \in NodeIds \ ids :
                 Matches(Node(id), ask) /\ Credit(ask, Node(id)) > 0 =>
                    /\ Len(answer.entries) = MaxNodes(ask)
                    /\ \A i \in DOMAIN answer.entries :
                         answer.entries[i].score >= Credit(ask, Node(id))

\* The entries that can be in a pack.
Usable(r, entries) ==
    {i \in DOMAIN entries : LET n == Node(entries[i].id)
                            IN  IncludedByMode(n, r.mode) /\ n.text # {}}

\* A pack keeps to its token budget and its number of nodes, and takes the best entries
\* that have a text, in their order: one is left out only when a limit was reached, or
\* for its type.
PackWithinBudget ==
    Answered =>
        LET usable == Usable(ask, answer.entries)
            Place(i) == Cardinality({j \in usable : j <= i})
        IN  /\ pack.total <= MaxTokens(ask)
            /\ Len(pack.nodes) <= MaxPacked(ask) /\ Len(pack.nodes) <= Cardinality(usable)
            /\ \A i \in usable :
                 IF Place(i) <= Len(pack.nodes)
                 THEN pack.nodes[Place(i)].id = answer.entries[i].id
                 ELSE pack.total = MaxTokens(ask) \/ Len(pack.nodes) = MaxPacked(ask)
=============================================================================
