----------------------------- MODULE GraphIndex -----------------------------
(***************************************************************************)
(* build_graph_index (crates/treedx_graph/src/index/): from the documents  *)
(* of a commit to the nodes and edges of its graph, and to what changed    *)
(* since the previous manifest.                                            *)
(*                                                                         *)
(* A document is what the build reads of it: its path (directories, stem   *)
(* and the extensions after it, in their order), its object id, the fields *)
(* of its frontmatter, its headings in order and its links.  Ids are       *)
(* tuples that hold what the code hashes.  Offsets into a body are         *)
(* positions among its headings.  The searches of GroupClosure run in      *)
(* between, so that a build is the sequence ReadDocuments, searches,       *)
(* FinishIndex.                                                            *)
(***************************************************************************)
EXTENDS GroupClosure, Integers, Sequences, FiniteSets

CONSTANTS
    Inputs,      \* the inputs to build from: [docs, prior]
    NoPath,      \* the path of a node that has none
    NoOwner,     \* the owner of a node that belongs to no file
    NoRelation,  \* the relation of a document that states none
    NoManifest   \* prior: there is no previous manifest

VARIABLES
    input,    \* the documents of the commit, and those of the previous manifest
    phase,    \* how far the build is
    index     \* the index, once it is built

indexVars == <<input, phase, index>>

-----------------------------------------------------------------------------
(***************************************************************************)
(* Parsing.                                                                *)
(***************************************************************************)

NoMeta == [groups |-> {}, relation |-> NoRelation, declares |-> {}, series |-> {}, depends |-> {},
           title |-> {}]

\* parse_document: frontmatter that has no end or is no YAML mapping counts for
\* nothing, and the whole text is the body.
Meta(d) == IF d.front = "valid" THEN d.meta ELSE NoMeta

\* trim_end_matches: as often as the extension stands at the end.
TrimEnd(exts, x) ==
    SubSeq(exts, 1, CHOOSE n \in 0 .. Len(exts) :
                      /\ \A i \in n + 1 .. Len(exts) : exts[i] = x
                      /\ n > 0 => exts[n] # x)

\* strip_extension: "a.md.txt" becomes the path "a.md", "a.txt.md" the path "a".
Stripped(p) == [p EXCEPT !.ext = TrimEnd(TrimEnd(TrimEnd(@, "md"), "mdx"), "txt")]

\* The loop of resolve_link_path over a path's components: nowhere for http and fragments; from the root for an absolute
\* target; up one directory for each "..", and not above the root.
ResolveLinkPath(from, t) ==
    LET base == IF t.kind = "absolute" THEN <<>>
                ELSE SubSeq(from.dirs, 1, Len(from.dirs) - t.up)
    IN  IF t.kind = "external" THEN {}
        ELSE {[dirs |-> base \o t.dirs, stem |-> t.stem, ext |-> t.ext]}

\* section_ranges: a section ends before the first later heading of its level or above.
SectionEnd(hs, i) ==
    LET later == {j \in i + 1 .. Len(hs) : hs[j].level <= hs[i].level}
    IN  IF later = {} THEN Len(hs) + 1 ELSE CHOOSE j \in later : \A k \in later : j <= k

\* The inputs of a build: a tree holds a path once; what the parser finds in a document
\* is finite, and group ids are normalised.
IsSeq(s) == s \in Seq({s[i] : i \in DOMAIN s})

WellFormed(d) ==
    /\ IsSeq(d.headings) /\ \A i \in DOMAIN d.headings : d.headings[i].level \in Nat
    /\ \A i \in DOMAIN d.headings : IsFiniteSet(d.headings[i].words)
    /\ IsFiniteSet(d.words) /\ IsFiniteSet(d.links)
    /\ \A f \in {"groups", "declares", "series", "depends"} : IsFiniteSet(Meta(d)[f])
    /\ Meta(d).groups \cup Meta(d).declares \subseteq Groups
    /\ Meta(d).relation # NoRelation =>
         {Meta(d).relation.from, Meta(d).relation.to} \subseteq Groups

ASSUME IndexInputs ==
    \A in \in Inputs :
        /\ IsSeq(in.docs)
        /\ \A i, j \in DOMAIN in.docs : in.docs[i].path = in.docs[j].path => i = j
        /\ \A i \in DOMAIN in.docs : WellFormed(in.docs[i])

-----------------------------------------------------------------------------
(***************************************************************************)
(* Nodes and edges.                                                        *)
(***************************************************************************)
Edge(source, type, target, owner) ==
    [source |-> source, type |-> type, target |-> target, owner |-> owner]

\* metadata_node, and the Reference nodes for the commit, the ref, a directory, an
\* entity or an unresolved link.
Entity(id, type, entity, owner) ==
    [id |-> id, type |-> type, entity |-> entity, owner |-> owner, path |-> NoPath,
     groups |-> {}, effective |-> {}, title |-> {}, text |-> {}, range |-> <<0, 0>>]

CommitId == <<"commit">>
RefId == <<"ref">>
FileId(p) == <<"file", p>>
DirectoryId(p) == <<"directory", p.dirs>>
GroupId(g) == <<"group", g>>
SeriesId(s) == <<"series", s>>
ReferenceId(t) == <<"reference", t>>
EntityId(p, end) == <<"entity", p, end>>
SectionId(p, headingPath, n) == <<"section", p, headingPath, n>>

\* The words of a document from position i up to position j; position 0 is what
\* stands before its first heading.
TextOf(d, i, j) ==
    (IF i = 0 THEN d.words ELSE {})
    \cup UNION {d.headings[k].words : k \in {l \in DOMAIN d.headings : i <= l /\ l < j}}

FileNode(d) ==
    [id |-> FileId(d.path), type |-> "File", entity |-> "", owner |-> d.path,
     path |-> d.path, groups |-> Meta(d).groups, effective |-> {}, title |-> Meta(d).title,
     text |-> TextOf(d, 0, Len(d.headings) + 1), range |-> <<0, 0>>]

SectionNode(d, id, range) ==
    [id |-> id, type |-> "Section", entity |-> "", owner |-> d.path,
     path |-> d.path, groups |-> {}, effective |-> {}, title |-> {},
     text |-> TextOf(d, range[1], range[2]), range |-> range]

\* append_typed_dependency_links: a link without both ends complete is a warning.
DependencyNodes(d) ==
    {Entity(EntityId(d.path, end), "Reference", "ExactEntityReference", d.path) :
        end \in UNION {{l.from, l.to} : l \in Meta(d).depends}}
DependencyEdges(d) ==
    {Edge(EntityId(d.path, l.from), "DEPENDS_ON", EntityId(d.path, l.to), d.path) :
        l \in Meta(d).depends}

\* ordinals: how many earlier headings have this heading path.
Ordinal(sections, headingPath) ==
    Cardinality({i \in DOMAIN sections : sections[i].headingPath = headingPath})

\* Mutant: a heading closes only sections that are deeper than it.
PopDeeper(stack, level) ==
    LET open == {k \in DOMAIN stack : stack[k].level <= level}
    IN  IF open = {} THEN <<>>
        ELSE SubSeq(stack, 1, CHOOSE k \in open : \A j \in open : j <= k)

\* `while stack.last() ... stack.pop()`: up to the last open section above the heading.
Pop(stack, level) ==
    LET open == {k \in DOMAIN stack : stack[k].level < level}
    IN  IF open = {} THEN <<>>
        ELSE SubSeq(stack, 1, CHOOSE k \in open : \A j \in open : j <= k)

\* The n-th heading, after the sections of those before it.  A section's heading path is
\* its slug under its parent's id, and `previous` is the section before it, for the first
\* one itself.
AddSection(d, n, acc) ==
    LET h == d.headings[n]
        stack == Pop(acc.stack, h.level)
        parent == IF stack = <<>> THEN <<>> ELSE stack[Len(stack)].id
        headingPath == <<parent, h.slug>>
        id == SectionId(d.path, headingPath, Ordinal(acc.sections, headingPath))
    IN  [stack |-> Append(stack, [level |-> h.level, id |-> id]),
         sections |-> Append(acc.sections,
            [id |-> id, headingPath |-> headingPath, parent |-> parent,
             previous |-> IF n = 1 THEN id ELSE acc.sections[n - 1].id,
             range |-> <<n, SectionEnd(d.headings, n)>>])]

\* The loop over the headings.
HeadingSections(d) ==
    LET loop[n \in 0 .. Len(d.headings)] ==
          IF n = 0 THEN [stack |-> <<>>, sections |-> <<>>]
                   ELSE AddSection(d, n, loop[n - 1])
    IN  loop[Len(d.headings)].sections

\* A text without headings is one section, but for an empty one.
Sections(d) ==
    LET headingPath == <<<<>>, "__intro">>
    IN  IF d.headings # <<>> THEN HeadingSections(d)
        ELSE IF d.words = {} THEN <<>>
        ELSE <<[id |-> SectionId(d.path, headingPath, 0), headingPath |-> headingPath,
                parent |-> <<>>, previous |-> <<>>, range |-> <<0, 1>>]>>

SectionEdges(d) ==
    UNION {
      LET s == Sections(d)[i] IN
        {Edge(FileId(d.path), "HAS_SECTION", s.id, d.path),
         Edge(s.id, "BELONGS_TO_FILE", FileId(d.path), d.path)}
        \cup (IF s.parent = <<>> THEN {}
              ELSE {Edge(s.id, "PARENT_SECTION", s.parent, d.path),
                    Edge(s.parent, "CHILD_SECTION", s.id, d.path)})
        \cup (IF s.previous = <<>> THEN {}
              ELSE {Edge(s.previous, "NEXT_SECTION", s.id, d.path),
                    Edge(s.id, "PREV_SECTION", s.previous, d.path)})
      : i \in DOMAIN Sections(d)}

\* What the loop over the documents pushes for one of them.
NamedGroups(d) ==
    Meta(d).declares \cup Meta(d).groups
    \cup IF Meta(d).relation = NoRelation THEN {}
         ELSE {Meta(d).relation.from, Meta(d).relation.to}

DocumentNodes(d) ==
    DependencyNodes(d)
    \cup {Entity(GroupId(g), "Group", "Group", NoOwner) : g \in NamedGroups(d)}
    \cup {Entity(SeriesId(s), "Series", "Series", NoOwner) : s \in Meta(d).series}
    \cup {FileNode(d), Entity(DirectoryId(d.path), "Reference", "Directory", NoOwner)}
    \cup {SectionNode(d, Sections(d)[i].id, Sections(d)[i].range) : i \in DOMAIN Sections(d)}

DocumentEdges(d) ==
    DependencyEdges(d)
    \cup {Edge(FileId(d.path), "DEFINED_BY", CommitId, d.path),
          Edge(RefId, "DEFINES", FileId(d.path), d.path),
          Edge(FileId(d.path), "BELONGS_TO", DirectoryId(d.path), d.path)}
    \cup {Edge(FileId(d.path), "HAS_GROUP", GroupId(g), d.path) : g \in Meta(d).groups}
    \cup {Edge(FileId(d.path), "IN_SERIES", SeriesId(s), d.path) : s \in Meta(d).series}
    \cup SectionEdges(d)

-----------------------------------------------------------------------------
(***************************************************************************)
(* Groups and links, over all documents.                                   *)
(***************************************************************************)
Documents == {input.docs[i] : i \in DOMAIN input.docs}
Relations == {Meta(d).relation : d \in {e \in Documents : Meta(e).relation # NoRelation}}

RelationEdges ==
    {Edge(GroupId(Meta(d).relation.from), "GROUP_RELATION", GroupId(Meta(d).relation.to), d.path) :
        d \in {e \in Documents : Meta(e).relation # NoRelation}}

\* direct_by_file and `direct`: a node that is no file takes its owner's groups.
DirectGroups(n) ==
    UNION {Meta(d).groups : d \in {e \in Documents : e.path = n.owner}}

WithEffective(n) ==
    [n EXCEPT !.effective = UNION {closure[g] : g \in DirectGroups(n)}]

EffectiveEdges ==
    UNION {{Edge(FileId(d.path), "EFFECTIVE_GROUP", GroupId(g), d.path) :
              g \in (UNION {closure[h] : h \in Meta(d).groups}) \ Meta(d).groups} : d \in Documents}

\* file_by_path: every document is inserted under its stripped path, then under its
\* path; the last insertion counts.
FilesAt(p) ==
    {i \in DOMAIN input.docs :
        /\ p \in {input.docs[i].path, Stripped(input.docs[i].path)}
        /\ \A j \in i + 1 .. Len(input.docs) :
              p \notin {input.docs[j].path, Stripped(input.docs[j].path)}}

\* Mutant: the stripped path is looked up before the path.
LinkTargetsBareFirst(from, t) ==
    LET exact == UNION {FilesAt(p) : p \in ResolveLinkPath(from, t)}
        bare == UNION {FilesAt(Stripped(p)) : p \in ResolveLinkPath(from, t)}
    IN  IF bare # {} THEN bare ELSE exact

\* The look-ups of `target_id`: the path, then the stripped path.
LinkTargets(from, t) ==
    LET exact == UNION {FilesAt(p) : p \in ResolveLinkPath(from, t)}
        bare == UNION {FilesAt(Stripped(p)) : p \in ResolveLinkPath(from, t)}
    IN  IF exact # {} THEN exact ELSE bare

LinkTarget(d, t) ==
    LET found == LinkTargets(d.path, t)
    IN  IF found = {} THEN ReferenceId(t)
        ELSE FileId(input.docs[CHOOSE i \in found : TRUE].path)

LinkEdges ==
    UNION {{Edge(FileId(d.path), "LINKS_TO", LinkTarget(d, t), d.path) : t \in d.links} :
             d \in Documents}

Dangling(d) == {t \in d.links : LinkTargets(d.path, t) = {}}

\* dedupe keeps the first node of an id: of the documents that hold an unresolved
\* link, the first one owns its node.
Unresolved ==
    UNION {{Entity(ReferenceId(t), "Reference", "Reference", input.docs[i].path) :
              t \in {u \in Dangling(input.docs[i]) :
                       \A j \in 1 .. i - 1 : u \notin Dangling(input.docs[j])}} :
             i \in DOMAIN input.docs}

-----------------------------------------------------------------------------
NoDelta == [added |-> {}, modified |-> {}, removed |-> {}]

\* Both maps are keyed by path; object ids tell what was modified.
DeltaOf(prior, docs) ==
    LET old == {prior[i].path : i \in DOMAIN prior}
        new == {docs[i].path : i \in DOMAIN docs}
        Object(s, p) == s[CHOOSE i \in DOMAIN s : s[i].path = p].object
    IN  [added    |-> new \ old,
         modified |-> {p \in new \cap old : Object(prior, p) # Object(docs, p)},
         removed  |-> old \ new]

\* compute_delta.
ComputeDelta(prior, docs) ==
    CASE prior = NoManifest -> DeltaOf(<<>>, docs)
      [] prior = <<>>       -> NoDelta
      [] OTHER              -> DeltaOf(prior, docs)

NoIndex == [nodes |-> {}, edges |-> {}, delta |-> NoDelta, files |-> 0, sections |-> 0,
            unresolved |-> 0]

BuiltIndex ==
    LET read == {Entity(CommitId, "Reference", "Commit", NoOwner),
                 Entity(RefId, "Reference", "GitRef", NoOwner)}
                \cup UNION {DocumentNodes(d) : d \in Documents}
        nodes == {WithEffective(n) : n \in read} \cup Unresolved
    IN  [nodes |-> nodes,
         edges |-> (UNION {DocumentEdges(d) : d \in Documents})
                   \cup RelationEdges \cup EffectiveEdges \cup LinkEdges,
         delta |-> ComputeDelta(input.prior, input.docs),
         files |-> Len(input.docs),
         sections |-> Cardinality({n \in nodes : n.type = "Section"}),
         unresolved |-> Cardinality({n \in nodes : n.entity = "Reference"})]

-----------------------------------------------------------------------------
IndexInit ==
    /\ input \in Inputs
    /\ phase = "documents"
    /\ index = NoIndex
    /\ parents = [g \in Groups |-> {}]
    /\ GroupInit

\* The loop over the documents up to apply_group_hierarchy: `parents` takes the
\* relations that propagate membership.
ReadDocuments ==
    /\ phase = "documents"
    /\ phase' = "groups"
    /\ parents' = [g \in Groups |->
                     {r.to : r \in {q \in Relations : q.from = g /\ q.propagates}}]
    /\ UNCHANGED <<input, index, origin, queue, visited, closure, cyclic>>

\* One step of the search for a group that some document names.
SearchGroups ==
    /\ phase = "groups"
    /\ \/ \E g \in UNION {Meta(d).groups : d \in Documents} : StartOrigin(g)
       \/ \E g \in Groups : VisitParents(g)
       \/ FinishOrigin
    /\ UNCHANGED indexVars

\* Effective groups, links, delta and metrics.
FinishIndex ==
    /\ phase = "groups"
    /\ origin = NoGroup
    /\ UNION {Meta(d).groups : d \in Documents} \subseteq DOMAIN closure
    /\ index' = BuiltIndex
    /\ phase' = "built"
    /\ UNCHANGED <<input, groupVars>>

IndexNext == ReadDocuments \/ SearchGroups \/ FinishIndex

IndexSpec == IndexInit /\ [][IndexNext]_<<indexVars, groupVars>>

-----------------------------------------------------------------------------
(***************************************************************************)
(* Properties.                                                             *)
(***************************************************************************)
Built == phase = "built"

SectionsOf(d) == {n \in index.nodes : n.type = "Section" /\ n.owner = d.path}

\* The stack of open headings and section_ranges are computed apart and must agree:
\* every heading has a section of its own, whatever names repeat; a section's text
\* lies within its parent's; and the parent is the nearest enclosing one.
SectionsNest ==
    Built => \A d \in Documents :
        /\ d.headings # <<>> => Cardinality(SectionsOf(d)) = Len(d.headings)
        /\ \A s, t \in SectionsOf(d) :
             LET below == s.range[1] < t.range[1] /\ t.range[2] <= s.range[2]
                 between == {u \in SectionsOf(d) : /\ s.range[1] < u.range[1]
                                                   /\ u.range[1] < t.range[1]
                                                   /\ t.range[2] <= u.range[2]}
             IN  Edge(t.id, "PARENT_SECTION", s.id, d.path) \in index.edges
                   <=> below /\ between = {}

\* A link leads to the document at exactly its path, unless the stripped path of a later
\* document is that path too and takes its place in the map; where it does not, it leads
\* to one of the documents under its path or its stripped path, and only without any is
\* it an unresolved reference.  No edge of the index ends at a node that is not in it.
LinksLeadHome ==
    Built =>
        /\ \A e \in index.edges : {e.source, e.target} \subseteq {n.id : n \in index.nodes}
        /\ \A d \in Documents : \A t \in d.links : \A at \in ResolveLinkPath(d.path, t) :
             LET near == {e \in Documents :
                            {e.path, Stripped(e.path)} \cap {at, Stripped(at)} # {}}
                 taken(i) == \E j \in i + 1 .. Len(input.docs) :
                               Stripped(input.docs[j].path) = at
                 ends == {e.target : e \in {f \in index.edges :
                                              f.type = "LINKS_TO" /\ f.owner = d.path}}
             IN  /\ \A i \in DOMAIN input.docs :
                      input.docs[i].path = at /\ ~taken(i) => FileId(at) \in ends
                 /\ IF near = {} THEN ReferenceId(t) \in ends
                    ELSE \E e \in near : FileId(e.path) \in ends
=============================================================================
