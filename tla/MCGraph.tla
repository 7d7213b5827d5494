------------------------------ MODULE MCGraph -------------------------------
(***************************************************************************)
(* Instances of GraphIndex and GraphQuery for TLC: four families of        *)
(* inputs, each varied in what one part of the build looks at.             *)
(***************************************************************************)
EXTENDS GraphQuery, SequencesExt, TLC

CONSTANTS g1, g2, g3

Path(dirs, stem, ext) == [dirs |-> dirs, stem |-> stem, ext |-> ext]
ReadmePath == Path(<<>>, "a", <<"md">>)
PlanPath == Path(<<"d">>, "a", <<"md">>)
CopyPath == Path(<<"d">>, "a", <<"md", "txt">>)
NotesPath == Path(<<"d">>, "a", <<"txt">>)
DeepPath == Path(<<"d", "e">>, "c", <<"mdx">>)

NoFields == [groups |-> {}, relation |-> NoRelation, declares |-> {}, series |-> {},
             depends |-> {}, title |-> {}]
Doc(path) == [path |-> path, object |-> 1, front |-> "valid", meta |-> NoFields,
              words |-> {"x"}, headings |-> <<>>, links |-> {}]

-----------------------------------------------------------------------------
\* Groups: three documents state a relation each, the first one belongs to groups;
\* cycles, diamonds, relations of a group to itself, relations that do not propagate.
GroupRelations ==
    [from : {g1, g2, g3}, to : {g1, g2, g3}, propagates : {TRUE}]
    \cup {NoRelation, [from |-> g1, to |-> g2, propagates |-> FALSE]}

GroupInputs ==
    {[prior |-> NoManifest, docs |->
        <<[Doc(ReadmePath) EXCEPT !.meta.groups = {g1}, !.meta.relation = r[1]],
          [Doc(PlanPath) EXCEPT !.meta.groups = IF r[2] = NoRelation THEN {g2, g3} ELSE {},
                                !.meta.relation = r[2]],
          [Doc(NotesPath) EXCEPT !.meta.relation = r[3]]>>] :
      r \in [1 .. 3 -> GroupRelations]}

\* Sections: every sequence of up to three headings with two names and three levels,
\* and of four with one name.
Heading(level, slug) == [level |-> level, slug |-> slug, words |-> {"x"}]
SectionInputs ==
    {[prior |-> NoManifest, docs |-> <<[Doc(PlanPath) EXCEPT !.headings = hs, !.words = w]>>] :
      w \in {{}, {"x"}},
      hs \in UNION {[1 .. n -> {Heading(l, s) : l \in 1 .. 3, s \in {"s", "t"}}] : n \in 0 .. 3}
             \cup [1 .. 4 -> {Heading(l, "s") : l \in 1 .. 3}]}

\* Links: from a document two directories down, to each document by its path, by its
\* stem, by other extensions (of which "a.md.txt" is stripped to "a.md"), past the root and out of the repository; of each set of
\* documents, after each previous manifest.
Target(kind, up, dirs, stem, ext) ==
    [kind |-> kind, up |-> up, dirs |-> dirs, stem |-> stem, ext |-> ext]
Targets ==
    {Target("relative", 1, <<>>, "a", e) :
       e \in {<<"md">>, <<"txt">>, <<"mdx">>, <<>>, <<"png">>, <<"md", "txt">>, <<"txt", "md">>}}
    \cup {Target("relative", 0, <<>>, "c", <<"mdx">>), Target("relative", 3, <<>>, "a", <<"md">>),
          Target("absolute", 0, <<"d">>, "a", <<>>), Target("absolute", 0, <<>>, "a", <<"md">>),
          Target("external", 0, <<>>, "a", <<"md">>)}
Sorted == <<ReadmePath, PlanPath, CopyPath, NotesPath>>
Chosen(ps) == [i \in DOMAIN ps |-> Doc(ps[i])]
SubPaths == {SelectSeq(Sorted, LAMBDA p : p \in S) : S \in SUBSET ToSet(Sorted)}
Priors ==
    {NoManifest, <<>>}
    \cup {<<[path |-> p, object |-> o], [path |-> DeepPath, object |-> 1]>> :
            p \in {PlanPath, NotesPath}, o \in {1, 2}}
LinkInputs ==
    {[prior |-> prior, docs |->
        Append(Chosen(ps), [Doc(DeepPath) EXCEPT !.links = {t, u}, !.front = f])] :
      prior \in Priors, ps \in SubPaths, t \in Targets, u \in {Target("relative", 1, <<>>, "a", <<"md">>)},
      f \in {"valid", "invalid"}}

\* One index for queries, with every type of edge in it.
Entities == [from |-> "e1", to |-> "e2"]
RichDocs ==
    <<[Doc(ReadmePath) EXCEPT !.meta.groups = {g1}, !.meta.title = {"y"}, !.meta.series = {"s"},
                              !.meta.relation = [from |-> g1, to |-> g2, propagates |-> TRUE],
                              !.links = {Target("relative", 0, <<"d">>, "a", <<"md">>)}],
      [Doc(PlanPath) EXCEPT !.headings = <<Heading(1, "s"), Heading(2, "t")>>,
                            !.meta.depends = {Entities}, !.meta.declares = {g3},
                            !.links = {Target("relative", 0, <<"e">>, "c", <<>>),
                                       Target("external", 0, <<>>, "x", <<>>)}],
      [Doc(DeepPath) EXCEPT !.front = "invalid", !.words = {"x", "y"}, !.meta.groups = {g3}]>>
RichInput == [prior |-> NoManifest, docs |-> RichDocs]

MCInputs == GroupInputs \cup SectionInputs \cup LinkInputs \cup {RichInput}

-----------------------------------------------------------------------------
NoSeed == [ids |-> <<>>, seeds |-> <<>>, word |-> NoWord, relations |-> {"related"}, depth |-> None,
           limit |-> None, maxNodes |-> None, scope |-> "all", paths |-> {}, types |-> {},
           where |-> {}, edgeTypes |-> {}, maxTokens |-> None, packNodes |-> None,
           mode |-> "mixed"]

Seed(kind, value) == [kind |-> kind, value |-> value]
File(p) == Seed("id", FileId(p))
Filter(field, op, values) == [field |-> field, op |-> op, values |-> values]

\* Seeds in both orders, with their distances.
DistanceRequests ==
    {[NoSeed EXCEPT !.seeds = s, !.relations = q, !.depth = d] :
       s \in {<<File(ReadmePath)>>, <<File(ReadmePath), File(DeepPath)>>,
              <<File(DeepPath), File(ReadmePath)>>, <<Seed("type", "Section"), Seed("id", <<"gone">>)>>,
              <<Seed("group", g2)>>, <<Seed("path", PlanPath)>>, <<Seed("query", "y")>>,
              <<Seed("tag", "y")>>},
       q \in {{}, {"related"}, {"parent", "depends_on"}},
       d \in {None, 0, 2, 5}}
    \cup {RelatedNodes([NoSeed EXCEPT !.seeds = <<File(DeepPath)>>], FileId(PlanPath)),
          Subgraph([NoSeed EXCEPT !.ids = <<FileId(DeepPath)>>, !.seeds = <<Seed("group", g2)>>],
                   <<FileId(ReadmePath), FileId(PlanPath)>>)}

\* Queries with filters and small limits, with and without a seed.
FilterRequests ==
    {[NoSeed EXCEPT !.seeds = s, !.word = w, !.relations = {}, !.depth = 2, !.limit = l,
                    !.paths = p, !.types = t, !.where = f, !.scope = c] :
       s \in {<<>>, <<File(PlanPath)>>}, w \in {NoWord, "x", "y"}, l \in {None, 1, 3},
       p \in {{}, {[dirs |-> <<"d">>, file |-> NoPath]}, {[dirs |-> <<>>, file |-> ReadmePath]}},
       t \in {{}, {"File"}}, c \in {"all", "sections"},
       f \in {{}, {Filter("type", "in", {"File", "Section"})},
              {Filter("effectiveGroupId", "eq", {g2})}}}

\* Packs with budgets from nothing to enough.
PackRequests ==
    {[NoSeed EXCEPT !.seeds = <<File(PlanPath)>>, !.relations = {}, !.depth = 3,
                    !.maxTokens = k, !.packNodes = n, !.mode = m] :
       k \in {None, 0, 3, 4, 7}, n \in {None, 0, 2}, m \in {"mixed", "files", "sections", "all"}}

MCRequests(i) ==
    IF i = RichInput THEN DistanceRequests \cup FilterRequests \cup PackRequests ELSE {NoSeed}

\* "x" is 6 bytes, "y" 5: neither is a multiple of a token.
MCBytes == [w \in {"x", "y"} |-> IF w = "x" THEN 6 ELSE 5]
=============================================================================
