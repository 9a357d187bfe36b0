--------------------------- MODULE LexicalSearch ---------------------------
(***************************************************************************)
(* One lexical search: the words of the query are probed against the       *)
(* index, the plan gets its evidence stages, each stage becomes one lane   *)
(* per field, and the lanes run from the strongest evidence to the weakest *)
(* into a bounded window of candidates that is ranked at the end.          *)
(*                                                                         *)
(* What has to be right is spread over the steps: the words a prefix       *)
(* stands for are read from term dictionaries that an incremental index    *)
(* splits differently from a rebuilt one, every lane and the window are    *)
(* bounded, and the exploratory lanes run or not by what the lanes before  *)
(* them found.                                                             *)
(*                                                                         *)
(* Documents are chunks, numbered in the order of their chunk IDs; words   *)
(* are numbered in the order of the term dictionary.  Two fields stand for *)
(* the eight of the schema: Title for the name fields, Body for content    *)
(* and the identifiers found in it.                                        *)
(***************************************************************************)
EXTENDS Naturals, FiniteSets, Sequences, SequencesExt

CONSTANTS
    Docs,             \* the chunks of the index, 1..n
    Source,           \* Source[d]: the source chunk d belongs to
    Contexts,         \* how many partitions the index has
    Context,          \* Context[d]: the partition that holds d, numbered in resource order
    Layouts,          \* ways the documents may lie in segments: Docs -> Nat
    Words,            \* numbered in dictionary order
    Completions,      \* Completions[w]: the words that start with w, w included
    Length,           \* Length[w]: characters of w
    Identifiers,      \* the words that are technical identifiers
    ChunkTexts,       \* what a chunk can hold: [Title, Body], sequences of words
    Requests,         \* [terms, promotable, emphasis, allowed]
    Score,            \* Score[d]: what BM25 gives chunk d
    MinPrefixChars, MaxPrefixTerms, MaxExpansions, MaxScan,
    MaxPartialTerms, MaxCandidates, MaxTotal, MaxProofs,
    MinSources,       \* below this many standard sources the exploratory lanes run
    Limit             \* hits the caller asked for

ASSUME LexicalAssumption ==
    /\ IsFiniteSet(Docs) /\ Docs = 1..Cardinality(Docs)
    /\ Score \in [Docs -> Nat]
    /\ Context \in [Docs -> 1..Contexts] /\ Contexts \in Nat
    /\ Layouts \subseteq [Docs -> Nat]
    /\ Words \subseteq Nat
    /\ \A w \in Words : w \in Completions[w] /\ Completions[w] \subseteq Words
    /\ ChunkTexts \subseteq [Title : Seq(Words), Body : Seq(Words)]
    /\ \A r \in Requests : /\ r.terms \in Seq(Words) /\ Len(r.terms) <= MaxPartialTerms
                          /\ r.allowed \subseteq Docs
    /\ {MinPrefixChars, MaxPrefixTerms, MaxExpansions, MaxPartialTerms,
        MaxCandidates, MaxTotal, MaxProofs, MinSources, Limit} \subseteq Nat \ {0}
    /\ MaxScan \in Nat /\ MaxScan >= 2

VARIABLES
    request,      \* the query, its emphasis and the filters
    text,         \* the index: what each chunk holds
    layout,       \* the segment each chunk lies in
    phase,        \* "resolve", "lanes" or "done"
    plan,         \* the finalized plan
    next,         \* the lane that runs next
    found,        \* the candidates, their proofs, and the decision on exploring
    hits          \* the answer

searchVars == <<request, text, layout, phase, plan, next, found, hits>>

Fields == {"Title", "Body"}
FieldOrder == [Title |-> 1, Body |-> 2, CrossField |-> 3]
KindOrder  == [Exact |-> 1, Phrase |-> 2, AllTerms |-> 3, PrefixAssisted |-> 4,
               CrossFieldAllTerms |-> 5, PartialCoverage |-> 6]
KindPoints  == [Exact |-> 60, Phrase |-> 50, AllTerms |-> 45, PrefixAssisted |-> 45,
                CrossFieldAllTerms |-> 25, PartialCoverage |-> 15]
FieldPoints == [Title |-> 10, Body |-> 0, CrossField |-> 0]
EmphasisPoints == 10

\* The n least elements of a set of numbers.
FirstOf(S, n) == {v \in S : Cardinality({u \in S : u < v}) < n}

\* Lexicographic order of tuples of one length.
Precedes(a, b) ==
    \E i \in DOMAIN a : a[i] < b[i] /\ \A j \in 1..(i - 1) : a[j] = b[j]

-----------------------------------------------------------------------------
(* The words a prefix stands for *)

Has(d, f, w) == w \in Range(text[d][f])
Segments(lay) == {{d \in Docs : <<Context[d], lay[d]>> = s} : s \in {<<Context[d], lay[d]>> : d \in Docs}}
Dictionary(seg, f, w) == {v \in Completions[w] : \E d \in seg : Has(d, f, v)}

\* Mutant: each dictionary entry visited is charged, so a word costs once per segment.
WindowByEntries(lay, fields, w) ==
    LET entries == {e \in Segments(lay) \X fields \X Words : e[3] \in Dictionary(e[1], e[2], w)}
    IN  {v \in Words : /\ \E e \in entries : e[3] = v
                       /\ Cardinality({e \in entries : e[3] < v}) < MaxScan}

\* Every segment's dictionary is read up to the same bound.
Window(lay, fields, w) ==
    UNION {FirstOf(Dictionary(seg, f, w), MaxScan) : seg \in Segments(lay), f \in fields}

\* collect_prefix_expansions: name words first, then the shortest, then the dictionary's order.
Expansions(lay, w) ==
    LET window == Window(lay, Fields, w)
        named  == Window(lay, {"Title"}, w)
        kept   == FirstOf(window, MaxScan)
        Key(v) == <<IF v \in named THEN 0 ELSE 1, Length[v], v>>
    IN  IF window \subseteq {w} THEN {}
        ELSE {v \in kept : Cardinality({u \in kept : Precedes(Key(u), Key(v))}) < MaxExpansions}

-----------------------------------------------------------------------------
(* The plan *)

Terms == DOMAIN request.terms
Word(i) == request.terms[i]
IsIdentifier(i) == Word(i) \in Identifiers

\* identifier_anchor_query: the exact projections of `exact', or the token in one of `fields'.
AnchorIn(d, i, exact, fields) ==
    \/ "Title" \in exact /\ text[d].Title = <<Word(i)>>
    \/ "Body" \in exact /\ Has(d, "Body", Word(i))
    \/ \E f \in fields : Has(d, f, Word(i))

\* A required term of a stage whose searchable fields are `fields'.
TermIn(d, i, fields) ==
    IF IsIdentifier(i) THEN AnchorIn(d, i, Fields, fields)
    ELSE \E f \in fields : Has(d, f, Word(i))

\* support_document_frequency > 0: over the whole index, filters or not.
Supported(i) == \E d \in Docs : TermIn(d, i, Fields)

\* metadata_probe_matches: some document names every word of a lowercase identifier.
Promoted ==
    /\ request.promotable # {}
    /\ \E d \in Docs : \A i \in Terms : Has(d, "Title", Word(i))

Anchors  == {i \in Terms : IsIdentifier(i) \/ (Promoted /\ i \in request.promotable)}
Useful   == {i \in Terms : Supported(i)}
Long(i)  == Length[Word(i)] >= MinPrefixChars

\* The prefixes looked up: a word promoted afterwards has used its place.
Examined == FirstOf({i \in Terms : ~IsIdentifier(i) /\ Long(i)}, MaxPrefixTerms)
Observed(lay) == [i \in Terms |-> IF i \in Examined THEN Expansions(lay, Word(i)) ELSE {}]

Stage(kind, condition, group, required, prefix, minimum) ==
    [kind |-> kind, condition |-> condition, group |-> group, required |-> required,
     prefix |-> prefix, minimum |-> minimum]

Relaxed == FirstOf(Anchors \cup Useful, MaxPartialTerms)

\* partial_coverage_stage.
PartialStage(prefix) ==
    LET optional == Terms \ Anchors
        included == FirstOf(optional \cap Useful, MaxPartialTerms - Cardinality(Anchors))
    IN  IF ~(optional \subseteq Useful)
        THEN IF Relaxed = {} \/ Relaxed = Terms THEN <<>>
             ELSE <<Stage("Partial", "Always", Fields, Relaxed, {}, 0)>>
        ELSE IF Cardinality(optional) < 2 \/ Cardinality(Anchors) >= MaxPartialTerms THEN <<>>
             ELSE <<Stage("Partial", "IfThin", Fields, Anchors \cup (included \ prefix),
                          included \cap prefix, 1)>>

\* finalize_evidence: the stages, in the order of the ladder.
Stages(prefix) ==
    <<Stage("Exact", "Always", Fields, {}, {}, 0)>>
    \o (IF Cardinality(Terms) > 1 THEN <<Stage("Phrase", "Always", Fields, {}, {}, 0)>> ELSE <<>>)
    \o (IF prefix = {} THEN <<>>
        ELSE <<Stage("PrefixMetadata", "Always", {"Title"}, Relaxed \ prefix, prefix, 0)>>)
    \o <<Stage("AllTerms", "Always", Fields, Terms, {}, 0)>>
    \o (IF prefix = {} THEN <<>>
        ELSE <<Stage("Prefix", "Always", Fields, Relaxed \ prefix, prefix, 0)>>)
    \o PartialStage(prefix)

ProofKind(kind, cross) ==
    CASE kind = "Exact" -> "Exact"
      [] kind = "Phrase" -> "Phrase"
      [] kind = "AllTerms" -> IF cross THEN "CrossFieldAllTerms" ELSE "AllTerms"
      [] kind \in {"PrefixMetadata", "Prefix"} -> "PrefixAssisted"
      [] kind = "Partial" -> "PartialCoverage"

\* lexical_v2_evidence_points.
Points(kind, field) ==
    KindPoints[kind] + FieldPoints[field] + (IF request.emphasis = field THEN EmphasisPoints ELSE 0)

IsPartial(kind) == IF kind = "PartialCoverage" THEN 1 ELSE 0

Lane(stage, ordinal, field, fields) ==
    [stage |-> stage, ordinal |-> ordinal, field |-> field, fields |-> fields,
     kind |-> ProofKind(stage.kind, field = "CrossField")]

\* The lanes of one stage: one for each field it declares, and one across the fields.
StageLanes(stage, ordinal) ==
    {Lane(stage, ordinal, f, {f}) : f \in stage.group}
      \cup (IF Cardinality(stage.group) > 1 /\ stage.kind \in {"AllTerms", "Partial"}
            THEN {Lane(stage, ordinal, "CrossField", stage.group)} ELSE {})

\* Mutant: the lanes run in the order of the stages.
LaneKeyByStage(lane) == <<lane.ordinal, FieldOrder[lane.field]>>

LaneKey(lane) ==
    <<IsPartial(lane.kind), 100 - Points(lane.kind, lane.field), lane.ordinal, FieldOrder[lane.field]>>

\* The lanes of the plan, each at the place its key gives it.
Lanes(stages) ==
    LET all   == UNION {StageLanes(stages[i], i) : i \in DOMAIN stages}
        Before(lane) == {other \in all : Precedes(LaneKey(other), LaneKey(lane))}
    IN  [n \in 1..Cardinality(all) |-> CHOOSE lane \in all : Cardinality(Before(lane)) = n - 1]

Empty(prefix) == ~(Anchors \subseteq Useful) \/ (Useful = {} /\ prefix = {})

\* resolve_query_plan on an index that lies in the segments of `lay'.
Resolved(lay) ==
    LET observed == Observed(lay)
        prefix   == FirstOf({i \in Terms \ Anchors : Long(i) /\ observed[i] # {}}, MaxPrefixTerms)
    IN  [prefix |-> [i \in prefix |-> observed[i]],
         lanes  |-> IF Empty(prefix) THEN <<>> ELSE Lanes(Stages(prefix))]

-----------------------------------------------------------------------------
(* One lane *)

ExpandedIn(d, i, fields, p) == \E v \in p.prefix[i], f \in fields : Has(d, f, v)

Contiguous(s, t) == \E k \in 0..(Len(t) - Len(s)) : SubSeq(t, k + 1, k + Len(s)) = s

ExactMatch(d, fields) ==
    /\ \/ "Title" \in fields /\ text[d].Title = request.terms
       \/ "Body" \in fields /\ Len(request.terms) = 1 /\ IsIdentifier(1) /\ Has(d, "Body", Word(1))
    /\ \A i \in Terms : IsIdentifier(i) => AnchorIn(d, i, fields, Fields)

PhraseMatch(d, fields) ==
    /\ \E f \in fields : Contiguous(request.terms, text[d][f])
    /\ \A i \in Terms : IsIdentifier(i) => AnchorIn(d, i, Fields, Fields)

\* Mutant: the anchors are alternatives like the other words.
ExploratoryAny(d, lane, p) ==
    \/ \E i \in lane.stage.required : TermIn(d, i, lane.fields)
    \/ \E i \in lane.stage.prefix : ExpandedIn(d, i, lane.fields, p)

\* exploratory_partial_query: every anchor, and one of the other words at least.
Exploratory(d, lane, p) ==
    /\ \A i \in lane.stage.required \cap Anchors : TermIn(d, i, lane.fields)
    /\ \/ \E i \in lane.stage.required \ Anchors : TermIn(d, i, lane.fields)
       \/ \E i \in lane.stage.prefix : ExpandedIn(d, i, lane.fields, p)

\* compile_evidence_stage and filtered_query.
Matches(d, lane, p) ==
    /\ d \in request.allowed
    /\ CASE lane.stage.kind = "Exact" -> ExactMatch(d, lane.fields)
         [] lane.stage.kind = "Phrase" -> PhraseMatch(d, lane.fields)
         [] lane.stage.minimum > 0 -> Exploratory(d, lane, p)
         [] OTHER -> /\ \A i \in lane.stage.required : TermIn(d, i, lane.fields)
                     /\ \A i \in lane.stage.prefix : ExpandedIn(d, i, lane.fields, p)

\* compare_ranked_documents and compare_hits.
Ahead(d, e) == Score[d] > Score[e] \/ (Score[d] = Score[e] /\ d < e)
Best(S, n) == {d \in S : Cardinality({e \in S : Ahead(e, d)}) < n}

\* StableDocCollector: a bounded list for each segment, merged into one for the partition.
Collected(c, lane, p, lay) ==
    Best(UNION {Best({d \in seg : Matches(d, lane, p)}, MaxCandidates)
                : seg \in {s \in Segments(lay) : \A d \in s : Context[d] = c}},
         MaxCandidates)

\* merge_bounded_lexical_v2_hits over the partitions.
LaneHits(lane, p, lay) ==
    LET merged[c \in 0..Contexts] ==
          IF c = 0 THEN {}
          ELSE Best(merged[c - 1] \cup Collected(c, lane, p, lay), MaxCandidates)
    IN  merged[Contexts]

Proof(d, n, lane, p, lay) ==
    [field |-> lane.field, kind |-> lane.kind, lane |-> n,
     ordinal |-> Cardinality({e \in Collected(Context[d], lane, p, lay) : Ahead(e, d)})]

\* Mutant: the chunks are counted, not the sources.
ThinByChunks(candidates) == Cardinality(DOMAIN candidates) < MinSources

Thin(candidates) == Cardinality({Source[d] : d \in DOMAIN candidates}) < MinSources

NothingYet == [candidates |-> <<>>, explore |-> "undecided"]

\* One turn of the loop of execute_lexical_v2.
RunLane(acc, n, p, lay) ==
    LET lane    == p.lanes[n]
        explore == IF lane.stage.condition = "IfThin" /\ acc.explore = "undecided"
                   THEN IF Thin(acc.candidates) THEN "yes" ELSE "no"
                   ELSE acc.explore
        got     == LaneHits(lane, p, lay)
        known   == DOMAIN acc.candidates
        added   == Best(got \ known, MaxTotal - Cardinality(known))
    IN  IF Cardinality(known) >= MaxTotal THEN acc
        ELSE IF lane.stage.condition = "IfThin" /\ explore = "no"
        THEN [acc EXCEPT !.explore = explore]
        ELSE [explore |-> explore,
              candidates |->
                [d \in known \cup added |->
                    IF d \in added THEN {Proof(d, n, lane, p, lay)}
                    ELSE IF d \in got /\ Cardinality(acc.candidates[d]) < MaxProofs
                    THEN acc.candidates[d] \cup {Proof(d, n, lane, p, lay)}
                    ELSE acc.candidates[d]]]

ProofKey(pr) ==
    <<IsPartial(pr.kind), 100 - Points(pr.kind, pr.field), KindOrder[pr.kind], FieldOrder[pr.field],
      pr.ordinal, pr.lane>>

Selected(proofs) == CHOOSE pr \in proofs : \A q \in proofs \ {pr} : Precedes(ProofKey(pr), ProofKey(q))

\* rank_lexical_v2, and the first Limit of it.
Ranked(candidates) ==
    LET Key(d) == LET k == ProofKey(Selected(candidates[d]))
                  IN  <<k[1], k[2], k[3], k[4], 100 - Score[d], k[5], Source[d], d>>
        all    == DOMAIN candidates
        Before(d) == {e \in all : Precedes(Key(e), Key(d))}
        Nth(i) == CHOOSE d \in all : Cardinality(Before(d)) = i - 1
    IN  [i \in 1..(IF Cardinality(all) < Limit THEN Cardinality(all) ELSE Limit)
            |-> [doc |-> Nth(i), kind |-> Selected(candidates[Nth(i)]).kind]]

-----------------------------------------------------------------------------
SearchInit ==
    /\ request \in Requests
    /\ text \in [Docs -> ChunkTexts]
    /\ layout \in Layouts
    /\ phase = "resolve"
    /\ plan = [prefix |-> <<>>, lanes |-> <<>>]
    /\ next = 1
    /\ found = NothingYet
    /\ hits = <<>>

Resolve ==
    /\ phase = "resolve"
    /\ plan' = Resolved(layout)
    /\ phase' = "lanes"
    /\ UNCHANGED <<request, text, layout, next, found, hits>>

ExecuteLane ==
    /\ phase = "lanes" /\ next <= Len(plan.lanes)
    /\ found' = RunLane(found, next, plan, layout)
    /\ next' = next + 1
    /\ UNCHANGED <<request, text, layout, phase, plan, hits>>

Rank ==
    /\ phase = "lanes" /\ next > Len(plan.lanes)
    /\ hits' = Ranked(found.candidates)
    /\ phase' = "done"
    /\ UNCHANGED <<request, text, layout, plan, next, found>>

SearchNext == Resolve \/ ExecuteLane \/ Rank

SearchSpec == SearchInit /\ [][SearchNext]_searchVars

-----------------------------------------------------------------------------
(* Properties *)

Rebuilt == [d \in Docs |-> 1]

\* What a search of the index in this layout ranks.
RankedFrom(lay) ==
    LET p == Resolved(lay)
        after[n \in 0..Len(p.lanes)] ==
          IF n = 0 THEN NothingYet ELSE RunLane(after[n - 1], n, p, lay)
    IN  Ranked(after[Len(p.lanes)].candidates)

(* An index maintained incrementally and a rebuild of the same vault give  *)
(* the same hits in the same order: the prefix expansions, the bounded     *)
(* collectors and the window are functions of the documents and not of the *)
(* segments they lie in.                                                   *)
RebuildRanksTheSame == phase = "done" => hits = RankedFrom(Rebuilt)

Full == Cardinality(DOMAIN found.candidates) >= MaxTotal

(* The window keeps the strongest evidence.  A document that matches a     *)
(* standard lane and is not a candidate lost its place to documents ahead  *)
(* of it in that lane, or to a full window in which no candidate's best    *)
(* evidence is worth less than what the lane would have given it.          *)
StrongestKept ==
    phase = "done" =>
        \A n \in DOMAIN plan.lanes : \A d \in Docs \ DOMAIN found.candidates :
            LET lane == plan.lanes[n]
            IN  lane.kind # "PartialCoverage" /\ Matches(d, lane, plan) =>
                    \/ Cardinality({e \in Docs : Matches(e, lane, plan) /\ Ahead(e, d)}) >= MaxCandidates
                    \/ /\ Full
                       /\ \A e \in DOMAIN found.candidates :
                            LET best == Selected(found.candidates[e])
                            IN  /\ best.kind # "PartialCoverage"
                                /\ Points(best.kind, best.field) >= Points(lane.kind, lane.field)

Standard == {d \in DOMAIN found.candidates :
                Selected(found.candidates[d]).kind # "PartialCoverage"}
Holds(d, i) == \E f \in Fields : Has(d, f, Word(i))

(* The exploratory lanes widen a thin answer and only that: a document     *)
(* found by them alone means that fewer than MinSources different sources  *)
(* gave standard evidence, and when that is so, every allowed document     *)
(* with all the identifiers and one more word of the query (or one of the  *)
(* words a prefix stands for) is found, unless a lane or the window was    *)
(* full.                                                                   *)
ThinAnswersWiden ==
    phase = "done" /\ (\E n \in DOMAIN plan.lanes : plan.lanes[n].stage.condition = "IfThin") =>
        IF Cardinality({Source[d] : d \in Standard}) < MinSources
        THEN \/ Full
             \/ \A d \in request.allowed \ DOMAIN found.candidates :
                    \/ \E i \in Anchors : ~Holds(d, i)
                    \/ \A i \in Terms \ Anchors :
                          IF i \in DOMAIN plan.prefix THEN ~ExpandedIn(d, i, Fields, plan) ELSE ~Holds(d, i)
                    \/ \E n \in DOMAIN plan.lanes :
                          /\ plan.lanes[n].stage.condition = "IfThin"
                          /\ Cardinality({e \in Docs : Matches(e, plan.lanes[n], plan)}) > MaxCandidates
        ELSE \A d \in DOMAIN found.candidates : d \in Standard

(* The answer is about the query: every candidate passed the filters and   *)
(* holds every identifier of the query, promoted ones included, and an     *)
(* allowed document that holds every word the index knows is found even    *)
(* when the query also has words it does not know, unless a lane or the    *)
(* window was full.                                                        *)
FaithfulToQuery ==
    phase = "done" =>
        /\ \A d \in DOMAIN found.candidates :
              d \in request.allowed /\ \A i \in Anchors : Holds(d, i)
        /\ \A d \in request.allowed \ DOMAIN found.candidates :
              \/ Full
              \/ Useful = {} \/ ~(Anchors \subseteq Useful)
              \/ \E i \in Useful : ~Holds(d, i)
              \/ \E n \in DOMAIN plan.lanes :
                    Cardinality({e \in Docs : Matches(e, plan.lanes[n], plan)}) > MaxCandidates
=============================================================================
