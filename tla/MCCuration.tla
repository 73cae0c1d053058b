------------------------------- MODULE MCCuration -------------------------------
(* Instances for TLC: one document fills each quota in part, three more    *)
(* share texts, clusters, groups and flags in every way.                   *)
EXTENDS Selection

Doc(id, bucket, text, group, penalty, length, flags) ==
    [id |-> id, bucket |-> bucket, content |-> text[1], normal |-> text[2], near |-> text[3],
     group |-> group, penalty |-> penalty, rank |-> id, tokens |-> length, flags |-> flags]

MCSplitOf == <<"train", "validation">>
MCSplitOrder == <<"train", "validation">>
MCQuota == [sc \in {"train", "validation"} \X {"python", "other_code", "english"} |-> 3]

Filler(i, bucket, group) == Doc(90 + i, bucket, <<50 + i, 50 + i, 50 + i>>, group, 0, 4, {})
Fillers ==
    <<Filler(1, "python", 1), Filler(2, "other_code", 1), Filler(3, "fineweb_edu", 1),
      Filler(4, "python", 2), Filler(5, "other_code", 2), Filler(6, "wikipedia", 2)>>

Texts == {<<1, 1, 1>>, <<2, 1, 1>>, <<3, 3, 1>>, <<4, 4, 4>>}   \* same normal, same cluster, neither
Job(reports, profile, mode, rows, due, pods, stops) ==
    [reports |-> reports, profile |-> profile, mode |-> mode, rows |-> rows, due |-> due, pods |-> pods,
     faults |-> stops, byHand |-> 0]
HandRuns(leases, j) == [j EXCEPT !.byHand = leases]

Varied(f, t, u, g, b, q, h) ==
    << <<Doc(1, "wikipedia", <<1, 1, 1>>, 1, 1, 2, f), Doc(2, "wikipedia", t, g, 1, 2, h)>>,
       <<Doc(3, b, u, 1, q, 2, {})>> \o Fillers >>

Decisions ==   \* every shape of input, no interruption
    {Job(Varied(f, t, u, g, b, q, {}), profile, "durable", 2, {}, {1}, 0) :
        f \in {{}, {"benchmark"}}, t \in Texts, u \in Texts, g \in {1, 2},
        b \in {"fineweb_edu"}, q \in {0, 1}, profile \in {"near", "fast"}}
    \cup {Job(Varied({}, t, u, 2, "python", 0, {}), "fast", "durable", 2, {}, {1}, 0) :
            t \in Texts, u \in Texts}
    \cup {Job(Varied({}, <<4, 4, 4>>, <<2, 1, 1>>, 0, "wikipedia", 0, {}), profile, "durable", 2, {}, {1}, 0) :
            profile \in {"near", "fast"}}
Plain == Varied({"benchmark"}, <<2, 1, 1>>, <<4, 4, 4>>, 1, "python", 0, {})
Short == [Plain EXCEPT ![2] = SubSeq(@, 1, 5)]
Copied == Varied({}, <<2, 1, 1>>, <<2, 1, 1>>, 2, "wikipedia", 0, {})
Tainted == Varied({"benchmark"}, <<2, 2, 2>>, <<2, 2, 2>>, 1, "wikipedia", 0, {"benchmark"})
Interrupted ==   \* every batch of every pass interrupted
    {Job(i[1], i[2], "durable", 1, {}, Pods, 1) :
        i \in {<<Plain, "near">>, <<Copied, "fast">>, <<Short, "near">>, <<Tainted, "near">>,
               <<Tainted, "fast">>}}
OnPods == {Job(<<Plain[1] \o Plain[2]>>, "fast", "local", 9, {3, 9}, {1}, 1)}
Orphan == Varied({}, <<4, 4, 4>>, <<2, 1, 1>>, 0, "wikipedia", 0, {})    \* a document without a source
Handoffs ==
    {HandRuns(3, Job(Copied, "fast", "handoff", 9, {}, {1}, 0)),
     HandRuns(1, Job(Copied, "fast", "handoff", 9, {}, {1}, 1)),
     Job(Short, "fast", "handoff", 9, {}, {1}, 1),
     HandRuns(1, Job(Orphan, "fast", "handoff", 9, {}, Pods, 0))}

(* Inventories for the near-duplicate map: a chain of pairs that are alike *)
(* with a copied text, two documents apart, a posting that is too large,   *)
(* and one pair too many.                                                  *)
NearDoc(archive, text, shingles, bands) ==
    [archive |-> archive, text |-> text, shingles |-> shingles, bands |-> bands]
Chained ==
    <<NearDoc(1, "a", {1, 2, 3}, {11, 13}), NearDoc(1, "b", {4, 5, 6}, {12}),
      NearDoc(1, "c", {3, 4, 5}, {12, 13}), NearDoc(2, "d", {2, 3, 4}, {11, 13}),
      NearDoc(2, "a", {1, 2, 3}, {11, 13}), NearDoc(2, "e", {9}, {11})>>
Apart == <<NearDoc(1, "a", {1}, {11}), NearDoc(2, "b", {2}, {12})>>
Crowded ==
    <<NearDoc(1, "a", {1, 2}, {11}), NearDoc(1, "b", {1, 2}, {11}),
      NearDoc(2, "c", {1, 2}, {11}), NearDoc(2, "d", {2, 3}, {11})>>
Dense ==
    <<NearDoc(1, "a", {1, 2}, {11, 13}), NearDoc(1, "b", {1, 2}, {11, 12}),
      NearDoc(2, "c", {1, 2}, {11, 12}), NearDoc(2, "d", {2, 3}, {12}),
      NearDoc(2, "e", {2, 3}, {13})>>
MCNearCorpora == {Chained, Apart, Crowded, Dense}
MCThreshold == [num |-> 1, den |-> 2]

MCJobs == Decisions \cup Interrupted \cup OnPods \cup Handoffs
MCInit ==
    /\ \/ stage = "curation" /\ job \in MCJobs /\ nearCorpus = Apart
       \/ stage = "near" /\ job \in OnPods
    /\ SelectionInit
MCSpec == MCInit /\ [][SelectionNext]_selectionVars /\ SelectionFairness

MCKillInit == stage = "curation" /\ job \in OnPods /\ nearCorpus = Apart /\ SelectionInit
MCKillSpec == MCKillInit /\ [][SelectionNext]_selectionVars
=============================================================================
