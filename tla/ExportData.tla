------------------------------ MODULE ExportData ------------------------------
(***************************************************************************)
(* The files that scripts/export_data.py makes of the rows of "clusters"   *)
(* and "articles".  A label is abstracted to the set of the keywords that  *)
(* occur in it.  A cluster's row has its members, for article_count, and   *)
(* an article's row its cluster_id, which may be None.                     *)
(***************************************************************************)
EXTENDS Naturals, Sequences, FiniteSets, FiniteSetsExt

CONSTANTS
    Cluster,
    LabelOf,        \* keywords in the label of each cluster
    TopicRules,     \* TOPIC_RULES: records of a topic and its keywords
    None

\* The first rule that matches wins.
ClassifyTopic(label) ==
    LET hits == {k \in DOMAIN TopicRules : TopicRules[k].keywords \cap label # {}}
    IN  IF hits = {} THEN "General" ELSE TopicRules[Min(hits)].topic

Passes(topic, filter) == filter \in {None, topic}

\* clusters_export.csv: the rows, with their topics.
ClustersCsv(clusters, filter) ==
    {[cluster |-> c.id, topic |-> ClassifyTopic(LabelOf[c.id]), articles |-> c.articles] :
        c \in {d \in clusters : Passes(ClassifyTopic(LabelOf[d.id]), filter)}}

\* An article without a cluster among the rows is "Unclustered".
ArticleTopic(article, clusters) ==
    IF article.cluster \in {c.id : c \in clusters}
    THEN ClassifyTopic(LabelOf[article.cluster]) ELSE "Unclustered"

\* articles_export.csv
ArticlesCsv(articles, clusters, filter) ==
    {[article |-> a.id, cluster |-> a.cluster, topic |-> ArticleTopic(a, clusters)] :
        a \in {b \in articles : Passes(ArticleTopic(b, clusters), filter)}}

\* vyomacast_export.json: each cluster under its topic with the articles whose
\* cluster_id it is.  Unclustered articles have no place.
Json(articles, clusters, filter) ==
    {[cluster |-> c.id, topic |-> ClassifyTopic(LabelOf[c.id]),
      articles |-> {a.id : a \in {b \in articles : b.cluster = c.id}}] :
        c \in {d \in clusters : Passes(ClassifyTopic(LabelOf[d.id]), filter)}}
=============================================================================
