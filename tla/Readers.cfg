SPECIFICATION Spec
CONSTANTS
    c1 = c1
    c2 = c2
    Article = {a1, a2, a3}
    Cluster = {c1, c2}
    LabelOf <- Labels
    TopicRules <- Rules
    Filter = {None, "Technology"}
    Limit = 1
    None = None
SYMMETRY ArticleSymmetry
INVARIANTS
    PagesMissOnlyMoved
    CountedIsExported
