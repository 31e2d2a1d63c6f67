\* Two requests of any kind on a channel of two episodes, with the worker.
SPECIFICATION Spec
CONSTANTS
    Episodes = {e1, e2}
    NoEpisode = NoEpisode
    Requests = {q1, q2}
    Operations = {"update", "publish", "unpublish", "list"}
    Titles = {t1}
    Transcripts = {"none", "done"}
    MaxNow = 2
SYMMETRY CatalogSymmetry
INVARIANTS
    CatalogInv
PROPERTIES
    ColumnsKept
    PublishTimeKept
    ImplementsShelf
CHECK_DEADLOCK FALSE
