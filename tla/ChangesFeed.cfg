\* Five rows of the feed: enough for a failed or late token to sit before,
\* between and after completed ones, with a restart at every point.
CONSTANT Tokens = {1, 2, 3, 4, 5}
SPECIFICATION FeedSpec
INVARIANTS ReplayTypeOK NothingSkipped FeedIsKept
PROPERTY KeepsContract
