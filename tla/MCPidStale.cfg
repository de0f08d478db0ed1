\* One configuration, a localization that ages, and no feed-forward needed.
CONSTANTS
  Configs <- SmallConfigs
  RawOutputs <- SmallOutputs
  FeedForwards <- SmallFeeds
  NaN = NaN
  StampAges = {0}
  MaxAge = 3
SPECIFICATION Spec
PROPERTY NothingFromStale
