\* Three operations, two texts, a channel that fills up, with and without a delay.
SPECIFICATION FairSpec
CONSTANTS
  Ops = {o1, o2, o3}
  Texts = {a, b}
  NoText = NoText
  Capacity = 1
  MaxStarts = 3
INVARIANTS CountsMatch ShownIsActive
PROPERTIES ClientProtocol NobodyBlocked IndicatorEnds
CHECK_DEADLOCK FALSE
