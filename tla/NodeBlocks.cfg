SPECIFICATION Spec
CONSTANTS
  IntMax = 15
  RedisRoom = 3
  Services = {"a", "b", "c"}
  Setups <- PassSetups
  Numerals <- Digits
  Evaluate <- Evaluated
  Merge <- Merged
  ParseReply <- Parsed1
  Depths = {0, 1, 2, 3, 4, 5}
INVARIANTS TypeOK RankIsSorted TopIsBest SortIsDefined SentAsConfigured OutputAsConfigured 
