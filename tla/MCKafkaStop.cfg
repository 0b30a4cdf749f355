\* The Kafka collector under the shutdown order of main.go.
CONSTANTS
  Kinds = {"kafka"}
  Workers = {w1, w2}
  Stoppers = {s1, s2}
  Capacity = 2
  MaxPolls = 1
SPECIFICATION FairSpec
PROPERTY StopHalts
CHECK_DEADLOCK FALSE
