CONSTANTS
  Askers = {p1, p2}
  Contracts <- ContractSlots
  Retries <- RetrySlots
  MaxRequests = 3
  MaxSwitches = 1
  Verifs = {v1, v2}
  Keepers = {k1}
  Payloads = {"a", "b", "c"}
  Digest <- Versions
  FirstPayload = "a"
  MaxWorkers = 3
  MaxStops = 1
  NoPayload = "nobody"
SPECIFICATION TopicSpec
INVARIANTS OrdersHanded OrdersPaidOnce VerifiedOnce CatalogueTrue
CONSTRAINT OneChange
SYMMETRY LinkSymmetry
CHECK_DEADLOCK FALSE
