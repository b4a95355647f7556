\* Two requests, two loads of the model, answers of up to two pieces.
CONSTANTS
  Requests = {r1, r2}
  Catalogue <- MCCatalogue
  Refs <- MCRefs
  Target <- MCTarget
  KeepAlives <- MCKeepAlives
  modelTTLs0 <- MCModelTTLs
  cfgTTL <- MCCfgTTL
  DefaultTTL = 9
  MaxDuration = 50
  MaxLoads = 2
  Chunks <- MCChunks
  MaxChunks = 2
SYMMETRY Symmetry
SPECIFICATION Spec
CHECK_DEADLOCK FALSE
INVARIANTS OneAnswer AnswerFaithful ResidentTTLAgrees
