SPECIFICATION BucketSpec
CONSTANTS
  app = app
  tool = tool
  MaxPages = 2
  Retries = 0
  Hosts = {endpoint}
  Trusted = {}
  Nowhere = Nowhere
  Keys = 5
  Rels <- MCRels
  Unmatched = Unmatched
  MaxKeys = 2
  Current = 1
  Edits = 1
INVARIANTS KeysOnce MergedWithinPage CallsAgree
CHECK_DEADLOCK FALSE
