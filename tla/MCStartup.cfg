\* The Solr client, its pool and cache, and a startup job, with a restart.
SPECIFICATION Spec
CONSTANTS
  u = u
  v = v
  topics = topics
  Callers = {u, v, topics}
  Jobs = {topics}
  Topics = topics
  Pages <- TwoPages
  MaxConnections = 1
  MaxRetries = 1
  MaxVersion = 1
  MaxRestarts = 1
INVARIANTS TypeOK CollectionFresh
PROPERTIES MemoAfterStartup StartupEnds
