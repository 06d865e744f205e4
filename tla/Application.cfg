CONSTANTS
  Client = {k1, k2}
  NoClient = NoClient
SPECIFICATION FairSpec
INVARIANTS NoStray
PROPERTIES RestartRetried ReplacedIsDestroyed
