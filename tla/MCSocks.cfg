\* Every credential length at a boundary, and proxies of every kind.
CONSTANTS
  Credentials <- MCCredentials
  ProxyIp <- MCProxyIp
  Binds <- MCBinds
  Targets <- MCTargets
  Payloads <- MCPayloads
  None = None
CHECK_DEADLOCK FALSE
SPECIFICATION FairSpec
INVARIANTS
  TypeOK
  CredentialsRead
  HandshakeInStep
  DatagramsIntact
PROPERTIES
  ControlClosedEnds
  ImplementsAssociation
