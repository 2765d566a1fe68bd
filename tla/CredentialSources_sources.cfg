SPECIFICATION SourcesSpec
CONSTANTS
  Chunk <- MCChunk
  Refs <- MCRefs
  ProxyEntries <- MCProxies
  Secrets <- MCSecrets
  Providers <- MCProviders
  Containerd <- MCContainerd
  DockerFiles <- MCDockerFiles
  Private <- MCPrivate
  NoAuth = "none"
INVARIANTS
  SourcesTypeOK
  OwnCredentialsOffered
  PrivateRegistryNotAnonymous
CHECK_DEADLOCK FALSE
