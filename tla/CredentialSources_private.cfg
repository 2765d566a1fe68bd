SPECIFICATION SourcesSpec
CONSTANTS
  Chunk <- MCChunk
  Refs <- MCRefs
  ProxyEntries <- MCProxies
  Secrets <- MCSecrets
  Providers <- MCProviders
  Containerd <- MCContainerd
  DockerFiles <- MCDockerFiles
  Private <- MCPrivate
  NoAuth = "none"
INVARIANT
  PrivateImageNotAnonymous
CHECK_DEADLOCK FALSE
