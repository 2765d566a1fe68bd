------------------------ MODULE MCCredentialSources ------------------------
(***************************************************************************)
(* Instances of CredentialSources.                                         *)
(***************************************************************************)
EXTENDS CredentialSources

MCChunk == STRING

Corp == <<"reg", ".", "corp", ".", "io">>
Port == Corp \o <<":", "8080">>
Slash(a, b) == a \o <<"/">> \o b
App  == <<"team", "/", "app">>

MCRefs == {
  <<"app">>,                                      \* library/app of docker.io
  App,                                            \* of docker.io
  Slash(Corp, App) \o <<":", "v1">>,
  Slash(Port, App) \o <<"@", "digest">>,
  Slash(<<"quay", ".", "io">>, App)}              \* through a proxy

\* The second entry is ignored, the third sees what the first one made.
MCProxies == <<<<"quay", ".", "io", "=", "proxy", ".", "corp">>, <<"nonsense">>,
               <<"proxy", ".", "*", "=">> \o Corp>>

Map(key, auth) == key :> auth

MCSecrets == {
  <<>>,
  <<Map(IndexDockerIO, "s1") @@ Map(Corp, "s2"), Map(Corp, "s3") @@ Map(DockerIO, NoAuth)>>,
  <<Map(Corp, "s2"), Map(Slash(Port, <<"*", "/", "*">>), "s4")>>}

Plugin(patterns, auth) == [matchImages |-> patterns, auth |-> auth]
Stars == <<"*", ".", "corp", ".", "io">>

MCProviders == {
  <<>>,
  <<Plugin({Stars}, Map(Corp, "k1") @@ Map(Stars, "k2")),
    Plugin({DockerIO, Port}, Map(DockerIO, "k3") @@ Map(Port, "k4"))>>,
  <<Plugin({Slash(Corp, <<"team">>)}, Map(Corp, "k5")), Plugin({Corp}, Map(Slash(Corp, App), "k6"))>>}

Host(server, headers) == [server |-> <<"https", ":", "/", "/">> \o server, headers |-> headers]

MCContainerd == {
  <<>>,
  <<Host(Corp, {"c1", "c2"}), Host(DockerIO, {NoAuth})>>,
  <<Host(DockerIO, {"c3"}), Host(Corp, {})>>}

File(map, store) == [readable |-> TRUE, auths |-> map, credsStore |-> store]

MCDockerFiles == {
  <<>>,
  <<[readable |-> FALSE], File(Map(Corp, "d1") @@ Map(IndexDockerIO, "d4"), Map(<<"index", ".", "docker", ".", "io">>, "d2")),
    File(Map(Port, "d3"), <<>>)>>}

MCPrivate == {
  {}, {Stars, Slash(Port, <<"team">>)}, {Slash(Corp, <<"team">>)}, {Corp \o <<":", "8080">>, DockerIO}}

=============================================================================
