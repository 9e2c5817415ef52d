------------------------------ MODULE MCPipeline ------------------------------
\* Small instances of Pipeline for TLC.
EXTENDS Pipeline

\* Sources as the DSL writes them: "c1", "/server/path", "server/path".
MCSources == {<<"c1">>, <<"c2">>, <<"", "server", "path">>, <<"server", "path">>}

Claim(name, opts) == [scheme |-> "", src |-> <<name>>, opts |-> opts]
NFS == [scheme |-> "nfs", src |-> <<"", "server", "path">>, opts |-> {}]
NFSWithoutSlash == [scheme |-> "nfs", src |-> <<"server", "path">>, opts |-> {}]

MCService(name, init, ports, volumes) ==
  [name |-> name, init |-> init, ports |-> ports, volumes |-> volumes]

\* Two services, each with any of two volumes; the second one may publish a port.
MCOptionSets == {{}, {"retain"}, {"rwx"}, {"storageClass"}}
Strings == {Garbled, NFS, NFSWithoutSlash, Claim("c1", {}), Claim("c2", {"rwx"}), Claim("c2", {"storageClass"})}
VolumeMaps == UNION {[ids -> Strings] : ids \in SUBSET VolumeIds}
TwoServices == {<<MCService("s1", FALSE, {}, x), MCService("s2", FALSE, {80}, y)>> :
                  x \in VolumeMaps, y \in VolumeMaps}
=============================================================================
