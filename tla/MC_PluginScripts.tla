-------------------------- MODULE MC_PluginScripts --------------------------
(* An instance of PluginScripts for TLC. *)
EXTENDS PluginScripts

Types == [share |-> "nfs", box1 |-> "azurefile", blobs |-> "azureblob"]
Info(s, p, q) == [server |-> s, mountPoint |-> p, path |-> q]

\* home and data are on one server; blob is beside them; inner is a blob below
\* a mount point of data, and again is a mount point written in another way.
Configs ==
    [home  |-> [default |-> TRUE, mountInfos |->
                 <<Info("share", "/home", <<"users", "%USER">>), Info("share", "/data", <<"data">>)>>],
     file  |-> [default |-> FALSE, mountInfos |-> <<Info("box1", "/file", <<"%JOB">>)>>],
     blob  |-> [default |-> FALSE, mountInfos |-> <<Info("blobs", "/blob", <<"models">>)>>],
     inner |-> [default |-> FALSE, mountInfos |-> <<Info("blobs", "/data/blob", <<"models">>)>>],
     again |-> [default |-> FALSE, mountInfos |-> <<Info("share", "/data/", <<"other">>)>>]]
NormPath ==
    ("/home" :> <<"home">>) @@ ("/data" :> <<"data">>) @@ ("/data/" :> <<"data">>)
    @@ ("/file" :> <<"file">>) @@ ("/blob" :> <<"blob">>) @@ ("/data/blob" :> <<"data", "blob">>)

GrantedNames == <<"home", "file", "blob", "inner", "again", "gone">>

PackageGroups ==
    [ssh |-> {"openssh-client", "openssh-server"}, nfs |-> {"nfs-common"},
     samba |-> {"cifs-utils"}, azurefile |-> {"cifs-utils", "sshpass"}]

Work == <<"local", <<"work">>>>
GivenFiles == {Work, <<"share", <<"data">>>>, <<"share", <<"data", "blob">>>>}

Plugin(k, p, a) == [kind |-> k, policy |-> p, asks |-> a, names |-> <<>>, dir |-> <<>>]
Storage(p, ns) == [Plugin("storage", p, {}) EXCEPT !.names = ns]
Git(p, d) == [Plugin("git", p, {"repo_uri", "clone_dir"}) EXCEPT !.dir = d]

JobSet ==
    {<<Plugin("ssh", p, a), Plugin("cmd", "fail", {"preCommands", "postCommands"})>> :
        p \in {"fail", "ignore", "Ignore"},
        a \in {{}, {"jobssh", "sshbarrier"}, {"userssh", "type", "value"}, {"userssh", "type"},
               {"jobssh", "sshbarrier", "userssh", "type", "empty type", "value"}}}
    \cup {<<Storage("fail", ns)>> : ns \in {<<>>, <<"home", "blob">>, <<"file", "gone">>,
                                            <<"home", "inner">>, <<"home", "again">>, <<"other">>}}
    \cup {<<Storage("Ignore", <<"file">>)>>, <<Storage("ignore", <<"blob">>)>>,
          <<Storage("ignore", <<"again">>), Storage("fail", <<"home">>)>>,
          <<Storage("ignore", <<"file">>), Storage("fail", <<"home">>)>>}
    \cup {<<Storage("fail", <<>>), Git(p, d)>> : p \in {"fail", "ignore"},
          d \in {<<"work">>, <<"data", "code">>, <<"data">>}}
    \cup {<<Git("fail", <<"new">>), Git(p, <<"work">>),
            Plugin("cmd", "ignore", {"callbacks", "taskStarts", "taskSucceeds"})>> :
          p \in {"fail", "ignore"}}
    \cup {<<Plugin("tensorboard", "fail", a), Plugin("cmd", p, {"callbacks", "preCommands"})>> :
          a \in {{}, {"port"}, {"logdir"}, {"port", "logdir"}}, p \in {"ignore", "Ignore"}}
    \cup {<<Plugin("teamwise_storage", "fail", {}), Plugin("git", "fail", {}),
            Plugin("git", "fail", {"repo_uri"})>>}

Site(c, e, g, f) == [cache |-> c, extension |-> e, gang |-> g, first |-> f,
                      alone |-> FALSE, port |-> TRUE]
SiteSet ==
    {Site(c, {"jobSSH"}, TRUE, TRUE) : c \in {"none", "absent", "cached32", "cached"}}
    \cup {Site("none", e, TRUE, TRUE) : e \in {{"none"}, {}, {"sshKeys", "jobSSH"}}}
    \cup {Site("cached", {"sshKeys"}, g, FALSE) : g \in BOOLEAN}
    \cup {[Site("cached", {}, TRUE, TRUE) EXCEPT !.alone = TRUE],
          [Site("none", {"jobSSH"}, TRUE, TRUE) EXCEPT !.port = FALSE]}
=============================================================================
