--------------------------- MODULE StorageMounts ---------------------------
(***************************************************************************)
(* The commands that mount the storage of a user:                          *)
(* src/src/plugins/teamwise_storage/storage_command_generator.py and       *)
(* storage_helper.py, and what such commands do to the directories of the  *)
(* task container.  A path is the sequence of the names on it; a directory *)
(* is a pair of a file system ("local" or a server) and a path there.      *)
(* Addresses, credentials and mount options are left out.                  *)
(***************************************************************************)
EXTENDS Naturals, FiniteSetsExt, SequencesExt

CONSTANTS
    Type,            \* secret storage-server: name of a server -> its type
    Proxied,         \* the servers of type azurefile behind a proxy
    StorageConfigs,  \* secret storage-config: name -> [default, mountInfos]
    STORAGE_CONFIGS, \* names of the storage configs the user may use
    USER_NAME,       \* PAI_USER_NAME
    JOB_NAME,        \* PAI_JOB_NAME
    Norm             \* posixpath.normpath: mount point as written -> path

ASSUME StorageAssumption ==
    /\ \A s \in DOMAIN Type : Type[s] \in {"nfs", "samba", "azurefile", "azureblob"}
    /\ Proxied \subseteq {s \in DOMAIN Type : Type[s] = "azurefile"}
    /\ "local" \notin DOMAIN Type
    /\ \A n \in DOMAIN StorageConfigs :
          StorageConfigs[n].mountInfos \in Seq([server : STRING, mountPoint : STRING,
                                               path : Seq(STRING)])
    /\ \A n \in DOMAIN StorageConfigs : \A i \in DOMAIN StorageConfigs[n].mountInfos :
          Norm[StorageConfigs[n].mountInfos[i].mountPoint] \in Seq(STRING)
    /\ STORAGE_CONFIGS \in Seq(STRING) /\ DOMAIN Type \subseteq STRING /\ USER_NAME \in STRING
    /\ JOB_NAME \in STRING

-----------------------------------------------------------------------------
(* Commands.  A row of commands that matter only by their success is one.   *)

Plain == [op |-> "plain"]
ExitUnless == [op |-> "exit unless"]
Install(g) == [op |-> "install", group |-> g]
AptInstall(ps) == [op |-> "apt", packages |-> ps]
Mkdir(p) == [op |-> "mkdir", at |-> p]
Mount(s, path, p) == [op |-> "mount", server |-> s, path |-> path, at |-> p]
Umount(p) == [op |-> "umount", at |-> p]
Rm(p) == [op |-> "rm", at |-> p]
Link(q, p) == [op |-> "link", to |-> q, at |-> p]

\* The packages that mounting a server of a type needs.
Tools == [nfs |-> {"nfs-common"}, samba |-> {"cifs-utils"},
          azurefile |-> {"cifs-utils", "sshpass"}, azureblob |-> {"blobfuse", "fuse"}]

-----------------------------------------------------------------------------
(* storage_helper.py: the commands for one server                           *)

Substitute(path, old, new) == [i \in DOMAIN path |-> IF path[i] = old THEN new ELSE path[i]]
Render(path) == Substitute(Substitute(path, "%USER", USER_NAME), "%JOB", JOB_NAME)

IsBlob(s) == Type[s] = "azureblob"

\* "/tmp_<spn>_root" is named after the server.
Tmp(s) == <<s>>

\* The commands of each phrase.  nfs, samba and azurefile are alike.
\* Mutant: the root of the server is not unmounted before its mount point is removed.
ShareSetupNoUmount(s, p, path) ==
    [pre_mount  |-> <<Mkdir(p), Install(Type[s])>> \o (IF s \in Proxied THEN <<Plain>> ELSE <<>>),
     tmp_mount  |-> <<Mount(s, Render(path), p)>>,
     post_mount |-> <<Rm(p)>>,
     real_mount |-> <<Mount(s, Render(path), p)>>]

ShareSetup(s, p, path) ==
    [pre_mount  |-> <<Mkdir(p), Install(Type[s])>> \o (IF s \in Proxied THEN <<Plain>> ELSE <<>>),
     tmp_mount  |-> <<Mount(s, Render(path), p)>>,
     post_mount |-> <<Umount(p), Rm(p)>>,
     real_mount |-> <<Mount(s, Render(path), p)>>]

\* The root of a blob container stays mounted, and the mount points are links.
BlobSetup(s, p, path) ==
    [pre_mount  |-> <<Plain, ExitUnless, Plain, AptInstall(Tools.azureblob), Plain, Mkdir(p)>>,
     tmp_mount  |-> <<Mount(s, <<>>, p)>>,
     post_mount |-> <<>>,
     real_mount |-> <<Rm(p), Link(Tmp(s) \o Render(path), p)>>]

SetupCommands(s, p, path) == IF IsBlob(s) THEN BlobSetup(s, p, path) ELSE ShareSetup(s, p, path)

MakeTmpFolders(s, infos) ==
    FlattenSeq([i \in DOMAIN infos |->
        <<Mkdir(Norm[infos[i].mountPoint]), Mkdir(Tmp(s) \o Render(infos[i].path))>>])

-----------------------------------------------------------------------------
(* storage_command_generator.py                                             *)

\* The elements of s that are in S, in the order of s.
Filter(s, S) == FlattenSeq([i \in DOMAIN s |-> IF s[i] \in S THEN <<s[i]>> ELSE <<>>])

\* Names the secret does not have are skipped with a warning.
Known(names) == Filter(names, DOMAIN StorageConfigs)
Infos(names) ==
    FlattenSeq([i \in DOMAIN Known(names) |-> StorageConfigs[Known(names)[i]].mountInfos])

Defaults == Filter(Known(STORAGE_CONFIGS),
                   {n \in DOMAIN StorageConfigs : StorageConfigs[n].default})
Names(asked) == IF asked = <<>> THEN Defaults ELSE asked

AddServer(seen, m) == IF Contains(seen, m.server) THEN seen ELSE Append(seen, m.server)
ServerOrder(infos) == FoldLeft(AddServer, <<>>, infos)

\* Mutant: a server's mount info replaces the one before.
LastOfServer(infos, s) == <<Last(Filter(infos, {m \in ToSet(infos) : m.server = s}))>>

OfServer(infos, s) == Filter(infos, {m \in ToSet(infos) : m.server = s})

\* The root is mounted to make the directories, and then each of them at its point.
ServerCommands(s, infos) ==
    LET tmp == SetupCommands(s, Tmp(s), <<>>)
        real(m) == SetupCommands(s, Norm[m.mountPoint], m.path).real_mount
    IN tmp.pre_mount \o tmp.tmp_mount \o MakeTmpFolders(s, infos) \o tmp.post_mount
       \o FlattenSeq([i \in DOMAIN infos |-> real(infos[i])])

\* Mount points are compared as they are written.
Duplicated(infos) ==
    \E i, j \in DOMAIN infos : i # j /\ infos[i].mountPoint = infos[j].mountPoint

StorageRaises(asked) ==
    \/ STORAGE_CONFIGS = <<>>
    \/ Names(asked) = <<>>
    \/ ~(ToSet(asked) \subseteq ToSet(STORAGE_CONFIGS))
    \/ \E m \in ToSet(Infos(Names(asked))) : m.server \notin DOMAIN Type
    \/ Duplicated(Infos(Names(asked)))

StorageCommands(asked) ==
    LET infos == Infos(Names(asked))
        order == ServerOrder(infos)
    IN <<Plain>> \o FlattenSeq([i \in DOMAIN order |->
                        ServerCommands(order[i], OfServer(infos, order[i]))])

-----------------------------------------------------------------------------
(* What the commands do.  Of a container w: dirs are the directories there   *)
(* are, data those that hold files of the user from before, and table the    *)
(* mounts and symbolic links, in the order they were made.                   *)

Root == <<"local", <<>>>>
In(l, n) == <<l[1], Append(l[2], n)>>
Under(l, r) == l[1] = r[1] /\ IsPrefix(r[2], l[2])

\* What is mounted or linked last at a directory hides what was there.
Follow(table, l) ==
    LET here == {i \in DOMAIN table : table[i].at = l}
    IN IF here = {} THEN l ELSE table[Max(here)].to

Resolve(table, p) ==
    LET at[i \in 0..Len(p)] == IF i = 0 THEN Root ELSE Follow(table, In(at[i - 1], p[i]))
    IN at[Len(p)]
Entry(table, p) == In(Resolve(table, Front(p)), Last(p))
LinkAt(table, l) == \E m \in ToSet(table) : m.link /\ m.at = l

MkdirIn(w, p) ==
    IF \E i \in DOMAIN p : LinkAt(w.table, Entry(w.table, SubSeq(p, 1, i)))
                           /\ Resolve(w.table, SubSeq(p, 1, i)) \notin w.dirs
    THEN {}
    ELSE {[w EXCEPT !.dirs = @ \cup {Resolve(w.table, SubSeq(p, 1, i)) : i \in DOMAIN p}]}

MountIn(w, s, path, p) ==
    IF Tools[Type[s]] \subseteq w.have /\ Resolve(w.table, p) \in w.dirs /\ <<s, path>> \in w.dirs
    THEN {[w EXCEPT !.table =
               Append(@, [at |-> Entry(@, p), to |-> <<s, path>>, link |-> FALSE])]}
    ELSE {}

\* umount takes away the last mount at its directory.
UmountIn(w, p) ==
    LET here == {i \in DOMAIN w.table : w.table[i].at = Entry(w.table, p) /\ ~w.table[i].link}
    IN IF here = {} THEN {} ELSE {[w EXCEPT !.table = RemoveAt(@, Max(here))]}

\* A link is made in the directory, if there is one of its name.
LinkIn(w, q, p) ==
    LET there == Resolve(w.table, p)
    IN IF Resolve(w.table, Front(p)) \notin w.dirs THEN {}
       ELSE {[w EXCEPT !.table = Append(@,
                [at |-> IF there \in w.dirs THEN In(there, Last(q)) ELSE Entry(@, p),
                 to |-> Resolve(@, q), link |-> TRUE])]}

\* rm -r goes down into what is mounted below, and cannot remove a directory
\* that something is mounted on.
Roots(table, p) ==
    LET down[i \in 0..Len(table)] ==
            IF i = 0 THEN {Resolve(table, p)}
            ELSE IF ~table[i].link /\ \E r \in down[i - 1] : Under(table[i].at, r)
                 THEN down[i - 1] \cup {table[i].to} ELSE down[i - 1]
    IN down[Len(table)]
Busy(table, p) == Entry(table, p) # Resolve(table, p) \/ Cardinality(Roots(table, p)) > 1
RmIn(w, p) ==
    LET entry == Entry(w.table, p)
        gone(l) == \E r \in Roots(w.table, p) : Under(l, r)
        stays(l) == \E m \in ToSet(w.table) : ~m.link /\ (Under(m.at, l) \/ m.to = l)
    IN IF LinkAt(w.table, entry)
       THEN [w EXCEPT !.table = Filter(@, {m \in ToSet(@) : m.at # entry})]
       ELSE [w EXCEPT !.dirs = {l \in @ : ~gone(l) \/ stays(l)},
                      !.data = {l \in @ : ~gone(l)},
                      !.table = Filter(@, {m \in ToSet(@) : ~(m.link /\ gone(m.at))})]
RmSucceeds(w, p) ==
    LinkAt(w.table, Entry(w.table, p)) \/ (Resolve(w.table, p) \in w.dirs /\ ~Busy(w.table, p))

NotEmpty(w, l) == l \in w.data \/ \E d \in w.dirs : d # l /\ Under(d, l)
=============================================================================
