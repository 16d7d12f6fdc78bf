------------------------------ MODULE FtpPaths ------------------------------
(* How the FTP server turns a client's path into a path of the board, and    *)
(* the commands that change the directory tree or the session's place in it  *)
(* (apps/netutils/ftpd/ftpd.c).  A path is the list of its parts between the *)
(* slashes, as ftpd_path2node makes it: "/" is <<"">>, "/a" is <<"", "a">>,  *)
(* "a/" is <<"a">>.  A node of the C list is a part and its `ignore` flag.   *)
EXTENDS Naturals, Sequences, SequencesExt, FiniteSets

CONSTANTS
  PathNames,    \* names a client uses
  PathParts,    \* number of parts of the longest path a client sends
  TreeDepth     \* depth of the tree a client makes: a bound

ASSUME PathAssumption ==
  PathNames \cap {"", ".", ".."} = {} /\ PathParts \in Nat /\ TreeDepth \in Nat

VARIABLES
  workdir,         \* session->work, as the client sees it
  tree          \* the directories under the served root, as lists of names

pathVars == <<workdir, tree>>

Home  == <<"", "data", "models">>
Parts == PathNames \cup {"", ".", ".."}
Paths == UNION {[1 .. n -> Parts] : n \in 0 .. PathParts}

-----------------------------------------------------------------------------
(* Nodes.                                                                    *)

(* ftpd_pathignore on the last of the nodes `done`: the first part may be    *)
(* empty, which is the root; any other empty part and "." count for nothing, *)
(* and ".." takes the last part that still counts, unless that is the root.  *)
Kept(done) == {k \in DOMAIN done : ~done[k].ignore}
ftpd_pathignore(done, part) ==
  LET last == CHOOSE k \in Kept(done) : \A j \in Kept(done) : j <= k
      popped == part = ".." /\ Kept(done) # {} /\ done[last].name # ""
      before == IF popped THEN [done EXCEPT ![last].ignore = TRUE] ELSE done
      ignored == part \in {".", ".."} \/ (part = "" /\ done # <<>>)
  IN Append(before, [name |-> part, ignore |-> ignored])

ftpd_path2node(path) ==
  LET node[k \in 0 .. Len(path)] ==
        IF k = 0 THEN <<>> ELSE ftpd_pathignore(node[k - 1], path[k])
  IN node[Len(path)]

(* ftpd_node2path, stripped: the parts that count.                           *)
ftpd_node2path(nodes) ==
  LET parts[k \in 0 .. Len(nodes)] ==
        IF k = 0 THEN <<>>
        ELSE IF nodes[k].ignore THEN parts[k - 1] ELSE Append(parts[k - 1], nodes[k].name)
  IN parts[Len(nodes)]

(* A mistake that would be easy to make here; the properties exclude it: the *)
(* flags the two lists were parsed with are kept, so that a ".." at the      *)
(* start of the appended path finds nothing to take.                         *)
ftpd_nodeappend_stale(head, path, override) ==
  IF override /\ path # <<>> /\ path[1] = "" THEN ftpd_path2node(path)
  ELSE ftpd_path2node(head) \o ftpd_path2node(path)
(* ftpd_nodeappend: with `override` a path that begins at the root replaces  *)
(* what it is appended to; all flags are made anew.                          *)
ftpd_nodeappend(head, path, override) ==
  ftpd_path2node(IF override /\ path # <<>> /\ path[1] = ""
                 THEN path ELSE head \o path)

(* ftpd_getpath: the place below the root, and the absolute path.            *)
ftpd_workpath(path) == ftpd_node2path(ftpd_nodeappend(workdir, path, TRUE))
ftpd_getpath(path)  ==
  ftpd_node2path(ftpd_nodeappend(Home, ftpd_workpath(path), FALSE))

(* An absolute path below the root, as names from the root on.               *)
Below(abspath) == SubSeq(abspath, Len(Home) + 1, Len(abspath))

-----------------------------------------------------------------------------
PathInit == workdir = <<"">> /\ tree = {<<>>}

(* CWD, XCWD and, with "..", CDUP: only into a directory that exists.        *)
ftpd_changedir(path) ==
  /\ Below(ftpd_getpath(path)) \in tree
  /\ workdir' = ftpd_workpath(path)
  /\ UNCHANGED tree

(* MKD: the parent must exist.                                               *)
ftpd_command_mkd(path) ==
  LET dir == Below(ftpd_getpath(path)) IN
  /\ dir \notin tree /\ Len(dir) <= TreeDepth
  /\ SubSeq(dir, 1, Len(dir) - 1) \in tree
  /\ tree' = tree \cup {dir}
  /\ UNCHANGED workdir

(* RMD: neither the root nor the current directory, and only when empty.     *)
Removed(dir) ==
  /\ dir \in tree
  /\ \A d \in tree : IsPrefix(dir, d) => d = dir
  /\ tree' = tree \ {dir}
  /\ UNCHANGED workdir
(* A mistake that would be easy to make here; the properties exclude it: the *)
(* current directory is compared with the client's spelling of the path.     *)
ftpd_command_rmd_unresolved(path) ==
  /\ ftpd_getpath(path) # Home
  /\ workdir # path
  /\ Removed(Below(ftpd_getpath(path)))
ftpd_command_rmd(path) ==
  /\ ftpd_getpath(path) # Home
  /\ workdir # ftpd_workpath(path)
  /\ Removed(Below(ftpd_getpath(path)))

PathNext ==
  \/ ftpd_changedir(<<"..">>)
  \/ \E path \in Paths :
       ftpd_changedir(path) \/ ftpd_command_mkd(path) \/ ftpd_command_rmd(path)

PathSpec == PathInit /\ [][PathNext]_pathVars

-----------------------------------------------------------------------------
PathTypeOK == workdir \in Seq(PathNames \cup {""}) /\ tree \subseteq Seq(PathNames)

(* What a path means, independently of the list of nodes: names are entered  *)
(* one after the other, ".." leaves one, and the root has no parent.         *)
Step(place, part) ==
  IF part \in {"", "."} THEN place
  ELSE IF part = ".." THEN SubSeq(place, 1, Len(place) - 1)
  ELSE Append(place, part)
Walk(from, path) ==
  LET place[k \in 0 .. Len(path)] ==
        IF k = 0 THEN from ELSE Step(place[k - 1], path[k])
  IN place[Len(path)]
Place(path) == Walk(IF path # <<>> /\ path[1] = "" THEN <<>> ELSE Tail(workdir), path)

(* Whatever a client sends, the board's path is the served root followed by  *)
(* the place the path means, and the directory a session works in exists for *)
(* as long as the session does not leave it (ftpd_getpath, ftpd_pathignore;  *)
(* ftpd_changedir, ftpd_command_rmd).                                        *)
PathsStayInside ==
  /\ \A path \in Paths : ftpd_getpath(path) = Home \o Place(path)
  /\ workdir[1] = "" /\ Tail(workdir) \in tree
=============================================================================
