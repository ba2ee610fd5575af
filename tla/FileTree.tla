----------------------------- MODULE FileTree -----------------------------
(***************************************************************************)
(* The tree of a torrent's files (src/ui/components/file_tree.rs), which   *)
(* the details dialog and the add dialog show with check boxes.            *)
(*                                                                         *)
(* A tree is the set of its nodes; a node is known by its path, the        *)
(* sequence of the names from the root (rel_path).  A name is a sequence   *)
(* too: what the torrent calls it, what was added to tell it from another, *)
(* and, beyond the depth limit, the rest of the path.                      *)
(***************************************************************************)
EXTENDS Integers, SequencesExt, FiniteSetsExt

CONSTANT
  MaxTreeDepth    \* MAX_TREE_DEPTH (128 in the code)

ASSUME DepthAssumption == MaxTreeDepth \in Nat \ {0}

NoIndex == 0      \* aria2 counts the files of a torrent from 1

\* A file as aria2 lists it.
TorrentFile == [index : Nat \ {NoIndex}, length : Nat, path : Seq(Seq(STRING))]

Joined(names) ==
  FoldLeft(LAMBDA joined, name : joined \o <<"/">> \o name, names[1], Tail(names))

\* segments: beyond the limit the last name holds the rest of the path
Segments(path) ==
  IF Len(path) <= MaxTreeDepth
  THEN path
  ELSE Append(SubSeq(path, 1, MaxTreeDepth - 1),
              Joined(SubSeq(path, MaxTreeDepth, Len(path))))

Leaf(path, file) ==
  [path |-> path, index |-> file.index, dir |-> FALSE, length |-> file.length]

Directory(path) ==
  [path |-> path, index |-> NoIndex, dir |-> TRUE, length |-> 0]

Taken(tree, path) == \E node \in tree : node.path = path

\* "name (~n)": the first n from 2 on that no sibling has
FreePath(tree, path) ==
  LET Copy(n)  == Append(Front(path), Append(Last(path), ToString(n)))
      Free(n)  == ~ Taken(tree, Copy(n))
  IN  Copy(CHOOSE n \in 2 .. Cardinality(tree) + 2 :
             Free(n) /\ \A m \in 2 .. n - 1 : ~ Free(m))

\* One round of build_tree.  A file whose path is a directory's takes its
\* place, and the files below it stay there.
\* mutant: a file with the path of another replaces it
AddFileOver(tree, file) ==
  LET path    == Segments(file.path)
      parents == {SubSeq(path, 1, k) : k \in 1 .. Len(path) - 1}
      missing == {Directory(p) : p \in {q \in parents : ~ Taken(tree, q)}}
  IN  {node \in tree \cup missing : node.path # path} \cup {Leaf(path, file)}

AddFile(tree, file) ==
  LET path    == Segments(file.path)
      parents == {SubSeq(path, 1, k) : k \in 1 .. Len(path) - 1}
      missing == {Directory(p) : p \in {q \in parents : ~ Taken(tree, q)}}
      there   == {node \in tree : node.path = path}
  IN  CASE path = << >> -> tree \cup {Leaf(path, file)}
        [] OTHER ->
             IF \E node \in there : node.index # NoIndex
             THEN tree \cup {Leaf(FreePath(tree, path), file)}
             ELSE (tree \ there) \cup missing \cup {Leaf(path, file)}

BuildTree(files) ==
  LET upTo[k \in 0 .. Len(files)] ==
        IF k = 0 THEN {} ELSE AddFile(upTo[k - 1], files[k])
  IN  upTo[Len(files)]

Below(tree, node) == {m \in tree : IsStrictPrefix(node.path, m.path)}

\* descendant_indices: the files a click on the row of a node is about
DescendantIndices(tree, node) ==
  {m.index : m \in Below(tree, node) \cup {node}} \ {NoIndex}

\* sum_lengths: what lies below a file that took a directory's place does
\* not count
LengthOf(tree, node) ==
  IF ~ node.dir
  THEN node.length
  ELSE LET counted == {m \in Below(tree, node) : /\ ~ m.dir
                         /\ \A k \in Below(tree, node) :
                              IsStrictPrefix(k.path, m.path) => k.dir}
       IN  MapThenSumSet(LAMBDA m : m.length, counted)

DirPaths(tree) == {node.path : node \in {m \in tree : m.dir}}

\* collect_aggregates and the check box of a row
CheckState(tree, node, selected) ==
  LET files  == {m \in Below(tree, node) \cup {node} : ~ m.dir}
      chosen == {m \in files : m.index \in selected}
  IN  CASE files # {} /\ chosen = files -> "checked"
        [] chosen = {}                  -> "unchecked"
        [] OTHER                        -> "partial"

\* flatten_visible: the nodes below directories that are all expanded
VisibleRows(tree, expanded) ==
  {node \in tree :
     \A m \in tree : IsStrictPrefix(m.path, node.path)
                       => m.dir /\ m.path \in expanded}

\* The check box over the list: it selects all files, or, when all are
\* selected, all but one
MasterSelects(tree, selected) ==
  IF {n.index : n \in tree} \ {NoIndex} \subseteq selected THEN "none" ELSE "all"
=============================================================================
