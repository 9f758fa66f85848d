------------------------------ MODULE ZpoolList ------------------------------
(***************************************************************************)
(* What volumes.rs reads from `zpool list': in JSON, or in text where the  *)
(* installed OpenZFS has no JSON.  A pool is [name, health, vdevs]; its    *)
(* vdevs are a sequence, from the top: each is [depth, name, type, section,*)
(* alloc], it is inside the nearest earlier one of smaller depth, and alloc*)
(* is -1 where zpool prints none.  What is parsed is a function from the   *)
(* place of a vdev in the tree, a sequence of indices.                     *)
(***************************************************************************)
EXTENDS Integers, Sequences, FiniteSets, SequencesExt, FiniteSetsExt

NoAlloc == -1
GroupTypes == {"mirror", "raidz", "draid", "replacing", "spare"}
Mirrors == {"mirror", "replacing", "spare"}

-----------------------------------------------------------------------------
(* The text: a line for the pool, two spaces for each level of a vdev, and *)
(* a line of dashes in column zero before the vdevs of another section.    *)
PoolLine(pool) == [kind |-> "pool", indent |-> 0, name |-> pool.name, health |-> pool.health]
ClassLine(section) == [kind |-> "class", indent |-> 0, name |-> section, alloc |-> NoAlloc]
VdevLine(v) == [kind |-> "vdev", indent |-> 2 * (v.depth + 1), name |-> v.name,
                type |-> v.type, alloc |-> v.alloc]

TextOf(pool) ==
    LET header(i) == LET v == pool.vdevs[i]
                         was == IF i = 1 THEN "data" ELSE pool.vdevs[i - 1].section
                     IN  IF v.section = was THEN <<>> ELSE <<ClassLine(v.section)>>
        lines(i) == header(i) \o <<VdevLine(pool.vdevs[i])>>
    IN  <<PoolLine(pool)>> \o FlattenSeq([i \in DOMAIN pool.vdevs |-> lines(i)])

(* infer_text_vdev_type: groups are known by their names, leaves are not.  *)
InferredType(line) == IF line.type \in GroupTypes THEN line.type ELSE ""

(* insert_zfs_vdev: the path to the last vdev is cut to the depth of the   *)
(* new one, which becomes the next child there.                            *)
Insert(tree, path, depth, vdev) ==
    IF depth > Len(path) THEN [tree |-> tree, path |-> path]
    ELSE LET parent == SubSeq(path, 1, depth)
             siblings == {p \in DOMAIN tree : Len(p) = depth + 1 /\ SubSeq(p, 1, depth) = parent}
             place == Append(parent, Cardinality(siblings) + 1)
         IN  [tree |-> [p \in DOMAIN tree \cup {place} |-> IF p = place THEN vdev ELSE tree[p]],
              path |-> place]

NoPool == [name |-> "", health |-> "", tree |-> <<>>]
Nowhere == [done |-> {}, current |-> NoPool, section |-> "data", path |-> <<>>]
Finished(s) == s.done \cup ({s.current} \ {NoPool})

(* Fault: the section goes on into the next pool.                          *)
ReadPoolLineKeepsSection(s, line) ==
    [s EXCEPT !.done = Finished(s), !.current = [name |-> line.name, health |-> line.health, tree |-> <<>>],
              !.path = <<>>]

ReadPoolLine(s, line) ==
    [s EXCEPT !.done = Finished(s), !.current = [name |-> line.name, health |-> line.health, tree |-> <<>>],
              !.section = "data", !.path = <<>>]

ReadClassLine(s, line) == [s EXCEPT !.section = line.name, !.path = <<>>]

ReadVdevLine(s, line) ==
    LET vdev == [name |-> line.name, type |-> InferredType(line), section |-> s.section,
                 alloc |-> line.alloc]
        next == Insert(s.current.tree, s.path, line.indent \div 2 - 1, vdev)
    IN  IF s.current = NoPool THEN s
        ELSE [s EXCEPT !.current.tree = next.tree, !.path = next.path]

(* parse_zpool_text                                                        *)
ReadLine(s, line) ==
    CASE line.kind = "pool"  -> ReadPoolLine(s, line)
      [] line.kind = "class" -> ReadClassLine(s, line)
      [] line.kind = "vdev"  -> ReadVdevLine(s, line)

ParseText(lines) ==
    LET read[n \in 0..Len(lines)] == IF n = 0 THEN Nowhere ELSE ReadLine(read[n - 1], lines[n])
    IN  Finished(read[Len(lines)])

-----------------------------------------------------------------------------
(* The JSON nests vdevs in their groups, and those of another section in an*)
(* object with its name, or names their class on the outermost vdev.       *)
(* parse_vdev_map hands the section of the outermost vdev down.            *)
PlaceOf(vdevs, i) ==
    LET last(d) == Max({j \in 1..i : vdevs[j].depth = d} \cup {0})
        number(d) == Cardinality({j \in (last(d - 1) + 1)..last(d) : vdevs[j].depth = d})
    IN  [k \in 1..(vdevs[i].depth + 1) |-> number(k - 1)]

ParseJson(pools) ==
    {[name |-> pool.name, health |-> pool.health,
      tree |-> LET vdevs == pool.vdevs
                   at == {PlaceOf(vdevs, i) : i \in DOMAIN vdevs}
                   row(p) == vdevs[CHOOSE i \in DOMAIN vdevs : PlaceOf(vdevs, i) = p]
               IN  [p \in at |-> [name |-> row(p).name, type |-> row(p).type,
                                  section |-> row(SubSeq(p, 1, 1)).section, alloc |-> row(p).alloc]]]
       : pool \in pools}

-----------------------------------------------------------------------------
IsUnder(p, q) == Len(q) < Len(p) /\ SubSeq(p, 1, Len(q)) = q
LeafPaths(tree) == {p \in DOMAIN tree : \A q \in DOMAIN tree : ~IsUnder(q, p)}

(* leaf_vdevs                                                              *)
Leaves(pool) == {pool.tree[p] : p \in LeafPaths(pool.tree)}

(* Order of the tree from the top: by the first index that differs.        *)
Before(p, q) ==
    \/ IsUnder(q, p)
    \/ \E k \in 1..Min({Len(p), Len(q)}) :
          /\ SubSeq(p, 1, k - 1) = SubSeq(q, 1, k - 1)
          /\ p[k] < q[k]

(* The seen-th of count leaves of a group: the first ones take the rest.   *)
Share(allocated, count, seen) ==
    (allocated \div count) + (IF seen < allocated % count THEN 1 ELSE 0)

(* leaf_allocations: an allocation of its own, or what it has of the       *)
(* nearest group that reports one: all of a mirror, a share of any other.  *)
LeafAllocation(tree, p) ==
    LET groups == {q \in DOMAIN tree : IsUnder(p, q) /\ tree[q].alloc # NoAlloc}
        group == CHOOSE q \in groups : \A r \in groups : Len(r) <= Len(q)
        leaves == {q \in LeafPaths(tree) : IsUnder(q, group)}
        seen == {q \in leaves : Before(q, p)}
    IN  IF tree[p].alloc # NoAlloc THEN tree[p].alloc
        ELSE IF groups = {} THEN 0
        ELSE IF tree[group].type \in Mirrors THEN tree[group].alloc
        ELSE Share(tree[group].alloc, Cardinality(leaves), Cardinality(seen))
===============================================================================
