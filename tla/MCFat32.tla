------------------------------- MODULE MCFat32 -------------------------------
(* Three small disks.  Clusters 2 .. 5 of two units; the root begins at 2. *)
EXTENDS Fat32

Ent(kind, name, first, n) == [kind |-> kind, name |-> name, first |-> first, n |-> n]

\* a file that half fills its last cluster, one that was deleted
Plain == [chains |-> {<<2>>, <<3, 5>>},
          ents |-> (2 :> <<Ent("file", "A", 3, 3), Ent("deleted", "x", 4, 2)>>)]

\* a root of two clusters with a label and a long name, a file whose chain is
\* longer than its size, and an empty one
Long == [chains |-> {<<2, 4>>, <<5, 3>>},
         ents |-> (2 :> <<Ent("label", "v", 0, 0), Ent("lfn", "l", 0, 0),
                          Ent("file", "A", 5, 1), Ent("file", "B", 0, 0)>>)]

\* a directory below the root, whose ".." is cluster 0
Nested == [chains |-> {<<2>>, <<4>>, <<5>>},
           ents |-> (2 :> <<Ent("dir", "B", 4, 0)>>) @@
                    (4 :> <<Ent("dir", "..", 0, 0), Ent("file", "A", 5, 2)>>)]

MCLayouts == {Plain, Long, Nested}
MCNames == {"A", "B"}
==============================================================================
