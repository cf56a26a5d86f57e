--------------------------- MODULE MCFileNumbers ---------------------------
(* Small uses for FileNumbers. *)
EXTENDS FileNumbers, TLC

Calls == {"lookup", "readdir", "change", "create", "link", "unlink", "rename", "forget", "mount"}
AllCalls == Calls \cup {"evict"}
NoLower == [x \in Names |-> "none"]

\* Lower layers in which every file has one name.
SingleLinks == {l \in [Names -> LIno \cup {"none"}] :
                    \A x, y \in Names : l[x] = l[y] /\ l[x] # "none" => x = y}

Use(lows, calls, to) == [low : lows, calls : {calls}, to : {to}]

\* All calls, but renames only of what is not made again, to names that the
\* lower layer does not have, or without a lower layer; and refresh where
\* nothing is copied up or removed, so that the nodes it leaves behind say the
\* same as the new ones.
SingleUses ==
    Use(SingleLinks, AllCalls \ {"rename"}, {})
    \cup UNION {Use({l}, AllCalls \ {"create", "link"}, {x \in Names : l[x] = "none"}) :
                    l \in SingleLinks}
    \cup Use({NoLower}, Calls, Names)
    \cup Use(SingleLinks, {"lookup", "readdir", "refresh", "forget", "evict", "mount"}, {})
    \cup Use({NoLower}, (AllCalls \cup {"refresh"}) \ {"unlink", "rename"}, {})

\* Which names and inodes there are makes no difference.
Symmetric == Permutations(Names) \cup Permutations(LIno) \cup Permutations(UIno)
=============================================================================
