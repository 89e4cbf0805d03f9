---------------------------- MODULE MCPageTree ----------------------------
(* PageTree for TLC: an administrator and an author who may write both      *)
(* top-level addresses, and a reader of one of them.  The first trees have  *)
(* a subtree, a page thrown away inside it, and a subtree thrown away.      *)
EXTENDS PageTree

CONSTANTS p1, p2, p3, ann, ben, cid, a, b

Trees == {p1 :> Row(<<a>>, NoPage) @@ p2 :> Row(<<a, b>>, root) @@ p3 :> Row(<<b>>, NoPage) :
            root \in {NoPage, p2}}
         \cup {p1 :> Row(<<a>>, p1) @@ p2 :> Row(<<a, b>>, root) : root \in {p1, p2}}

Acl == {Grant(<<slug>>, person, "write") : slug \in {a, b}, person \in {ann, ben}}
       \cup {Grant(<<b>>, cid, "read")}

Changes == {Grant(<<a, b>>, ann, "write"), Grant(<<a>>, cid, "read")}

Acls == {Acl}

=============================================================================
