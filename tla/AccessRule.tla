---------------------------- MODULE AccessRule ----------------------------
(***************************************************************************)
(* Who may do what to a page: can of gw-auth and permits, grants_on and    *)
(* baseline_on of gw-store, as operators over the rows they read.  Every   *)
(* handler, accessor and gate of the system ends in them.                  *)
(*                                                                         *)
(* A path is a sequence of slugs.  An acl row is a path, a subject and a   *)
(* permission; a person carries what a Principal carries.                  *)
(***************************************************************************)
EXTENDS Integers, Sequences

Permissions  == {"read", "comment", "write", "admin"}
Visibilities == {"public", "internal", "restricted"}
Baselines    == {"public", "internal", "admin"}

Level == [read |-> 0, comment |-> 1, write |-> 2, admin |-> 3]

Satisfies(permission, action) == Level[permission] >= Level[action]

Matches(subject, person) ==
  \/ subject.kind = "principal" /\ subject.id \in {person.id, person.username}
  \/ subject.kind = "team"      /\ subject.id \in person.teams
  \/ subject.kind = "group"     /\ subject.id \in person.groups
  \/ subject.kind = "authenticated"

\* Whoever is not signed in, or suspended, gets past the second line on an anyone grant only.
Can(person, action, visibility, grants) ==
  \/ action = "read" /\ visibility = "public"
  \/ \E g \in grants : g.subject.kind = "anyone" /\ Satisfies(g.permission, action)
  \/ /\ person.signedIn /\ person.active
     /\ \/ action = "read" /\ visibility = "internal"
        \/ \E g \in grants : Matches(g.subject, person) /\ Satisfies(g.permission, action)

\* A grant decides at any visibility; without one there is reading only, by visibility and baseline.
Permits(person, action, visibility, grants, baseline) ==
  \/ Can(person, action, "restricted", grants)
  \/ /\ action = "read"
     /\ \/ visibility = "public"
        \/ visibility = "internal"   /\ baseline \in {"internal", "admin"}
        \/ visibility = "restricted" /\ baseline = "admin"

-----------------------------------------------------------------------------
\* The nearest ancestor of a path, itself included, that carries a row wins outright; grants are
\* not united up the tree.
GrantsOn(acl, path) ==
  LET carrying == {n \in 1..Len(path) : \E row \in acl : row.path = SubSeq(path, 1, n)}
      nearest  == {n \in carrying : \A m \in carrying : m <= n}
  IN {row \in acl : \E n \in nearest : row.path = SubSeq(path, 1, n)}

-----------------------------------------------------------------------------
\* The reach of a signed-in, active account: its promotion, else the strongest of its groups.
BaselineOn(id, groups, promoted, roles) ==
  LET mapped == {roles[g] : g \in groups \cap DOMAIN roles}
  IN CASE id \in promoted \/ "admin" \in mapped -> "admin"
       [] id \notin promoted /\ "admin" \notin mapped /\ "internal" \in mapped -> "internal"
       [] OTHER -> "public"

BaselineFor(person, promoted, roles) ==
  IF person.signedIn /\ person.active
  THEN BaselineOn(person.id, person.groups, promoted, roles) ELSE "public"

=============================================================================
