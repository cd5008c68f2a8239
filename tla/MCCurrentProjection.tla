------------------------ MODULE MCCurrentProjection ------------------------
(* Small instances of CurrentProjection: a first commit and two competing  *)
(* successors of it over two files, and a first commit over three files.   *)
EXTENDS CurrentProjection

CONSTANTS a, b, c, x, y, c1, c2, d2

MCRank == [p \in Path |-> CASE p = a -> 1 [] p = b -> 2 [] p = c -> 3]
T(fa, fb) == [p \in Path |-> IF p = a THEN fa ELSE fb]

MCTreeOf ==
    [o \in Oid \cup {NoOid} |->
        CASE o = NoOid -> T(x, Absent)
          [] o = c1    -> T(y, x)
          [] o = c2    -> T(x, y)
          [] o = d2    -> T(y, Absent)]
MCTree == {MCTreeOf[o] : o \in Oid \cup {NoOid}}
MCBaseOf == [o \in Oid |-> IF o = c1 THEN NoOid ELSE c1]

\* every file is modified
MCTreeOf3 == [o \in Oid \cup {NoOid} |-> [p \in Path |-> IF o = NoOid THEN x ELSE y]]
MCTree3 == {MCTreeOf3[o] : o \in Oid \cup {NoOid}}
=============================================================================
