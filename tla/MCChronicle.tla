---------------------------- MODULE MCChronicle ----------------------------
(* Small instances of Chronicle. *)
EXTENDS Chronicle

\* Revisions, a snapshot and a checkpoint overlap: the orders of the log.
Overlapping ==
    [given |-> 1, observer |-> "witness",
     commands |-> <<Claim("c", 1, {}), Claim("c", 2, {}), Claim("d", 1, {1}),
                    Claim("c", 3, {2})>>]

\* Two snapshots compete for the next number; members and a publication.
Competing ==
    [given |-> 3, observer |-> "none",
     commands |-> <<Claim("c", 1, {}), Proposal("p", "c", 1, TRUE, "maintainer"),
                    Snapshot("s", 1, "p", "maintainer"),
                    Snapshot("t", 2, "p", "maintainer"),
                    Snapshot("u", 2, "p", "owner"),
                    Publication("s", "contributor")>>]
Paging ==
    [given |-> 2, observer |-> "pages",
     commands |-> <<Claim("c", 1, {}), Claim("d", 1, {}), Claim("c", 2, {1}),
                    Claim("d", 2, {})>>]

\* A frontier is exported while a member is added and it is published.
Exporting ==
    [given |-> 3, observer |-> "export",
     commands |-> <<Claim("c", 1, {}), Proposal("p", "c", 1, TRUE, "maintainer"),
                    Snapshot("s", 1, "p", "maintainer"),
                    Member("s", "c", 1, "maintainer"),
                    Publication("s", "maintainer")>>]
Growing ==
    [given |-> 4, observer |-> "export",
     commands |-> <<Claim("c", 1, {}), Proposal("p", "c", 1, TRUE, "maintainer"),
                    Snapshot("s", 1, "p", "maintainer"),
                    Member("s", "c", 1, "maintainer"),
                    Claim("c", 2, {1}),
                    Proposal("q", "c", 2, FALSE, "maintainer")>>]

\* No commands at all.
Idle == [given |-> 0, observer |-> "none", commands |-> << >>]

MCScripts == {Idle, Overlapping, Competing, Paging, Exporting, Growing}
MCAttached == [r \in {"c", "d"} \X (1 .. 3) |->
                  IF r = <<"c", 1>> THEN {"evidence"} ELSE {}]

\* A second snapshot of the project.
Second ==
    [given |-> 8, observer |-> "export",
     commands |-> <<Claim("c", 1, {}), Proposal("p", "c", 1, TRUE, "maintainer"),
                    Snapshot("s", 1, "p", "maintainer"),
                    Member("s", "c", 1, "maintainer"),
                    Publication("s", "maintainer"),
                    Snapshot("t", 2, "p", "maintainer"),
                    Member("t", "c", 1, "maintainer"),
                    Publication("t", "maintainer")>>]
MCSecond == {Second}
=============================================================================
