------------------------------- MODULE Teams -------------------------------
(***************************************************************************)
(* The team of a project and the team of an organisation the project may    *)
(* belong to (routes/v3/teams.rs, routes/v3/organizations.rs).  A handler   *)
(* reads what it needs to allow a request, and then writes in a             *)
(* transaction: the reads are of a database (db) that need not be the one   *)
(* the transaction finds.  Two unique indexes end a transaction: a team has *)
(* at most one owner and a user at most one row in a team.                  *)
(***************************************************************************)
EXTENDS Naturals, FiniteSets

CONSTANTS
  Users,          \* those who send requests
  Admins,         \* of the site
  Deleted,        \* the account DELETED_USER, which owns what its owner left
  None,
  MaxChecked      \* requests between their checks and their transactions

TeamsAssumption ==
  /\ Admins \subseteq Users
  /\ Deleted \notin Users
  /\ None \notin Users \cup {Deleted} /\ None \notin BOOLEAN
  /\ MaxChecked \in Nat

Teams  == {"project", "organization"}
\* A set of permissions: every one, or some of them, which may be any.
Levels == {"some", "all"}

VARIABLES
  exists,    \* the organisation does
  owned,     \* the project is the organisation's (mods.organization_id)
  rows,      \* team_members: perms are those in projects, manage those of the team
  checked    \* requests that passed their checks, with what these read

vars == <<exists, owned, rows, checked>>

Row == [team : Teams, user : Users \cup {Deleted}, owner : BOOLEAN,
        accepted : BOOLEAN, perms : Levels, manage : Levels \cup {None}]

Member(t, u, owner, accepted, perms, manage) ==
  [team |-> t, user |-> u, owner |-> owner, accepted |-> accepted,
   perms |-> perms, manage |-> manage]

Owner(t, u) == Member(t, u, TRUE, TRUE, "all", IF t = "project" THEN None ELSE "all")

Request == [kind : {"create", "delete", "add", "release"}, by : Users, user : Users]
     \cup [kind : {"leave"}, user : Users, by : Users]
     \cup [kind : {"join", "transfer", "remove"}, team : Teams, by : Users, user : Users]
     \cup [kind : {"invite", "edit"}, team : Teams, by : Users, user : Users,
           perms : Levels \cup {None}, manage : Levels \cup {None}]

Db == [exists |-> exists, owned |-> owned, rows |-> rows]

(***************************************************************************)
(* What the handlers read                                                   *)
(***************************************************************************)

\* The row of a user in a team, pending or not, and the row if it is accepted.
Of(db, t, u)       == {r \in db.rows : r.team = t /\ r.user = u}
Accepted(db, t, u) == {r \in Of(db, t, u) : r.accepted}
IsOwner(db, t, u)  == \E r \in Accepted(db, t, u) : r.owner

\* The row of the organisation's team counts only while the project is its own.
OrgRow(db, u) == IF db.owned THEN Accepted(db, "organization", u) ELSE {}

\* A user's permissions in a team: none (the empty set), or one level.  In a
\* project the row of its own team comes before that of the organisation's.
Permissions(db, t, u) ==
  IF u \in Admins THEN {"all"}
  ELSE IF t = "organization" THEN {r.manage : r \in Accepted(db, t, u)}
  ELSE {r.perms : r \in IF Accepted(db, t, u) # {} THEN Accepted(db, t, u)
                        ELSE OrgRow(db, u)}

\* Some permissions may hold any that is asked for, but never all of them.
Covers(have, wanted) == have = "all" \/ wanted # "all"
Grants(db, t, u, wanted) == \E l \in Permissions(db, t, u) : Covers(l, wanted)

TeamExists(db, t) == t = "project" \/ db.exists

(***************************************************************************)
(* The checks                                                               *)
(***************************************************************************)

MayJoin(db, q) == q.user = q.by /\ \E r \in Of(db, q.team, q.by) : ~r.accepted

MayInvite(db, q) ==
  /\ TeamExists(db, q.team)
  /\ q.perms # None
  /\ Of(db, q.team, q.user) = {}
  /\ \/ /\ q.team = "project"
        /\ q.manage = None
        /\ Grants(db, q.team, q.by, q.perms)
        \* "We cannot add the owner to a project team in their own org".
        /\ (\E r \in OrgRow(db, q.user) : r.owner) => q.perms = "all"
     \/ /\ q.team = "organization"
        /\ q.manage # None
        /\ Grants(db, q.team, q.by, q.manage)

\* The owner of the organisation is looked for in the one who edits.
MayEdit(db, q) ==
  /\ TeamExists(db, q.team)
  /\ \E r \in Of(db, q.team, q.user) : ~r.owner
  /\ {q.perms, q.manage} # {None}
  /\ \/ /\ q.team = "project"
        /\ q.manage = None
        /\ (\E r \in OrgRow(db, q.by) : r.owner) => q.perms = "all"
        /\ Grants(db, q.team, q.by, q.perms)
     \/ /\ q.team = "organization"
        /\ Grants(db, q.team, q.by, q.manage)

MayTransfer(db, q) ==
  /\ q.team = "project" => ~db.owned
  /\ q.by \in Admins \/ IsOwner(db, q.team, q.by)
  /\ Accepted(db, q.team, q.user) # {}

\* Leaving is for those who have accepted, whatever is left.
MayRemove(db, q) ==
  /\ TeamExists(db, q.team)
  /\ \E r \in Of(db, q.team, q.user) : ~r.owner
  /\ \/ q.by = q.user /\ Accepted(db, q.team, q.by) # {}
     \/ Grants(db, q.team, q.by, "some")

MayLeave(db, q) == q.by = q.user \/ q.by \in Admins

MayCreate(db, q) == ~db.exists /\ q.user = q.by

MayDelete(db, q) ==
  /\ db.exists /\ q.user = q.by
  /\ Grants(db, "organization", q.by, "some")
  /\ \E r \in db.rows : r.team = "organization" /\ r.owner

\* The project becomes the organisation's.
MayAdd(db, q) ==
  /\ db.exists /\ ~db.owned /\ q.user = q.by
  /\ Accepted(db, "project", q.by) # {}
  /\ Accepted(db, "organization", q.by) # {}
  /\ q.by \in Admins \/ IsOwner(db, "project", q.by)
  /\ Grants(db, "organization", q.by, "some")

\* And is given to a member of the organisation again.
MayRelease(db, q) ==
  /\ db.exists /\ db.owned
  /\ Accepted(db, "organization", q.by) # {}
  /\ Grants(db, "organization", q.by, "some")
  /\ Accepted(db, "organization", q.user) # {}

Allowed(db, q) ==
  CASE q.kind = "join"     -> MayJoin(db, q)
    [] q.kind = "invite"   -> MayInvite(db, q)
    [] q.kind = "edit"     -> MayEdit(db, q)
    [] q.kind = "transfer" -> MayTransfer(db, q)
    [] q.kind = "remove"   -> MayRemove(db, q)
    [] q.kind = "leave"    -> MayLeave(db, q)
    [] q.kind = "create"   -> MayCreate(db, q)
    [] q.kind = "delete"   -> MayDelete(db, q)
    [] q.kind = "add"      -> MayAdd(db, q)
    [] q.kind = "release"  -> MayRelease(db, q)

(***************************************************************************)
(* The transactions: the database after a request q whose checks read db    *)
(***************************************************************************)

\* UPDATEs of one row, where None leaves a column as it is.
Edited(R, t, u, perms, manage, accepted, owner) ==
  {IF r.team = t /\ r.user = u
   THEN [r EXCEPT !.perms    = IF perms = None THEN @ ELSE perms,
                  !.manage   = IF manage = None THEN @ ELSE manage,
                  !.accepted = IF accepted = None THEN @ ELSE accepted,
                  !.owner    = IF owner = None THEN @ ELSE owner]
   ELSE r : r \in R}

\* DBTeamMember::delete spares the owner.
Without(R, t, u) == {r \in R : r.team = t /\ r.user = u => r.owner}

OwnersOf(R, t) == {r.user : r \in {x \in R : x.team = t /\ x.owner}}

WithRows(R)           == [Db EXCEPT !.rows = R]
Given(e, o, R)        == [exists |-> e, owned |-> o, rows |-> R]

Joined(db, q) == WithRows(Edited(rows, q.team, q.by, None, None, TRUE, None))

\* A member of the organisation is not asked.
Invited(db, q) ==
  WithRows(rows \cup
    {Member(q.team, q.user, FALSE,
            q.team = "project" /\ OrgRow(db, q.user) # {}, q.perms, q.manage)})

Changed(db, q) ==
  WithRows(Edited(rows, q.team, q.user, q.perms, q.manage, None, None))

\* Whom the list of members names as the owner is not the owner any more.
Lowered(db, t) ==
  {IF r.team = t /\ r.user \in OwnersOf(db.rows, t) THEN [r EXCEPT !.owner = FALSE] ELSE r :
     r \in rows}

\* The new owner of an organisation leaves the team of its project.
Transferred(db, q) ==
  LET lowered == Lowered(db, q.team)
      raised  == Edited(lowered, q.team, q.user, "all",
                        IF q.team = "project" THEN None ELSE "all", None, TRUE)
  IN WithRows(IF q.team = "organization" /\ owned
              THEN Without(raised, "project", q.user) ELSE raised)

Removed(db, q) == WithRows(Without(rows, q.team, q.user))

\* A user who goes leaves what is owned to the account DELETED_USER.
Left(db, q) ==
  WithRows({IF r.user = q.user THEN [r EXCEPT !.user = Deleted] ELSE r :
              r \in {x \in rows : x.user = q.user => x.owner}})

Created(db, q) == Given(TRUE, owned, rows \cup {Owner("organization", q.by)})

\* Mutation: the projects of a deleted organisation get no owner.
Orphaned(db, q) == Given(FALSE, FALSE, {r \in rows : r.team # "organization"})

\* The owner of the organisation, as the checks read it, becomes the project's.
Dissolved(db, q) ==
  LET left == {r \in rows : r.team # "organization"}
  IN Given(FALSE, FALSE,
           IF owned
           THEN left \cup {Owner("project", o) : o \in OwnersOf(db.rows, "organization")}
           ELSE left)

\* Neither the owner of the project nor that of the organisation stays in its team.
Added(db, q) ==
  Given(exists, TRUE,
        {r \in rows : r.team = "project" =>
           ~r.owner /\ r.user \notin OwnersOf(rows, "organization")})

\* The new owner may be in the team, invited to it, or neither.
Released(db, q) ==
  LET with == IF Of(db, "project", q.user) # {} THEN rows
              ELSE rows \cup {Member("project", q.user, FALSE, TRUE, "all", None)}
  IN Given(exists, FALSE, Edited(with, "project", q.user, "all", None, TRUE, TRUE))

After(db, q) ==
  CASE q.kind = "join"     -> Joined(db, q)
    [] q.kind = "invite"   -> Invited(db, q)
    [] q.kind = "edit"     -> Changed(db, q)
    [] q.kind = "transfer" -> Transferred(db, q)
    [] q.kind = "remove"   -> Removed(db, q)
    [] q.kind = "leave"    -> Left(db, q)
    [] q.kind = "create"   -> Created(db, q)
    [] q.kind = "delete"   -> Dissolved(db, q)
    [] q.kind = "add"      -> Added(db, q)
    [] q.kind = "release"  -> Released(db, q)

\* One owner per team and one row per user and team, by the unique indexes.
OneOwner(R) == \A r1, r2 \in R : r1.team = r2.team /\ r1.owner /\ r2.owner => r1 = r2
OneRow(R)   == \A r1, r2 \in R : r1.team = r2.team /\ r1.user = r2.user => r1 = r2

\* A row of the organisation needs it, and adding a project looks for its owner.
Holds(after) ==
  /\ OneOwner(after.rows)
  /\ OneRow(after.rows)
  /\ after.owned \/ (\E r \in after.rows : r.team = "organization") => after.exists

Commits(db, q) ==
  /\ Holds(After(db, q))
  /\ q.kind = "add" => OwnersOf(rows, "organization") # {}

\* A transaction that breaks a constraint changes nothing.
Transaction(db, q) ==
  IF Commits(db, q)
  THEN /\ exists' = After(db, q).exists
       /\ owned'  = After(db, q).owned
       /\ rows'   = After(db, q).rows
  ELSE UNCHANGED <<exists, owned, rows>>

(***************************************************************************)
(* The specification                                                        *)
(***************************************************************************)

\* A project with its creator, of an organisation or not.
Init ==
  /\ \E u \in Users, o \in BOOLEAN :
       /\ exists = o /\ owned = o
       /\ rows = {Owner(IF o THEN "organization" ELSE "project", u)}
  /\ checked = {}

\* One request at a time, of each kind.
Serve(kinds) ==
  /\ \E q \in {x \in Request : x.kind \in kinds} : Allowed(Db, q) /\ Transaction(Db, q)
  /\ UNCHANGED checked

Next ==
  \/ Serve({"join", "invite", "edit"})
  \/ Serve({"transfer"})
  \/ Serve({"remove", "leave"})
  \/ Serve({"create", "delete"})
  \/ Serve({"add", "release"})

Spec == Init /\ [][Next]_vars

\* Several requests at a time.  An organisation is created when none waits, so
\* that no request of an earlier one finds it.
Check(q) ==
  /\ Cardinality(checked) < MaxChecked
  /\ q.kind = "create" => checked = {}
  /\ Allowed(Db, q)
  /\ checked' = checked \cup {[request |-> q, read |-> Db]}
  /\ UNCHANGED <<exists, owned, rows>>

Commit(c) ==
  /\ checked' = checked \ {c}
  /\ Transaction(c.read, c.request)

Race == (\E q \in Request : Check(q)) \/ (\E c \in checked : Commit(c))

RaceSpec == Init /\ [][Race]_vars

(***************************************************************************)
(* Properties                                                               *)
(***************************************************************************)

TypeOK ==
  /\ exists \in BOOLEAN /\ owned \in BOOLEAN
  /\ rows \subseteq Row
  /\ owned => exists

\* Whatever requests have come, a project that belongs to no organisation has an
\* owner (the moderators' pages fail as a whole where one has none,
\* moderation/ownership.rs), and so has the organisation.
EveryTeamHasOwner ==
  /\ ~owned => OwnersOf(rows, "project") # {}
  /\ exists => OwnersOf(rows, "organization") # {}

\* "No project should have an owner if it is in an organization": the project
\* could be transferred, and the organisation not be deleted.
NoOwnerInOrganization == owned => OwnersOf(rows, "project") = {}

\* "You cannot override the project permissions of the organization owner!": the
\* owner of an organisation may do everything in its projects.
OwnerMayEverything ==
  owned => \A u \in OwnersOf(rows, "organization") \ {Deleted} :
             Permissions(Db, "project", u) = {"all"}
=============================================================================
