----------------------------- MODULE MCRecords -----------------------------
(* Instances of Records for TLC. *)
EXTENDS Records, TLC

CONSTANTS ann, bob, eve, home, x, y, z, r1, r2, r3

SeedRow(key, role) == [key |-> key, role |-> role, tags |-> {}, by |-> "seed"]

\* ann owns the workspace, bob has no membership yet, eve no account.
SeedRows ==
  { SeedRow(UserKey(ann), "none"), SeedRow(UserKey(bob), "none"),
    SeedRow(WorkspaceKey(home), "none"), SeedRow(MemberKey(home, ann), "owner") }

Plain(word)  == [hash |-> FALSE, gap |-> FALSE, word |-> word]  \* "x"
Hash(word)   == [hash |-> TRUE, gap |-> FALSE, word |-> word]   \* "#x"
Spaced(word) == [hash |-> TRUE, gap |-> TRUE, word |-> word]    \* "# x"

\* The word z has more than 50 letters.
MCTooLong == {[gap |-> gap, word |-> z] : gap \in BOOLEAN}

Invitation(by, user, role) ==
  [op |-> "invite", by |-> by, user |-> user, role |-> role, workspace |-> home]

Save(by, labels) ==
  [op |-> "save", by |-> by, labels |-> labels, workspace |-> home]

First ==
  { [op |-> "register", user |-> eve], [op |-> "create", by |-> bob],
    Invitation(ann, bob, "admin"), Save(ann, <<Plain(x), Hash(y)>>),
    Save(ann, <<Spaced(x)>>), Save(ann, <<Plain(x), Hash(x)>>),
    [op |-> "room", by |-> ann, workspace |-> home] }

Second ==
  { [op |-> "register", user |-> eve], Invitation(ann, bob, "admin"),
    Save(ann, <<Plain(y), Hash(x)>>), Save(ann, <<Spaced(x)>>) }

Third ==
  { Invitation(bob, eve, "member"), Save(bob, <<Spaced(x)>>),
    Save(ann, <<Plain(y), Hash(z)>>),
    [op |-> "notes", by |-> ann, workspace |-> home, label |-> Hash(x)],
    [op |-> "members", by |-> bob, workspace |-> home],
    [op |-> "rooms", by |-> bob, workspace |-> home],
    [op |-> "workspaces", by |-> bob] }

Calls == r1 :> First @@ r2 :> Second @@ r3 :> Third
=============================================================================
