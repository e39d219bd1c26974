--------------------------- MODULE UserAccountsMC ---------------------------
(***************************************************************************)
(* Small instances of UserAccounts: prospective member 2, who may have an  *)
(* account, permissions and a Discord account, two CAP members, and        *)
(* whoever joins.                                                          *)
(***************************************************************************)
EXTENDS UserAccounts, TLC

CONSTANTS c, d, n1, n2, s

MCSymmetry == Permutations(Requests)

MCRow(t, m, n, p) == [of |-> t, by |-> s, for |-> m, member |-> m, name |-> n, pw |-> p]
MCPerson == MCRow("people", 2, None, None)
MCUser == MCRow("users", 2, n1, s)
MCFirst ==
    {{MCPerson, MCRow("tokens", 2, None, None), MCRow("tokens", c, None, None)},
     {MCPerson, MCUser, MCRow("perms", 2, None, s), MCRow("discord", 2, n1, None)}}

MCOp(n, m, to, u, w, l) ==
    [name |-> n, member |-> m, to |-> to, user |-> u, weak |-> w, list |-> l]
Link == MCOp("link", None, None, None, FALSE, {})
Random(u, w) == MCOp("random", None, None, u, w, {})
Chosen(u, w) == MCOp("chosen", None, None, u, w, {})
Request(m) == MCOp("request", m, None, None, FALSE, {})
Finish(m, u, w) == MCOp("finish", m, None, u, w, {})
Delete(m) == MCOp("delete", m, None, None, FALSE, {})
Upgrade(m, to) == MCOp("upgrade", m, to, None, FALSE, {})
Roles(l) == MCOp("roles", None, None, None, FALSE, l)
Discord(m, u) == MCOp("discord", m, None, u, FALSE, {})

Everywhere == Labels \ (Ended \union {"idle"})
Upgrading == {"upgrade"} \X OpNames

\* Accounts made one at a time, and people who come and go: member 2 goes by one username,
\* newcomers by another, which a CAP member asks for, too.
MCMaking ==
    [menu |-> {Chosen(n2, TRUE), Random(n2, FALSE), Finish(2, n1, FALSE), Finish(2, n1, TRUE),
               Request(c), Finish(c, n2, FALSE), Delete(2), Discord(2, n1), Discord(2, n2)},
     apart |-> (Creating \X Creating) \union ({"discord"} \X {"discord"}),
     failing |-> {"addToken", "mail", "save", "drop", "erase"}, lapse |-> TRUE]

\* Upgrades, which may fail, apart from other business of the member and from permissions.
MCUpgrading ==
    [menu |-> {Upgrade(2, d), Chosen(n1, FALSE), Link, Finish(2, n1, FALSE), Discord(2, n1),
               Roles({c})},
     apart |-> Upgrading \union (Logins \X Logins) \union ({"discord"} \X {"discord"})
               \union (Creating \X Creating),
     failing |-> {"commit", "finds", "replace", "erase", "start"}, lapse |-> FALSE]

\* Upgrades that fail at most in the end, and permissions of the member before and after.
MCMoving ==
    [menu |-> {Upgrade(2, d), Delete(2), Chosen(n1, FALSE), Request(c), Finish(c, n2, FALSE),
               Discord(c, n2), Roles({2, c})},
     apart |-> Upgrading, failing |-> {"commit", "put"}, lapse |-> FALSE]

\* Whatever fails, and whatever is done at the same time.
MCRough ==
    [menu |-> {Upgrade(2, d), Finish(2, n2, FALSE), Delete(2), Discord(2, n1), Roles({2})},
     apart |-> {}, failing |-> Everywhere, lapse |-> FALSE]

MCConditions == <<MCMaking, MCUpgrading, MCMoving, MCRough>>
=============================================================================
