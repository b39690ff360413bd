------------------------------- MODULE Groups -------------------------------
(***************************************************************************)
(* The copy groups and the methods of their manager (groups.rs), as        *)
(* operators on what the manager keeps and saves: the groups by id and the *)
(* selected one.  The id "g3" is the number 3.                             *)
(*                                                                         *)
(* Of a group only what decides which trades it takes part in, and how, is *)
(* kept: the other settings are numbers that the buys and sells copy.  The *)
(* blocklist is left out: no command of the program changes it.            *)
(***************************************************************************)
EXTENDS Integers, Functions

CONSTANTS
    Wallets,         \* smart wallets
    Quorums,         \* values of consensus_min_wallets
    ConfigWallets,   \* TARGET_WALLETS of the environment
    ConfigQuorum,    \* CONSENSUS_MIN_WALLETS of the environment
    MaxGroups,       \* bound on the ids
    Unreadable       \* a groups file that is missing, or does not parse

ASSUME GroupsAssumption ==
    /\ Quorums \subseteq Nat \ {0}
    /\ ConfigWallets \subseteq Wallets
    /\ {1, ConfigQuorum} \subseteq Quorums
    /\ MaxGroups \in Nat \ {0}

GroupIds == 1 .. MaxGroups

CopyGroup == [enabled : BOOLEAN, wallets : SUBSET Wallets, quorum : Quorums]

\* Some groups, one of them selected.
GroupTables == UNION {[ids -> CopyGroup] : ids \in (SUBSET GroupIds) \ {{}}}

Book == [groups : GroupTables, selected : GroupIds]

ASSUME UnreadableAssumption == Unreadable \notin Book

-----------------------------------------------------------------------------
(* Queries.                                                                *)

all_target_wallets(groups) == UNION {groups[id].wallets : id \in DOMAIN groups}

\* The enabled groups that list the wallet, as they are now.
groups_for_wallet(groups, wallet) ==
    Restrict(groups, {id \in DOMAIN groups : /\ groups[id].enabled
                                             /\ wallet \in groups[id].wallets})

\* The first by id; which one it is makes no difference.
First(ids) == CHOOSE id \in ids : TRUE

\* One more than the greatest id in use, so that the id of a group that was
\* deleted can be given again.
IsNextGroupId(groups, id) ==
    id - 1 \in DOMAIN groups /\ \A other \in DOMAIN groups : other < id

-----------------------------------------------------------------------------
(* Commands.  Each of them is followed by a save.                          *)

from_app_config == [enabled |-> TRUE, wallets |-> ConfigWallets, quorum |-> ConfigQuorum]

set_selected_group(book, id) == [book EXCEPT !.selected = id]

\* add_group and replace_group both insert.
Inserted(groups, id, group) ==
    [other \in DOMAIN groups \cup {id} |-> IF other = id THEN group ELSE groups[other]]

add_group(book, id) ==
    [groups |-> Inserted(book.groups, id, [enabled |-> TRUE, wallets |-> {}, quorum |-> 1]),
     selected |-> id]

\* At least one group must remain.
MayDelete(groups, id) == id \in DOMAIN groups /\ DOMAIN groups # {id}

delete_group_selected(book, id) ==
    [book EXCEPT !.groups = Restrict(@, DOMAIN @ \ {id})]

delete_group(book, id) ==
    LET left == Restrict(book.groups, DOMAIN book.groups \ {id})
    IN  [groups |-> left,
         selected |-> IF book.selected = id THEN First(DOMAIN left) ELSE book.selected]

set_group_enabled(book, id, enabled) == [book EXCEPT !.groups[id].enabled = enabled]

add_wallet(book, id, wallet) == [book EXCEPT !.groups[id].wallets = @ \cup {wallet}]

remove_wallet(book, id, wallet) == [book EXCEPT !.groups[id].wallets = @ \ {wallet}]

\* apply_group_setting_value, then replace_group; at least one wallet.
set_quorum(book, id, quorum) == [book EXCEPT !.groups[id].quorum = quorum]

-----------------------------------------------------------------------------
(* Starting up.                                                            *)

DefaultBook == [groups |-> [id \in {1} |-> from_app_config], selected |-> 1]

\* One group from the configuration unless the file has groups, and the
\* first group unless the saved selection exists.
load_or_default(saved) ==
    IF saved = Unreadable THEN DefaultBook
    ELSE [saved EXCEPT !.selected = IF @ \in DOMAIN saved.groups
                                      THEN @ ELSE First(DOMAIN saved.groups)]

=============================================================================
