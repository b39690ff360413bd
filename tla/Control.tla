------------------------------- MODULE Control -------------------------------
(***************************************************************************)
(* The Telegram bot as it edits the groups (telegram.rs), the file they    *)
(* are saved in, and the end and the start of the process.                 *)
(*                                                                         *)
(* The bot handles one update at a time.  A command changes the groups in  *)
(* memory, where the other tasks see them at once, and then rewrites       *)
(* copy_groups.json: the file is truncated first, so that until the write  *)
(* ends it cannot be read.  A write that fails is only logged.             *)
(*                                                                         *)
(* The actions speak of this module's variables only; TradeIntake adds     *)
(* what the rest of the program does meanwhile.                            *)
(***************************************************************************)
EXTENDS Groups

CONSTANT MaxEdits    \* bound on the commands that save

ASSUME ControlAssumption == MaxEdits \in Nat

VARIABLES
    book,       \* the manager's groups and selection
    running,    \* is_running, not saved
    file,       \* what copy_groups.json holds
    save,       \* how far the bot is with writing it
    edits       \* how many commands have saved

control == <<book, running, file, save, edits>>

ControlInit ==
    /\ book = load_or_default(Unreadable)
    /\ running = FALSE
    /\ file = Unreadable
    /\ save = "done"
    /\ edits = 0

-----------------------------------------------------------------------------
\* The bot is not in the middle of a command.
Idle == save # "writing"

Edit(changed) ==
    /\ Idle
    /\ edits < MaxEdits
    /\ book' = changed
    /\ save' = "writing"
    /\ edits' = edits + 1
    /\ UNCHANGED <<running, file>>

AddGroup == \E id \in GroupIds : IsNextGroupId(book.groups, id) /\ Edit(add_group(book, id))

DeleteGroup == \E id \in GroupIds : MayDelete(book.groups, id) /\ Edit(delete_group(book, id))

UseGroup == \E id \in DOMAIN book.groups : Edit(set_selected_group(book, id))

EnableGroup ==
    \E id \in DOMAIN book.groups, enabled \in BOOLEAN :
        Edit(set_group_enabled(book, id, enabled))

\* /addwallet is about the selected group.
AddWallet == \E wallet \in Wallets : Edit(add_wallet(book, book.selected, wallet))

\* /rmwallet too, but every group has a button of its own for this.
RemoveWallet ==
    \E id \in DOMAIN book.groups : \E wallet \in book.groups[id].wallets :
        Edit(remove_wallet(book, id, wallet))

\* /set consensus, and the buttons for it.
SetQuorum ==
    \E id \in DOMAIN book.groups, quorum \in Quorums : Edit(set_quorum(book, id, quorum))

\* A new name, another setting, the 0slot switch: the file is rewritten.
\* Settings are taken to be numbers JSON has: "nan" would parse as one too.
Rewrite == Edit(book)

\* save opens the file.
Truncate ==
    /\ save = "writing"
    /\ file' = Unreadable
    /\ UNCHANGED <<book, running, save, edits>>

\* save ends.
Saved ==
    /\ save = "writing"
    /\ file' = book
    /\ save' = "done"
    /\ UNCHANGED <<book, running, edits>>

\* The file cannot be opened, or not be written to the end.
SaveFails ==
    /\ save = "writing"
    /\ save' = "failed"
    /\ UNCHANGED <<book, running, file, edits>>

Start ==
    /\ Idle
    /\ running' = TRUE
    /\ UNCHANGED <<book, file, save, edits>>

Stop ==
    /\ Idle
    /\ running' = FALSE
    /\ UNCHANGED <<book, file, save, edits>>

\* The process ends, at any moment, and is started again.
Reload ==
    /\ book' = load_or_default(file)
    /\ running' = FALSE
    /\ save' = "done"
    /\ UNCHANGED <<file, edits>>

Command ==
    \/ AddGroup \/ DeleteGroup \/ UseGroup \/ EnableGroup
    \/ AddWallet \/ RemoveWallet \/ SetQuorum \/ Rewrite
    \/ Start \/ Stop

Save == Truncate \/ Saved \/ SaveFails

-----------------------------------------------------------------------------
ControlTypeOK ==
    /\ book \in Book
    /\ book.selected \in DOMAIN book.groups
    /\ running \in BOOLEAN
    /\ file \in Book \cup {Unreadable}
    /\ save \in {"done", "writing", "failed"}
    /\ edits \in 0 .. MaxEdits

\* A restart changes nothing that the user set: unless the bot is in the
\* middle of a save, or the last one failed, what would be loaded is what is
\* in memory, the selected group included.  This holds after a restart that
\* found the file cut off as well, when memory came from the configuration.
Restartable == save = "done" => load_or_default(file) = book

=============================================================================
