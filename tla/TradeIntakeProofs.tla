------------------------- MODULE TradeIntakeProofs -------------------------
(***************************************************************************)
(* What the file restores is what was in memory, and a vote that was taken *)
(* back stays out, for any number of groups, wallets and transactions.     *)
(***************************************************************************)
EXTENDS TradeIntake, TLAPS

-----------------------------------------------------------------------------
(* The groups.                                                             *)

\* A group table, without the union of the definition.
LEMMA TableIs ==
    ASSUME NEW g
    PROVE  g \in GroupTables <=>
               \E ids \in SUBSET GroupIds : ids # {} /\ g \in [ids -> CopyGroup]
BY DEF GroupTables

\* A group table has groups, and the ids they are known by.
LEMMA TableFacts ==
    ASSUME NEW g \in GroupTables
    PROVE  /\ DOMAIN g \subseteq GroupIds
           /\ DOMAIN g # {}
           /\ g \in [DOMAIN g -> CopyGroup]
BY TableIs

\* Groups under some ids are a table.
LEMMA TableMade ==
    ASSUME NEW ids \in SUBSET GroupIds, ids # {}, NEW g \in [ids -> CopyGroup]
    PROVE  g \in GroupTables
BY TableIs

\* What is left of a table is one, unless nothing is.
LEMMA RestrictTable ==
    ASSUME NEW g \in GroupTables, NEW ids \in SUBSET DOMAIN g
    PROVE  /\ Restrict(g, ids) \in [ids -> CopyGroup]
           /\ DOMAIN Restrict(g, ids) = ids
           /\ \A id \in ids : Restrict(g, ids)[id] = g[id]
           /\ ids # {} => Restrict(g, ids) \in GroupTables
BY TableFacts, TableMade DEF Restrict

\* The least id of some ids is one of them.
LEMMA FirstIs == ASSUME NEW ids, ids # {} PROVE First(ids) \in ids
BY DEF First

\* A book whose selected group exists.
Sound(b) == b \in Book /\ b.selected \in DOMAIN b.groups

\* The parts of a book.
LEMMA BookFacts ==
    ASSUME NEW b \in Book
    PROVE  /\ b.groups \in GroupTables
           /\ b.selected \in GroupIds
           /\ b = [groups |-> b.groups, selected |-> b.selected]
BY DEF Book

\* A group that is written over leaves a table.
LEMMA ChangedGroup ==
    ASSUME NEW b, Sound(b), NEW id \in DOMAIN b.groups, NEW group \in CopyGroup
    PROVE  Sound([b EXCEPT !.groups[id] = group])
<1>1. [b.groups EXCEPT ![id] = group] \in [DOMAIN b.groups -> CopyGroup]
    BY BookFacts, TableFacts DEF Sound
<1>2. [b.groups EXCEPT ![id] = group] \in GroupTables
    BY <1>1, BookFacts, TableFacts, TableMade DEF Sound
<1>3. [b EXCEPT !.groups[id] = group]
        = [groups |-> [b.groups EXCEPT ![id] = group], selected |-> b.selected]
    BY BookFacts DEF Sound
<1>4. QED
    BY <1>1, <1>2, <1>3, BookFacts DEF Sound, Book

\* The commands keep a book sound.
LEMMA EditedGroup ==
    ASSUME NEW b, Sound(b), NEW id \in DOMAIN b.groups
    PROVE  /\ \A enabled \in BOOLEAN : Sound(set_group_enabled(b, id, enabled))
           /\ \A w \in Wallets : Sound(add_wallet(b, id, w))
           /\ \A w \in Wallets : Sound(remove_wallet(b, id, w))
           /\ \A quorum \in Quorums : Sound(set_quorum(b, id, quorum))
           /\ Sound(set_selected_group(b, id))
<1> DEFINE group == b.groups[id]
<1>1. group \in CopyGroup
    BY BookFacts, TableFacts DEF Sound
<1>2. ASSUME NEW enabled \in BOOLEAN
      PROVE  Sound(set_group_enabled(b, id, enabled))
  <2>1. [group EXCEPT !.enabled = enabled] \in CopyGroup
    BY <1>1 DEF CopyGroup
  <2>2. set_group_enabled(b, id, enabled)
          = [b EXCEPT !.groups[id] = [group EXCEPT !.enabled = enabled]]
    BY DEF set_group_enabled
  <2>3. QED
    BY <2>1, <2>2, ChangedGroup
<1>3. ASSUME NEW w \in Wallets
      PROVE  Sound(add_wallet(b, id, w)) /\ Sound(remove_wallet(b, id, w))
  <2>1. /\ [group EXCEPT !.wallets = @ \cup {w}] \in CopyGroup
        /\ [group EXCEPT !.wallets = @ \ {w}] \in CopyGroup
    BY <1>1 DEF CopyGroup
  <2>2. /\ add_wallet(b, id, w)
             = [b EXCEPT !.groups[id] = [group EXCEPT !.wallets = @ \cup {w}]]
        /\ remove_wallet(b, id, w)
             = [b EXCEPT !.groups[id] = [group EXCEPT !.wallets = @ \ {w}]]
    BY DEF add_wallet, remove_wallet
  <2>3. /\ Sound([b EXCEPT !.groups[id] = [group EXCEPT !.wallets = @ \cup {w}]])
        /\ Sound([b EXCEPT !.groups[id] = [group EXCEPT !.wallets = @ \ {w}]])
    BY <2>1, ChangedGroup
  <2>4. QED
    BY <2>2, <2>3
<1>4. ASSUME NEW quorum \in Quorums
      PROVE  Sound(set_quorum(b, id, quorum))
  <2>1. [group EXCEPT !.quorum = quorum] \in CopyGroup
    BY <1>1 DEF CopyGroup
  <2>2. set_quorum(b, id, quorum)
          = [b EXCEPT !.groups[id] = [group EXCEPT !.quorum = quorum]]
    BY DEF set_quorum
  <2>3. QED
    BY <2>1, <2>2, ChangedGroup
<1>5. Sound(set_selected_group(b, id))
    BY BookFacts, TableFacts DEF Sound, Book, set_selected_group
<1>6. QED
    BY <1>2, <1>3, <1>4, <1>5

\* A new group leaves a sound book, selected or not.
LEMMA AddedGroup ==
    ASSUME NEW b, Sound(b), NEW id \in GroupIds
    PROVE  Sound(add_group(b, id))
<1> DEFINE ids == DOMAIN b.groups \cup {id}
           blank == [enabled |-> TRUE, wallets |-> {}, quorum |-> 1]
<1>1. blank \in CopyGroup
    BY GroupsAssumption DEF CopyGroup
<1>2. Inserted(b.groups, id, blank) \in [ids -> CopyGroup]
    BY <1>1, BookFacts, TableFacts DEF Sound, Inserted
<1>3. Inserted(b.groups, id, blank) \in GroupTables
    BY <1>2, BookFacts, TableFacts, TableMade DEF Sound
<1>4. QED
    BY <1>2, <1>3 DEF Sound, Book, add_group

\* So does the end of a group, when it is not the last one.
LEMMA DeletedGroup ==
    ASSUME NEW b, Sound(b), NEW id \in GroupIds, MayDelete(b.groups, id)
    PROVE  Sound(delete_group(b, id))
<1> DEFINE ids == DOMAIN b.groups \ {id}
           left == Restrict(b.groups, ids)
<1>1. ids # {} /\ ids \subseteq DOMAIN b.groups
    BY DEF MayDelete
<1>2. left \in GroupTables /\ DOMAIN left = ids
    BY <1>1, BookFacts, RestrictTable DEF Sound
<1>3. First(ids) \in ids
    BY <1>1, FirstIs
<1>4. QED
    BY <1>2, <1>3, BookFacts, TableFacts DEF Sound, Book, delete_group

\* What is loaded from a sound book is that book.
LEMMA LoadsWhatIsSaved ==
    ASSUME NEW b, Sound(b)
    PROVE  load_or_default(b) = b
<1>1. b # Unreadable
    BY UnreadableAssumption DEF Sound
<1>2. QED
    BY <1>1, BookFacts DEF Sound, load_or_default

\* Whatever the file holds, a restart has a selected group.
LEMMA LoadsSound ==
    ASSUME NEW saved \in Book \cup {Unreadable}
    PROVE  Sound(load_or_default(saved))
<1>1. CASE saved = Unreadable
  <2>1. from_app_config \in CopyGroup
    BY GroupsAssumption DEF from_app_config, CopyGroup
  <2>2. 1 \in GroupIds
    BY GroupsAssumption DEF GroupIds
  <2>3. [id \in {1} |-> from_app_config] \in GroupTables
    BY <2>1, <2>2, TableMade
  <2>4. QED
    BY <1>1, <2>2, <2>3 DEF load_or_default, DefaultBook, Sound, Book
<1>2. CASE saved \in Book /\ saved # Unreadable
  <2>1. First(DOMAIN saved.groups) \in DOMAIN saved.groups
    BY <1>2, BookFacts, TableFacts, FirstIs
  <2>2. QED
    BY <1>2, <2>1, BookFacts, TableFacts DEF load_or_default, Sound, Book
<1>3. QED
    BY <1>1, <1>2

-----------------------------------------------------------------------------
(* The bot and its file.                                                   *)

\* A command that saves leaves a book of the same kind, still to be saved.
LEMMA EditKeeps ==
    ASSUME ControlTypeOK, NEW changed, Sound(changed), Edit(changed)
    PROVE  ControlTypeOK' /\ save' = "writing"
BY ControlAssumption DEF ControlTypeOK, Edit, Sound

\* Whatever the user asks for, the selected group exists afterwards.
LEMMA CommandKeeps ==
    ASSUME ControlTypeOK, Restartable, Command
    PROVE  ControlTypeOK' /\ Restartable'
<1>1. Sound(book)
    BY DEF ControlTypeOK, Sound
<1>2. ASSUME NEW changed, Sound(changed), Edit(changed)
      PROVE  ControlTypeOK' /\ Restartable'
    BY <1>2, EditKeeps DEF Restartable
<1>3. CASE AddGroup
    BY <1>1, <1>2, <1>3, AddedGroup DEF AddGroup
<1>4. CASE DeleteGroup
    BY <1>1, <1>2, <1>4, DeletedGroup DEF DeleteGroup
<1>5. CASE UseGroup
    BY <1>1, <1>2, <1>5, EditedGroup DEF UseGroup
<1>6. CASE EnableGroup
    BY <1>1, <1>2, <1>6, EditedGroup DEF EnableGroup
<1>7. CASE AddWallet
    BY <1>1, <1>2, <1>7, EditedGroup DEF AddWallet, Sound
<1>8. CASE RemoveWallet
  <2>1. PICK id \in DOMAIN book.groups : \E wallet \in book.groups[id].wallets :
            Edit(remove_wallet(book, id, wallet))
    BY <1>8 DEF RemoveWallet
  <2>2. book.groups[id].wallets \subseteq Wallets
    BY <1>1, BookFacts, TableFacts DEF Sound, CopyGroup
  <2>3. QED
    BY <1>1, <1>2, <2>1, <2>2, EditedGroup
<1>9. CASE SetQuorum
    BY <1>1, <1>2, <1>9, EditedGroup DEF SetQuorum
<1>10. CASE Rewrite
    BY <1>1, <1>2, <1>10 DEF Rewrite
<1>11. CASE Start \/ Stop
    BY <1>11 DEF Start, Stop, ControlTypeOK, Restartable
<1>12. QED
    BY <1>3, <1>4, <1>5, <1>6, <1>7, <1>8, <1>9, <1>10, <1>11 DEF Command

\* The end of a save: the file holds what a restart will load as it is.
LEMMA SaveKeeps ==
    ASSUME ControlTypeOK, Restartable, Save
    PROVE  ControlTypeOK' /\ Restartable'
<1>1. Sound(book)
    BY DEF ControlTypeOK, Sound
<1>2. load_or_default(book) = book
    BY <1>1, LoadsWhatIsSaved
<1>3. QED
    BY <1>2 DEF ControlTypeOK, Restartable, Save, Truncate, Saved, SaveFails

\* A restart too, and nothing is pending then.
LEMMA ReloadKeeps ==
    ASSUME ControlTypeOK, Reload
    PROVE  ControlTypeOK' /\ Restartable'
<1>1. Sound(load_or_default(file))
    BY LoadsSound DEF ControlTypeOK
<1>2. QED
    BY <1>1 DEF ControlTypeOK, Restartable, Reload, Sound

\* The first start finds no file.
LEMMA ControlStarts ==
    ASSUME ControlInit
    PROVE  ControlTypeOK /\ Restartable
<1>1. Sound(book)
    BY LoadsSound DEF ControlInit
<1>2. edits \in 0 .. MaxEdits
    BY ControlAssumption DEF ControlInit
<1>3. QED
    BY <1>1, <1>2 DEF ControlInit, ControlTypeOK, Restartable, Sound

\* The tasks other than the bot leave the groups and the file alone.
LEMMA ControlKept ==
    ASSUME ControlTypeOK, Restartable, UNCHANGED control
    PROVE  ControlTypeOK' /\ Restartable'
BY DEF control, ControlTypeOK, Restartable

\* The tasks other than the bot do not edit groups.
LEMMA OthersLeaveControl ==
    ASSUME \/ Sync \/ Subscriber \/ Connect \/ Disconnect \/ Receive \/ Serving \/ VoteEnds
           \/ \E t \in Txs : Land(t) \/ Deliver(t) \/ Expire(t)
    PROVE  UNCHANGED control
BY DEF Sync, Subscriber, Check, Await, Gather, Resubscribe, Connect, Disconnect, Goto,
       Receive, Serving, Pass, Submit, Reject, Dispatch, VoteEnds, Land, Deliver, Expire

-----------------------------------------------------------------------------
(* The rest of the program.                                                *)

\* Why a refuted vote does not come back.  The landed copy was taken, and a
\* copy in hand is that one; or no copy is left and none will come.
Settled(t) ==
    \/ /\ seen[t].landed_seen
       /\ work # Absent /\ work.trade.tx = t => work.trade.failed
    \/ /\ fate[t] = "over"
       /\ ~InHand(t)

\* Only a landed copy can be a failed one, and it was marked when taken.
FailuresLanded ==
    /\ \A i \in 1 .. Len(queue) : queue[i].failed => ~queue[i].pre
    /\ work # Absent /\ work.trade.failed => seen[work.trade.tx].landed_seen

IntakeInvariant ==
    /\ TypeOK
    /\ Restartable
    /\ FailuresLanded
    /\ \A vote \in refuted : Settled(vote[2])
    /\ NoVoteForRefuted

\* The wallets of all the groups are wallets.
LEMMA CurrentWallets ==
    ASSUME NEW b, Sound(b)
    PROVE  all_target_wallets(b.groups) \subseteq Wallets
BY BookFacts, TableFacts DEF Sound, all_target_wallets, CopyGroup

\* The groups that list a wallet: some of those there are.
LEMMA MatchedGroups ==
    ASSUME NEW g \in GroupTables, NEW wallet
    PROVE  LET left == groups_for_wallet(g, wallet)
           IN  DOMAIN left = {} \/ left \in GroupTables
BY RestrictTable DEF groups_for_wallet

\* What is left to serve is nothing or a trade with some groups.
LEMMA ServeType ==
    ASSUME NEW trade \in DetectedTrade, NEW left, DOMAIN left = {} \/ left \in GroupTables,
           Serve(trade, left)
    PROVE  /\ work' \in Handling \cup {Absent}
           /\ work' # Absent => work'.trade = trade
BY AbsentAssumption DEF Serve, Handling

\* Serving a group of the trade in hand, by what it changes.
LEMMA DispatchType ==
    ASSUME TypeOK, NEW g, Dispatch(g)
    PROVE  /\ work \in Handling
           /\ g \in GroupIds
           /\ Vote(g) \in GroupIds \X Txs
           /\ work' \in Handling \cup {Absent}
           /\ work' # Absent => work'.trade = work.trade
           /\ UNCHANGED <<control, targets, pc, asked, fate, queue, seen>>
<1>1. /\ work \in Handling
      /\ g \in DOMAIN work.left
      /\ Serve(work.trade, Restrict(work.left, DOMAIN work.left \ {g}))
    BY DEF TypeOK, Dispatch
<1>2. work.left \in GroupTables /\ work.trade \in DetectedTrade
    BY <1>1 DEF Handling
<1>3. LET left == Restrict(work.left, DOMAIN work.left \ {g})
      IN  DOMAIN left = {} \/ left \in GroupTables
    BY <1>2, RestrictTable
<1>4. /\ work' \in Handling \cup {Absent}
      /\ work' # Absent => work'.trade = work.trade
    BY <1>1, <1>2, <1>3, ServeType
<1>5. g \in GroupIds
    BY <1>1, <1>2, TableFacts
<1>6. QED
    BY <1>1, <1>2, <1>4, <1>5 DEF Dispatch, Vote, DetectedTrade

\* The first trade of the channel, and the others.
LEMMA QueueHead ==
    ASSUME queue \in Seq(DetectedTrade), queue # <<>>
    PROVE  /\ Head(queue) \in DetectedTrade
           /\ Tail(queue) \in Seq(DetectedTrade)
           /\ Head(queue) = queue[1] /\ 1 \in 1 .. Len(queue)
           /\ \A i \in 1 .. Len(Tail(queue)) :
                   i + 1 \in 1 .. Len(queue) /\ Tail(queue)[i] = queue[i + 1]
OBVIOUS

\* Taking a trade: it is dropped, or marked and matched.
LEMMA ReceiveType ==
    ASSUME TypeOK, Receive
    PROVE  LET trade == Head(queue)
           IN  /\ trade \in DetectedTrade
               /\ queue' \in Seq(DetectedTrade)
               /\ work' \in Handling \cup {Absent}
               /\ seen' \in [Txs -> SignatureSeen]
               /\ \/ UNCHANGED <<seen, work>>
                  \/ /\ ~Skipped(seen[trade.tx], trade.pre)
                     /\ work' # Absent => work'.trade = trade
                     /\ seen' = [seen EXCEPT ![trade.tx] = Marked(@, trade.pre)]
<1> DEFINE trade == Head(queue)
<1>1. queue \in Seq(DetectedTrade) /\ queue # <<>>
    BY DEF TypeOK, Receive
<1>2. trade \in DetectedTrade /\ Tail(queue) \in Seq(DetectedTrade)
    BY <1>1, QueueHead
<1>3. trade.tx \in Txs /\ trade.pre \in BOOLEAN
    BY <1>2 DEF DetectedTrade
<1>4. Marked(seen[trade.tx], trade.pre) \in SignatureSeen
    BY <1>3 DEF TypeOK, SignatureSeen, Marked
<1>5. CASE ~running \/ Skipped(seen[trade.tx], trade.pre)
    BY <1>2, <1>5 DEF Receive, TypeOK
<1>6. CASE ~(~running \/ Skipped(seen[trade.tx], trade.pre))
  <2>1. /\ seen' = [seen EXCEPT ![trade.tx] = Marked(@, trade.pre)]
        /\ Serve(trade, groups_for_wallet(book.groups, Sender[trade.tx]))
    BY <1>6 DEF Receive
  <2>2. book.groups \in GroupTables
    BY BookFacts DEF TypeOK, ControlTypeOK
  <2>3. LET left == groups_for_wallet(book.groups, Sender[trade.tx])
        IN  DOMAIN left = {} \/ left \in GroupTables
    BY <2>2, MatchedGroups
  <2>4. /\ work' \in Handling \cup {Absent}
        /\ work' # Absent => work'.trade = trade
    BY <1>2, <2>1, <2>3, ServeType
  <2>5. seen' \in [Txs -> SignatureSeen]
    BY <1>3, <1>4, <2>1 DEF TypeOK
  <2>6. QED
    BY <1>2, <1>6, <2>1, <2>4, <2>5 DEF Receive
<1>7. QED
    BY <1>5, <1>6

-----------------------------------------------------------------------------
(* The invariant.                                                          *)

\* At the start nothing was read and nothing refuted.
LEMMA IntakeStarts ==
    ASSUME Init
    PROVE  IntakeInvariant
<1>1. ControlTypeOK /\ Restartable
    BY ControlStarts DEF Init
<1>2. targets \subseteq Wallets
    BY <1>1, CurrentWallets DEF Init, Current, ControlTypeOK, Sound
<1>3. /\ pc \in Points
      /\ asked \subseteq Wallets
      /\ fate \in [Txs -> {"sent", "executed", "failed", "over"}]
      /\ queue \in Seq(DetectedTrade)
      /\ seen \in [Txs -> SignatureSeen]
    BY DEF Init, Points, Unseen, SignatureSeen
<1>4. TypeOK
    BY <1>1, <1>2, <1>3 DEF Init, TypeOK
<1>5. FailuresLanded
    BY DEF Init, FailuresLanded
<1>6. QED
    BY <1>1, <1>4, <1>5 DEF Init, IntakeInvariant, NoVoteForRefuted

\* The same after a restart, whatever the transactions have come to.
LEMMA RestartKeeps ==
    ASSUME IntakeInvariant, Restart
    PROVE  IntakeInvariant'
<1>1. ControlTypeOK' /\ Restartable'
    BY ReloadKeeps DEF IntakeInvariant, TypeOK, Restart
<1>2. targets' \subseteq Wallets
    BY <1>1, CurrentWallets DEF Restart, ControlTypeOK, Sound
<1>3. /\ pc' \in Points
      /\ asked' \subseteq Wallets
      /\ fate' \in [Txs -> {"sent", "executed", "failed", "over"}]
      /\ queue' \in Seq(DetectedTrade)
      /\ seen' \in [Txs -> SignatureSeen]
    BY DEF IntakeInvariant, TypeOK, Restart, Points, Unseen, SignatureSeen
<1>4. TypeOK'
    BY <1>1, <1>2, <1>3 DEF Restart, TypeOK
<1>5. FailuresLanded'
    BY DEF Restart, FailuresLanded
<1>6. QED
    BY <1>1, <1>4, <1>5 DEF Restart, IntakeInvariant, NoVoteForRefuted

\* What neither reads, votes nor forgets disturbs nothing but types.
LEMMA IdleKeeps ==
    ASSUME IntakeInvariant, TypeOK', Restartable', UNCHANGED <<fate, queue, seen, work, refuted>>,
           votes' \subseteq votes
    PROVE  IntakeInvariant'
BY DEF IntakeInvariant, FailuresLanded, Settled, InHand, NoVoteForRefuted

\* A command, or the end of a save.
LEMMA BotKeeps ==
    ASSUME IntakeInvariant, Bot
    PROVE  IntakeInvariant'
<1>1. ControlTypeOK' /\ Restartable'
    BY CommandKeeps, SaveKeeps DEF IntakeInvariant, TypeOK, Bot
<1>2. TypeOK'
    BY <1>1 DEF IntakeInvariant, TypeOK, Bot, intake
<1>3. QED
    BY <1>1, <1>2, IdleKeeps DEF Bot, intake

\* The tasks that only keep the filter in step.
LEMMA StreamKeeps ==
    ASSUME IntakeInvariant, Sync \/ Subscriber \/ Connect \/ Disconnect
    PROVE  IntakeInvariant'
<1>1. UNCHANGED control
    BY OthersLeaveControl
<1>2. ControlTypeOK' /\ Restartable'
    BY <1>1, ControlKept DEF IntakeInvariant, TypeOK
<1>3. Current \subseteq Wallets
    BY CurrentWallets DEF IntakeInvariant, TypeOK, ControlTypeOK, Current, Sound
<1>4. /\ targets' \subseteq Wallets
      /\ pc' \in Points
      /\ asked' \subseteq Wallets
    BY <1>3 DEF IntakeInvariant, TypeOK, Sync, Subscriber, Check, Await, Gather, Resubscribe,
                Connect, Disconnect, Goto, Points
<1>5. UNCHANGED <<fate, queue, seen, work, votes, refuted>>
    BY DEF Sync, Subscriber, Check, Await, Gather, Resubscribe, Connect, Disconnect, Goto
<1>6. TypeOK'
    BY <1>2, <1>4, <1>5 DEF IntakeInvariant, TypeOK
<1>7. QED
    BY <1>2, <1>5, <1>6, IdleKeeps

\* The engine drops a vote for reasons of its own.
LEMMA VoteEndsKeeps ==
    ASSUME IntakeInvariant, VoteEnds
    PROVE  IntakeInvariant'
<1>1. UNCHANGED control
    BY OthersLeaveControl
<1>2. ControlTypeOK' /\ Restartable'
    BY <1>1, ControlKept DEF IntakeInvariant, TypeOK
<1>3. TypeOK'
    BY <1>2 DEF IntakeInvariant, TypeOK, VoteEnds
<1>4. QED
    BY <1>2, <1>3, IdleKeeps DEF VoteEnds

\* A transaction that is over does not land.
LEMMA LandKeeps ==
    ASSUME IntakeInvariant, NEW t \in Txs, Land(t)
    PROVE  IntakeInvariant'
<1>1. UNCHANGED <<control, targets, pc, asked, queue, seen, work, votes, refuted>>
    BY DEF Land
<1>2. ControlTypeOK' /\ Restartable'
    BY <1>1, ControlKept DEF IntakeInvariant, TypeOK
<1>3. fate' \in [Txs -> {"sent", "executed", "failed", "over"}]
    BY DEF IntakeInvariant, TypeOK, Land
<1>4. TypeOK'
    BY <1>1, <1>2, <1>3 DEF IntakeInvariant, TypeOK
<1>5. \A u \in Txs : fate[u] = "over" => fate'[u] = "over"
    BY DEF IntakeInvariant, TypeOK, Land
<1>6. ASSUME NEW vote \in refuted PROVE Settled(vote[2])'
  <2>1. Settled(vote[2]) /\ vote[2] \in Txs
    BY DEF IntakeInvariant, TypeOK
  <2>2. InHand(vote[2])' = InHand(vote[2])
    BY <1>1 DEF InHand
  <2>3. QED
    BY <1>1, <1>5, <2>1, <2>2 DEF Settled
<1>7. FailuresLanded'
    BY <1>1 DEF IntakeInvariant, FailuresLanded
<1>8. QED
    BY <1>1, <1>2, <1>4, <1>6, <1>7 DEF IntakeInvariant, NoVoteForRefuted

\* What comes in is of a transaction that is not over, and a failed copy is
\* a landed one.
LEMMA DeliverKeeps ==
    ASSUME IntakeInvariant, NEW t \in Txs, Deliver(t)
    PROVE  IntakeInvariant'
<1>1. PICK pre \in BOOLEAN, small \in BOOLEAN :
        /\ fate[t] \in (IF pre THEN {"sent"} ELSE {}) \cup {"executed", "failed"}
        /\ queue' = Append(queue, [tx |-> t, pre |-> pre, small |-> small,
                                   failed |-> ~pre /\ fate[t] = "failed"])
    BY DEF Deliver
<1> DEFINE copy == [tx |-> t, pre |-> pre, small |-> small,
                    failed |-> ~pre /\ fate[t] = "failed"]
<1>2. UNCHANGED <<control, targets, pc, asked, fate, seen, work, votes, refuted>>
    BY DEF Deliver
<1>3. ControlTypeOK' /\ Restartable'
    BY <1>2, ControlKept DEF IntakeInvariant, TypeOK
<1>4. queue \in Seq(DetectedTrade) /\ copy \in DetectedTrade /\ (copy.failed => ~copy.pre)
    BY DEF IntakeInvariant, TypeOK, DetectedTrade
<1> HIDE DEF copy
<1>5. queue' = Append(queue, copy)
    BY <1>1 DEF copy
<1>6. /\ queue' \in Seq(DetectedTrade)
      /\ \A i \in 1 .. Len(queue') :
            queue'[i] = copy \/ (i \in 1 .. Len(queue) /\ queue'[i] = queue[i])
    BY <1>4, <1>5
<1>7. TypeOK'
    BY <1>2, <1>3, <1>6 DEF IntakeInvariant, TypeOK
<1>8. FailuresLanded'
    BY <1>2, <1>4, <1>6 DEF IntakeInvariant, FailuresLanded
<1>9. ASSUME NEW vote \in refuted PROVE Settled(vote[2])'
  <2>1. Settled(vote[2])
    BY DEF IntakeInvariant
  <2>2. fate[vote[2]] = "over" => copy.tx # vote[2]
    BY <1>1 DEF copy
  <2>3. fate[vote[2]] = "over" /\ ~InHand(vote[2]) => ~InHand(vote[2])'
    BY <1>2, <1>6, <2>2 DEF InHand
  <2>4. QED
    BY <1>2, <2>1, <2>3 DEF Settled
<1>10. QED
    BY <1>2, <1>3, <1>7, <1>8, <1>9 DEF IntakeInvariant, NoVoteForRefuted

\* Forgetting a signature: what was settled by its landed copy is settled
\* because no copy is left.
LEMMA ExpireKeeps ==
    ASSUME IntakeInvariant, NEW t \in Txs, Expire(t)
    PROVE  IntakeInvariant'
<1>1. UNCHANGED <<control, targets, pc, asked, queue, work, votes, refuted>>
    BY DEF Expire
<1>2. ControlTypeOK' /\ Restartable'
    BY <1>1, ControlKept DEF IntakeInvariant, TypeOK
<1>3. /\ seen' \in [Txs -> SignatureSeen]
      /\ fate' \in [Txs -> {"sent", "executed", "failed", "over"}]
    BY DEF IntakeInvariant, TypeOK, Expire, Unseen, SignatureSeen
<1>4. TypeOK'
    BY <1>1, <1>2, <1>3 DEF IntakeInvariant, TypeOK
<1>5. /\ ~InHand(t)
      /\ fate'[t] = "over"
      /\ \A u \in Txs \ {t} : seen'[u] = seen[u] /\ fate'[u] = fate[u]
    BY DEF IntakeInvariant, TypeOK, Expire
<1>6. \A u \in Txs : InHand(u)' = InHand(u)
    BY <1>1 DEF InHand
<1>7. ASSUME NEW vote \in refuted PROVE Settled(vote[2])'
  <2>1. Settled(vote[2]) /\ vote[2] \in Txs
    BY DEF IntakeInvariant, TypeOK
  <2>2. QED
    BY <1>1, <1>5, <1>6, <2>1 DEF Settled
<1>8. FailuresLanded'
  <2>1. ASSUME work # Absent, work.trade.failed
        PROVE  seen'[work.trade.tx].landed_seen
    <3>1. work.trade.tx \in Txs
      BY <2>1 DEF IntakeInvariant, TypeOK, Handling, DetectedTrade
    <3>2. work.trade.tx # t
      BY <1>5, <2>1 DEF InHand
    <3>3. QED
      BY <1>5, <2>1, <3>1, <3>2 DEF IntakeInvariant, FailuresLanded
  <2>2. QED
    BY <1>1, <2>1 DEF IntakeInvariant, FailuresLanded
<1>9. QED
    BY <1>1, <1>2, <1>4, <1>7, <1>8 DEF IntakeInvariant, NoVoteForRefuted

\* Taking a trade.  A transaction with a refuted vote has had its landed
\* copy taken, so that no other copy of it is; or none of it is there.
LEMMA ReceiveKeeps ==
    ASSUME IntakeInvariant, Receive
    PROVE  IntakeInvariant'
<1> DEFINE trade == Head(queue)
<1>1. /\ UNCHANGED <<control, targets, pc, asked, fate, votes, refuted>>
      /\ work = Absent
      /\ queue # <<>>
      /\ queue' = Tail(queue)
    BY DEF Receive
<1>2. ControlTypeOK' /\ Restartable'
    BY <1>1, ControlKept DEF IntakeInvariant, TypeOK
<1>3. /\ trade \in DetectedTrade
      /\ queue' \in Seq(DetectedTrade)
      /\ work' \in Handling \cup {Absent}
      /\ seen' \in [Txs -> SignatureSeen]
      /\ \/ UNCHANGED <<seen, work>>
         \/ /\ ~Skipped(seen[trade.tx], trade.pre)
            /\ work' # Absent => work'.trade = trade
            /\ seen' = [seen EXCEPT ![trade.tx] = Marked(@, trade.pre)]
    BY ReceiveType DEF IntakeInvariant
<1> HIDE DEF trade
<1>4. TypeOK'
    BY <1>1, <1>2, <1>3 DEF IntakeInvariant, TypeOK
<1>5. /\ trade = queue[1] /\ 1 \in 1 .. Len(queue)
      /\ \A i \in 1 .. Len(queue') : i + 1 \in 1 .. Len(queue) /\ queue'[i] = queue[i + 1]
    BY <1>1, QueueHead DEF IntakeInvariant, TypeOK, trade
<1>6. trade.failed => ~trade.pre
    BY <1>5 DEF IntakeInvariant, FailuresLanded
<1>7. trade.tx \in Txs /\ seen[trade.tx] \in SignatureSeen
    BY <1>3 DEF IntakeInvariant, TypeOK, DetectedTrade
<1>8. FailuresLanded'
  <2>1. \A i \in 1 .. Len(queue') : queue'[i].failed => ~queue'[i].pre
    BY <1>5 DEF IntakeInvariant, FailuresLanded
  <2>2. ASSUME work' # Absent, work'.trade.failed
        PROVE  seen'[work'.trade.tx].landed_seen
    <3>1. work'.trade = trade /\ seen' = [seen EXCEPT ![trade.tx] = Marked(@, trade.pre)]
      BY <1>1, <1>3, <2>2
    <3>2. seen'[trade.tx] = Marked(seen[trade.tx], trade.pre)
      BY <1>7, <3>1 DEF IntakeInvariant, TypeOK
    <3>3. Marked(seen[trade.tx], trade.pre).landed_seen
      BY <1>6, <1>7, <2>2, <3>1 DEF Marked, SignatureSeen
    <3>4. QED
      BY <3>1, <3>2, <3>3
  <2>3. QED
    BY <2>1, <2>2 DEF FailuresLanded
<1>9. ASSUME NEW vote \in refuted PROVE Settled(vote[2])'
  <2>1. Settled(vote[2])
    BY DEF IntakeInvariant
  <2>2. CASE seen[vote[2]].landed_seen
    <3>1. CASE UNCHANGED <<seen, work>>
      BY <1>1, <2>2, <3>1 DEF Settled
    <3>2. CASE /\ ~Skipped(seen[trade.tx], trade.pre)
               /\ work' # Absent => work'.trade = trade
               /\ seen' = [seen EXCEPT ![trade.tx] = Marked(@, trade.pre)]
      <4>1. trade.tx # vote[2]
        BY <2>2, <3>2 DEF Skipped
      <4>2. QED
        BY <2>2, <3>2, <4>1 DEF Settled
    <3>3. QED
      BY <1>3, <3>1, <3>2
  <2>3. CASE fate[vote[2]] = "over" /\ ~InHand(vote[2])
    <3>1. trade.tx # vote[2]
      BY <1>5, <2>3 DEF InHand
    <3>2. ~InHand(vote[2])'
      BY <1>1, <1>3, <1>5, <2>3, <3>1 DEF InHand
    <3>3. QED
      BY <1>1, <2>3, <3>2 DEF Settled
  <2>4. QED
    BY <2>1, <2>2, <2>3 DEF Settled
<1>10. QED
    BY <1>1, <1>2, <1>4, <1>8, <1>9 DEF IntakeInvariant, NoVoteForRefuted

\* Serving a group: a vote is only cast for a trade that did not fail, and
\* only taken back for one whose landed copy is the one in hand.
LEMMA ServingKeeps ==
    ASSUME IntakeInvariant, Serving
    PROVE  IntakeInvariant'
<1>1. PICK g \in GroupIds : Pass(g) \/ Submit(g) \/ Reject(g)
    BY DEF Serving
<1>2. /\ work \in Handling /\ work # Absent
      /\ Vote(g) \in GroupIds \X Txs
      /\ work' \in Handling \cup {Absent}
      /\ work' # Absent => work'.trade = work.trade
      /\ UNCHANGED <<control, targets, pc, asked, fate, queue, seen>>
    BY <1>1, DispatchType, AbsentAssumption DEF IntakeInvariant, Pass, Submit, Reject
<1>3. ControlTypeOK' /\ Restartable'
    BY <1>2, ControlKept DEF IntakeInvariant, TypeOK
<1>4. /\ votes' \subseteq GroupIds \X Txs
      /\ refuted' \subseteq GroupIds \X Txs
    BY <1>1, <1>2 DEF IntakeInvariant, TypeOK, Pass, Submit, Reject
<1>5. TypeOK'
    BY <1>2, <1>3, <1>4 DEF IntakeInvariant, TypeOK
<1>6. FailuresLanded'
    BY <1>2 DEF IntakeInvariant, FailuresLanded
<1>7. \A t \in Txs : Settled(t) => Settled(t)'
    BY <1>2 DEF Settled, InHand
<1>8. PICK t \in Txs : t = work.trade.tx /\ Vote(g) = <<g, t>>
    BY <1>2 DEF Vote, Handling, DetectedTrade
<1>9. \A vote \in refuted : Settled(vote[2])'
    BY <1>7 DEF IntakeInvariant, TypeOK
<1>10. CASE Pass(g)
    BY <1>3, <1>5, <1>6, <1>9, <1>10 DEF Pass, IntakeInvariant, NoVoteForRefuted
<1>11. CASE Submit(g)
  <2>1. ~work.trade.failed /\ refuted' = refuted /\ votes' = votes \cup {Vote(g)}
    BY <1>11 DEF Submit
  <2>2. ~Settled(t)
    BY <1>2, <1>8, <2>1 DEF Settled, InHand
  <2>3. Vote(g) \notin refuted
    BY <1>8, <2>2 DEF IntakeInvariant
  <2>4. QED
    BY <1>3, <1>5, <1>6, <1>9, <2>1, <2>3 DEF IntakeInvariant, NoVoteForRefuted
<1>12. CASE Reject(g)
  <2>1. /\ work.trade.failed
        /\ votes' = votes \ {Vote(g)}
        /\ refuted' = refuted \cup {Vote(g)}
    BY <1>12 DEF Reject
  <2>2. Settled(t)'
    BY <1>2, <1>8, <2>1 DEF IntakeInvariant, FailuresLanded, Settled
  <2>3. \A vote \in refuted' : Settled(vote[2])'
    <3>1. \A vote \in refuted' : vote \in refuted \/ vote[2] = t
      BY <1>8, <2>1
    <3>2. QED
      BY <1>9, <2>2, <3>1
  <2>4. NoVoteForRefuted'
    BY <2>1 DEF IntakeInvariant, NoVoteForRefuted
  <2>5. QED
    BY <1>3, <1>5, <1>6, <2>3, <2>4 DEF IntakeInvariant
<1>13. QED
    BY <1>1, <1>10, <1>11, <1>12

\* What every task, the bot, the chain and a restart keep.
THEOREM IntakeIsInvariant == Spec => []IntakeInvariant
<1>1. Init => IntakeInvariant
    BY IntakeStarts
<1>2. IntakeInvariant /\ [Next]_vars => IntakeInvariant'
  <2> SUFFICES ASSUME IntakeInvariant, [Next]_vars PROVE IntakeInvariant'
    OBVIOUS
  <2>1. CASE Bot
    BY <2>1, BotKeeps
  <2>2. CASE Restart
    BY <2>2, RestartKeeps
  <2>3. CASE Sync \/ Subscriber \/ Connect \/ Disconnect
    BY <2>3, StreamKeeps
  <2>4. CASE Receive
    BY <2>4, ReceiveKeeps
  <2>5. CASE Serving
    BY <2>5, ServingKeeps
  <2>6. CASE VoteEnds
    BY <2>6, VoteEndsKeeps
  <2>7. ASSUME NEW t \in Txs, Land(t) \/ Deliver(t) \/ Expire(t)
        PROVE  IntakeInvariant'
    BY <2>7, LandKeeps, DeliverKeeps, ExpireKeeps
  <2>8. CASE UNCHANGED vars
    <3>1. UNCHANGED control
      BY <2>8 DEF vars, control
    <3>2. ControlTypeOK' /\ Restartable'
      BY <3>1, ControlKept DEF IntakeInvariant, TypeOK
    <3>3. TypeOK'
      BY <2>8, <3>2 DEF vars, IntakeInvariant, TypeOK
    <3>4. QED
      BY <2>8, <3>2, <3>3, IdleKeeps DEF vars
  <2>9. QED
    BY <2>1, <2>2, <2>3, <2>4, <2>5, <2>6, <2>7, <2>8 DEF Next
<1>3. QED
    BY <1>1, <1>2, PTL DEF Spec

\* The groups, the file, the channel and the main loop hold what their types
\* say, and the selected group exists, whichever commands came.
THEOREM TradeIntakeTypeOK == Spec => []TypeOK
BY IntakeIsInvariant, PTL DEF IntakeInvariant

\* copy_groups.json restores what the user had set, the selected group
\* included, unless the process ends in the middle of a save (groups.rs).
THEOREM TradeIntakeRestartable == Spec => []Restartable
BY IntakeIsInvariant, PTL DEF IntakeInvariant

\* A vote that reject_signal took back is not cast again by another copy of
\* the failed transaction (should_skip_signature in main.rs).
THEOREM TradeIntakeNoVoteForRefuted == Spec => []NoVoteForRefuted
BY IntakeIsInvariant, PTL DEF IntakeInvariant

=============================================================================
