----------------------------- MODULE TradeIntake -----------------------------
(***************************************************************************)
(* From a smart wallet's transaction to the vote it casts (main.rs and     *)
(* grpc/subscriber.rs), while the user edits the groups (Control).         *)
(*                                                                         *)
(* The sync task copies the wallets of all the groups to the subscriber    *)
(* every 200 ms; the subscriber keeps the filter of the trade stream in    *)
(* step and sends what it decodes of the stream into a channel; the main   *)
(* loop takes the trades one by one, drops copies it has seen, and votes   *)
(* in each group that lists the wallet, or takes the vote back when the    *)
(* transaction failed.                                                     *)
(*                                                                         *)
(* The stream shows a transaction before it is executed and, on a          *)
(* processed-level stream, as it landed, in any order and any number of    *)
(* times.  Every transaction modelled is a buy, of one mint.               *)
(***************************************************************************)
EXTENDS Control, Sequences, FiniteSets

CONSTANTS
    Txs,         \* transactions
    Sender,      \* transaction -> wallet
    MaxQueue,    \* bound on the unread trades in the channel
    Absent       \* the main loop has no trade in hand

ASSUME IntakeAssumption ==
    /\ Sender \in [Txs -> Wallets]
    /\ MaxQueue \in Nat

\* A copy of a transaction: is it a pre-execution one, did it fail, is its
\* amount known and below min_target_buy_sol.
DetectedTrade == [tx : Txs, pre : BOOLEAN, failed : BOOLEAN, small : BOOLEAN]

\* The trade the main loop is handling, and the groups still to be served,
\* as they were when it looked them up.
Handling == [trade : DetectedTrade, left : GroupTables]

ASSUME AbsentAssumption == Absent \notin Handling

VARIABLES
    targets,    \* target_wallets of the subscriber
    pc,         \* where subscribe stands
    asked,      \* last_wallets: the filter last sent to the server
    fate,       \* what became of each transaction
    queue,      \* the trade channel
    seen,       \* SignatureCache: which copies of a transaction were taken
    work,       \* what the main loop has in hand
    votes,      \* (group, transaction): votes that stand in the engine
    refuted     \* history: pairs for which reject_signal was called

intake == <<targets, pc, asked, fate, queue, seen, work, votes, refuted>>

vars == <<book, running, file, save, edits, targets, pc, asked, fate, queue, seen, work,
          votes, refuted>>

Points == {"check", "empty", "wait", "gather", "connect", "stream"}

SignatureSeen == [pre_seen : BOOLEAN, landed_seen : BOOLEAN]

Unseen == [pre_seen |-> FALSE, landed_seen |-> FALSE]

-----------------------------------------------------------------------------
(* The sync task and the subscriber.                                       *)

Current == all_target_wallets(book.groups)

\* update_target_wallets: notify_waiters wakes only a task that waits.
Sync ==
    /\ targets # Current
    /\ targets' = Current
    /\ pc' = IF pc = "wait" THEN "check" ELSE pc
    /\ UNCHANGED <<control, asked, fate, queue, seen, work, votes, refuted>>

Goto(point) ==
    /\ pc' = point
    /\ UNCHANGED <<control, targets, fate, queue, seen, work, votes, refuted>>

Check ==
    /\ pc = "check"
    /\ Goto(IF targets = {} THEN "empty" ELSE "gather")
    /\ UNCHANGED asked

Await == pc = "empty" /\ Goto("wait") /\ UNCHANGED asked

Gather == pc = "gather" /\ Goto("connect") /\ asked' = targets

Connect == pc = "connect" /\ Goto("stream") /\ UNCHANGED asked

NumberChanged == Cardinality(targets) # Cardinality(asked)

WalletsChanged == targets # asked

\* The tick of resub_interval, or the notification.  A send that fails is
\* tried again at the next tick.
Resubscribe ==
    /\ pc = "stream"
    /\ WalletsChanged
    /\ asked' = targets
    /\ Goto("stream")

\* No connection, or the end of the stream: subscribe is called again.
Disconnect == pc \in {"connect", "stream"} /\ Goto("check") /\ asked' = {}

-----------------------------------------------------------------------------
(* The chain and the stream.                                               *)

Land(t) ==
    /\ fate[t] = "sent"
    /\ \E outcome \in {"executed", "failed"} : fate' = [fate EXCEPT ![t] = outcome]
    /\ UNCHANGED <<control, targets, pc, asked, queue, seen, work, votes, refuted>>

\* A copy comes in.  It may have been on its way since an earlier filter, but
\* parse_transaction drops it unless its wallet is a target now.  A landed
\* copy that cannot be decoded, as of a failed inner call, never comes.
Deliver(t) ==
    /\ pc = "stream"
    /\ Sender[t] \in targets
    /\ Len(queue) < MaxQueue
    /\ \E pre, small \in BOOLEAN :
        /\ fate[t] \in (IF pre THEN {"sent"} ELSE {}) \cup {"executed", "failed"}
        /\ queue' = Append(queue, [tx |-> t, pre |-> pre, small |-> small,
                                   failed |-> ~pre /\ fate[t] = "failed"])
    /\ UNCHANGED <<control, targets, pc, asked, fate, seen, work, votes, refuted>>

-----------------------------------------------------------------------------
(* The main loop.                                                          *)

ByStage(copies, pre) == IF pre THEN copies.pre_seen ELSE copies.landed_seen

\* should_skip_signature: no copy counts after the landed one.
Skipped(copies, pre) == (pre /\ copies.pre_seen) \/ copies.landed_seen

Marked(copies, pre) ==
    IF pre THEN [copies EXCEPT !.pre_seen = TRUE] ELSE [copies EXCEPT !.landed_seen = TRUE]

\* The groups still to be served with a trade; none, and the loop goes on.
Serve(trade, left) ==
    work' = IF DOMAIN left = {} THEN Absent ELSE [trade |-> trade, left |-> left]

\* A stopped program reads the channel all the same, and remembers nothing.
Receive ==
    /\ work = Absent
    /\ queue # <<>>
    /\ queue' = Tail(queue)
    /\ LET trade == Head(queue)
           copies == seen[trade.tx]
       IN  IF ~running \/ Skipped(copies, trade.pre)
             THEN UNCHANGED <<seen, work>>
             ELSE /\ seen' = [seen EXCEPT ![trade.tx] = Marked(copies, trade.pre)]
                  /\ Serve(trade, groups_for_wallet(book.groups, Sender[trade.tx]))
    /\ UNCHANGED <<control, targets, pc, asked, fate, votes, refuted>>

Vote(g) == <<g, work.trade.tx>>

\* One group of those the trade was matched with.
Dispatch(g) ==
    /\ work # Absent
    /\ g \in DOMAIN work.left
    /\ Serve(work.trade, Restrict(work.left, DOMAIN work.left \ {g}))
    /\ UNCHANGED <<control, targets, pc, asked, fate, queue, seen>>

\* Too small a trade; or the group follows a single wallet: a failure is
\* ignored, and anything else is bought at once (Spawn of BuyGate).
Pass(g) ==
    /\ Dispatch(g)
    /\ work.trade.small \/ work.left[g].quorum <= 1
    /\ UNCHANGED <<votes, refuted>>

\* submit_signal (Submit of Consensus).
Submit(g) ==
    /\ Dispatch(g)
    /\ ~work.trade.small /\ work.left[g].quorum > 1 /\ ~work.trade.failed
    /\ votes' = votes \cup {Vote(g)}
    /\ UNCHANGED refuted

\* reject_signal (Reject of Consensus).
Reject(g) ==
    /\ Dispatch(g)
    /\ ~work.trade.small /\ work.left[g].quorum > 1 /\ work.trade.failed
    /\ votes' = votes \ {Vote(g)}
    /\ refuted' = refuted \cup {Vote(g)}

\* The vote expires, triggers or is replaced.
VoteEnds ==
    /\ \E vote \in votes : votes' = votes \ {vote}
    /\ UNCHANGED <<control, targets, pc, asked, fate, queue, seen, work, refuted>>

InHand(t) ==
    \/ \E i \in 1 .. Len(queue) : queue[i].tx = t
    \/ work # Absent /\ work.trade.tx = t

\* A signature is forgotten when no copy of it came for ten seconds.  That
\* none comes later is assumed here: the last of its copies has been read.
Expire(t) ==
    /\ seen[t] # Unseen
    /\ ~InHand(t)
    /\ seen' = [seen EXCEPT ![t] = Unseen]
    /\ fate' = [fate EXCEPT ![t] = "over"]
    /\ UNCHANGED <<control, targets, pc, asked, queue, work, votes, refuted>>

-----------------------------------------------------------------------------
Init ==
    /\ ControlInit
    /\ targets = Current
    /\ pc = "check"
    /\ asked = {}
    /\ fate = [t \in Txs |-> "sent"]
    /\ queue = <<>>
    /\ seen = [t \in Txs |-> Unseen]
    /\ work = Absent
    /\ votes = {}
    /\ refuted = {}

\* All that is in memory is lost; the new process starts from the file.
Restart ==
    /\ Reload
    /\ targets' = all_target_wallets(book'.groups)
    /\ pc' = "check"
    /\ asked' = {}
    /\ queue' = <<>>
    /\ seen' = [t \in Txs |-> Unseen]
    /\ work' = Absent
    /\ votes' = {}
    /\ refuted' = {}
    /\ UNCHANGED fate

Bot == (Command \/ Save) /\ UNCHANGED intake

Subscriber == Check \/ Await \/ Gather \/ Resubscribe

Serving == \E g \in GroupIds : Pass(g) \/ Submit(g) \/ Reject(g)

Next ==
    \/ Bot \/ Restart \/ Sync \/ Subscriber \/ Connect \/ Disconnect
    \/ Receive \/ Serving \/ VoteEnds
    \/ \E t \in Txs : Land(t) \/ Deliver(t) \/ Expire(t)

Spec == Init /\ [][Next]_vars

\* Timers fire and tasks go on.  Nobody must trade, edit or connect.
FairSpec == Spec /\ WF_vars(Sync) /\ WF_vars(Subscriber)

-----------------------------------------------------------------------------
(* Properties.                                                             *)

TypeOK ==
    /\ ControlTypeOK
    /\ targets \subseteq Wallets
    /\ pc \in Points
    /\ asked \subseteq Wallets
    /\ fate \in [Txs -> {"sent", "executed", "failed", "over"}]
    /\ queue \in Seq(DetectedTrade)
    /\ seen \in [Txs -> SignatureSeen]
    /\ work \in Handling \cup {Absent}
    /\ votes \subseteq GroupIds \X Txs
    /\ refuted \subseteq GroupIds \X Txs

\* What failed on chain stays out of the count: once the engine was told so
\* for a group, no late or repeated copy of the transaction votes there
\* again, whatever is edited, stopped and started in between.
NoVoteForRefuted == votes \cap refuted = {}

\* The filter of the stream has a wallet that no group has, or lacks one.
Behind(w) == pc = "stream" /\ ((w \in Current) # (w \in asked))

\* What the bot answers to /addwallet and /rmwallet: the subscription is
\* updated within some hundred milliseconds, as long as the stream is open.
\* Wallets exchanged for as many others are noticed too.
HotEditsReachStream == \A w \in Wallets : Behind(w) ~> ~Behind(w)

=============================================================================
