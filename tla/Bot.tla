--------------------------------- MODULE Bot ---------------------------------
(***************************************************************************)
(* The loop of the Telegram bot (telegram.rs): it polls the server for the *)
(* updates that the user caused, and records and forwards the events that  *)
(* the other tasks send.  One task does both, in turn: select! waits for   *)
(* an event and for the answer to a poll, drops the one that comes second, *)
(* and its handler runs to the end before the next poll.  The events go    *)
(* into the statistics of their groups, which are rewritten in place.      *)
(*                                                                         *)
(* The server keeps an update until a poll arrives that asks for later     *)
(* ones.  The number to ask for, and the events, are kept in memory only.  *)
(* What a command does to the groups is in Control and TradeIntake.        *)
(***************************************************************************)
EXTENDS GroupStats

CONSTANTS
    Kinds,        \* updates: subset of {"command", "report"}, see BeginUpdate
    EventKinds,   \* events: subset of Counters \cup {"partial"}, besides "closed"
    MaxUpdates,   \* bound on the updates
    MaxEvents,    \* bound on the events
    MaxCrashes,   \* bound on the ends of the process
    Torn          \* a stats file that is missing, or does not parse

ASSUME BotAssumption ==
    /\ Kinds \subseteq {"command", "report"}
    /\ EventKinds \subseteq Counters \cup {"partial"}
    /\ {MaxUpdates, MaxEvents, MaxCrashes} \subseteq Nat

VARIABLES
    inbox,       \* the kind of every update so far, by its id
    confirmed,   \* the server keeps the updates from this id on
    late,        \* offsets of dropped polls that may still reach the server
    events,      \* the channel to the bot
    phase,       \* where the bot's task is
    offset,      \* the id to ask for
    poll,        \* what became of the poll that select! waits for
    batch,       \* the updates of an answer that are not handled yet
    current,     \* the update or event being handled
    summaries,   \* the statistics in memory
    file,        \* group_stats.json
    history,     \* group_trade_history.jsonl
    sent,        \* how many events were sent
    crashes,     \* how often the process ended
    handled,     \* history variable: the updates handled to the end
    begun,       \* history variable: how often this process began with each
    unlisted     \* history variable: the line of a closed trade is missing or torn

server == <<inbox, confirmed, late>>
loop == <<phase, offset, poll, batch, current>>
stats == <<summaries, file, history, unlisted>>
vars == <<server, events, loop, stats, sent, crashes, handled, begun>>

Phases == {"down", "loop", "waiting", "sleeping", "handling", "recording", "summing",
           "saving"}

UpdateIds == 1 .. MaxUpdates

\* What the task can be busy with.
Idle == [kind |-> "none"]

Update == [kind : {"update"}, id : UpdateIds]

\* Events with an effect on the statistics, and one without: a partial sale.
Event == [group : Groups, kind : EventKinds]
             \cup [group : Groups, kind : {"closed"}, profit : Profits]

Init ==
    /\ inbox = <<>>
    /\ confirmed = 1
    /\ late = {}
    /\ events = <<>>
    /\ phase = "down"
    /\ offset = 0
    /\ poll = "none"
    /\ batch = {}
    /\ current = Idle
    /\ summaries = [group \in Groups |-> blank]
    /\ file = Torn
    /\ history = <<>>
    /\ sent = 0
    /\ crashes = 0
    /\ handled = {}
    /\ begun = [id \in UpdateIds |-> 0]
    /\ unlisted = FALSE

-----------------------------------------------------------------------------
(* The user, the server and the other tasks.                               *)

SendUpdate ==
    /\ Len(inbox) < MaxUpdates
    /\ \E kind \in Kinds : inbox' = Append(inbox, kind)
    /\ UNCHANGED <<confirmed, late, events, loop, stats, sent, crashes, handled, begun>>

\* An update before the offset of a poll that arrives is dropped.
Confirm(number) == confirmed' = Max({confirmed, number})

\* The server has answered the poll; its answer may still be lost.
Answer ==
    /\ poll = "sent"
    /\ Confirm(offset)
    /\ poll' = "answered"
    /\ batch' = {id \in DOMAIN inbox : id >= confirmed'}
    /\ UNCHANGED <<inbox, late, events, phase, offset, current, stats, sent, crashes,
                   handled, begun>>

\* The request of a poll that nobody waits for any more arrives; one that is
\* lost stays where it is.
LatePoll ==
    \E number \in late :
        /\ late' = late \ {number}
        /\ Confirm(number)
        /\ UNCHANGED <<inbox, events, loop, stats, sent, crashes, handled, begun>>

\* TgNotifier::send: the channel has no bound, and nobody waits.
Notify ==
    /\ phase # "down"
    /\ sent < MaxEvents
    /\ \E event \in Event : events' = Append(events, event)
    /\ sent' = sent + 1
    /\ UNCHANGED <<server, loop, stats, crashes, handled, begun>>

-----------------------------------------------------------------------------
(* The statistics.                                                         *)

\* Mutant: a file that does not parse is taken as it is.
LoadAnyway == file

load_or_default == IF file = Torn THEN [group \in Groups |-> blank] ELSE file

\* save_json: fs::write truncates the file and then fills it.  When it
\* cannot be opened it stays as it was, which nobody is told.
Persist ==
    \/ phase' = "saving" /\ file' = Torn
    \/ phase' = "handling" /\ UNCHANGED file

\* The write ends, or fails half way.
Saved ==
    /\ phase = "saving"
    /\ phase' = "handling"
    /\ file' = summaries \/ UNCHANGED file
    /\ UNCHANGED <<server, events, offset, poll, batch, current, summaries, history, unlisted,
                   sent, crashes, handled, begun>>

update_summary(event) ==
    [summaries EXCEPT ![event.group] =
        IF event.kind = "closed" THEN record_closed_trade(@, event.profit)
                                 ELSE Counted(@, event.kind)]

\* record_closed_trade first adds its line to the history; a failure is
\* ignored.  A line that was written in part is none, and spoils the next
\* one as well, which is joined to it.
AppendTrade ==
    /\ phase = "recording"
    /\ phase' = "summing"
    /\ \/ history' = Append(history, [group |-> current.group, profit |-> current.profit])
          /\ UNCHANGED unlisted
       \/ unlisted' = TRUE /\ UNCHANGED history
    /\ UNCHANGED <<server, events, offset, poll, batch, current, summaries, file, sent, crashes,
                   handled, begun>>

\* The summary in memory, and then the whole file.
UpdateSummary ==
    /\ phase = "summing"
    /\ summaries' = update_summary(current)
    /\ Persist
    /\ UNCHANGED <<server, events, offset, poll, batch, current, history, unlisted, sent, crashes,
                   handled, begun>>

-----------------------------------------------------------------------------
(* The loop.                                                               *)

\* Mutant: the loop goes on where the last process was.
StartWhereLeft ==
    /\ phase = "down"
    /\ summaries' = load_or_default
    /\ Persist
    /\ begun' = [id \in UpdateIds |-> 0]
    /\ UNCHANGED <<server, events, offset, poll, batch, current, history, unlisted, sent, crashes,
                   handled>>

\* The process starts: the statistics are loaded and written again for the
\* groups of today, and the loop asks from 0.
Start ==
    /\ phase = "down"
    /\ summaries' = load_or_default
    /\ Persist
    /\ offset' = 0
    /\ begun' = [id \in UpdateIds |-> 0]
    /\ UNCHANGED <<server, events, poll, batch, current, history, unlisted, sent, crashes, handled>>

\* select! starts to wait, and its poll is sent.
Ask ==
    /\ phase = "loop"
    /\ batch = {}
    /\ phase' = "waiting"
    /\ poll' = "sent"
    /\ UNCHANGED <<server, events, offset, batch, current, stats, sent, crashes, handled, begun>>

\* Nobody waits for the poll any more.
DropPoll ==
    /\ poll' = "none"
    /\ batch' = {}
    /\ late' = IF poll = "sent" THEN late \cup {offset} ELSE late

Receive ==
    /\ poll = "answered"
    /\ poll' = "none"
    /\ phase' = "loop"
    /\ UNCHANGED <<server, events, offset, batch, current, stats, sent, crashes, handled, begun>>

\* An error of the server or of the network: the task sleeps for 3 s, and
\* its events wait as well.
PollFails ==
    /\ phase = "waiting"
    /\ DropPoll
    /\ phase' = "sleeping"
    /\ UNCHANGED <<inbox, confirmed, events, offset, current, stats, sent, crashes, handled, begun>>

WakeUp ==
    /\ phase = "sleeping"
    /\ phase' = "loop"
    /\ UNCHANGED <<server, events, offset, poll, batch, current, stats, sent, crashes, handled,
                   begun>>

\* Mutant: events are taken in pairs.
BeginEventPair ==
    /\ phase = "waiting"
    /\ Len(events) > 1
    /\ current' = Head(events)
    /\ events' = Tail(events)
    /\ DropPoll
    /\ phase' = CASE current'.kind = "partial" -> "handling"
                  [] current'.kind = "closed"  -> "recording"
                  [] OTHER                     -> "summing"
    /\ UNCHANGED <<inbox, confirmed, offset, stats, sent, crashes, handled, begun>>

\* An event is there: the poll is dropped.  A partial sale is only reported.
BeginEvent ==
    /\ phase = "waiting"
    /\ events # <<>>
    /\ current' = Head(events)
    /\ events' = Tail(events)
    /\ DropPoll
    /\ phase' = CASE current'.kind = "partial" -> "handling"
                  [] current'.kind = "closed"  -> "recording"
                  [] OTHER                     -> "summing"
    /\ UNCHANGED <<inbox, confirmed, offset, stats, sent, crashes, handled, begun>>

\* Mutant: the offset is the last update, not the one after it.
AfterItself(id) == IF id >= offset THEN id ELSE offset

\* Mutant: the offset passes over one update.
AfterNext(id) == IF id >= offset THEN id + 2 ELSE offset

after(id) == IF id >= offset THEN id + 1 ELSE offset

\* Mutant: the answer is gone through from its end.
LastOf(updates) == Max(updates)

\* The answer lists the updates in order.
FirstOf(updates) == Min(updates)

\* The next update of the answer.  /gstats, the "report", writes the
\* statistics; a command does not, as a report whose file cannot be opened,
\* nor does an update from another chat, which is ignored.
BeginUpdate ==
    /\ phase = "loop"
    /\ batch # {}
    /\ LET id == FirstOf(batch) IN
        /\ batch' = batch \ {id}
        /\ offset' = after(id)
        /\ current' = [kind |-> "update", id |-> id]
        /\ begun' = [begun EXCEPT ![id] = @ + 1]
        /\ IF inbox[id] = "report" THEN Persist ELSE phase' = "handling" /\ UNCHANGED file
    /\ UNCHANGED <<server, events, poll, summaries, history, unlisted, sent, crashes, handled>>

\* The answer to the user was sent, or not: either way the handler ends.
Finish ==
    /\ phase = "handling"
    /\ phase' = "loop"
    /\ handled' = IF current.kind = "update" THEN handled \cup {current.id} ELSE handled
    /\ current' = Idle
    /\ UNCHANGED <<server, events, offset, poll, batch, stats, sent, crashes, begun>>

\* The process ends, in the middle of anything, also of writing a line.
Crash ==
    /\ phase # "down"
    /\ crashes < MaxCrashes
    /\ crashes' = crashes + 1
    /\ phase' = "down"
    /\ DropPoll
    /\ events' = <<>>
    /\ current' = Idle
    /\ unlisted' \in {unlisted} \cup (IF phase = "recording" THEN {TRUE} ELSE {})
    /\ UNCHANGED <<inbox, confirmed, offset, summaries, file, history, sent, handled, begun>>

-----------------------------------------------------------------------------
Handler == AppendTrade \/ UpdateSummary \/ Saved \/ Finish

Next ==
    \/ SendUpdate \/ Answer \/ LatePoll \/ Notify
    \/ Start \/ Ask \/ Receive \/ PollFails \/ WakeUp \/ BeginEvent \/ BeginUpdate
    \/ Handler
    \/ Crash

Spec == Init /\ [][Next]_vars

\* The runtime polls the task, and every call it waits for has a timeout (60 s
\* of the client).  A poll can fail again and again; that some poll comes
\* through is what the network owes.  Nothing starts the process.
FairSpec ==
    /\ Spec
    /\ WF_vars(Ask) /\ WF_vars(WakeUp) /\ WF_vars(BeginUpdate) /\ WF_vars(Handler)
    /\ SF_vars(Answer) /\ SF_vars(Receive) /\ SF_vars(BeginEvent)

-----------------------------------------------------------------------------
(* Properties.                                                             *)

\* The variables have their types.
TypeOK ==
    /\ inbox \in Seq(Kinds) /\ confirmed \in Nat /\ late \subseteq Nat
    /\ events \in Seq(Event)
    /\ phase \in Phases /\ offset \in Nat /\ poll \in {"none", "sent", "answered"}
    /\ batch \subseteq UpdateIds /\ current \in {Idle} \cup Update \cup Event
    /\ summaries \in [Groups -> Summary]
    /\ file \in [Groups -> Summary] \cup {Torn}
    /\ history \in Seq([group : Groups, profit : Profits])
    /\ {sent, crashes} \subseteq Nat
    /\ handled \subseteq UpdateIds /\ begun \in [UpdateIds -> Nat] /\ unlisted \in BOOLEAN

\* An update that the server does not keep any more was handled to the end:
\* no poll, dropped, late or of an earlier process, gives up one that the
\* bot has not carried out, although its offset moves before the handler runs.
ConfirmedWereHandled == \A id \in DOMAIN inbox : id < confirmed => id \in handled

\* The bot implements Delivery: updates are carried out in the order in which
\* they were sent, none is skipped, whatever events, errors and restarts come
\* between (handled counts an update once, though a new process repeats it),
\* and the server gives up only what was carried out.
Delivered == INSTANCE Delivery
    WITH posted <- Len(inbox), done <- Max(handled \cup {0}), kept <- confirmed

IsDelivery == Delivered!Spec

\* One process carries out no update twice, however often its polls are
\* dropped for events and sent again.
OncePerLife == \A id \in UpdateIds : begun[id] <= 1

\* The statistics, in memory and in the file, are those of some of the
\* trades in the history: whatever ends the process, they count no trade
\* twice and none that the history does not list (unless a line could not be
\* written at all, or is torn).
StatsAreOfHistory ==
    LET lines(group) == {n \in DOMAIN history : history[n].group = group}
        fits(summary, group) == \E some \in SUBSET lines(group) :
                                    IsSummaryOf(summary, history, some)
    IN  ~unlisted => \A group \in Groups :
            /\ fits(summaries[group], group)
            /\ file # Torn => fits(file[group], group)

StaysUp == <>[](phase # "down")

\* An update is handled in the end when the process stays up, although
\* events go first and polls fail.
UpdatesAreHandled ==
    StaysUp => \A id \in UpdateIds : id \in DOMAIN inbox ~> id \in handled

\* An event that was sent is taken from the channel when the process stays up.
EventsAreTaken == StaysUp => [](events # <<>> => <>(events = <<>>))

=============================================================================
