------------------------------ MODULE BotProofs ------------------------------
(* Theorems about the loop of the bot, for any number of updates, events   *)
(* and ends of the process, any profits and any loss of polls.             *)
EXTENDS Bot, FiniteSetTheorems, WellFoundedInduction, TLAPS

\* The types that the argument needs: of everything but the statistics.
LoopTypes ==
    /\ inbox \in Seq(Kinds) /\ Len(inbox) <= MaxUpdates
    /\ confirmed \in Nat /\ late \subseteq Nat
    /\ events \in Seq(Event)
    /\ phase \in Phases /\ offset \in Nat /\ poll \in {"none", "sent", "answered"}
    /\ batch \subseteq DOMAIN inbox
    /\ current \in {Idle} \cup Update \cup Event
    /\ begun \in [UpdateIds -> Nat]

\* The handler of the update is running.
Busy(id) == current.kind = "update" /\ current.id = id

\* A poll with this number gives up nothing that was not carried out, and
\* nothing that is still to come.
Through(number) ==
    /\ number <= Len(inbox) + 1
    /\ \A id \in DOMAIN inbox : id < number => id \in handled

\* The polls that reached the server, and those that still may.
PollsThrough == Through(confirmed) /\ \A number \in late : Through(number)

\* The offset and the answer, of a process that runs: what is below is
\* carried out, but for the update in hand; and a poll is only waited for
\* when there is none in hand.
InStep ==
    /\ phase \in {"down", "loop", "waiting", "sleeping"} => current = Idle
    /\ poll # "none" => phase = "waiting"
    /\ phase = "down" => batch = {}
    /\ phase # "down" =>
        /\ offset <= Len(inbox) + 1
        /\ \A id \in DOMAIN inbox : id < offset => id \in handled \/ Busy(id)
    /\ \A last \in batch :
        /\ last >= offset
        /\ \A id \in DOMAIN inbox : id < last => id \in batch \cup handled \/ Busy(id)

\* What this process has begun is below its offset.
BegunOnce == \A id \in UpdateIds : begun[id] <= 1 /\ (begun[id] > 0 => id < offset)

IInv == LoopTypes /\ PollsThrough /\ InStep /\ BegunOnce

-----------------------------------------------------------------------------
(* Lemmas about numbers and the inbox.                                     *)

\* The later of two offsets.
LEMMA MaxPair ==
    ASSUME NEW m \in Nat, NEW n \in Nat
    PROVE  /\ Max({m, n}) \in {m, n}
           /\ Max({m, n}) >= m /\ Max({m, n}) >= n
<1>1. \E x \in {m, n} : \A y \in {m, n} : x >= y
    OBVIOUS
<1>2. QED
    BY <1>1 DEF Max

\* The first of some updates.
LEMMA Least ==
    ASSUME NEW S \in SUBSET Nat, S # {}
    PROVE  Min(S) \in S /\ \A y \in S : Min(S) <= y
<1> DEFINE Less == {ss \in Nat \X Nat : ss[1] < ss[2]}
<1>1. OpToRel(<, Nat) = Less
    BY DEF OpToRel
<1>2. IsWellFoundedOn(Less, Nat)
    BY <1>1, NatLessThanWellFounded
<1>3. PICK x \in S : \A y \in S : ~(<<y, x>> \in Less)
    BY <1>2, WFMin
<1>4. ASSUME NEW y \in S
      PROVE  x <= y
  <2>1. x \in Nat /\ y \in Nat
    OBVIOUS
  <2> DEFINE ss == <<y, x>>
  <2>2. ss \in Nat \X Nat /\ ss[1] = y /\ ss[2] = x /\ ss \notin Less
    BY <1>3, <2>1
  <2>3. ~(y < x)
    BY <2>2
  <2>4. QED
    BY <2>1, <2>3
<1>5. QED
    BY <1>4 DEF Min

\* The ids are the numbers of the updates so far.
LEMMA Ids ==
    ASSUME LoopTypes
    PROVE  /\ Len(inbox) \in Nat
           /\ DOMAIN inbox = 1 .. Len(inbox)
           /\ DOMAIN inbox \subseteq UpdateIds
           /\ DOMAIN inbox \subseteq Nat
<1>1. Len(inbox) \in Nat /\ DOMAIN inbox = 1 .. Len(inbox)
    BY DEF LoopTypes
<1>2. MaxUpdates \in Nat /\ Len(inbox) <= MaxUpdates
    BY BotAssumption DEF LoopTypes
<1>3. QED
    BY <1>1, <1>2 DEF UpdateIds

\* No update is in hand when the task is idle or busy with an event.
LEMMA NotBusy ==
    ASSUME NEW id
    PROVE  /\ current = Idle => ~Busy(id)
           /\ current \in Event => ~Busy(id)
BY BotAssumption DEF Busy, Idle, Event, Counters

\* Dropping the poll leaves only polls that give up nothing.
LEMMA Dropped ==
    ASSUME IInv, DropPoll
    PROVE  /\ late' \subseteq Nat /\ poll' = "none" /\ batch' = {}
           /\ \A number \in late' : Through(number)
<1>1. CASE poll = "sent"
  <2>1. phase = "waiting" /\ current = Idle /\ offset \in Nat
    BY <1>1 DEF IInv, InStep, LoopTypes
  <2>2. Through(offset)
    BY <2>1, NotBusy DEF IInv, InStep, Through
  <2>3. late' = late \cup {offset}
    BY <1>1 DEF DropPoll
  <2>4. QED
    BY <2>1, <2>2, <2>3 DEF DropPoll, IInv, PollsThrough, LoopTypes
<1>2. CASE poll # "sent"
    BY <1>2 DEF DropPoll, IInv, PollsThrough, LoopTypes
<1>3. QED
    BY <1>1, <1>2

\* What was carried out stays so.
LEMMA ThroughKept ==
    ASSUME UNCHANGED inbox, handled \subseteq handled', NEW number, Through(number)
    PROVE  Through(number)'
BY DEF Through

-----------------------------------------------------------------------------
(* The invariant.                                                          *)

\* Nothing has happened at the start.
LEMMA InitHolds == Init => IInv
<1> SUFFICES ASSUME Init
             PROVE  IInv
    OBVIOUS
<1>1. /\ inbox = <<>> /\ confirmed = 1 /\ late = {} /\ events = <<>> /\ phase = "down"
      /\ offset = 0 /\ poll = "none" /\ batch = {} /\ current = Idle
      /\ begun = [id \in UpdateIds |-> 0]
    BY DEF Init
<1>2. Len(inbox) = 0 /\ DOMAIN inbox = {} /\ inbox \in Seq(Kinds) /\ events \in Seq(Event)
    BY <1>1
<1>3. LoopTypes
    BY <1>1, <1>2, BotAssumption DEF LoopTypes, Phases
<1>4. PollsThrough
    BY <1>1, <1>2 DEF PollsThrough, Through
<1>5. InStep
    BY <1>1 DEF InStep
<1>6. BegunOnce
    BY <1>1 DEF BegunOnce
<1>7. QED
    BY <1>3, <1>4, <1>5, <1>6 DEF IInv

\* The user sends an update: no poll so far reaches beyond it.
LEMMA SendUpdateKeeps ==
    ASSUME IInv, SendUpdate
    PROVE  IInv'
<1>1. PICK kind \in Kinds : inbox' = Append(inbox, kind)
    BY DEF SendUpdate
<1>2. /\ inbox \in Seq(Kinds) /\ Len(inbox) \in Nat /\ MaxUpdates \in Nat
      /\ DOMAIN inbox = 1 .. Len(inbox) /\ Len(inbox) < MaxUpdates
    BY Ids, BotAssumption DEF IInv, LoopTypes, SendUpdate
<1>3. /\ inbox' \in Seq(Kinds) /\ Len(inbox') = Len(inbox) + 1
      /\ DOMAIN inbox' = 1 .. Len(inbox) + 1
    BY <1>1, <1>2
<1>4. UNCHANGED <<confirmed, late, events, loop, handled, begun>>
    BY DEF SendUpdate
<1>5. LoopTypes'
    BY <1>2, <1>3, <1>4 DEF IInv, LoopTypes, loop
<1>6. ASSUME NEW number \in Nat, Through(number)
      PROVE  Through(number)'
    BY <1>2, <1>3, <1>4, <1>6 DEF Through
<1>7. PollsThrough'
    BY <1>4, <1>6 DEF IInv, PollsThrough, LoopTypes
<1>8. InStep'
  <2>1. phase # "down" =>
            /\ offset <= Len(inbox') + 1
            /\ \A id \in DOMAIN inbox' : id < offset => id \in handled \/ Busy(id)
    BY <1>2, <1>3 DEF IInv, InStep, LoopTypes
  <2>2. ASSUME NEW last \in batch
        PROVE  /\ last >= offset
               /\ \A id \in DOMAIN inbox' : id < last => id \in batch \cup handled \/ Busy(id)
    <3>1. last \in 1 .. Len(inbox)
        BY <1>2 DEF IInv, LoopTypes
    <3>2. QED
        BY <1>2, <1>3, <3>1 DEF IInv, InStep
  <2>3. QED
    BY <1>4, <2>1, <2>2 DEF IInv, InStep, loop, Busy
<1>9. BegunOnce'
    BY <1>4 DEF IInv, BegunOnce, loop
<1>10. QED
    BY <1>5, <1>7, <1>8, <1>9 DEF IInv

\* The server answers, and drops what is below the offset.
LEMMA AnswerKeeps ==
    ASSUME IInv, Answer
    PROVE  IInv'
<1>1. /\ phase = "waiting" /\ current = Idle /\ offset \in Nat /\ confirmed \in Nat
      /\ DOMAIN inbox \subseteq Nat
    BY Ids DEF IInv, InStep, LoopTypes, Answer
<1>2. /\ confirmed' \in {confirmed, offset}
      /\ confirmed' >= confirmed /\ confirmed' >= offset
    BY <1>1, MaxPair DEF Answer, Confirm
<1>3. /\ poll' = "answered" /\ batch' = {id \in DOMAIN inbox : id >= confirmed'}
      /\ UNCHANGED <<inbox, late, events, phase, offset, current, handled, begun>>
    BY DEF Answer
<1>4. Through(offset)
    BY <1>1, NotBusy DEF IInv, InStep, Through
<1>5. Through(confirmed')
    BY <1>2, <1>4 DEF IInv, PollsThrough
<1>6. LoopTypes'
    BY <1>1, <1>2, <1>3 DEF IInv, LoopTypes
<1>7. PollsThrough'
    BY <1>3, <1>5 DEF IInv, PollsThrough, Through
<1>8. InStep'
  <2>1. ASSUME NEW last \in batch'
        PROVE  /\ last >= offset
               /\ \A id \in DOMAIN inbox : id < last => id \in batch' \cup handled
    <3>1. last \in Nat /\ last >= confirmed' /\ confirmed' \in Nat
        BY <1>1, <1>2, <1>3
    <3>2. last >= offset
        BY <1>1, <1>2, <3>1
    <3>3. ASSUME NEW id \in DOMAIN inbox
          PROVE  id \in batch' \cup handled
        BY <1>1, <1>3, <1>5, <3>1, <3>3 DEF Through
    <3>4. QED
        BY <3>2, <3>3
  <2>2. QED
    BY <1>1, <1>3, <2>1 DEF IInv, InStep, Busy
<1>9. BegunOnce'
    BY <1>3 DEF IInv, BegunOnce
<1>10. QED
    BY <1>6, <1>7, <1>8, <1>9 DEF IInv

\* A poll that nobody waits for arrives.
LEMMA LatePollKeeps ==
    ASSUME IInv, LatePoll
    PROVE  IInv'
<1>1. PICK number \in late : late' = late \ {number} /\ Confirm(number)
    BY DEF LatePoll
<1>2. UNCHANGED <<inbox, events, loop, handled, begun>>
    BY DEF LatePoll
<1>3. number \in Nat /\ confirmed \in Nat /\ late \subseteq Nat
    BY DEF IInv, LoopTypes
<1>4. confirmed' \in {confirmed, number}
    BY <1>1, <1>3, MaxPair DEF Confirm
<1>5. LoopTypes'
    BY <1>1, <1>2, <1>3, <1>4 DEF IInv, LoopTypes, loop
<1>6. PollsThrough'
    BY <1>1, <1>2, <1>4 DEF IInv, PollsThrough, Through
<1>7. InStep' /\ BegunOnce'
    BY <1>2 DEF IInv, InStep, BegunOnce, Busy, loop
<1>8. QED
    BY <1>5, <1>6, <1>7 DEF IInv

\* The loop goes from one wait to another with nothing in hand.
LEMMA Waits ==
    ASSUME IInv, UNCHANGED <<server, offset, batch, current, handled, begun>>,
           events' \in Seq(Event), poll' \in {"none", "sent", "answered"},
           phase \in {"loop", "waiting", "sleeping"}, phase' \in {"loop", "waiting"},
           poll' # "none" => phase' = "waiting"
    PROVE  IInv'
<1>1. LoopTypes'
    BY DEF IInv, LoopTypes, server, Phases
<1>2. PollsThrough'
    BY DEF IInv, PollsThrough, Through, server
<1>3. InStep' /\ BegunOnce'
    BY DEF IInv, InStep, BegunOnce, Busy, server
<1>4. QED
    BY <1>1, <1>2, <1>3 DEF IInv

\* A handler goes on: it touches the statistics only.
LEMMA Handles ==
    ASSUME IInv, UNCHANGED <<server, events, offset, poll, batch, current, handled, begun>>,
           {phase, phase'} \subseteq {"handling", "recording", "summing", "saving"}
    PROVE  IInv'
<1>1. LoopTypes'
    BY DEF IInv, LoopTypes, server, Phases
<1>2. PollsThrough'
    BY DEF IInv, PollsThrough, Through, server
<1>3. InStep' /\ BegunOnce'
    BY DEF IInv, InStep, BegunOnce, Busy, server
<1>4. QED
    BY <1>1, <1>2, <1>3 DEF IInv

\* The poll is dropped with no update in hand, or with the process.
LEMMA Drops ==
    ASSUME IInv, DropPoll, UNCHANGED <<inbox, confirmed, offset, handled, begun>>,
           events' \in Seq(Event),
           \/ phase' = "down" /\ current' = Idle
           \/ /\ phase = "waiting"
              /\ \/ phase' = "sleeping" /\ current' = Idle
                 \/ phase' \in {"handling", "recording", "summing"} /\ current' \in Event
    PROVE  IInv'
<1>1. /\ late' \subseteq Nat /\ poll' = "none" /\ batch' = {}
      /\ \A number \in late' : Through(number)
    BY Dropped
<1>2. LoopTypes'
    BY <1>1 DEF IInv, LoopTypes, Phases
<1>3. PollsThrough'
    BY <1>1 DEF IInv, PollsThrough, Through
<1>4. InStep'
  <2>1. CASE phase' = "down"
    BY <1>1, <2>1 DEF InStep
  <2>2. CASE phase = "waiting"
    <3>1. current = Idle /\ offset <= Len(inbox) + 1
        BY <2>2 DEF IInv, InStep
    <3>2. \A id \in DOMAIN inbox : id < offset => id \in handled
        BY <2>2, <3>1, NotBusy DEF IInv, InStep
    <3>3. QED
        BY <1>1, <2>2, <3>1, <3>2 DEF InStep
  <2>3. QED
    BY <2>1, <2>2
<1>5. BegunOnce'
    BY DEF IInv, BegunOnce
<1>6. QED
    BY <1>2, <1>3, <1>4, <1>5 DEF IInv

\* The process starts with nothing in hand, and asks from 0.
LEMMA StartKeeps ==
    ASSUME IInv, Start
    PROVE  IInv'
<1>1. /\ phase = "down" /\ phase' \in {"saving", "handling"} /\ offset' = 0
      /\ begun' = [id \in UpdateIds |-> 0]
      /\ UNCHANGED <<server, events, poll, batch, current, handled>>
    BY DEF Start, Persist
<1>2. poll = "none" /\ batch = {} /\ Len(inbox) \in Nat /\ DOMAIN inbox \subseteq Nat
    BY <1>1, Ids DEF IInv, InStep
<1>3. LoopTypes'
    BY <1>1 DEF IInv, LoopTypes, server, Phases
<1>4. PollsThrough'
    BY <1>1 DEF IInv, PollsThrough, Through, server
<1>5. InStep'
  <2>1. \A id \in DOMAIN inbox : ~(id < 0)
    BY <1>2, Ids DEF IInv
  <2>2. QED
    BY <1>1, <1>2, <2>1 DEF InStep, server
<1>6. BegunOnce'
    BY <1>1 DEF BegunOnce
<1>7. QED
    BY <1>3, <1>4, <1>5, <1>6 DEF IInv

\* An event is taken, and the poll dropped for it.
LEMMA BeginEventKeeps ==
    ASSUME IInv, BeginEvent
    PROVE  IInv'
<1>1. events \in Seq(Event) /\ events # <<>> /\ phase = "waiting" /\ DropPoll
    BY DEF IInv, LoopTypes, BeginEvent
<1>2. current' \in Event /\ events' \in Seq(Event)
    BY <1>1 DEF BeginEvent
<1>3. phase' \in {"handling", "recording", "summing"}
    BY DEF BeginEvent
<1>4. UNCHANGED <<inbox, confirmed, offset, handled, begun>>
    BY DEF BeginEvent
<1>5. QED
    BY <1>1, <1>2, <1>3, <1>4, Drops

\* The first update of the answer is begun: it was not begun before, and all
\* before it are carried out.
LEMMA BeginUpdateKeeps ==
    ASSUME IInv, BeginUpdate
    PROVE  IInv'
<1> DEFINE id == FirstOf(batch)
<1>1. /\ phase = "loop" /\ batch # {} /\ current = Idle /\ poll = "none"
      /\ batch \subseteq DOMAIN inbox /\ DOMAIN inbox \subseteq UpdateIds
      /\ DOMAIN inbox = 1 .. Len(inbox) /\ Len(inbox) \in Nat /\ offset \in Nat
      /\ begun \in [UpdateIds -> Nat]
    BY Ids DEF IInv, InStep, LoopTypes, BeginUpdate
<1>2. id \in batch /\ \A last \in batch : id <= last
    BY <1>1, Least DEF FirstOf
<1>3. /\ batch' = batch \ {id} /\ offset' = after(id)
      /\ current' = [kind |-> "update", id |-> id]
      /\ begun' = [begun EXCEPT ![id] = @ + 1]
      /\ UNCHANGED <<server, events, poll, handled>>
    BY DEF BeginUpdate
<1>4. phase' \in {"handling", "saving"}
    BY DEF BeginUpdate, Persist
<1> HIDE DEF id
<1>5. id >= offset /\ offset' = id + 1 /\ id \in 1 .. Len(inbox) /\ id \in UpdateIds
    BY <1>1, <1>2, <1>3 DEF IInv, InStep, after
<1>6. LoopTypes'
  <2>1. current' \in Update
    BY <1>3, <1>5 DEF Update
  <2>2. begun' \in [UpdateIds -> Nat] /\ offset' \in Nat /\ batch' \subseteq DOMAIN inbox'
    BY <1>1, <1>3, <1>5 DEF server
  <2>3. QED
    BY <1>3, <1>4, <2>1, <2>2 DEF IInv, LoopTypes, server, Phases
<1>7. PollsThrough'
    BY <1>3 DEF IInv, PollsThrough, Through, server
<1>8. \A other \in DOMAIN inbox : other < id => other \in handled
  <2>1. ASSUME NEW other \in DOMAIN inbox, other < id
        PROVE  other \in handled
    <3>1. other \notin batch
        BY <1>1, <1>2, <1>5, <2>1
    <3>2. QED
        BY <1>1, <1>2, <2>1, <3>1, NotBusy DEF IInv, InStep
  <2>2. QED
    BY <2>1
<1>9. InStep'
  <2>1. current'.kind = "update" /\ current'.id = id
    BY <1>3
  <2>2. \A other \in DOMAIN inbox : other < offset' => other \in handled \/ other = id
    BY <1>1, <1>5, <1>8
  <2>3. ASSUME NEW last \in batch'
        PROVE  /\ last >= offset'
               /\ \A other \in DOMAIN inbox :
                    other < last => other \in batch' \cup handled \/ other = id
    <3>1. last \in batch /\ last # id /\ last \in Nat
        BY <1>1, <1>3
    <3>2. last >= offset'
        BY <1>2, <1>5, <3>1
    <3>3. \A other \in DOMAIN inbox : other < last => other \in batch \cup handled
        BY <1>1, <3>1, NotBusy DEF IInv, InStep
    <3>4. QED
        BY <1>3, <3>2, <3>3
  <2>4. offset' <= Len(inbox) + 1
    BY <1>1, <1>5
  <2>5. QED
    BY <1>1, <1>3, <1>4, <2>1, <2>2, <2>3, <2>4 DEF InStep, Busy, server
<1>10. BegunOnce'
  <2>1. begun[id] = 0
    BY <1>1, <1>5 DEF IInv, BegunOnce
  <2>2. ASSUME NEW other \in UpdateIds
        PROVE  begun'[other] <= 1 /\ (begun'[other] > 0 => other < offset')
    <3>1. CASE other = id
        BY <1>1, <1>3, <1>5, <2>1, <3>1
    <3>2. CASE other # id
      <4>1. begun'[other] = begun[other] /\ other \in Nat
        BY <1>1, <1>3, <3>2 DEF UpdateIds
      <4>2. QED
        BY <1>1, <1>5, <4>1 DEF IInv, BegunOnce
    <3>3. QED
        BY <3>1, <3>2
  <2>3. QED
    BY <2>2 DEF BegunOnce
<1>11. QED
    BY <1>6, <1>7, <1>9, <1>10 DEF IInv

\* A handler ends, and the update in hand counts as carried out.
LEMMA FinishKeeps ==
    ASSUME IInv, Finish
    PROVE  IInv'
<1>1. /\ phase = "handling" /\ phase' = "loop" /\ current' = Idle
      /\ handled' = IF current.kind = "update" THEN handled \cup {current.id} ELSE handled
      /\ UNCHANGED <<server, events, offset, poll, batch, begun>>
    BY DEF Finish
<1>2. handled \subseteq handled' /\ \A id : Busy(id) => id \in handled'
    BY <1>1 DEF Busy
<1>3. LoopTypes'
    BY <1>1 DEF IInv, LoopTypes, server, Phases
<1>4. PollsThrough'
    BY <1>1, <1>2 DEF IInv, PollsThrough, Through, server
<1>5. InStep'
    BY <1>1, <1>2 DEF IInv, InStep, server
<1>6. BegunOnce'
    BY <1>1 DEF IInv, BegunOnce
<1>7. QED
    BY <1>3, <1>4, <1>5, <1>6 DEF IInv

\* Every step keeps the invariant.
LEMMA StepKeeps ==
    ASSUME IInv, [Next]_vars
    PROVE  IInv'
<1>1. events \in Seq(Event) /\ poll \in {"none", "sent", "answered"}
    BY DEF IInv, LoopTypes
<1>2. CASE Notify
  <2>1. events' \in Seq(Event)
    BY <1>1, <1>2 DEF Notify
  <2>2. UNCHANGED <<server, loop, handled, begun>>
    BY <1>2 DEF Notify
  <2>3. LoopTypes'
    BY <2>1, <2>2 DEF IInv, LoopTypes, server, loop
  <2>4. PollsThrough' /\ InStep' /\ BegunOnce'
    BY <2>2 DEF IInv, PollsThrough, Through, InStep, BegunOnce, Busy, server, loop
  <2>5. QED
    BY <2>3, <2>4 DEF IInv
<1>3. CASE Ask
    BY <1>1, <1>3, Waits DEF Ask
<1>4. CASE Receive
  <2>1. phase = "waiting"
    BY <1>4 DEF Receive, IInv, InStep
  <2>2. QED
    BY <1>1, <1>4, <2>1, Waits DEF Receive
<1>5. CASE PollFails
  <2>1. current = Idle
    BY <1>5 DEF PollFails, IInv, InStep
  <2>2. QED
    BY <1>1, <1>5, <2>1, Drops DEF PollFails
<1>6. CASE WakeUp
  <2>1. poll = "none"
    BY <1>6 DEF WakeUp, IInv, InStep
  <2>2. QED
    BY <1>1, <1>6, <2>1, Waits DEF WakeUp
<1>7. CASE AppendTrade \/ UpdateSummary \/ Saved
    BY <1>7, Handles DEF AppendTrade, UpdateSummary, Saved, Persist
<1>8. CASE Crash
  <2>1. /\ phase' = "down" /\ current' = Idle /\ DropPoll /\ events' = <<>>
        /\ UNCHANGED <<inbox, confirmed, offset, handled, begun>>
    BY <1>8 DEF Crash
  <2>2. events' \in Seq(Event)
    BY <2>1
  <2>3. QED
    BY <2>1, <2>2, Drops
<1>9. CASE UNCHANGED vars
  <2>1. UNCHANGED <<server, events, loop, handled, begun>>
    BY <1>9 DEF vars
  <2>2. QED
    BY <2>1 DEF IInv, LoopTypes, PollsThrough, Through, InStep, BegunOnce, Busy, server, loop
<1>10. QED
    BY <1>2, <1>3, <1>4, <1>5, <1>6, <1>7, <1>8, <1>9, SendUpdateKeeps, AnswerKeeps,
       LatePollKeeps, StartKeeps, BeginEventKeeps, BeginUpdateKeeps, FinishKeeps
       DEF Next, Handler

\* The inductive invariant.
LEMMA BotInvariant == Spec => []IInv
BY InitHolds, StepKeeps, PTL DEF Spec

\* No update is given up that was not carried out to the end, whatever polls
\* are dropped for events, arrive late or outlive the process.
THEOREM BotConfirmed == Spec => []ConfirmedWereHandled
<1>1. IInv => ConfirmedWereHandled
    BY DEF IInv, PollsThrough, Through, ConfirmedWereHandled
<1>2. QED
    BY <1>1, BotInvariant, PTL

\* A process carries out no update twice.
THEOREM BotOnce == Spec => []OncePerLife
<1>1. IInv => OncePerLife
    BY DEF IInv, BegunOnce, OncePerLife
<1>2. QED
    BY <1>1, BotInvariant, PTL

-----------------------------------------------------------------------------
(* The bot implements Delivery.                                            *)

\* An update that is carried out, or in hand, comes after those before it.
Ordered ==
    /\ \A id \in handled :
        id \in DOMAIN inbox /\ \A other \in DOMAIN inbox : other < id => other \in handled
    /\ current.kind = "update" =>
        /\ current.id \in DOMAIN inbox
        /\ \A other \in DOMAIN inbox : other < current.id => other \in handled

\* Nothing is carried out at the start.
LEMMA OrderedStart == Init => Ordered
BY DEF Init, Ordered, Idle

\* Every step keeps the order.
LEMMA OrderedKept ==
    ASSUME IInv, Ordered, [Next]_vars
    PROVE  Ordered'
<1>1. ASSUME UNCHANGED <<inbox, handled>>, current' = current \/ current'.kind # "update"
      PROVE  Ordered'
    BY <1>1 DEF Ordered
<1>2. CASE SendUpdate
  <2>1. PICK kind \in Kinds : inbox' = Append(inbox, kind)
    BY <1>2 DEF SendUpdate
  <2>2. /\ Len(inbox) \in Nat /\ DOMAIN inbox = 1 .. Len(inbox)
        /\ DOMAIN inbox' = 1 .. Len(inbox) + 1
    BY <2>1, Ids DEF IInv, LoopTypes
  <2>3. UNCHANGED <<handled, current>>
    BY <1>2 DEF SendUpdate, loop
  <2>4. QED
    BY <2>2, <2>3 DEF Ordered
<1>3. CASE BeginEvent
  <2>1. current' \in Event
    BY <1>3 DEF BeginEvent, IInv, LoopTypes
  <2>2. current'.kind # "update"
    BY <2>1, BotAssumption DEF Event, Counters
  <2>3. QED
    BY <1>1, <1>3, <2>2 DEF BeginEvent
<1>4. CASE BeginUpdate
  <2> DEFINE id == FirstOf(batch)
  <2>1. /\ batch # {} /\ current = Idle /\ batch \subseteq DOMAIN inbox
        /\ DOMAIN inbox \subseteq Nat
    BY <1>4, Ids DEF BeginUpdate, IInv, InStep, LoopTypes
  <2>2. id \in batch /\ \A last \in batch : id <= last
    BY <2>1, Least DEF FirstOf
  <2>3. current' = [kind |-> "update", id |-> id] /\ UNCHANGED <<inbox, handled>>
    BY <1>4 DEF BeginUpdate, server
  <2> HIDE DEF id
  <2>4. ASSUME NEW other \in DOMAIN inbox, other < id
        PROVE  other \in handled
    <3>1. other \notin batch
        BY <2>1, <2>2, <2>4
    <3>2. QED
        BY <2>1, <2>2, <2>4, <3>1, NotBusy DEF IInv, InStep
  <2>5. QED
    BY <2>1, <2>2, <2>3, <2>4 DEF Ordered
<1>5. CASE Finish
  <2>1. current' = Idle /\ UNCHANGED inbox
    BY <1>5 DEF Finish, server
  <2>2. handled' = IF current.kind = "update" THEN handled \cup {current.id} ELSE handled
    BY <1>5 DEF Finish
  <2>3. QED
    BY <2>1, <2>2 DEF Ordered, Idle
<1>6. CASE Crash
    BY <1>1, <1>6 DEF Crash, Idle
<1>7. CASE Answer \/ LatePoll \/ Notify \/ Start \/ Ask \/ Receive \/ PollFails \/ WakeUp
           \/ AppendTrade \/ UpdateSummary \/ Saved \/ UNCHANGED vars
    BY <1>1, <1>7 DEF Answer, LatePoll, Notify, Start, Ask, Receive, PollFails, WakeUp,
       AppendTrade, UpdateSummary, Saved, vars, server, loop
<1>8. QED
    BY <1>2, <1>3, <1>4, <1>5, <1>6, <1>7 DEF Next, Handler

\* The order holds throughout.
LEMMA OrderedAlways == Spec => []Ordered
BY BotInvariant, OrderedStart, OrderedKept, PTL DEF Spec

\* How many were carried out.
Done == Max(handled \cup {0})

\* They are the first ones.
LEMMA DoneIs ==
    ASSUME IInv, Ordered
    PROVE  Done \in Nat /\ Done <= Len(inbox) /\ handled = 1 .. Done
<1>1. Len(inbox) \in Nat /\ DOMAIN inbox = 1 .. Len(inbox) /\ handled \subseteq DOMAIN inbox
    BY Ids DEF IInv, Ordered
<1> DEFINE Ends == {k \in Nat : k + 1 \notin handled}
           n == Min(Ends)
<1>2. Ends \in SUBSET Nat /\ Len(inbox) \in Ends
    BY <1>1
<1>3. n \in Ends /\ \A k \in Ends : n <= k
    BY <1>2, Least
<1> HIDE DEF n
<1>4. n \in Nat /\ n + 1 \notin handled /\ n <= Len(inbox)
    BY <1>2, <1>3
<1>5. \A id \in 1 .. n : id \in handled
  <2>1. ASSUME NEW id \in 1 .. n
        PROVE  id \in handled
    <3>1. id - 1 \in Nat /\ ~(n <= id - 1) /\ (id - 1) + 1 = id
        BY <1>4
    <3>2. id - 1 \notin Ends
        BY <1>3, <3>1
    <3>3. QED
        BY <3>1, <3>2
  <2>2. QED
    BY <2>1
<1>6. ASSUME NEW id \in handled
      PROVE  id \in 1 .. n
  <2>1. id \in 1 .. Len(inbox) /\ \A other \in DOMAIN inbox : other < id => other \in handled
    BY <1>1 DEF Ordered
  <2>2. CASE id > n
    <3>1. id # n + 1
        BY <1>4
    <3>2. n + 1 \in DOMAIN inbox /\ n + 1 < id
        BY <1>1, <1>4, <2>1, <2>2, <3>1
    <3>3. QED
        BY <1>4, <2>1, <3>2
  <2>3. QED
    BY <1>4, <2>1, <2>2
<1>7. handled = 1 .. n
    BY <1>5, <1>6
<1>8. /\ n \in handled \cup {0} /\ \A y \in handled \cup {0} : n >= y
      /\ handled \cup {0} \subseteq Nat
    BY <1>4, <1>7
<1>9. \A x \in handled \cup {0} : (\A y \in handled \cup {0} : x >= y) => x = n
    BY <1>4, <1>8
<1>10. Done = n
    BY <1>8, <1>9 DEF Done, Max
<1>11. QED
    BY <1>4, <1>7, <1>10

\* What is below a number that gives up nothing was carried out.
LEMMA ThroughDone ==
    ASSUME IInv, Ordered, NEW number \in Nat, Through(number)
    PROVE  number <= Done + 1
<1>1. Done \in Nat /\ Done <= Len(inbox) /\ handled = 1 .. Done
    BY DoneIs
<1>2. Len(inbox) \in Nat /\ DOMAIN inbox = 1 .. Len(inbox)
    BY Ids DEF IInv
<1>3. CASE number > Done + 1
  <2>1. Done + 1 \in DOMAIN inbox /\ Done + 1 < number
    BY <1>1, <1>2, <1>3 DEF Through
  <2>2. Done + 1 \in handled
    BY <2>1 DEF Through
  <2>3. QED
    BY <1>1, <2>2
<1>4. QED
    BY <1>1, <1>3

\* Every step is one of Delivery, or changes nothing there.
LEMMA StepDelivers ==
    ASSUME IInv, Ordered, IInv', Ordered', [Next]_vars
    PROVE  [Delivered!Next]_(Delivered!vars)
<1>1. /\ Done \in Nat /\ Done <= Len(inbox) /\ handled = 1 .. Done
      /\ Len(inbox) \in Nat /\ DOMAIN inbox = 1 .. Len(inbox)
    BY DoneIs, Ids DEF IInv
<1>2. CASE UNCHANGED <<inbox, handled, confirmed>>
    BY <1>2 DEF Delivered!vars
<1>3. CASE SendUpdate
  <2>1. Len(inbox') = Len(inbox) + 1
    BY <1>3 DEF SendUpdate, IInv, LoopTypes
  <2>2. UNCHANGED <<handled, confirmed>>
    BY <1>3 DEF SendUpdate
  <2>3. QED
    BY <2>1, <2>2 DEF Delivered!Next, Delivered!Post
<1>4. CASE Answer \/ LatePoll
  <2>1. UNCHANGED <<inbox, handled>>
    BY <1>4 DEF Answer, LatePoll
  <2>2. confirmed \in Nat /\ confirmed' \in Nat /\ confirmed' >= confirmed
    <3>1. confirmed \in Nat /\ offset \in Nat /\ late \subseteq Nat
        BY DEF IInv, LoopTypes
    <3>2. PICK number \in Nat : confirmed' = Max({confirmed, number})
        BY <1>4, <3>1 DEF Answer, LatePoll, Confirm
    <3>3. QED
        BY <3>1, <3>2, MaxPair
  <2>3. Through(confirmed') /\ Done' = Done
    BY <2>1 DEF IInv, PollsThrough, Through, Done
  <2>4. confirmed' <= Done + 1
    BY <2>2, <2>3, ThroughDone
  <2>5. confirmed' \in confirmed .. Done + 1
    BY <1>1, <2>2, <2>4
  <2>6. QED
    BY <2>1, <2>5 DEF Done, Delivered!Next, Delivered!Forget
<1>5. CASE Finish /\ current.kind = "update" /\ current.id \notin handled
  <2> DEFINE id == current.id
  <2>1. /\ UNCHANGED <<inbox, confirmed>> /\ handled' = handled \cup {id}
    BY <1>5 DEF Finish, server
  <2>2. id \in 1 .. Len(inbox) /\ \A other \in DOMAIN inbox : other < id => other \in handled
    BY <1>1, <1>5 DEF Ordered
  <2>3. id = Done + 1
    <3>1. id > Done
        BY <1>1, <1>5, <2>2
    <3>2. CASE id > Done + 1
      <4>1. Done + 1 \in handled
        BY <1>1, <2>2, <3>2
      <4>2. QED
        BY <1>1, <4>1
    <3>3. QED
        BY <1>1, <2>2, <3>1, <3>2
  <2>4. Done' \in Nat /\ handled' = 1 .. Done'
    <3>1. (Done \in Nat /\ Done <= Len(inbox) /\ handled = 1 .. Done)'
        BY DoneIs, PTL
    <3>2. QED
        BY <3>1
  <2>5. Done' = Done + 1
    <3> DEFINE d == Done
               e == Done'
    <3>1. 1 .. e = (1 .. d) \cup {d + 1} /\ d \in Nat /\ e \in Nat
        BY <1>1, <2>1, <2>3, <2>4
    <3> HIDE DEF d, e
    <3>2. d + 1 \in 1 .. e
        BY <3>1
    <3>3. e \in (1 .. d) \cup {d + 1}
        BY <3>1, <3>2
    <3>4. e = d + 1
        BY <3>1, <3>2, <3>3
    <3>5. QED
        BY <3>4 DEF d, e
  <2>6. Done < Len(inbox) /\ Len(inbox') = Len(inbox) /\ UNCHANGED confirmed
    BY <1>1, <2>1, <2>2, <2>3
  <2>7. /\ Done = Max(handled \cup {0}) /\ Done' = Max(handled' \cup {0})
    BY DEF Done
  <2>8. QED
    BY <2>5, <2>6, <2>7 DEF Delivered!Next, Delivered!CarryOut
<1>6. CASE Finish /\ ~(current.kind = "update" /\ current.id \notin handled)
  <2>1. UNCHANGED <<inbox, handled, confirmed>>
    BY <1>6 DEF Finish, server
  <2>2. QED
    BY <1>2, <2>1
<1>7. CASE Notify \/ Start \/ Ask \/ Receive \/ PollFails \/ WakeUp \/ BeginEvent \/ BeginUpdate
           \/ AppendTrade \/ UpdateSummary \/ Saved \/ Crash \/ UNCHANGED vars
  <2>1. UNCHANGED <<inbox, handled, confirmed>>
    BY <1>7 DEF Notify, Start, Ask, Receive, PollFails, WakeUp, BeginEvent, BeginUpdate,
       AppendTrade, UpdateSummary, Saved, Crash, vars, server
  <2>2. QED
    BY <1>2, <2>1
<1>8. QED
    BY <1>3, <1>4, <1>5, <1>6, <1>7 DEF Next, Handler

\* The bot implements Delivery: the updates are carried out in their order,
\* none is skipped, and none is forgotten before it was carried out, whatever
\* polls are lost or late and however often the process ends.
THEOREM BotIsDelivery == Spec => IsDelivery
<1>1. Init => Delivered!Init
  <2> SUFFICES ASSUME Init
               PROVE  Delivered!Init
    OBVIOUS
  <2>1. inbox = <<>> /\ handled = {} /\ confirmed = 1
    BY DEF Init
  <2>2. Done = 0
    BY <2>1, InitHolds, OrderedStart, DoneIs
  <2>3. QED
    BY <2>1, <2>2 DEF Delivered!Init, Done
<1>2. QED
    BY <1>1, BotInvariant, OrderedAlways, StepDelivers, PTL
       DEF Spec, IsDelivery, Delivered!Spec

-----------------------------------------------------------------------------
(* Lemmas about the net sum of some trades: a fold, which is a recursive   *)
(* function.  What holds of it is shown for a smallest set where it fails. *)

\* Some sets of parts of a finite set: one of them is smallest.
LEMMA Smallest ==
    ASSUME NEW T, IsFiniteSet(T), NEW Bad \in SUBSET SUBSET T, Bad # {}
    PROVE  \E s \in Bad : \A u \in SUBSET s : u # s => u \notin Bad
  <1> DEFINE Sizes == {Cardinality(s) : s \in Bad}
  <1>1. \A s \in Bad : IsFiniteSet(s) /\ Cardinality(s) \in Nat
    BY FS_Subset, FS_CardinalityType
  <1>2. Sizes \in SUBSET Nat /\ Sizes # {}
    BY <1>1
  <1>3. PICK s \in Bad : Cardinality(s) = Min(Sizes)
    BY <1>2, Least
  <1>4. ASSUME NEW u \in SUBSET s, u # s, u \in Bad
        PROVE  FALSE
    <2>1. Cardinality(u) < Cardinality(s)
      BY <1>1, <1>4, FS_Subset
    <2>2. Cardinality(s) <= Cardinality(u)
      BY <1>2, <1>3, <1>4, Least
    <2> QED
      BY <1>1, <1>4, <2>1, <2>2
  <1> QED
    BY <1>4

\* The trade that the fold takes next.
NextOf(s) == CHOOSE x \in s : TRUE

\* g has the net sum of every part of S.
IsNet(g, trades, S) ==
    g = [s \in SUBSET S |->
            IF s = {} THEN 0 ELSE trades[NextOf(s)].profit + g[s \ {NextOf(s)}]]

NetSteps(trades, S) == CHOOSE g : IsNet(g, trades, S)

Net(trades, S) == MapThenSumSet(LAMBDA n : trades[n].profit, S)

\* The net sum is the last of its steps.
LEMMA NetIsItsSteps ==
    ASSUME NEW trades, NEW S
    PROVE  Net(trades, S) = NetSteps(trades, S)[S]
  BY Zenon DEF Net, NetSteps, IsNet, NextOf, MapThenSumSet, MapThenFoldSet

\* Steps over the same profits have the same sums, within more trades too.
LEMMA NetUnique ==
    ASSUME NEW trades, NEW others, NEW S, NEW R, IsFiniteSet(S), S \subseteq R,
           \A n \in S : trades[n].profit = others[n].profit,
           NEW g, IsNet(g, trades, S), NEW h, IsNet(h, others, R)
    PROVE  \A s \in SUBSET S : g[s] = h[s]
  <1> DEFINE Bad == {s \in SUBSET S : g[s] # h[s]}
  <1>1. SUFFICES ASSUME Bad # {} PROVE FALSE
    OBVIOUS
  <1>0. Bad \in SUBSET SUBSET S
    OBVIOUS
  <1> HIDE DEF Bad
  <1>2. PICK s \in Bad : \A u \in SUBSET s : u # s => u \notin Bad
    BY <1>0, <1>1, Smallest
  <1> USE DEF Bad
  <1>3. /\ g[s] = IF s = {} THEN 0 ELSE trades[NextOf(s)].profit + g[s \ {NextOf(s)}]
        /\ h[s] = IF s = {} THEN 0 ELSE others[NextOf(s)].profit + h[s \ {NextOf(s)}]
    BY DEF IsNet
  <1>4. s # {}
    BY <1>3
  <1>5. NextOf(s) \in s
    BY <1>4 DEF NextOf
  <1>6. g[s \ {NextOf(s)}] = h[s \ {NextOf(s)}]
    BY <1>2, <1>5
  <1> QED
    BY <1>3, <1>4, <1>5, <1>6

\* There are such steps: the recursive function is defined.
LEMMA NetExists ==
    ASSUME NEW trades, NEW T, IsFiniteSet(T)
    PROVE  \A S \in SUBSET T : IsNet(NetSteps(trades, S), trades, S)
  <1> DEFINE Bad == {S \in SUBSET T : ~ IsNet(NetSteps(trades, S), trades, S)}
  <1>1. SUFFICES ASSUME Bad # {} PROVE FALSE
    OBVIOUS
  <1>0. Bad \in SUBSET SUBSET T
    OBVIOUS
  <1> HIDE DEF Bad
  <1>2. PICK S \in Bad : \A u \in SUBSET S : u # S => u \notin Bad
    BY <1>0, <1>1, Smallest
  <1> USE DEF Bad
  <1> DEFINE N(u) == NetSteps(trades, u)
             g == [u \in SUBSET S |-> IF u = {} THEN 0
                      ELSE trades[NextOf(u)].profit + N(u \ {NextOf(u)})[u \ {NextOf(u)}]]
  <1>3. \A u \in SUBSET S : u # S => IsNet(N(u), trades, u)
    BY <1>2
  <1>4. \A u \in SUBSET S : u # {} => NextOf(u) \in u
    BY DEF NextOf
  <1>5. ASSUME NEW w \in SUBSET S, w # S
        PROVE  g[w] = N(w)[w]
    <2>1. N(w)[w] = IF w = {} THEN 0 ELSE trades[NextOf(w)].profit + N(w)[w \ {NextOf(w)}]
      BY <1>3, <1>5 DEF IsNet
    <2>2. CASE w = {}
      BY <2>1, <2>2
    <2>3. CASE w # {}
      <3> DEFINE v == w \ {NextOf(w)}
      <3>1. v \subseteq w /\ v # w /\ v \in SUBSET S /\ v # S /\ IsFiniteSet(v)
        BY <1>4, <2>3, FS_Subset
      <3>2. IsNet(N(v), trades, v) /\ IsNet(N(w), trades, w)
        BY <1>3, <1>5, <3>1
      <3> HIDE DEF N
      <3>3. N(v)[v] = N(w)[v]
        BY <3>1, <3>2, NetUnique
      <3> QED
        BY <2>1, <2>3, <3>3
    <2> QED
      BY <2>2, <2>3
  <1>6. \A u \in SUBSET S : u # {} =>
            g[u \ {NextOf(u)}] = N(u \ {NextOf(u)})[u \ {NextOf(u)}]
    <2> SUFFICES ASSUME NEW u \in SUBSET S, u # {}
                 PROVE  g[u \ {NextOf(u)}] = N(u \ {NextOf(u)})[u \ {NextOf(u)}]
      OBVIOUS
    <2> DEFINE w == u \ {NextOf(u)}
    <2>1. w \in SUBSET S /\ w # S
      BY <1>4
    <2> HIDE DEF w, g
    <2>2. g[w] = N(w)[w]
      BY <1>5, <2>1
    <2> QED
      BY <2>2 DEF w
  <1>7. IsNet(g, trades, S)
    BY <1>6 DEF IsNet
  <1>8. IsNet(N(S), trades, S)
    BY <1>7 DEF NetSteps
  <1> QED
    BY <1>2, <1>8

\* The net sum adds the profit of one trade to that of the others.
LEMMA NetStep ==
    ASSUME NEW trades, NEW S, IsFiniteSet(S)
    PROVE  Net(trades, S) = IF S = {} THEN 0
              ELSE trades[NextOf(S)].profit + Net(trades, S \ {NextOf(S)})
  <1>1. IsNet(NetSteps(trades, S), trades, S)
    BY NetExists
  <1>2. NetSteps(trades, S)[S] = IF S = {} THEN 0
            ELSE trades[NextOf(S)].profit + NetSteps(trades, S)[S \ {NextOf(S)}]
    BY <1>1 DEF IsNet
  <1> DEFINE R == S \ {NextOf(S)}
  <1>3. IsNet(NetSteps(trades, R), trades, R) /\ IsFiniteSet(R) /\ R \subseteq S
    BY NetExists, FS_Subset
  <1> DEFINE g == NetSteps(trades, R)
             h == NetSteps(trades, S)
  <1>4. \A n \in R : trades[n].profit = trades[n].profit
    OBVIOUS
  <1>5. IsNet(g, trades, R) /\ IsNet(h, trades, S)
    BY <1>1, <1>3
  <1>6. g[R] = h[R]
    <2> HIDE DEF g, h, R
    <2> QED
      BY <1>3, <1>4, <1>5, NetUnique
  <1> QED
    BY <1>2, <1>6, NetIsItsSteps

\* One trade more adds its profit, whichever it is.
LEMMA NetOfOneMore ==
    ASSUME NEW trades, NEW S, IsFiniteSet(S), \A m \in S : trades[m].profit \in Int
    PROVE  /\ Net(trades, S) \in Int
           /\ \A m \in S : Net(trades, S) = Net(trades, S \ {m}) + trades[m].profit
  <1> DEFINE OK(s) == /\ Net(trades, s) \in Int
                      /\ \A m \in s : Net(trades, s) = Net(trades, s \ {m}) + trades[m].profit
             Bad == {s \in SUBSET S : ~ OK(s)}
  <1>1. SUFFICES ASSUME Bad # {} PROVE FALSE
    OBVIOUS
  <1>0. Bad \in SUBSET SUBSET S
    OBVIOUS
  <1> HIDE DEF Bad
  <1>2. PICK s \in Bad : \A u \in SUBSET s : u # s => u \notin Bad
    BY <1>0, <1>1, Smallest
  <1> USE DEF Bad
  <1>3. IsFiniteSet(s)
    BY FS_Subset
  <1> DEFINE x == NextOf(s)
  <1>4. CASE s = {}
    <2>1. Net(trades, s) = 0
      BY <1>3, <1>4, NetStep
    <2> QED
      BY <1>4, <2>1
  <1>5. CASE s # {}
    <2>1. x \in s
      BY <1>5 DEF NextOf
    <2>2. Net(trades, s) = trades[x].profit + Net(trades, s \ {x})
      BY <1>3, <1>5, NetStep
    <2> HIDE DEF x
    <2>3. \A m \in s : OK(s \ {m})
      BY <1>2
    <2>4. Net(trades, s) \in Int
      BY <2>1, <2>2, <2>3
    <2>5. ASSUME NEW m \in s
          PROVE  Net(trades, s) = Net(trades, s \ {m}) + trades[m].profit
      <3>1. CASE m = x
        BY <2>1, <2>2, <2>3, <3>1
      <3>2. CASE m # x
        <4>1. (s \ {x}) \ {m} = (s \ {m}) \ {x}
          OBVIOUS
        <4> DEFINE rest == Net(trades, (s \ {m}) \ {x})
        <4>2. Net(trades, s \ {x}) = rest + trades[m].profit
          BY <2>1, <2>3, <3>2, <4>1
        <4>3. Net(trades, s \ {m}) = rest + trades[x].profit
          BY <2>1, <2>3, <3>2
        <4>4. rest \in Int
          <5>1. (s \ {m}) \ {x} \in SUBSET s /\ (s \ {m}) \ {x} # s
            BY <2>1
          <5> QED
            BY <1>2, <5>1
        <4> HIDE DEF rest
        <4> QED
          BY <2>1, <2>2, <4>2, <4>3, <4>4
      <3> QED
        BY <3>1, <3>2
    <2> QED
      BY <2>4, <2>5
  <1> QED
    BY <1>4, <1>5

\* The net sum is of the profits only.
LEMMA NetAgrees ==
    ASSUME NEW trades, NEW others, NEW S, IsFiniteSet(S),
           \A n \in S : trades[n].profit = others[n].profit
    PROVE  Net(trades, S) = Net(others, S)
  <1> DEFINE Bad == {s \in SUBSET S : Net(trades, s) # Net(others, s)}
  <1>1. SUFFICES ASSUME Bad # {} PROVE FALSE
    OBVIOUS
  <1>2. Bad \in SUBSET SUBSET S
    OBVIOUS
  <1> HIDE DEF Bad
  <1>3. PICK s \in Bad : \A u \in SUBSET s : u # s => u \notin Bad
    BY <1>1, <1>2, Smallest
  <1> USE DEF Bad
  <1>4. IsFiniteSet(s) /\ s \in SUBSET S
    BY FS_Subset
  <1>5. /\ Net(trades, s) = IF s = {} THEN 0
                ELSE trades[NextOf(s)].profit + Net(trades, s \ {NextOf(s)})
        /\ Net(others, s) = IF s = {} THEN 0
                ELSE others[NextOf(s)].profit + Net(others, s \ {NextOf(s)})
    BY <1>4, NetStep
  <1>6. s # {}
    BY <1>5
  <1>7. NextOf(s) \in s
    BY <1>6 DEF NextOf
  <1>8. Net(trades, s \ {NextOf(s)}) = Net(others, s \ {NextOf(s)})
    BY <1>3, <1>4, <1>7
  <1> QED
    BY <1>4, <1>5, <1>6, <1>7, <1>8

-----------------------------------------------------------------------------
(* Lemmas about the summary of a group.                                    *)

\* What classify_trade_outcome can say.
Outcomes == {"wins", "losses", "flats"}

\* A trade has one of three outcomes.
LEMMA Outcome ==
    ASSUME NEW profit \in Int
    PROVE  classify_trade_outcome(profit) \in Outcomes
BY DEF classify_trade_outcome, Outcomes, WIN_THRESHOLD_PERCENT

\* A counter more is still a summary, of the same trades.
LEMMA CountedIs ==
    ASSUME NEW summary \in Summary, NEW counter \in Counters
    PROVE  /\ Counted(summary, counter) \in Summary
           /\ \A field \in {"closed_trades", "wins", "losses", "flats", "net_pnl_percent_sum",
                            "best_trade_percent", "worst_trade_percent"} :
                  Counted(summary, counter)[field] = summary[field]
BY DEF Counted, Summary

\* The trades of an outcome, one more.
LEMMA OneMore ==
    ASSUME NEW summary \in Summary, NEW outcome \in Outcomes
    PROVE  LET grown == [summary EXCEPT ![outcome] = @ + 1]
               more(kind) == IF kind = outcome THEN 1 ELSE 0
           IN  /\ grown \in Summary
               /\ grown.wins = summary.wins + more("wins")
               /\ grown.losses = summary.losses + more("losses")
               /\ grown.flats = summary.flats + more("flats")
               /\ \A field \in {"counts", "closed_trades", "net_pnl_percent_sum",
                                "best_trade_percent", "worst_trade_percent"} :
                      grown[field] = summary[field]
  <1>1. CASE outcome = "wins"
    BY <1>1 DEF Summary
  <1>2. CASE outcome = "losses"
    BY <1>2 DEF Summary
  <1>3. CASE outcome = "flats"
    BY <1>3 DEF Summary
  <1> QED
    BY <1>1, <1>2, <1>3 DEF Outcomes

\* What record_closed_trade leaves in every field.
LEMMA RecordedIs ==
    ASSUME NEW summary \in Summary, NEW profit \in Int
    PROVE  LET grown == record_closed_trade(summary, profit)
               outcome == classify_trade_outcome(profit)
               more(kind) == IF kind = outcome THEN 1 ELSE 0
           IN  /\ grown \in Summary
               /\ grown.wins = summary.wins + more("wins")
               /\ grown.losses = summary.losses + more("losses")
               /\ grown.flats = summary.flats + more("flats")
               /\ grown.closed_trades = summary.closed_trades + 1
               /\ grown.net_pnl_percent_sum = summary.net_pnl_percent_sum + profit
               /\ grown.best_trade_percent =
                      IF summary.best_trade_percent = None \/ profit > summary.best_trade_percent
                      THEN profit ELSE summary.best_trade_percent
               /\ grown.worst_trade_percent =
                      IF summary.worst_trade_percent = None \/ profit < summary.worst_trade_percent
                      THEN profit ELSE summary.worst_trade_percent
  <1> DEFINE outcome == classify_trade_outcome(profit)
             mid == [summary EXCEPT ![outcome] = @ + 1]
             best == IF mid.best_trade_percent = None \/ profit > mid.best_trade_percent
                     THEN profit ELSE mid.best_trade_percent
             worst == IF mid.worst_trade_percent = None \/ profit < mid.worst_trade_percent
                      THEN profit ELSE mid.worst_trade_percent
             grown == [mid EXCEPT
                          !.closed_trades = @ + 1, !.net_pnl_percent_sum = @ + profit,
                          !.best_trade_percent = best, !.worst_trade_percent = worst]
  <1>1. record_closed_trade(summary, profit) = grown
    BY DEF record_closed_trade, Extreme
  <1>2. outcome \in Outcomes
    BY Outcome
  <1> HIDE DEF outcome
  <1>3. /\ mid \in Summary
        /\ mid.wins = summary.wins + (IF "wins" = outcome THEN 1 ELSE 0)
        /\ mid.losses = summary.losses + (IF "losses" = outcome THEN 1 ELSE 0)
        /\ mid.flats = summary.flats + (IF "flats" = outcome THEN 1 ELSE 0)
        /\ \A field \in {"counts", "closed_trades", "net_pnl_percent_sum",
                         "best_trade_percent", "worst_trade_percent"} :
               mid[field] = summary[field]
    BY <1>2, OneMore
  <1> HIDE DEF mid
  <1>4. best \in Int \cup {None} /\ worst \in Int \cup {None}
    BY <1>3 DEF Summary
  <1>5. /\ best = IF summary.best_trade_percent = None \/ profit > summary.best_trade_percent
                  THEN profit ELSE summary.best_trade_percent
        /\ worst = IF summary.worst_trade_percent = None \/ profit < summary.worst_trade_percent
                   THEN profit ELSE summary.worst_trade_percent
    BY <1>3
  <1> HIDE DEF best, worst
  <1>6. /\ grown \in Summary
        /\ grown.wins = mid.wins /\ grown.losses = mid.losses /\ grown.flats = mid.flats
        /\ grown.closed_trades = mid.closed_trades + 1
        /\ grown.net_pnl_percent_sum = mid.net_pnl_percent_sum + profit
        /\ grown.best_trade_percent = best /\ grown.worst_trade_percent = worst
    <2> DEFINE longer == [mid EXCEPT !.closed_trades = @ + 1]
               sum == [longer EXCEPT !.net_pnl_percent_sum = @ + profit]
    <2>0. /\ longer \in Summary
          /\ longer.wins = mid.wins /\ longer.losses = mid.losses /\ longer.flats = mid.flats
          /\ longer.closed_trades = mid.closed_trades + 1
          /\ longer.net_pnl_percent_sum = mid.net_pnl_percent_sum
      BY <1>3 DEF Summary
    <2>1. /\ sum \in Summary
          /\ sum.wins = mid.wins /\ sum.losses = mid.losses /\ sum.flats = mid.flats
          /\ sum.closed_trades = mid.closed_trades + 1
          /\ sum.net_pnl_percent_sum = mid.net_pnl_percent_sum + profit
      <3> HIDE DEF longer
      <3> QED
        BY <2>0 DEF Summary
    <2>2. grown = [[sum EXCEPT !.best_trade_percent = best] EXCEPT !.worst_trade_percent = worst]
      <3>1. mid.net_pnl_percent_sum = [mid EXCEPT !.closed_trades = @ + 1].net_pnl_percent_sum
        BY <1>3 DEF Summary
      <3> HIDE DEF best, worst, mid
      <3> QED
        BY <3>1, Zenon
    <2> HIDE DEF sum
    <2> DEFINE extremes == [[sum EXCEPT !.best_trade_percent = best] EXCEPT
                               !.worst_trade_percent = worst]
    <2>3. /\ extremes \in Summary
          /\ extremes.wins = sum.wins /\ extremes.losses = sum.losses /\ extremes.flats = sum.flats
          /\ extremes.closed_trades = sum.closed_trades
          /\ extremes.net_pnl_percent_sum = sum.net_pnl_percent_sum
          /\ extremes.best_trade_percent = best /\ extremes.worst_trade_percent = worst
      BY <1>4, <2>1 DEF Summary
    <2> HIDE DEF extremes
    <2> QED
      BY <2>1, <2>2, <2>3 DEF extremes
  <1> HIDE DEF grown
  <1> QED
    BY <1>1, <1>3, <1>5, <1>6 DEF outcome

\* The summary of a new group.
LEMMA BlankIs == blank \in Summary
BY DEF blank, Summary

\* The profits of some trades.
ProfitsOf(trades, some) == {trades[n].profit : n \in some}

\* IsSummaryOf, with the extremes by what they are and the net sum by name.
Sums(summary, trades, some) ==
    LET profits == ProfitsOf(trades, some)
        best == summary.best_trade_percent
        worst == summary.worst_trade_percent
    IN  /\ summary.closed_trades = Cardinality(some)
        /\ summary.wins = HowMany(trades, some, "wins")
        /\ summary.losses = HowMany(trades, some, "losses")
        /\ summary.flats = HowMany(trades, some, "flats")
        /\ summary.net_pnl_percent_sum = Net(trades, some)
        /\ some = {} => best = None /\ worst = None
        /\ some # {} => /\ {best, worst} \subseteq profits
                        /\ \A profit \in profits : best >= profit /\ worst <= profit

\* The summary that is kept is the one IsSummaryOf defines.
LEMMA SumsAreSummary ==
    ASSUME NEW summary, NEW trades, NEW some, \A n \in some : trades[n].profit \in Int,
           Sums(summary, trades, some)
    PROVE  IsSummaryOf(summary, trades, some)
  <1> DEFINE profits == {trades[n].profit : n \in some}
             best == summary.best_trade_percent
             worst == summary.worst_trade_percent
  <1>1. profits = ProfitsOf(trades, some) /\ profits \subseteq Int
    BY DEF ProfitsOf
  <1>2. summary.net_pnl_percent_sum = MapThenSumSet(LAMBDA n : trades[n].profit, some)
    BY Zenon DEF Sums, Net
  <1>3. best = IF some = {} THEN None ELSE Max(profits)
    <2>1. CASE some = {}
      BY <2>1 DEF Sums
    <2>2. CASE some # {}
      <3>1. best \in profits /\ \A profit \in profits : best >= profit
        BY <1>1, <2>2 DEF Sums
      <3> HIDE DEF profits
      <3>2. \A x \in profits : (\A y \in profits : x >= y) => x = best
        BY <1>1, <3>1
      <3>3. Max(profits) = best
        BY <3>1, <3>2 DEF Max
      <3> QED
        BY <2>2, <3>3
    <2> QED
      BY <2>1, <2>2
  <1>4. worst = IF some = {} THEN None ELSE Min(profits)
    <2>1. CASE some = {}
      BY <2>1 DEF Sums
    <2>2. CASE some # {}
      <3>1. worst \in profits /\ \A profit \in profits : worst <= profit
        BY <1>1, <2>2 DEF Sums
      <3> HIDE DEF profits
      <3>2. \A x \in profits : (\A y \in profits : x <= y) => x = worst
        BY <1>1, <3>1
      <3>3. Min(profits) = worst
        BY <3>1, <3>2 DEF Min
      <3> QED
        BY <2>2, <3>3
    <2> QED
      BY <2>1, <2>2
  <1>5. /\ summary.closed_trades = Cardinality(some)
        /\ summary.wins = HowMany(trades, some, "wins")
        /\ summary.losses = HowMany(trades, some, "losses")
        /\ summary.flats = HowMany(trades, some, "flats")
    BY DEF Sums
  <1> QED
    BY <1>2, <1>3, <1>4, <1>5, Zenon DEF IsSummaryOf

\* A trade more counts for its outcome only.
LEMMA HowManyOneMore ==
    ASSUME NEW trades, NEW some, IsFiniteSet(some), NEW n, n \notin some, NEW outcome
    PROVE  HowMany(trades, some \cup {n}, outcome) =
               HowMany(trades, some, outcome)
                   + IF outcome = classify_trade_outcome(trades[n].profit) THEN 1 ELSE 0
  <1> DEFINE of(S) == {m \in S : classify_trade_outcome(trades[m].profit) = outcome}
  <1>1. IsFiniteSet(of(some)) /\ n \notin of(some)
    BY FS_Subset
  <1>2. /\ Cardinality(of(some)) \in Nat
        /\ HowMany(trades, some, outcome) = Cardinality(of(some))
        /\ HowMany(trades, some \cup {n}, outcome) = Cardinality(of(some \cup {n}))
    BY <1>1, FS_CardinalityType DEF HowMany
  <1>3. CASE outcome = classify_trade_outcome(trades[n].profit)
    <2>1. of(some \cup {n}) = of(some) \cup {n}
      BY <1>3
    <2> HIDE DEF of
    <2>2. Cardinality(of(some) \cup {n}) = Cardinality(of(some)) + 1
      BY <1>1, FS_AddElement
    <2> QED
      BY <1>2, <1>3, <2>1, <2>2
  <1>4. CASE outcome # classify_trade_outcome(trades[n].profit)
    <2>1. of(some \cup {n}) = of(some)
      BY <1>4
    <2> HIDE DEF of
    <2> QED
      BY <1>2, <1>4, <2>1
  <1> QED
    BY <1>3, <1>4

\* One trade more.
LEMMA SumsOfOneMore ==
    ASSUME NEW summary \in Summary, NEW trades, NEW some, IsFiniteSet(some), NEW n, n \notin some,
           \A m \in some \cup {n} : trades[m].profit \in Int,
           Sums(summary, trades, some)
    PROVE  Sums(record_closed_trade(summary, trades[n].profit), trades, some \cup {n})
  <1> DEFINE profit == trades[n].profit
             grown == record_closed_trade(summary, profit)
             all == some \cup {n}
  <1>1. profit \in Int
    OBVIOUS
  <1>2. Cardinality(all) = Cardinality(some) + 1 /\ IsFiniteSet(all)
    BY FS_AddElement
  <1>3. Net(trades, all) = Net(trades, some) + profit
    <2>1. Net(trades, all) = Net(trades, all \ {n}) + profit
      BY <1>2, NetOfOneMore
    <2>2. all \ {n} = some
      OBVIOUS
    <2> QED
      BY <2>1, <2>2
  <1>4. /\ grown.closed_trades = Cardinality(all)
        /\ grown.wins = HowMany(trades, all, "wins")
        /\ grown.losses = HowMany(trades, all, "losses")
        /\ grown.flats = HowMany(trades, all, "flats")
        /\ grown.net_pnl_percent_sum = Net(trades, all)
    <2>1. /\ summary.closed_trades = Cardinality(some)
          /\ summary.wins = HowMany(trades, some, "wins")
          /\ summary.losses = HowMany(trades, some, "losses")
          /\ summary.flats = HowMany(trades, some, "flats")
          /\ summary.net_pnl_percent_sum = Net(trades, some)
      BY DEF Sums
    <2>2. \A outcome \in Outcomes : HowMany(trades, all, outcome) =
              HowMany(trades, some, outcome)
                  + IF outcome = classify_trade_outcome(profit) THEN 1 ELSE 0
      BY HowManyOneMore
    <2> HIDE DEF all, profit
    <2> DEFINE outcome == classify_trade_outcome(profit)
    <2>3. /\ grown.wins = summary.wins + (IF "wins" = outcome THEN 1 ELSE 0)
          /\ grown.losses = summary.losses + (IF "losses" = outcome THEN 1 ELSE 0)
          /\ grown.flats = summary.flats + (IF "flats" = outcome THEN 1 ELSE 0)
          /\ grown.closed_trades = summary.closed_trades + 1
          /\ grown.net_pnl_percent_sum = summary.net_pnl_percent_sum + profit
      BY <1>1, RecordedIs
    <2> HIDE DEF grown, outcome
    <2> QED
      BY <1>2, <1>3, <2>1, <2>2, <2>3 DEF Outcomes, outcome
  <1>5. ProfitsOf(trades, all) = ProfitsOf(trades, some) \cup {profit}
    BY DEF ProfitsOf
  <1> DEFINE old == ProfitsOf(trades, some)
             best == summary.best_trade_percent
             worst == summary.worst_trade_percent
  <1>6. old \subseteq Int /\ (some = {} => old = {})
    BY DEF ProfitsOf
  <1>7. /\ grown.best_trade_percent = IF best = None \/ profit > best THEN profit ELSE best
        /\ grown.worst_trade_percent = IF worst = None \/ profit < worst THEN profit ELSE worst
    BY <1>1, RecordedIs
  <1>8. /\ some = {} => best = None /\ worst = None
        /\ some # {} => /\ best \in old /\ worst \in old
                        /\ \A p \in old : best >= p /\ worst <= p
    BY DEF Sums
  <1>9. /\ {grown.best_trade_percent, grown.worst_trade_percent} \subseteq old \cup {profit}
        /\ \A p \in old \cup {profit} :
               grown.best_trade_percent >= p /\ grown.worst_trade_percent <= p
    <2> HIDE DEF grown, old, best, worst, profit
    <2>1. CASE some = {}
      BY <1>1, <1>6, <1>7, <1>8, <2>1
    <2>2. CASE some # {}
      <3>1. best \in Int /\ worst \in Int /\ best # None /\ worst # None
        BY <1>6, <1>8, <2>2, GroupStatsAssumption
      <3> QED
        BY <1>1, <1>6, <1>7, <1>8, <2>2, <3>1
    <2> QED
      BY <2>1, <2>2
  <1>10. all # {}
    OBVIOUS
  <1> HIDE DEF grown, all, old, profit
  <1>11. Sums(grown, trades, all)
    BY <1>4, <1>5, <1>9, <1>10 DEF Sums, old
  <1> QED
    BY <1>11 DEF grown, all, profit

\* The other counters do not matter.
LEMMA SumsOfCounted ==
    ASSUME NEW summary \in Summary, NEW counter \in Counters, NEW trades, NEW some,
           Sums(summary, trades, some)
    PROVE  Sums(Counted(summary, counter), trades, some)
BY CountedIs DEF Sums

\* The trades matter for their profits only.
LEMMA SumsAgree ==
    ASSUME NEW summary, NEW trades, NEW others, NEW some, IsFiniteSet(some),
           \A n \in some : trades[n].profit = others[n].profit,
           Sums(summary, trades, some)
    PROVE  Sums(summary, others, some)
  <1>1. Net(trades, some) = Net(others, some)
    BY NetAgrees
  <1>2. ProfitsOf(trades, some) = ProfitsOf(others, some)
    BY DEF ProfitsOf
  <1>3. \A outcome : HowMany(trades, some, outcome) = HowMany(others, some, outcome)
    <2> SUFFICES ASSUME NEW outcome
                 PROVE  HowMany(trades, some, outcome) = HowMany(others, some, outcome)
      OBVIOUS
    <2>1. {n \in some : classify_trade_outcome(trades[n].profit) = outcome}
              = {n \in some : classify_trade_outcome(others[n].profit) = outcome}
      OBVIOUS
    <2> QED
      BY <2>1 DEF HowMany
  <1> QED
    BY <1>1, <1>2, <1>3 DEF Sums

\* No trade yet.
LEMMA SumsOfNone ==
    ASSUME NEW trades
    PROVE  Sums(blank, trades, {})
  <1>1. Net(trades, {}) = 0
    BY FS_EmptySet, NetStep
  <1>2. \A outcome : HowMany(trades, {}, outcome) = 0
    <2> SUFFICES ASSUME NEW outcome PROVE HowMany(trades, {}, outcome) = 0
      OBVIOUS
    <2>1. {n \in {} : classify_trade_outcome(trades[n].profit) = outcome} = {}
      OBVIOUS
    <2> QED
      BY <2>1, FS_EmptySet DEF HowMany
  <1> QED
    BY <1>1, <1>2, FS_EmptySet DEF Sums, blank

-----------------------------------------------------------------------------
(* The types of the statistics, and so of all variables.                   *)

\* A line of the history.
Line == [group : Groups, profit : Profits]

\* A trade is recorded, and an event counted, only while it is in hand.
StatTypes ==
    /\ summaries \in [Groups -> Summary]
    /\ file \in [Groups -> Summary] \cup {Torn}
    /\ history \in Seq(Line)
    /\ sent \in Nat /\ crashes \in Nat
    /\ handled \subseteq UpdateIds /\ unlisted \in BOOLEAN
    /\ phase = "recording" => current \in Event /\ current.kind = "closed"
    /\ phase = "summing" => current \in Event /\ current.kind # "partial"

\* A counter, or a closed trade with its profit, of a group.
LEMMA EventIs ==
    ASSUME NEW event \in Event
    PROVE  /\ event.group \in Groups
           /\ event.kind = "closed" => event.profit \in Profits /\ event.profit \in Int
           /\ event.kind \notin {"closed", "partial"} => event.kind \in Counters
           /\ event.kind # "update"
BY BotAssumption, GroupStatsAssumption DEF Event, Counters

\* No statistics yet.
LEMMA StatTypesStart == Init => StatTypes
<1> SUFFICES ASSUME Init
             PROVE  StatTypes
    OBVIOUS
<1>1. /\ summaries = [group \in Groups |-> blank] /\ file = Torn /\ history = <<>>
      /\ sent = 0 /\ crashes = 0 /\ handled = {} /\ unlisted = FALSE /\ phase = "down"
    BY DEF Init
<1>2. history \in Seq(Line) /\ summaries \in [Groups -> Summary]
    BY <1>1, BlankIs
<1>3. QED
    BY <1>1, <1>2 DEF StatTypes

\* The statistics are summaries after an event, too.
LEMMA UpdateSummaryTyped ==
    ASSUME StatTypes, UpdateSummary
    PROVE  summaries' \in [Groups -> Summary]
<1>1. /\ current \in Event /\ current.kind # "partial"
      /\ summaries \in [Groups -> Summary]
      /\ summaries' = update_summary(current)
    BY DEF StatTypes, UpdateSummary
<1>2. current.group \in Groups
    BY <1>1, EventIs
<1> DEFINE updated == IF current.kind = "closed"
                      THEN record_closed_trade(summaries[current.group], current.profit)
                      ELSE Counted(summaries[current.group], current.kind)
<1>3. updated \in Summary
  <2>1. CASE current.kind = "closed"
    <3>1. record_closed_trade(summaries[current.group], current.profit) \in Summary
        BY <1>1, <1>2, <2>1, EventIs, RecordedIs
    <3>2. QED
        BY <2>1, <3>1
  <2>2. CASE current.kind # "closed"
    <3>1. Counted(summaries[current.group], current.kind) \in Summary
        BY <1>1, <1>2, <2>2, EventIs, CountedIs
    <3>2. QED
        BY <2>2, <3>1
  <2>3. QED
    BY <2>1, <2>2
<1>4. summaries' = [summaries EXCEPT ![current.group] = updated]
    BY <1>1, Zenon DEF update_summary
<1> HIDE DEF updated
<1>5. QED
    BY <1>1, <1>3, <1>4

\* Every step keeps the types of the statistics.
LEMMA StatTypesKept ==
    ASSUME IInv, StatTypes, [Next]_vars
    PROVE  StatTypes'
<1>1. CASE UNCHANGED <<phase, current, stats, handled>> /\ sent' \in Nat /\ crashes' \in Nat
    BY <1>1 DEF StatTypes, stats
<1>2. CASE /\ UNCHANGED <<stats, handled, sent>> /\ crashes' \in Nat
           /\ phase' \notin {"recording", "summing"}
    BY <1>2 DEF StatTypes, stats
<1>3. CASE SendUpdate \/ Answer \/ LatePoll \/ UNCHANGED vars
    BY <1>1, <1>3 DEF SendUpdate, Answer, LatePoll, vars, loop, StatTypes
<1>4. CASE Notify
    BY <1>1, <1>4 DEF Notify, loop, StatTypes
<1>5. CASE Ask \/ Receive \/ PollFails \/ WakeUp
    BY <1>2, <1>5 DEF Ask, Receive, PollFails, WakeUp, StatTypes
<1>6. CASE Start
  <2>1. summaries' \in [Groups -> Summary]
    BY <1>6, BlankIs DEF Start, load_or_default, StatTypes
  <2>2. file' \in {file, Torn} /\ phase' \in {"saving", "handling"}
    BY <1>6 DEF Start, Persist
  <2>3. UNCHANGED <<history, unlisted, sent, crashes, handled>>
    BY <1>6 DEF Start
  <2>4. QED
    BY <2>1, <2>2, <2>3 DEF StatTypes
<1>7. CASE BeginEvent
  <2>1. events \in Seq(Event) /\ events # <<>> /\ current' = Head(events)
    BY <1>7 DEF BeginEvent, IInv, LoopTypes
  <2>2. current' \in Event
    BY <2>1
  <2>3. /\ phase' = "recording" => current'.kind = "closed"
        /\ phase' = "summing" => current'.kind # "partial"
    BY <1>7 DEF BeginEvent
  <2>4. UNCHANGED <<stats, sent, crashes, handled>>
    BY <1>7 DEF BeginEvent
  <2>5. QED
    BY <2>2, <2>3, <2>4 DEF StatTypes, stats
<1>8. CASE BeginUpdate
  <2>1. file' \in {file, Torn} /\ phase' \in {"saving", "handling"}
    BY <1>8 DEF BeginUpdate, Persist
  <2>2. UNCHANGED <<summaries, history, unlisted, sent, crashes, handled>>
    BY <1>8 DEF BeginUpdate
  <2>3. QED
    BY <2>1, <2>2 DEF StatTypes
<1>9. CASE AppendTrade
  <2>1. /\ phase = "recording" /\ phase' = "summing" /\ current \in Event
        /\ current.kind = "closed"
        /\ UNCHANGED <<current, summaries, file, sent, crashes, handled>>
    BY <1>9 DEF AppendTrade, StatTypes
  <2>2. [group |-> current.group, profit |-> current.profit] \in Line
    BY <2>1, EventIs DEF Line
  <2> DEFINE line == [group |-> current.group, profit |-> current.profit]
  <2>3. /\ unlisted' \in BOOLEAN /\ history \in Seq(Line)
        /\ history' \in {history, Append(history, line)}
    BY <1>9 DEF AppendTrade, StatTypes
  <2>4. line \in Line
    BY <2>2
  <2> HIDE DEF line
  <2>5. history' \in Seq(Line)
    BY <2>3, <2>4
  <2>6. QED
    BY <2>1, <2>3, <2>5 DEF StatTypes
<1>10. CASE UpdateSummary
  <2>1. file' \in {file, Torn} /\ phase' \in {"saving", "handling"}
    BY <1>10 DEF UpdateSummary, Persist
  <2>2. UNCHANGED <<history, unlisted, sent, crashes, handled>>
    BY <1>10 DEF UpdateSummary
  <2>3. QED
    BY <1>10, <2>1, <2>2, UpdateSummaryTyped DEF StatTypes
<1>11. CASE Saved
  <2>1. file' \in {summaries, file} /\ phase' = "handling"
    BY <1>11 DEF Saved
  <2>2. UNCHANGED <<summaries, history, unlisted, sent, crashes, handled>>
    BY <1>11 DEF Saved
  <2>3. QED
    BY <2>1, <2>2 DEF StatTypes
<1>12. CASE Finish
  <2>1. current \in {Idle} \cup Update \cup Event
    BY DEF IInv, LoopTypes
  <2>2. current.kind = "update" => current.id \in UpdateIds
    BY <2>1, EventIs DEF Idle, Update
  <2>3. handled' \subseteq UpdateIds
    BY <1>12, <2>2 DEF Finish, StatTypes
  <2>4. phase' = "loop" /\ UNCHANGED <<stats, sent, crashes>>
    BY <1>12 DEF Finish
  <2>5. QED
    BY <2>3, <2>4 DEF StatTypes, stats
<1>13. CASE Crash
  <2>1. unlisted' \in BOOLEAN
    BY <1>13 DEF Crash, StatTypes
  <2>2. QED
    BY <1>2, <1>13, <2>1 DEF Crash, StatTypes
<1>14. QED
    BY <1>3, <1>4, <1>5, <1>6, <1>7, <1>8, <1>9, <1>10, <1>11, <1>12, <1>13 DEF Next, Handler

\* The types hold throughout.
LEMMA StatTypesAlways == Spec => []StatTypes
BY BotInvariant, StatTypesStart, StatTypesKept, PTL DEF Spec

\* The variables have their types, the answers being of updates that exist.
THEOREM BotTypeOK == Spec => []TypeOK
<1>1. IInv /\ StatTypes => TypeOK
  <2> SUFFICES ASSUME IInv, StatTypes
               PROVE  TypeOK
    OBVIOUS
  <2>1. batch \subseteq UpdateIds
    BY Ids DEF IInv, LoopTypes
  <2>2. QED
    BY <2>1 DEF IInv, LoopTypes, StatTypes, TypeOK, Line
<1>2. QED
    BY <1>1, BotInvariant, StatTypesAlways, PTL

-----------------------------------------------------------------------------
(* The statistics are those of some lines of the history.                  *)

Lines(group) == {n \in DOMAIN history : history[n].group = group}

\* The line of the trade in hand, written but not counted yet.
Pending ==
    IF phase = "summing" /\ current.kind = "closed" THEN {Len(history)} ELSE {}

SumsOfSome(summary, lines) == \E some \in SUBSET lines : Sums(summary, history, some)

\* What is counted is listed, and what was listed last is not counted yet.
StatsListed ==
    ~unlisted =>
        /\ \A group \in Groups : SumsOfSome(summaries[group], Lines(group) \ Pending)
        /\ file # Torn => \A group \in Groups : SumsOfSome(file[group], Lines(group))
        /\ Pending # {} => /\ Len(history) > 0
                           /\ history[Len(history)].group = current.group
                           /\ history[Len(history)].profit = current.profit

\* More lines to choose from.
LEMMA SumsOfMore ==
    ASSUME NEW summary, NEW lines, NEW more, lines \subseteq more, SumsOfSome(summary, lines)
    PROVE  SumsOfSome(summary, more)
BY DEF SumsOfSome

\* No trade at all.
LEMMA SumsOfBlank ==
    ASSUME NEW lines
    PROVE  SumsOfSome(blank, lines)
BY SumsOfNone DEF SumsOfSome

\* The lines of the history are finitely many, with a profit each.
LEMMA LinesAre ==
    ASSUME StatTypes, NEW group
    PROVE  /\ IsFiniteSet(Lines(group))
           /\ Lines(group) \subseteq 1 .. Len(history) /\ Len(history) \in Nat
           /\ \A n \in Lines(group) : history[n].profit \in Int
<1>1. /\ history \in Seq(Line)
      /\ Len(history) \in Nat /\ DOMAIN history = 1 .. Len(history)
    BY DEF StatTypes
<1>2. \A n \in 1 .. Len(history) : history[n].profit \in Int
  <2>1. \A n \in 1 .. Len(history) : history[n] \in Line
    BY <1>1
  <2>2. QED
    BY <2>1, GroupStatsAssumption DEF Line
<1>3. IsFiniteSet(1 .. Len(history))
    BY <1>1, FS_Interval
<1>4. Lines(group) \subseteq 1 .. Len(history)
    BY <1>1 DEF Lines
<1>5. QED
    BY <1>1, <1>2, <1>3, <1>4, FS_Subset

\* A step that touches neither the statistics nor the history.
LEMMA ListedKept ==
    ASSUME StatsListed, UNCHANGED <<summaries, history, unlisted>>,
           Pending' = {} \/ UNCHANGED <<phase, current>>,
           file' \in {file, Torn}
    PROVE  StatsListed'
<1> SUFFICES ASSUME ~unlisted
             PROVE  /\ \A group \in Groups :
                         SumsOfSome(summaries[group], Lines(group) \ Pending')
                    /\ file' # Torn => \A group \in Groups : SumsOfSome(file[group], Lines(group))
                    /\ Pending' # {} => /\ Len(history) > 0
                                        /\ history[Len(history)].group = current'.group
                                        /\ history[Len(history)].profit = current'.profit
    BY DEF StatsListed, SumsOfSome, Lines
<1>1. Pending' = {} \/ Pending' = Pending
    BY DEF Pending
<1>2. \A group : Lines(group) \ Pending \subseteq Lines(group) \ Pending'
    BY <1>1
<1>3. \A group \in Groups : SumsOfSome(summaries[group], Lines(group) \ Pending')
    BY <1>2, SumsOfMore DEF StatsListed
<1>4. QED
    BY <1>1, <1>3 DEF StatsListed, Pending

\* Nothing is counted at the start.
LEMMA ListedStart == Init => StatsListed
<1> SUFFICES ASSUME Init
             PROVE  StatsListed
    OBVIOUS
<1>1. /\ summaries = [group \in Groups |-> blank] /\ file = Torn /\ phase = "down"
    BY DEF Init
<1>2. \A group \in Groups : SumsOfSome(summaries[group], Lines(group) \ Pending)
    BY <1>1, SumsOfBlank
<1>3. QED
    BY <1>1, <1>2 DEF StatsListed, Pending

\* A line more: what was counted is as before.
LEMMA AppendTradeListed ==
    ASSUME StatTypes, StatsListed, AppendTrade
    PROVE  StatsListed'
<1> SUFFICES ASSUME ~unlisted'
             PROVE  StatsListed'
    BY DEF StatsListed
<1> DEFINE line == [group |-> current.group, profit |-> current.profit]
<1>1. /\ phase = "recording" /\ phase' = "summing" /\ current.kind = "closed"
      /\ history' = Append(history, line) /\ ~unlisted
      /\ UNCHANGED <<current, summaries, file>>
    BY DEF AppendTrade, StatTypes
<1>2. /\ history \in Seq(Line) /\ Len(history) \in Nat
      /\ DOMAIN history = 1 .. Len(history)
    BY DEF StatTypes
<1>3. /\ Len(history') = Len(history) + 1 /\ history'[Len(history')] = line
      /\ DOMAIN history' = 1 .. Len(history) + 1
      /\ \A n \in DOMAIN history : history'[n] = history[n]
    BY <1>1, <1>2
<1>4. Pending = {} /\ Pending' = {Len(history')}
    BY <1>1 DEF Pending
<1>5. \A group : Lines(group) \subseteq Lines(group)' \ Pending'
    BY <1>2, <1>3, <1>4 DEF Lines
<1>6. ASSUME NEW summary, NEW group, SumsOfSome(summary, Lines(group))
      PROVE  \E some \in SUBSET (Lines(group)' \ Pending') : Sums(summary, history', some)
  <2>1. PICK some \in SUBSET Lines(group) : Sums(summary, history, some)
    BY <1>6 DEF SumsOfSome
  <2>2. IsFiniteSet(some) /\ \A n \in some : history[n].profit = history'[n].profit
    BY <1>3, LinesAre, FS_Subset DEF Lines
  <2>3. Sums(summary, history', some)
    BY <2>1, <2>2, SumsAgree
  <2>4. some \in SUBSET (Lines(group)' \ Pending')
    BY <1>5
  <2>5. QED
    BY <2>3, <2>4
<1>7. \A group \in Groups :
          \E some \in SUBSET (Lines(group)' \ Pending') : Sums(summaries[group], history', some)
  <2>1. \A group \in Groups : SumsOfSome(summaries[group], Lines(group))
    BY <1>1, <1>4, SumsOfMore DEF StatsListed
  <2>2. QED
    BY <1>6, <2>1
<1>8. file # Torn => \A group \in Groups :
          \E some \in SUBSET (Lines(group)') : Sums(file[group], history', some)
  <2>1. SUFFICES ASSUME file # Torn, NEW group \in Groups
                 PROVE  \E some \in SUBSET (Lines(group)') : Sums(file[group], history', some)
    OBVIOUS
  <2>2. SumsOfSome(file[group], Lines(group))
    BY <1>1, <2>1 DEF StatsListed
  <2>3. \E some \in SUBSET (Lines(group)' \ Pending') : Sums(file[group], history', some)
    BY <1>6, <2>2
  <2>4. QED
    BY <2>3
<1>9. Len(history') > 0 /\ history'[Len(history')].group = current'.group
      /\ history'[Len(history')].profit = current'.profit
    BY <1>1, <1>2, <1>3
<1>10. QED
    BY <1>1, <1>7, <1>8, <1>9 DEF StatsListed, SumsOfSome

\* The event is counted: a closed trade with its line, which it did not have yet.
LEMMA UpdateSummaryListed ==
    ASSUME StatTypes, StatsListed, UpdateSummary
    PROVE  StatsListed'
<1> SUFFICES ASSUME ~unlisted
             PROVE  StatsListed'
    BY DEF StatsListed, UpdateSummary
<1>1. /\ phase = "summing" /\ current \in Event /\ current.kind # "partial"
      /\ current.group \in Groups /\ summaries \in [Groups -> Summary]
      /\ summaries' = update_summary(current)
      /\ UNCHANGED <<history, unlisted, current>>
    BY EventIs DEF UpdateSummary, StatTypes
<1>2. file' \in {file, Torn} /\ phase' \in {"saving", "handling"}
    BY DEF UpdateSummary, Persist
<1>3. Pending' = {}
    BY <1>2 DEF Pending
<1>4. ASSUME NEW group \in Groups
      PROVE  SumsOfSome(summaries'[group], Lines(group))
  <2>1. PICK some \in SUBSET (Lines(group) \ Pending) : Sums(summaries[group], history, some)
    BY DEF StatsListed, SumsOfSome
  <2>2. summaries[group] \in Summary
    BY <1>1
  <2>3. CASE group # current.group
    <3>1. summaries'[group] = summaries[group]
        BY <1>1, <2>3 DEF update_summary
    <3>2. QED
        BY <2>1, <3>1 DEF SumsOfSome
  <2>4. CASE group = current.group /\ current.kind # "closed"
    <3>1. summaries'[group] = Counted(summaries[group], current.kind)
        BY <1>1, <2>4 DEF update_summary
    <3>2. current.kind \in Counters
        BY <1>1, <2>4, EventIs
    <3>3. Sums(summaries'[group], history, some)
        BY <2>1, <2>2, <3>1, <3>2, SumsOfCounted
    <3>4. QED
        BY <2>1, <3>3 DEF SumsOfSome
  <2>5. CASE group = current.group /\ current.kind = "closed"
    <3> DEFINE n == Len(history)
    <3>1. summaries'[group] = record_closed_trade(summaries[group], current.profit)
        BY <1>1, <2>5 DEF update_summary
    <3>2. /\ Pending = {n} /\ n > 0
          /\ history[n].group = group /\ history[n].profit = current.profit
        BY <1>1, <2>5 DEF StatsListed, Pending
    <3>3. n \in Lines(group) /\ n \notin some /\ some \subseteq Lines(group)
        BY <2>1, <3>2 DEF Lines, StatTypes
    <3>4. IsFiniteSet(some) /\ \A m \in some \cup {n} : history[m].profit \in Int
        BY <3>3, LinesAre, FS_Subset
    <3> HIDE DEF n
    <3>5. Sums(record_closed_trade(summaries[group], history[n].profit), history, some \cup {n})
        BY <2>1, <2>2, <3>3, <3>4, SumsOfOneMore
    <3>6. QED
        BY <3>1, <3>2, <3>3, <3>5 DEF SumsOfSome
  <2>6. QED
    BY <2>3, <2>4, <2>5
<1>5. file' # Torn => \A group \in Groups : SumsOfSome(file'[group], Lines(group))
    BY <1>2 DEF StatsListed
<1>6. QED
    BY <1>1, <1>3, <1>4, <1>5 DEF StatsListed, SumsOfSome, Lines

\* The file becomes what is in memory.
LEMMA SavedListed ==
    ASSUME StatsListed, Saved
    PROVE  StatsListed'
<1>1. /\ phase = "saving" /\ phase' = "handling" /\ file' \in {summaries, file}
      /\ UNCHANGED <<summaries, history, unlisted, current>>
    BY DEF Saved
<1>2. Pending = {} /\ Pending' = {}
    BY <1>1 DEF Pending
<1>3. \A group : Lines(group)' = Lines(group)
    BY <1>1 DEF Lines
<1>4. ~unlisted => \A group \in Groups : SumsOfSome(summaries[group], Lines(group))
    BY <1>2, SumsOfMore DEF StatsListed
<1>5. QED
    BY <1>1, <1>2, <1>4 DEF StatsListed, SumsOfSome, Lines

\* What is in memory becomes what is in the file, or blank.
LEMMA StartListed ==
    ASSUME StatsListed, Start
    PROVE  StatsListed'
<1>1. /\ phase = "down" /\ phase' \in {"saving", "handling"} /\ file' \in {file, Torn}
      /\ summaries' = load_or_default /\ UNCHANGED <<history, unlisted, current>>
    BY DEF Start, Persist
<1>2. Pending' = {}
    BY <1>1 DEF Pending
<1>3. ~unlisted => \A group \in Groups : SumsOfSome(summaries'[group], Lines(group))
  <2>1. CASE file = Torn
    BY <1>1, <2>1, SumsOfBlank DEF load_or_default
  <2>2. CASE file # Torn
    BY <1>1, <2>2 DEF load_or_default, StatsListed
  <2>3. QED
    BY <2>1, <2>2
<1>4. QED
    BY <1>1, <1>2, <1>3 DEF StatsListed, SumsOfSome, Lines

\* Every step keeps what is listed.
LEMMA ListedKeeps ==
    ASSUME StatTypes, StatsListed, [Next]_vars
    PROVE  StatsListed'
<1>1. CASE SendUpdate \/ Answer \/ LatePoll \/ Notify \/ UNCHANGED vars
    BY <1>1, ListedKept DEF SendUpdate, Answer, LatePoll, Notify, vars, stats, loop
<1>2. CASE Ask \/ Receive \/ PollFails \/ WakeUp \/ Finish
           \/ (Crash /\ UNCHANGED unlisted)
    BY <1>2, ListedKept DEF Ask, Receive, PollFails, WakeUp, Finish, Crash, stats, Pending
<1>3. CASE BeginEvent
  <2>1. Pending' = {}
    BY <1>3 DEF BeginEvent, Pending
  <2>2. QED
    BY <1>3, <2>1, ListedKept DEF BeginEvent, stats
<1>4. CASE BeginUpdate
  <2>1. phase' \in {"saving", "handling"} /\ file' \in {file, Torn}
    BY <1>4 DEF BeginUpdate, Persist
  <2>2. Pending' = {}
    BY <2>1 DEF Pending
  <2>3. QED
    BY <1>4, <2>1, <2>2, ListedKept DEF BeginUpdate
<1>5. CASE Crash /\ unlisted' # unlisted
  <2>1. unlisted'
    BY <1>5 DEF Crash
  <2>2. QED
    BY <2>1 DEF StatsListed
<1>6. QED
    BY <1>1, <1>2, <1>3, <1>4, <1>5, StartListed, AppendTradeListed, UpdateSummaryListed, SavedListed
       DEF Next, Handler

\* The statistics, in memory and in the file, are those of some of the lines
\* of the history: no trade counts twice, and none that is not listed,
\* whenever the process ends and whatever was written of the file.
THEOREM BotStats == Spec => []StatsAreOfHistory
<1>1. Spec => []StatsListed
    BY StatTypesAlways, ListedStart, ListedKeeps, PTL DEF Spec
<1>2. StatTypes /\ StatsListed => StatsAreOfHistory
  <2> SUFFICES ASSUME StatTypes, StatsListed, ~unlisted, NEW group \in Groups
               PROVE  LET lines == {n \in DOMAIN history : history[n].group = group}
                      IN  /\ \E some \in SUBSET lines :
                                IsSummaryOf(summaries[group], history, some)
                          /\ file # Torn => \E some \in SUBSET lines :
                                IsSummaryOf(file[group], history, some)
    BY Zenon DEF StatsAreOfHistory
  <2>1. ASSUME NEW summary, SumsOfSome(summary, Lines(group))
        PROVE  \E some \in SUBSET Lines(group) : IsSummaryOf(summary, history, some)
    <3>1. PICK some \in SUBSET Lines(group) : Sums(summary, history, some)
        BY <2>1 DEF SumsOfSome
    <3>2. \A n \in some : history[n].profit \in Int
        BY LinesAre
    <3>3. IsSummaryOf(summary, history, some)
        BY <3>1, <3>2, SumsAreSummary
    <3>4. QED
        BY <3>3
  <2>2. SumsOfSome(summaries[group], Lines(group))
    BY SumsOfMore DEF StatsListed
  <2>3. file # Torn => SumsOfSome(file[group], Lines(group))
    BY DEF StatsListed
  <2>4. QED
    BY <2>1, <2>2, <2>3 DEF Lines
<1>3. QED
    BY <1>1, <1>2, StatTypesAlways, PTL

=============================================================================
